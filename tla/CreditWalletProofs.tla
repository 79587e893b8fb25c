------------------------- MODULE CreditWalletProofs -------------------------
(***************************************************************************)
(* Proofs about CreditWallet: the rows of the ledger implement a credit     *)
(* pool (CreditPool) and a run is charged or given back in full, for any    *)
(* number of organisations, wallets, runs, purchases and moves.             *)
(*                                                                          *)
(* Every action either books one cause on one wallet, or carries credits    *)
(* between two, or leaves the ledger alone.  That a wallet stays above zero *)
(* rests on what was read under its lock being there at the write, although *)
(* releases and trials do not take that lock: they only ever add to the     *)
(* grant bucket.                                                            *)
(***************************************************************************)
EXTENDS CreditWallet, Induction, TLAPS

LEMMA Constants ==
  /\ Allowance \in Nat /\ TrialCredits \in Nat /\ EarnAmount \in Nat
  /\ EarnCap \in Nat /\ MaxMonth \in Nat \ {0}
  /\ MaxMoves \in Nat /\ MaxCrashes \in Nat
  /\ \A r \in Runs : Cost[r] \in Nat \ {0}
  /\ \A p \in Purchases : Credits[p] \in Nat \ {0}
  /\ \A j \in Adjustments : AdjustBy[j] \in Int \ {0}
  /\ Null \notin Int /\ Null \notin Wallets
BY WalletAssumption DEF WalletAssumption

(***************************************************************************)
(* Amounts.                                                                 *)
(***************************************************************************)
Change == [Buckets -> Int]

LEMMA AmountsTyped ==
  ASSUME NEW g \in Int, NEW p \in Int
  PROVE  /\ Amounts(g, p) \in Change
         /\ Amounts(g, p)["grant"] = g /\ Amounts(g, p)["pack"] = p
         /\ Sum(Amounts(g, p)) = g + p
BY DEF Amounts, Change, Buckets, Sum

LEMMA OnlyGrant ==
  ASSUME NEW g, g \in Int
  PROVE  /\ Amounts(g, 0) \in Change
         /\ Sum(Amounts(g, 0)) = g /\ Amounts(g, 0)["grant"] = g
BY AmountsTyped

LEMMA OnlyPack ==
  ASSUME NEW n, n \in Int
  PROVE  /\ Amounts(0, n) \in Change
         /\ Sum(Amounts(0, n)) = n /\ Amounts(0, n)["grant"] = 0
BY AmountsTyped

LEMMA PlusTyped ==
  ASSUME NEW a \in Change, NEW d \in Change
  PROVE  /\ Plus(a, d) \in Change
         /\ Sum(Plus(a, d)) = Sum(a) + Sum(d)
         /\ Plus(a, d)["grant"] = a["grant"] + d["grant"]
         /\ Sum(a) \in Int /\ a["grant"] \in Int /\ a["pack"] \in Int
BY DEF Plus, Change, Buckets, Sum

LEMMA MinusTyped ==
  ASSUME NEW a \in Change, NEW d \in Change
  PROVE  /\ Minus(a, d) \in Change
         /\ Sum(Minus(a, d)) = Sum(a) - Sum(d)
         /\ \A b \in Buckets : Minus(a, d)[b] = a[b] - d[b]
         /\ Minus(a, d)["grant"] = a["grant"] - d["grant"]
BY DEF Minus, Change, Buckets, Sum

LEMMA NothingTyped ==
  /\ Nothing \in [Buckets -> Nat] /\ Nothing \in Change
  /\ Sum(Nothing) = 0 /\ Nothing["grant"] = 0
  /\ \A b \in Buckets : Nothing[b] = 0
BY DEF Nothing, Amounts, Change, Buckets, Sum

LEMMA Giving ==
  ASSUME NEW d \in Change
  PROVE  /\ Minus(Nothing, d) \in Change /\ Sum(Minus(Nothing, d)) = -Sum(d)
         /\ \A b \in Buckets : Minus(Nothing, d)[b] = -d[b]
         /\ Plus(d, Minus(Nothing, d)) = Nothing
         /\ Minus(Nothing, d)["grant"] = -d["grant"]
BY NothingTyped DEF Minus, Plus, Nothing, Amounts, Change, Buckets, Sum

(* What GrantFirst takes is n in all, and no more grant than there is.      *)
LEMMA GrantFirstTakes ==
  ASSUME WalletTypeOK, NEW w \in Wallets, NEW n \in Nat
  PROVE  /\ GrantFirst(w, n) \in [Buckets -> Nat] /\ GrantFirst(w, n) \in Change
         /\ Sum(GrantFirst(w, n)) = n
         /\ GrantFirst(w, n)["grant"] <= Positive(balance[w]["grant"])
<1> DEFINE g == Lower(n, Positive(balance[w]["grant"]))
<1>1. balance[w]["grant"] \in Int
  BY DEF WalletTypeOK, Buckets
<1>2. g \in Nat /\ n - g \in Nat /\ g <= Positive(balance[w]["grant"])
  BY <1>1 DEF Lower, Positive
<1>3. GrantFirst(w, n) = Amounts(g, n - g)
  BY DEF GrantFirst
<1> HIDE DEF g
<1>4. Amounts(g, n - g) \in [Buckets -> Nat]
  BY <1>2 DEF Amounts
<1>5. Amounts(g, n - g) \in Change /\ Sum(Amounts(g, n - g)) = n
      /\ Amounts(g, n - g)["grant"] = g
  <2>1. g \in Int /\ n - g \in Int /\ g + (n - g) = n
    BY <1>2
  <2> QED
    BY <2>1, AmountsTyped
<1> QED
  BY <1>2, <1>3, <1>4, <1>5

(***************************************************************************)
(* The inductive invariant.                                                 *)
(***************************************************************************)
(* No wallet is below zero, nor is its grant bucket; the pack bucket may be. *)
Solvent == \A w \in Wallets : Total(w) >= 0 /\ balance[w]["grant"] >= 0

Reserves(r, w) == run[r].pc = "reserving" /\ run[r].wallet = w
Carries(o) == move[o].pc = "moving" /\ move[o].carry # Null
CarriesAt(o, w) == Carries(o) /\ w \in {move[o].from, move[o].to}

(* The advisory lock of a wallet has one holder.                            *)
LocksApart ==
  /\ \A r, s \in Runs, w \in Wallets : Reserves(r, w) /\ Reserves(s, w) => r = s
  /\ \A o, p \in Orgs, w \in Wallets : CarriesAt(o, w) /\ CarriesAt(p, w) => o = p
  /\ \A r \in Runs, o \in Orgs, w \in Wallets :
       ~(Reserves(r, w) /\ CarriesAt(o, w))

(* The grant credits read under a lock are still there.                     *)
ReadingsHold ==
  /\ \A r \in Runs : run[r].pc = "reserving" =>
       /\ Sum(run[r].cut) = Cost[r]
       /\ run[r].cut["grant"] <= balance[run[r].wallet]["grant"]
  /\ \A o \in Orgs : Carries(o) =>
       move[o].carry["grant"] <= balance[move[o].from]["grant"]

(* A move goes from one wallet to another, and no one lives in a wallet that
   was not minted.                                                          *)
MovesSound ==
  /\ \A o \in Orgs : move[o].pc = "moving" =>
       /\ move[o].from \in Wallets /\ move[o].to \in Wallets
       /\ move[o].from # move[o].to
  /\ \A o \in Orgs : group[walletOf[o]] # "unborn"

HoldsDebit ==
  \A r \in Runs : run[r].pc = "held" => \A b \in Buckets : delta[Hold(r)][b] <= 0

WalletInv ==
  /\ WalletTypeOK /\ ChargedAsRun /\ Solvent /\ LocksApart
  /\ ReadingsHold /\ MovesSound /\ HoldsDebit

(***************************************************************************)
(* What an action may book.                                                 *)
(***************************************************************************)
(* A change that is worth what the cause is, where what it undoes was.      *)
Fits(c, w, d) ==
  /\ c.kind = "monthly" => Allowance - Total(w) <= Sum(d) /\ Sum(d) <= Allowance
  /\ c.kind = "trial" => Sum(d) = TrialCredits
  /\ c.kind = "pack" => Sum(d) = Credits[c.of]
  /\ c.kind = "clawback" =>
       /\ -Credits[c.of] <= Sum(d) /\ Sum(d) <= -1
       /\ entry[Pack(c.of)] = w
  /\ c.kind = "earn" => 1 <= Sum(d) /\ Sum(d) <= EarnAmount
  /\ c.kind = "adjust" => Sum(d) = AdjustBy[c.of]
  /\ c.kind = "hold" => Sum(d) = -Cost[c.of]
  /\ c.kind = "refund" => Sum(d) = Cost[c.of] /\ entry[Hold(c.of)] = w

Books(c, w, d) ==
  /\ c \in Causes /\ w \in Wallets /\ d \in Change
  /\ ~Written(c)
  /\ entry' = [entry EXCEPT ![c] = w]
  /\ delta' = [delta EXCEPT ![c] = d]
  /\ balance' = [balance EXCEPT ![w] = Plus(@, d)]
  /\ Total(w) + Sum(d) >= 0 /\ balance[w]["grant"] + d["grant"] >= 0
  /\ Fits(c, w, d)

(* Those who are not of a run add to the grant bucket of a locked wallet at
   most.                                                                    *)
BooksAside(c, w, d) ==
  /\ Books(c, w, d)
  /\ c.kind \notin {"hold", "refund"}
  /\ Locked(w) => d["grant"] >= 0

Aside == (\E c, w, d : BooksAside(c, w, d)) \/ UNCHANGED ledgerVars

LEMMA AppendBooks ==
  ASSUME NEW c, NEW w, NEW d, Append(c, w, d),
         c \in Causes, w \in Wallets, d \in Change,
         Total(w) + Sum(d) >= 0, balance[w]["grant"] + d["grant"] >= 0,
         Fits(c, w, d)
  PROVE  UNCHANGED ledgerVars \/ Books(c, w, d)
BY DEF Append, Books

LEMMA AsideBooks ==
  ASSUME NEW c, NEW w, NEW d, Append(c, w, d),
         c \in Causes, w \in Wallets, d \in Change,
         Total(w) + Sum(d) >= 0, balance[w]["grant"] + d["grant"] >= 0,
         Fits(c, w, d), c.kind \notin {"hold", "refund"},
         Locked(w) => d["grant"] >= 0
  PROVE  Aside
BY AppendBooks DEF Aside, BooksAside

LEMMA WalletNumbers ==
  ASSUME WalletTypeOK, NEW w \in Wallets
  PROVE  /\ balance[w] \in Change
         /\ balance[w]["grant"] \in Int /\ balance[w]["pack"] \in Int
         /\ Total(w) = balance[w]["grant"] + balance[w]["pack"]
         /\ Total(w) \in Int
BY DEF WalletTypeOK, Change, Buckets, Total, Sum

LEMMA MonthlyAside ==
  ASSUME WalletInv, NEW w \in Wallets, GrantMonthly(w) PROVE Aside
<1> DEFINE left == Positive(balance[w]["grant"])
           d == Amounts(Allowance - left, 0)
<1>1. /\ left \in Nat /\ left <= balance[w]["grant"] /\ Total(w) \in Int
      /\ Total(w) >= 0 /\ Allowance \in Nat /\ balance[w]["grant"] \in Int
  BY Constants, WalletNumbers DEF WalletInv, Solvent, Positive
<1>2. d \in Change /\ Sum(d) = Allowance - left /\ d["grant"] = Allowance - left
  <2>1. Allowance - left \in Int
    BY <1>1
  <2> QED
    BY <2>1, OnlyGrant
<1>3. Monthly(w, month) \in Causes
  BY DEF Causes, WalletInv, WalletTypeOK
<1>4. CASE Total(w) >= left
  <2> HIDE DEF d
  <2>1. Fits(Monthly(w, month), w, d)
    BY <1>1, <1>2, <1>4 DEF Fits, Monthly, About
  <2>2. Append(Monthly(w, month), w, d) /\ ~Locked(w)
    BY <1>4 DEF GrantMonthly, d
  <2> QED
    BY <1>1, <1>2, <1>3, <1>4, <2>1, <2>2, AsideBooks DEF Monthly, About
<1>5. CASE ~(Total(w) >= left)
  BY <1>5 DEF GrantMonthly, Aside
<1> QED
  BY <1>4, <1>5

LEMMA TrialAside ==
  ASSUME WalletInv, NEW w \in Wallets, GrantTrial(w) PROVE Aside
<1> DEFINE d == Amounts(TrialCredits, 0)
<1>1. d \in Change /\ Sum(d) = TrialCredits /\ d["grant"] = TrialCredits
  BY Constants, AmountsTyped
<1>2. Trial(w) \in Causes /\ Append(Trial(w), w, d)
  BY DEF GrantTrial, Causes
<1> HIDE DEF d
<1>3. Fits(Trial(w), w, d) /\ Trial(w).kind = "trial"
  BY <1>1 DEF Fits, Trial, About
<1>4. Total(w) >= 0 /\ balance[w]["grant"] >= 0 /\ Total(w) \in Int /\ balance[w]["grant"] \in Int
  BY Constants, WalletNumbers DEF WalletInv, Solvent
<1> QED
  BY <1>1, <1>2, <1>3, <1>4, Constants, AsideBooks

LEMMA PurchaseAside ==
  ASSUME WalletInv, NEW p \in Purchases, NEW w \in Wallets, RecordPurchase(p, w)
  PROVE  Aside
<1> DEFINE d == Amounts(0, Credits[p])
<1>1. d \in Change /\ Sum(d) = Credits[p] /\ d["grant"] = 0
  <2>1. Credits[p] \in Int
    BY Constants
  <2> QED
    BY <2>1, OnlyPack
<1>2. Pack(p) \in Causes /\ Append(Pack(p), w, d)
  BY DEF RecordPurchase, Causes
<1> HIDE DEF d
<1>3. Fits(Pack(p), w, d) /\ Pack(p).kind = "pack"
  BY <1>1 DEF Fits, Pack, About
<1>4. Total(w) >= 0 /\ balance[w]["grant"] >= 0 /\ Total(w) \in Int /\ balance[w]["grant"] \in Int
  BY Constants, WalletNumbers DEF WalletInv, Solvent
<1> QED
  BY <1>1, <1>2, <1>3, <1>4, Constants, AsideBooks

LEMMA RefundAside ==
  ASSUME WalletInv, NEW p \in Purchases, RecordRefund(p) PROVE Aside
<1> DEFINE w == entry[Pack(p)]
           taken == Lower(Credits[p], Positive(balance[w]["pack"]))
           d == Amounts(0, -taken)
<1>1. CASE ~Written(Pack(p)) \/ taken = 0
  BY <1>1 DEF RecordRefund, Aside
<1>2. CASE Written(Pack(p)) /\ taken # 0
  <2>1. Pack(p) \in Causes /\ Clawback(p) \in Causes
    BY DEF Causes
  <2>2. w \in Wallets
    BY <1>2, <2>1 DEF WalletInv, WalletTypeOK, Written
  <2>3. /\ Total(w) = balance[w]["grant"] + balance[w]["pack"]
        /\ balance[w]["grant"] \in Int /\ balance[w]["pack"] \in Int
        /\ Total(w) >= 0 /\ balance[w]["grant"] >= 0
    BY <2>2, WalletNumbers DEF WalletInv, Solvent
  <2>4. taken \in 1..Credits[p] /\ taken <= balance[w]["pack"]
    BY <1>2, <2>3, Constants DEF Lower, Positive
  <2>5. Append(Clawback(p), w, d) /\ ~Locked(w)
    BY <1>2 DEF RecordRefund
  <2> HIDE DEF taken
  <2>6. d \in Change /\ Sum(d) = -taken /\ d["grant"] = 0
    <3>1. -taken \in Int
      BY <2>4, Constants
    <3> QED
      BY <3>1, OnlyPack
  <2> HIDE DEF d, w
  <2>7. Fits(Clawback(p), w, d) /\ Clawback(p).kind = "clawback"
    BY <2>4, <2>6, Constants DEF Fits, Clawback, About, w
  <2> QED
    BY <2>1, <2>2, <2>3, <2>4, <2>5, <2>6, <2>7, AsideBooks
<1> QED
  BY <1>1, <1>2

LEMMA EarnAside ==
  ASSUME WalletInv, NEW o \in Earners, NEW w \in Wallets, RecordEarnGrant(o, w)
  PROVE  Aside
<1> DEFINE n == Lower(EarnAmount, Headroom(o, w))
           d == Amounts(0, n)
<1>1. CASE n \in 1..EarnAmount
  <2>1. Earn(o) \in Causes /\ Append(Earn(o), w, d)
    BY <1>1 DEF RecordEarnGrant, Causes
  <2> HIDE DEF n
  <2>2. d \in Change /\ Sum(d) = n /\ d["grant"] = 0
    <3>1. n \in Int
      BY <1>1, Constants
    <3> QED
      BY <3>1, OnlyPack
  <2> HIDE DEF d
  <2>3. Fits(Earn(o), w, d) /\ Earn(o).kind = "earn"
    BY <1>1, <2>2 DEF Fits, Earn, About
  <2>4. Total(w) >= 0 /\ balance[w]["grant"] >= 0 /\ Total(w) \in Int /\ balance[w]["grant"] \in Int
    BY Constants, WalletNumbers DEF WalletInv, Solvent
  <2> QED
    BY <1>1, <2>1, <2>2, <2>3, <2>4, AsideBooks
<1>2. CASE n \notin 1..EarnAmount
  BY <1>2 DEF RecordEarnGrant, Aside
<1> QED
  BY <1>1, <1>2

LEMMA AdjustAside ==
  ASSUME WalletInv, NEW j \in Adjustments, NEW w \in Wallets, AdminAdjust(j, w)
  PROVE  Aside
<1>1. /\ Total(w) >= 0 /\ balance[w]["grant"] >= 0 /\ Total(w) \in Int
      /\ balance[w]["grant"] \in Int /\ AdjustBy[j] \in Int \ {0}
      /\ Adjust(j) \in Causes /\ Adjust(j).kind = "adjust" /\ Adjust(j).of = j
  BY Constants, WalletNumbers DEF WalletInv, Solvent, Causes, Adjust, About
<1>2. CASE -AdjustBy[j] < 0
  <2> DEFINE d == Amounts(AdjustBy[j], 0)
  <2>1. d \in Change /\ Sum(d) = AdjustBy[j] /\ d["grant"] = AdjustBy[j]
    <3>1. AdjustBy[j] \in Int
      BY <1>1
    <3> QED
      BY <3>1, OnlyGrant
  <2>2. Append(Adjust(j), w, d) /\ ~Locked(w)
    BY <1>1, <1>2 DEF AdminAdjust
  <2> HIDE DEF d
  <2>3. Fits(Adjust(j), w, d)
    BY <1>1, <2>1 DEF Fits
  <2> QED
    BY <1>1, <1>2, <2>1, <2>2, <2>3, Constants, AsideBooks
<1>3. CASE ~(-AdjustBy[j] < 0)
  <2> DEFINE cut == GrantFirst(w, -AdjustBy[j])
             d == Minus(Nothing, cut)
  <2>1. /\ cut \in Change /\ Sum(cut) = -AdjustBy[j]
        /\ cut["grant"] <= Positive(balance[w]["grant"])
    <3> DEFINE n == -AdjustBy[j]
    <3>1. n \in Nat
      BY <1>1, <1>3
    <3> HIDE DEF n
    <3>2. /\ GrantFirst(w, n) \in Change /\ Sum(GrantFirst(w, n)) = n
          /\ GrantFirst(w, n)["grant"] <= Positive(balance[w]["grant"])
      BY <3>1, GrantFirstTakes DEF WalletInv
    <3> QED
      BY <3>2 DEF n
  <2>2. Append(Adjust(j), w, d) /\ ~Locked(w) /\ Total(w) >= -AdjustBy[j]
    BY <1>3 DEF AdminAdjust
  <2> HIDE DEF cut
  <2>3. d \in Change /\ Sum(d) = AdjustBy[j] /\ d["grant"] = -cut["grant"]
    BY <1>1, <2>1, Giving
  <2>4. balance[w]["grant"] + d["grant"] >= 0
    BY <1>1, <2>1, <2>3 DEF Positive, Change, Buckets
  <2> HIDE DEF d
  <2>5. Fits(Adjust(j), w, d)
    BY <1>1, <2>3 DEF Fits
  <2> QED
    BY <1>1, <2>2, <2>3, <2>4, <2>5, AsideBooks
<1> QED
  BY <1>2, <1>3

(***************************************************************************)
(* Each action preserves the invariant.                                     *)
(***************************************************************************)
LedgerTyped ==
  /\ balance \in [Wallets -> Change]
  /\ entry \in [Causes -> Wallets \cup {Null}]
  /\ delta \in [Causes -> Change]

LEMMA BooksEffect ==
  ASSUME WalletInv, NEW c, NEW w, NEW d, Books(c, w, d)
  PROVE  /\ LedgerTyped' /\ Solvent'
         /\ \A e \in Causes : e # c => entry'[e] = entry[e] /\ delta'[e] = delta[e]
         /\ entry'[c] = w /\ delta'[c] = d
         /\ \A v \in Wallets :
              balance'[v]["grant"] =
                IF v = w THEN balance[w]["grant"] + d["grant"] ELSE balance[v]["grant"]
<1>1. LedgerTyped /\ c \in Causes /\ w \in Wallets /\ d \in Change
  BY DEF WalletInv, WalletTypeOK, LedgerTyped, Change, Books
<1>2. /\ Plus(balance[w], d) \in Change
      /\ Sum(Plus(balance[w], d)) = Total(w) + Sum(d)
      /\ Plus(balance[w], d)["grant"] = balance[w]["grant"] + d["grant"]
  BY <1>1, PlusTyped DEF LedgerTyped, Total
<1>3. LedgerTyped'
  BY <1>1, <1>2 DEF LedgerTyped, Books
<1>4. \A v \in Wallets : balance'[v] = IF v = w THEN Plus(balance[w], d) ELSE balance[v]
  BY <1>1 DEF LedgerTyped, Books
<1>5. Solvent'
  <2> SUFFICES ASSUME NEW v \in Wallets
               PROVE  Sum(balance'[v]) >= 0 /\ balance'[v]["grant"] >= 0
    BY DEF Solvent, Total
  <2>1. CASE v = w
    BY <1>2, <1>4, <2>1 DEF Books
  <2>2. CASE v # w
    BY <1>4, <2>2 DEF WalletInv, Solvent, Total
  <2> QED
    BY <2>1, <2>2
<1>6. \A e \in Causes : e # c => entry'[e] = entry[e] /\ delta'[e] = delta[e]
  BY <1>1 DEF LedgerTyped, Books
<1>7. entry'[c] = w /\ delta'[c] = d
  BY <1>1 DEF LedgerTyped, Books
<1> QED
  BY <1>2, <1>3, <1>4, <1>5, <1>6, <1>7

LEMMA RunCauses ==
  ASSUME NEW r \in Runs
  PROVE  /\ Hold(r) \in Causes /\ Hold(r).kind = "hold" /\ Hold(r).of = r
         /\ Refund(r) \in Causes /\ Refund(r).kind = "refund" /\ Refund(r).of = r
<1>1. Hold(r) \in Causes /\ Refund(r) \in Causes
  BY DEF Causes
<1> QED
  BY <1>1 DEF Hold, Refund, About

LEMMA UnchangedKeeps == WalletInv /\ UNCHANGED walletVars => WalletInv'
<1> SUFFICES ASSUME WalletInv, UNCHANGED walletVars PROVE WalletInv'
  OBVIOUS
<1> USE DEF walletVars, ledgerVars, groupVars, otherVars
<1>1. WalletTypeOK'
  BY DEF WalletInv, WalletTypeOK
<1>2. ChargedAsRun' /\ HoldsDebit' /\ Solvent' /\ MovesSound'
  BY DEF WalletInv, ChargedAsRun, Solvent, MovesSound, HoldsDebit, Written, Total
<1>3. LocksApart' /\ ReadingsHold'
  BY DEF WalletInv, LocksApart, ReadingsHold, Reserves, Carries, CarriesAt
<1> QED
  BY <1>1, <1>2, <1>3 DEF WalletInv

LEMMA AsideKeeps ==
  ASSUME WalletInv, Aside, UNCHANGED <<groupVars, otherVars>>
  PROVE  WalletInv'
<1>0. CASE UNCHANGED ledgerVars
  BY <1>0, UnchangedKeeps DEF walletVars
<1>1. CASE \E c, w, d : BooksAside(c, w, d)
  <2> PICK c, w, d : BooksAside(c, w, d)
    BY <1>1
  <2>1. /\ Books(c, w, d) /\ c.kind \notin {"hold", "refund"}
        /\ Locked(w) => d["grant"] >= 0
    BY DEF BooksAside
  <2>2. /\ LedgerTyped' /\ Solvent'
        /\ \A e \in Causes : e # c => entry'[e] = entry[e] /\ delta'[e] = delta[e]
        /\ \A v \in Wallets :
             balance'[v]["grant"] =
               IF v = w THEN balance[w]["grant"] + d["grant"] ELSE balance[v]["grant"]
    BY <2>1, BooksEffect
  <2>3. WalletTypeOK'
    BY <2>2 DEF WalletInv, WalletTypeOK, LedgerTyped, Change, groupVars, otherVars
  <2>4. \A r \in Runs : /\ Hold(r) \in Causes /\ Refund(r) \in Causes
                        /\ Hold(r) # c /\ Refund(r) # c
    BY <2>1, RunCauses
  <2>5. ChargedAsRun' /\ HoldsDebit'
    <3>1. \A r \in Runs : /\ entry'[Hold(r)] = entry[Hold(r)] /\ delta'[Hold(r)] = delta[Hold(r)]
                          /\ entry'[Refund(r)] = entry[Refund(r)]
                          /\ delta'[Refund(r)] = delta[Refund(r)]
                          /\ run'[r] = run[r]
      BY <2>2, <2>4 DEF otherVars
    <3>2. \A r \in Runs : Hold(r)' = Hold(r) /\ Refund(r)' = Refund(r)
      BY DEF Hold, Refund, About
    <3> QED
      BY <3>1, <3>2 DEF WalletInv, ChargedAsRun, HoldsDebit, Written
  <2>6. LocksApart' /\ MovesSound'
    BY DEF WalletInv, LocksApart, MovesSound, Reserves, CarriesAt, Carries,
       groupVars, otherVars
  <2>7. ASSUME NEW v \in Wallets, Locked(v)
        PROVE  balance[v]["grant"] <= balance'[v]["grant"]
    <3>1. w \in Wallets /\ d["grant"] \in Int /\ balance[v]["grant"] \in Int
      BY <2>1 DEF Books, Change, Buckets, WalletInv, WalletTypeOK
    <3> QED
      BY <2>1, <2>2, <2>7, <3>1
  <2>8. ReadingsHold'
    <3>1. ASSUME NEW r \in Runs, run[r].pc = "reserving"
          PROVE  run[r].cut["grant"] <= balance'[run[r].wallet]["grant"]
      <4>1. run[r].wallet \in Wallets /\ Locked(run[r].wallet)
        BY <3>1 DEF WalletInv, WalletTypeOK, Locked
      <4>2. /\ run[r].cut["grant"] \in Int /\ balance[run[r].wallet]["grant"] \in Int
            /\ balance'[run[r].wallet]["grant"] \in Int
        BY <2>2, <4>1 DEF WalletInv, WalletTypeOK, LedgerTyped, Change, Buckets
      <4> QED
        BY <2>7, <3>1, <4>1, <4>2 DEF WalletInv, ReadingsHold
    <3>2. ASSUME NEW o \in Orgs, Carries(o)
          PROVE  move[o].carry["grant"] <= balance'[move[o].from]["grant"]
      <4>1. move[o].from \in Wallets /\ Locked(move[o].from)
        BY <3>2 DEF WalletInv, MovesSound, Carries, Locked
      <4>2. /\ move[o].carry["grant"] \in Int /\ balance[move[o].from]["grant"] \in Int
            /\ balance'[move[o].from]["grant"] \in Int
        BY <2>2, <3>2, <4>1 DEF WalletInv, WalletTypeOK, MoveOf, Carries,
           LedgerTyped, Change, Buckets
      <4> QED
        BY <2>7, <3>2, <4>1, <4>2 DEF WalletInv, ReadingsHold
    <3> QED
      BY <3>1, <3>2 DEF WalletInv, ReadingsHold, Carries, groupVars, otherVars
  <2> QED
    BY <2>2, <2>3, <2>5, <2>6, <2>8 DEF WalletInv
<1> QED
  BY <1>0, <1>1 DEF Aside

(* What a step of run r leaves of the other runs.                           *)
OtherRuns(r) == \A s \in Runs : s # r => run'[s] = run[s]

LEMMA OtherRunsKeep ==
  ASSUME WalletInv, NEW r \in Runs, OtherRuns(r), LedgerTyped',
         \A e \in Causes : e.of # r \/ e.kind \notin {"hold", "refund"} =>
           entry'[e] = entry[e] /\ delta'[e] = delta[e]
  PROVE  \A s \in Runs : s # r =>
    /\ run'[s] = run[s]
    /\ entry'[Hold(s)] = entry[Hold(s)] /\ delta'[Hold(s)] = delta[Hold(s)]
    /\ entry'[Refund(s)] = entry[Refund(s)] /\ delta'[Refund(s)] = delta[Refund(s)]
BY RunCauses DEF OtherRuns

RunOf == [pc : RunPcs, wallet : Wallets \cup {Null},
          cut : [Buckets -> Nat], since : 0..MaxMonth]

LEMMA OutsideTyped ==
  ASSUME NEW pc \in RunPcs
  PROVE  /\ [Outside EXCEPT !.pc = pc] \in RunOf
         /\ [Outside EXCEPT !.pc = pc].pc = pc
BY Constants, NothingTyped DEF Outside, RunOf, RunPcs

LEMMA ReserveReadKeeps ==
  ASSUME WalletInv, NEW r \in Runs, NEW w \in Wallets, ReserveRead(r, w)
  PROVE  WalletInv'
<1> DEFINE new == run'[r]
<1>1. /\ run \in [Runs -> RunOf] /\ run[r].pc = "idle" /\ ~Locked(w)
      /\ UNCHANGED <<ledgerVars, groupVars, month, crashes>>
  BY DEF ReserveRead, WalletInv, WalletTypeOK, RunOf
<1>2. /\ Reserving(w, Cost[r]) \in RunOf
      /\ Reserving(w, Cost[r]).pc = "reserving" /\ Reserving(w, Cost[r]).wallet = w
      /\ Reserving(w, Cost[r]).cut = GrantFirst(w, Cost[r])
  <2>1. GrantFirst(w, Cost[r]) \in [Buckets -> Nat]
    BY Constants, GrantFirstTakes DEF WalletInv
  <2>3. 0 \in 0..MaxMonth /\ "reserving" \in RunPcs /\ w \in Wallets \cup {Null}
    BY Constants DEF RunPcs
  <2>4. Reserving(w, Cost[r]) \in RunOf
    BY <2>1, <2>3 DEF Reserving, RunOf
  <2> QED
    BY <2>4 DEF Reserving
<1>3. \/ run' = [run EXCEPT ![r] = Reserving(w, Cost[r])]
      \/ run' = [run EXCEPT ![r] = [Outside EXCEPT !.pc = "refused"]]
  BY DEF ReserveRead, Quit
<1>4. /\ run' \in [Runs -> RunOf] /\ OtherRuns(r)
      /\ \/ new.pc = "refused"
         \/ new.pc = "reserving" /\ new.wallet = w /\ new.cut = GrantFirst(w, Cost[r])
  BY <1>1, <1>2, <1>3, OutsideTyped DEF OtherRuns, RunPcs
<1> HIDE DEF new
<1>5. WalletTypeOK'
  <2>1. \A s \in Runs : run'[s].pc = "reserving" => run'[s].wallet \in Wallets
    BY <1>4 DEF OtherRuns, new, WalletInv, WalletTypeOK
  <2> QED
    BY <1>1, <1>4, <2>1 DEF WalletInv, WalletTypeOK, RunOf, ledgerVars, groupVars
<1>6. ChargedAsRun' /\ HoldsDebit'
  <2>1. entry' = entry /\ delta' = delta
    BY <1>1 DEF ledgerVars
  <2> QED
    BY <1>1, <1>4, <2>1 DEF OtherRuns, new, WalletInv, ChargedAsRun, HoldsDebit, Written
<1>7. Solvent' /\ MovesSound'
  BY <1>1 DEF WalletInv, Solvent, MovesSound, Total, ledgerVars, groupVars
<1>8. LocksApart'
  <2>1. \A s \in Runs, v \in Wallets : Reserves(s, v)' => Reserves(s, v) \/ (s = r /\ v = w)
    BY <1>4 DEF OtherRuns, new, Reserves
  <2>2. \A o \in Orgs, v \in Wallets : CarriesAt(o, v)' => CarriesAt(o, v)
    BY <1>1 DEF CarriesAt, Carries, groupVars
  <2>3. /\ \A s \in Runs : ~Reserves(s, w)
        /\ \A o \in Orgs : ~CarriesAt(o, w)
    BY <1>1 DEF Locked, Reserves, CarriesAt, Carries
  <2> QED
    BY <2>1, <2>2, <2>3 DEF WalletInv, LocksApart
<1>9. ReadingsHold'
  <2>1. balance' = balance /\ move' = move
    BY <1>1 DEF ledgerVars, groupVars
  <2>2. /\ Sum(GrantFirst(w, Cost[r])) = Cost[r]
        /\ GrantFirst(w, Cost[r])["grant"] <= balance[w]["grant"]
    <3>1. /\ Sum(GrantFirst(w, Cost[r])) = Cost[r]
          /\ GrantFirst(w, Cost[r])["grant"] <= Positive(balance[w]["grant"])
      BY Constants, GrantFirstTakes DEF WalletInv
    <3>2. balance[w]["grant"] >= 0 /\ balance[w]["grant"] \in Int
      BY WalletNumbers DEF WalletInv, Solvent
    <3> QED
      BY <3>1, <3>2 DEF Positive
  <2> QED
    BY <1>4, <2>1, <2>2 DEF OtherRuns, new, WalletInv, ReadingsHold, Carries
<1> QED
  BY <1>5, <1>6, <1>7, <1>8, <1>9 DEF WalletInv

(* A run that leaves the lock, or had none, to a place of its own.          *)
Leaves(r, pc) ==
  /\ OtherRuns(r) /\ run' \in [Runs -> RunOf]
  /\ run'[r].pc = pc /\ pc # "reserving"
  /\ UNCHANGED <<groupVars, month>> /\ crashes' \in 0..MaxCrashes

LEMMA LeavingKeeps ==
  ASSUME WalletInv, NEW r \in Runs, NEW pc, Leaves(r, pc)
  PROVE  LocksApart' /\ MovesSound'
<1>1. \A s \in Runs, v \in Wallets : Reserves(s, v)' => Reserves(s, v)
  BY DEF Leaves, OtherRuns, Reserves
<1>2. \A o \in Orgs, v \in Wallets : CarriesAt(o, v)' => CarriesAt(o, v)
  BY DEF Leaves, CarriesAt, Carries, groupVars
<1>3. LocksApart'
  BY <1>1, <1>2 DEF WalletInv, LocksApart
<1>4. MovesSound'
  BY DEF Leaves, WalletInv, MovesSound, groupVars
<1> QED
  BY <1>3, <1>4

LEMMA LeavingTyped ==
  ASSUME WalletInv, NEW r \in Runs, NEW pc, Leaves(r, pc), LedgerTyped'
  PROVE  WalletTypeOK'
<1>1. \A s \in Runs : run'[s].pc = "reserving" => run'[s].wallet \in Wallets
  BY DEF Leaves, OtherRuns, WalletInv, WalletTypeOK
<1> QED
  BY <1>1 DEF Leaves, RunOf, LedgerTyped, Change, WalletInv, WalletTypeOK, groupVars

(* Without a booking a run may be refused, lost or settled.                 *)
LEMMA LeavingUnbooked ==
  ASSUME WalletInv, NEW r \in Runs, NEW pc, Leaves(r, pc), UNCHANGED ledgerVars,
         \/ run[r].pc \in {"idle", "reserving"} /\ pc \in {"refused", "lost"}
         \/ run[r].pc = "held" /\ pc = "settled"
  PROVE  WalletInv'
<1>1. LedgerTyped'
  BY DEF WalletInv, WalletTypeOK, LedgerTyped, Change, ledgerVars
<1>2. Solvent'
  BY DEF WalletInv, Solvent, Total, ledgerVars
<1>3. entry' = entry /\ delta' = delta /\ balance' = balance /\ move' = move
  BY DEF Leaves, ledgerVars, groupVars
<1>4. ChargedAsRun' /\ HoldsDebit'
  BY <1>3 DEF Leaves, OtherRuns, WalletInv, ChargedAsRun, HoldsDebit, Written
<1>5. ReadingsHold'
  BY <1>3 DEF Leaves, OtherRuns, WalletInv, ReadingsHold, Carries
<1> QED
  BY <1>1, <1>2, <1>4, <1>5, LeavingKeeps, LeavingTyped DEF WalletInv

(* A booking of the run itself, on the wallet w.                            *)
LEMMA LeavingBooked ==
  ASSUME WalletInv, NEW r \in Runs, NEW pc, Leaves(r, pc),
         NEW c \in {Hold(r), Refund(r)}, NEW w, NEW d, Books(c, w, d)
  PROVE  /\ WalletTypeOK' /\ Solvent' /\ LocksApart' /\ MovesSound'
         /\ \A s \in Runs : s # r =>
              /\ run'[s] = run[s]
              /\ entry'[Hold(s)] = entry[Hold(s)] /\ delta'[Hold(s)] = delta[Hold(s)]
              /\ entry'[Refund(s)] = entry[Refund(s)]
              /\ delta'[Refund(s)] = delta[Refund(s)]
<1>1. LedgerTyped' /\ Solvent'
  BY BooksEffect
<1>2. \A s \in Runs : s # r => Hold(s) # c /\ Refund(s) # c
  BY RunCauses
<1>3. \A e \in Causes : e # c => entry'[e] = entry[e] /\ delta'[e] = delta[e]
  BY BooksEffect
<1> QED
  BY <1>1, <1>2, <1>3, RunCauses, LeavingKeeps, LeavingTyped DEF Leaves, OtherRuns

(* What a reserve that is covered books.                                    *)
LEMMA HoldBooked ==
  ASSUME WalletInv, NEW r \in Runs, ReserveWrite(r), Covered(r),
         NEW w, w = run[r].wallet, NEW d, d = Minus(Nothing, run[r].cut)
  PROVE  /\ Books(Hold(r), w, d) /\ w \in Wallets
         /\ Sum(d) = -Cost[r] /\ \A b \in Buckets : d[b] <= 0
<1> DEFINE cut == run[r].cut
<1>1. run \in [Runs -> RunOf] /\ run[r].pc = "reserving"
  BY DEF ReserveWrite, WalletInv, WalletTypeOK, RunOf
<1>2. /\ w \in Wallets /\ cut \in Change /\ \A b \in Buckets : cut[b] >= 0
      /\ Sum(cut) = Cost[r] /\ cut["grant"] <= balance[w]["grant"]
  BY <1>1 DEF WalletInv, WalletTypeOK, ReadingsHold, RunOf, Change
<1>3. /\ d \in Change /\ Sum(d) = -Cost[r] /\ d["grant"] = -cut["grant"]
      /\ \A b \in Buckets : d[b] = -cut[b]
  BY <1>2, Giving
<1>4. ~Written(Hold(r))
  BY <1>1 DEF WalletInv, ChargedAsRun
<1>5. Append(Hold(r), w, d) /\ Total(w) >= Cost[r]
  BY DEF ReserveWrite, Covered
<1>6. balance[w]["grant"] \in Int /\ cut["grant"] \in Int /\ Total(w) \in Int
  BY <1>2, WalletNumbers DEF WalletInv, Change, Buckets
<1>7. \A b \in Buckets : d[b] <= 0
  BY <1>2, <1>3 DEF Change
<1> HIDE DEF cut
<1>8. Books(Hold(r), w, d)
  <2>1. Fits(Hold(r), w, d)
    BY <1>3, RunCauses DEF Fits
  <2>2. Total(w) + Sum(d) >= 0 /\ balance[w]["grant"] + d["grant"] >= 0
    BY <1>2, <1>3, <1>5, <1>6, Constants
  <2> QED
    BY <1>2, <1>3, <1>4, <1>5, <2>1, <2>2, RunCauses DEF Append, Books
<1> QED
  BY <1>2, <1>3, <1>7, <1>8

LEMMA ReserveWriteKeeps ==
  ASSUME WalletInv, NEW r \in Runs, ReserveWrite(r)
  PROVE  WalletInv'
<1>1. /\ run \in [Runs -> RunOf] /\ run[r].pc = "reserving"
      /\ crashes' = crashes /\ crashes \in 0..MaxCrashes /\ month \in 0..MaxMonth
      /\ UNCHANGED <<groupVars, month>>
  BY Constants DEF ReserveWrite, WalletInv, WalletTypeOK, RunOf
<1>2. CASE ~Covered(r)
  <2>1. UNCHANGED ledgerVars /\ Leaves(r, "refused")
    BY <1>1, <1>2, OutsideTyped DEF ReserveWrite, Quit, Leaves, OtherRuns, RunPcs
  <2> QED
    BY <1>1, <2>1, LeavingUnbooked
<1>3. CASE Covered(r)
  <2> DEFINE w == run[r].wallet
             d == Minus(Nothing, run[r].cut)
  <2>1. /\ Books(Hold(r), w, d) /\ w \in Wallets
        /\ Sum(d) = -Cost[r] /\ \A b \in Buckets : d[b] <= 0
    BY <1>3, HoldBooked
  <2>3. ~Written(Hold(r)) /\ ~Written(Refund(r))
    BY <1>1 DEF WalletInv, ChargedAsRun
  <2>5. [Outside EXCEPT !.pc = "held", !.since = month] \in RunOf
    BY <1>1, Constants, NothingTyped DEF Outside, RunOf, RunPcs
  <2>6. Leaves(r, "held")
    BY <1>1, <1>3, <2>5 DEF ReserveWrite, Leaves, OtherRuns, Outside
  <2> HIDE DEF d, w
  <2>9. /\ WalletTypeOK' /\ Solvent' /\ LocksApart' /\ MovesSound'
        /\ \A s \in Runs : s # r =>
              /\ run'[s] = run[s]
              /\ entry'[Hold(s)] = entry[Hold(s)] /\ delta'[Hold(s)] = delta[Hold(s)]
              /\ entry'[Refund(s)] = entry[Refund(s)]
              /\ delta'[Refund(s)] = delta[Refund(s)]
    BY <2>1, <2>6, LeavingBooked
  <2>10. /\ entry'[Hold(r)] = w /\ delta'[Hold(r)] = d
         /\ entry'[Refund(r)] = entry[Refund(r)] /\ run'[r].pc = "held"
    BY <2>1, <2>6, BooksEffect, RunCauses DEF Leaves
  <2>11. ChargedAsRun'
    <3>1. w # Null
      BY <2>1, Constants
    <3> QED
      BY <2>1, <2>3, <2>9, <2>10, <3>1 DEF WalletInv, ChargedAsRun, Written
  <2>12. HoldsDebit'
    BY <2>1, <2>9, <2>10 DEF WalletInv, HoldsDebit
  <2>13. \A v \in Wallets \ {w} : balance'[v]["grant"] = balance[v]["grant"]
    BY <2>1, BooksEffect
  <2>14. ReadingsHold'
    <3>1. ASSUME NEW s \in Runs, run'[s].pc = "reserving"
          PROVE  /\ Sum(run'[s].cut) = Cost[s]
                 /\ run'[s].cut["grant"] <= balance'[run'[s].wallet]["grant"]
      <4>1. s # r /\ run'[s] = run[s]
        BY <2>9, <2>10, <3>1
      <4>2. run[s].wallet \in Wallets /\ run[s].wallet # w
        BY <1>1, <2>1, <3>1, <4>1 DEF WalletInv, WalletTypeOK, LocksApart, Reserves, w
      <4> QED
        BY <2>13, <3>1, <4>1, <4>2 DEF WalletInv, ReadingsHold
    <3>2. ASSUME NEW o \in Orgs, Carries(o)
          PROVE  move[o].carry["grant"] <= balance'[move[o].from]["grant"]
      <4>1. move[o].from \in Wallets /\ move[o].from # w
        BY <1>1, <2>1, <3>2 DEF WalletInv, MovesSound, LocksApart, Reserves,
           CarriesAt, Carries, w
      <4> QED
        BY <2>13, <3>2, <4>1 DEF WalletInv, ReadingsHold
    <3>3. move' = move
      BY <1>1 DEF groupVars
    <3> QED
      BY <3>1, <3>2, <3>3 DEF ReadingsHold, Carries
  <2> QED
    BY <2>9, <2>11, <2>12, <2>14 DEF WalletInv
<1> QED
  BY <1>2, <1>3

LEMMA SettleKeeps ==
  ASSUME WalletInv, NEW r \in Runs, Settle(r)
  PROVE  WalletInv'
<1>1. Leaves(r, "settled") /\ UNCHANGED ledgerVars /\ run[r].pc = "held"
  <2>1. run \in [Runs -> RunOf] /\ crashes \in 0..MaxCrashes
    BY DEF WalletInv, WalletTypeOK, RunOf
  <2>2. /\ [run[r] EXCEPT !.pc = "settled"] \in RunOf
        /\ [run[r] EXCEPT !.pc = "settled"].pc = "settled"
    BY <2>1 DEF RunOf, RunPcs
  <2> QED
    BY <2>1, <2>2 DEF Settle, Goto, Leaves, OtherRuns
<1> QED
  BY <1>1, LeavingUnbooked

LEMMA CrashRunKeeps ==
  ASSUME WalletInv, NEW r \in Runs, CrashRun(r)
  PROVE  WalletInv'
<1>1. run \in [Runs -> RunOf] /\ crashes' \in 0..MaxCrashes
  BY Constants DEF CrashRun, WalletInv, WalletTypeOK, RunOf
<1>2. Leaves(r, "lost") /\ UNCHANGED ledgerVars /\ run[r].pc = "reserving"
  BY <1>1, OutsideTyped DEF CrashRun, Quit, Leaves, OtherRuns, RunPcs
<1> QED
  BY <1>2, LeavingUnbooked

(* What a release books.                                                    *)
LEMMA RefundBooked ==
  ASSUME WalletInv, NEW r \in Runs, Release(r), NEW w, w = entry[Hold(r)],
         NEW hold, hold = delta[Hold(r)], NEW d, d = Minus(Nothing, hold)
  PROVE  /\ Books(Refund(r), w, d) /\ w \in Wallets
         /\ Plus(hold, d) = Nothing /\ d["grant"] >= 0 /\ d["grant"] \in Int
<1>1. run[r].pc = "held"
  BY DEF Release
<1>2. /\ Written(Hold(r)) /\ ~Written(Refund(r)) /\ Sum(hold) = -Cost[r]
      /\ \A b \in Buckets : hold[b] <= 0
  BY <1>1 DEF WalletInv, ChargedAsRun, HoldsDebit
<1>3. w \in Wallets /\ hold \in Change
  BY <1>2, RunCauses DEF Written, WalletInv, WalletTypeOK, Change
<1>4. /\ d \in Change /\ Sum(d) = Cost[r] /\ d["grant"] >= 0 /\ d["grant"] \in Int
      /\ Plus(hold, d) = Nothing
  BY <1>2, <1>3, Giving, Constants DEF Change, Buckets
<1>5. Append(Refund(r), w, d)
  BY DEF Release, ReleaseTo, GiveBack
<1>6. /\ balance[w]["grant"] \in Int /\ Total(w) \in Int
      /\ Total(w) >= 0 /\ balance[w]["grant"] >= 0
  BY <1>3, WalletNumbers DEF WalletInv, Solvent
<1>7. Fits(Refund(r), w, d)
  BY <1>4, RunCauses DEF Fits
<1>8. Total(w) + Sum(d) >= 0 /\ balance[w]["grant"] + d["grant"] >= 0
  BY <1>4, <1>6, Constants
<1> QED
  BY <1>2, <1>3, <1>4, <1>5, <1>7, <1>8, RunCauses DEF Append, Books

LEMMA ReleaseKeeps ==
  ASSUME WalletInv, NEW r \in Runs, Release(r)
  PROVE  WalletInv'
<1> DEFINE w == entry[Hold(r)]
           hold == delta[Hold(r)]
           d == Minus(Nothing, hold)
<1>1. /\ run \in [Runs -> RunOf] /\ run[r].pc = "held"
      /\ crashes' = crashes /\ crashes \in 0..MaxCrashes
      /\ UNCHANGED <<groupVars, month>>
  BY DEF Release, WalletInv, WalletTypeOK, RunOf
<1>4. /\ Books(Refund(r), w, d) /\ w \in Wallets
      /\ Plus(hold, d) = Nothing /\ d["grant"] >= 0 /\ d["grant"] \in Int
  BY RefundBooked
<1>6. Leaves(r, "released")
  BY <1>1 DEF Release, Goto, Leaves, OtherRuns, RunOf, RunPcs
<1> HIDE DEF d
<1>9. /\ WalletTypeOK' /\ Solvent' /\ LocksApart' /\ MovesSound'
      /\ \A s \in Runs : s # r =>
           /\ run'[s] = run[s]
           /\ entry'[Hold(s)] = entry[Hold(s)] /\ delta'[Hold(s)] = delta[Hold(s)]
           /\ entry'[Refund(s)] = entry[Refund(s)]
           /\ delta'[Refund(s)] = delta[Refund(s)]
  BY <1>4, <1>6, LeavingBooked
<1>10. /\ entry'[Refund(r)] = w /\ delta'[Refund(r)] = d
       /\ entry'[Hold(r)] = w /\ delta'[Hold(r)] = hold /\ run'[r].pc = "released"
  BY <1>4, <1>6, BooksEffect, RunCauses DEF Leaves
<1>11. ChargedAsRun'
  <2>1. w # Null
    BY <1>4, Constants
  <2>2. Nothing' = Nothing /\ Plus(hold, d) = Nothing
    BY <1>4
  <2>3. \A s \in Runs : Hold(s)' = Hold(s) /\ Refund(s)' = Refund(s)
    OBVIOUS
  <2> HIDE DEF w, hold
  <2> QED
    BY <1>9, <1>10, <2>1, <2>2, <2>3 DEF WalletInv, ChargedAsRun, Written
<1>12. HoldsDebit'
  BY <1>9, <1>10 DEF WalletInv, HoldsDebit
<1>13. \A v \in Wallets : balance'[v]["grant"] >= balance[v]["grant"]
  <2>1. \A v \in Wallets : balance[v]["grant"] \in Int
    BY WalletNumbers DEF WalletInv
  <2> QED
    BY <1>4, <2>1, BooksEffect
<1>14. ReadingsHold'
  <2>1. ASSUME NEW s \in Runs, run'[s].pc = "reserving"
        PROVE  /\ Sum(run'[s].cut) = Cost[s]
               /\ run'[s].cut["grant"] <= balance'[run'[s].wallet]["grant"]
    <3>1. s # r /\ run'[s] = run[s]
      BY <1>9, <1>10, <2>1
    <3>2. run[s].wallet \in Wallets /\ run[s].cut["grant"] \in Int
      BY <2>1, <3>1 DEF WalletInv, WalletTypeOK, Buckets
    <3>3. /\ balance[run[s].wallet]["grant"] \in Int
          /\ balance'[run[s].wallet]["grant"] \in Int
      BY <1>9, <3>2 DEF WalletInv, WalletTypeOK, Buckets
    <3> QED
      BY <1>13, <2>1, <3>1, <3>2, <3>3 DEF WalletInv, ReadingsHold
  <2>2. ASSUME NEW o \in Orgs, Carries(o)
        PROVE  move[o].carry["grant"] <= balance'[move[o].from]["grant"]
    <3>1. move[o].from \in Wallets
      BY <2>2 DEF WalletInv, MovesSound, Carries
    <3>2. move[o].carry["grant"] \in Int
      BY <2>2 DEF WalletInv, WalletTypeOK, MoveOf, Carries, Buckets
    <3>3. /\ balance[move[o].from]["grant"] \in Int
          /\ balance'[move[o].from]["grant"] \in Int
      BY <1>9, <3>1 DEF WalletInv, WalletTypeOK, Buckets
    <3> QED
      BY <1>13, <2>2, <3>1, <3>2, <3>3 DEF WalletInv, ReadingsHold
  <2>3. move' = move
    BY <1>1 DEF groupVars
  <2> QED
    BY <2>1, <2>2, <2>3 DEF ReadingsHold, Carries
<1> QED
  BY <1>9, <1>11, <1>12, <1>14 DEF WalletInv

(***************************************************************************)
(* Moves.                                                                   *)
(***************************************************************************)
OtherMoves(o) == \A p \in Orgs : p # o => move'[p] = move[p]

(* Actions that change only moves and groups.                               *)
LEMMA MovingKeeps ==
  ASSUME WalletInv, UNCHANGED <<ledgerVars, month, run, walletOf, homes>>,
         move' \in [Orgs -> MoveOf], group' \in [Wallets -> {"unborn", "open", "closed"}],
         moves' \in 0..MaxMoves, crashes' \in 0..MaxCrashes,
         LocksApart', MovesSound',
         \A o \in Orgs : Carries(o)' =>
           move'[o].carry["grant"] <= balance[move'[o].from]["grant"]
  PROVE  WalletInv'
<1>1. WalletTypeOK'
  BY DEF WalletInv, WalletTypeOK, ledgerVars
<1>2. ChargedAsRun' /\ HoldsDebit' /\ Solvent'
  BY DEF WalletInv, ChargedAsRun, HoldsDebit, Solvent, Written, Total, ledgerVars
<1>3. ReadingsHold'
  BY DEF WalletInv, ReadingsHold, ledgerVars
<1> QED
  BY <1>1, <1>2, <1>3 DEF WalletInv

LEMMA CarriedTyped ==
  ASSUME WalletInv, NEW o \in Orgs
  PROVE  /\ Carried(o) \in [Buckets -> Nat] \cup {Null}
         /\ Siblings(o) # {} => Carried(o) = Null
         /\ Carried(o) # Null =>
              Carried(o)["grant"] <= balance[walletOf[o]]["grant"]
<1>1. walletOf[o] \in Wallets
  BY DEF WalletInv, WalletTypeOK
<1>2. \A b \in Buckets : balance[walletOf[o]][b] \in Int
  BY <1>1 DEF WalletInv, WalletTypeOK
<1>3. balance[walletOf[o]]["grant"] >= 0 /\ "grant" \in Buckets
  BY <1>1 DEF WalletInv, Solvent, Buckets
<1>4. \A b \in Buckets : Positive(balance[walletOf[o]][b]) \in Nat
  BY <1>2 DEF Positive
<1> QED
  BY <1>2, <1>3, <1>4 DEF Carried, Positive

LEMMA BeginKeeps ==
  ASSUME WalletInv, NEW o \in Orgs, NEW to \in Wallets, NEW locks \in Wallets,
         to # walletOf[o], Begin(o, to, locks)
  PROVE  WalletInv'
<1> DEFINE from == walletOf[o]
           new == [pc |-> "moving", from |-> from, to |-> to,
                   locks |-> locks, carry |-> Carried(o)]
<1>1. /\ from \in Wallets /\ new \in MoveOf /\ move \in [Orgs -> MoveOf]
      /\ move' = [move EXCEPT ![o] = new]
      /\ UNCHANGED <<ledgerVars, otherVars, walletOf, homes, group>>
  BY CarriedTyped DEF Begin, WalletInv, WalletTypeOK, MoveOf
<1>2. move' \in [Orgs -> MoveOf] /\ move'[o] = new /\ OtherMoves(o)
  BY <1>1 DEF OtherMoves
<1>3. moves' \in 0..MaxMoves /\ crashes' \in 0..MaxCrashes
  BY <1>1, Constants DEF Begin, WalletInv, WalletTypeOK, otherVars
<1>4. Carried(o) # Null => ~Locked(from) /\ ~Locked(to)
  BY CarriedTyped DEF Begin
<1>5. \A p \in Orgs, v \in Wallets : CarriesAt(p, v)' =>
        CarriesAt(p, v) \/ (p = o /\ v \in {from, to} /\ Carried(o) # Null)
  BY <1>2 DEF CarriesAt, Carries, OtherMoves
<1>6. Carried(o) # Null => \A v \in {from, to} :
        /\ \A r \in Runs : ~Reserves(r, v)
        /\ \A p \in Orgs : ~CarriesAt(p, v)
  BY <1>4 DEF Locked, Reserves, CarriesAt, Carries
<1>7. LocksApart'
  <2>1. \A r \in Runs, v \in Wallets : Reserves(r, v)' => Reserves(r, v)
    BY <1>1 DEF Reserves, otherVars
  <2> QED
    BY <1>5, <1>6, <2>1 DEF WalletInv, LocksApart
<1>8. MovesSound'
  BY <1>1, <1>2 DEF OtherMoves, WalletInv, MovesSound
<1>9. \A p \in Orgs : Carries(p)' =>
        move'[p].carry["grant"] <= balance[move'[p].from]["grant"]
  BY <1>2, CarriedTyped DEF OtherMoves, Carries, WalletInv, ReadingsHold
<1>10. /\ UNCHANGED <<ledgerVars, month, run, walletOf, homes>>
       /\ group' \in [Wallets -> {"unborn", "open", "closed"}]
  BY <1>1 DEF WalletInv, WalletTypeOK, otherVars
<1> QED
  BY <1>2, <1>3, <1>7, <1>8, <1>9, <1>10, MovingKeeps

LEMMA AttachKeeps ==
  ASSUME WalletInv, NEW o \in Orgs, NEW w \in Wallets, Attach(o, w) \/ Detach(o, w)
  PROVE  WalletInv'
<1>1. walletOf[o] \in Wallets /\ group[walletOf[o]] # "unborn"
  BY DEF WalletInv, WalletTypeOK, MovesSound
<1> QED
  BY <1>1, BeginKeeps DEF Attach, Detach

(* Moves that end without a commit, or after it.                            *)
LEMMA AtHomeKeeps ==
  ASSUME WalletInv, NEW o \in Orgs,
         move' \in {[move EXCEPT ![o] = AtHome], [move EXCEPT ![o].pc = "moved"]},
         UNCHANGED <<ledgerVars, month, run, walletOf, homes, moves>>,
         group' \in [Wallets -> {"unborn", "open", "closed"}],
         \A w \in Wallets : group[w] # "unborn" => group'[w] # "unborn",
         crashes' \in 0..MaxCrashes
  PROVE  WalletInv'
<1>1. move' \in [Orgs -> MoveOf] /\ OtherMoves(o) /\ move'[o].pc # "moving"
  <2>1. move \in [Orgs -> MoveOf] /\ AtHome \in MoveOf /\ AtHome.pc # "moving"
    BY DEF WalletInv, WalletTypeOK, MoveOf, AtHome
  <2>2. [move[o] EXCEPT !.pc = "moved"] \in MoveOf
    BY <2>1 DEF MoveOf
  <2>3. CASE move' = [move EXCEPT ![o] = AtHome]
    BY <2>1, <2>3 DEF OtherMoves
  <2>4. CASE move' = [move EXCEPT ![o].pc = "moved"]
    <3>1. [move[o] EXCEPT !.pc = "moved"].pc = "moved"
      BY <2>1 DEF MoveOf
    <3> QED
      BY <2>1, <2>2, <2>4, <3>1 DEF OtherMoves
  <2> QED
    BY <2>3, <2>4
<1>2. LocksApart'
  <2>1. \A r \in Runs, v \in Wallets : Reserves(r, v)' => Reserves(r, v)
    BY DEF Reserves
  <2>2. \A p \in Orgs, v \in Wallets : CarriesAt(p, v)' => CarriesAt(p, v)
    BY <1>1 DEF OtherMoves, CarriesAt, Carries
  <2> QED
    BY <2>1, <2>2 DEF WalletInv, LocksApart
<1>3. MovesSound'
  BY <1>1 DEF OtherMoves, WalletInv, WalletTypeOK, MovesSound
<1>4. \A p \in Orgs : Carries(p)' =>
        move'[p].carry["grant"] <= balance[move'[p].from]["grant"]
  BY <1>1 DEF OtherMoves, Carries, WalletInv, ReadingsHold
<1>5. moves' \in 0..MaxMoves
  BY DEF WalletInv, WalletTypeOK
<1> QED
  BY <1>1, <1>2, <1>3, <1>4, <1>5, MovingKeeps

LEMMA CloseEmptyGroupKeeps ==
  ASSUME WalletInv, NEW o \in Orgs, CloseEmptyGroup(o)
  PROVE  WalletInv'
<1>1. group \in [Wallets -> {"unborn", "open", "closed"}]
  BY DEF WalletInv, WalletTypeOK
<1>2. /\ group' \in [Wallets -> {"unborn", "open", "closed"}]
      /\ \A w \in Wallets : group[w] # "unborn" => group'[w] # "unborn"
  BY <1>1 DEF CloseEmptyGroup
<1> QED
  BY <1>2, AtHomeKeeps DEF CloseEmptyGroup, otherVars, WalletInv, WalletTypeOK

LEMMA CrashMoveKeeps ==
  ASSUME WalletInv, NEW o \in Orgs, CrashMove(o)
  PROVE  WalletInv'
<1>1. crashes' \in 0..MaxCrashes /\ group' = group
  BY Constants DEF CrashMove, WalletInv, WalletTypeOK
<1> QED
  BY <1>1, AtHomeKeeps DEF CrashMove, WalletInv, WalletTypeOK

LEMMA CommitMoveKeeps ==
  ASSUME WalletInv, NEW o \in Orgs, CommitMove(o)
  PROVE  WalletInv'
<1> DEFINE from == move[o].from
           to == move[o].to
           carry == IF move[o].carry = Null THEN Nothing ELSE move[o].carry
<1>1. /\ move[o].pc = "moving" /\ from \in Wallets /\ to \in Wallets /\ from # to
      /\ UNCHANGED <<otherVars, entry, delta, moves>>
  BY DEF CommitMove, WalletInv, MovesSound
<1>2. carry \in [Buckets -> Nat] /\ carry \in Change
  <2>1. move[o].carry \in [Buckets -> Nat] \cup {Null}
    BY DEF WalletInv, WalletTypeOK, MoveOf
  <2> QED
    BY <2>1, NothingTyped DEF Change
<1>3. CASE ~(Total(from) >= Sum(carry))
  <2>1. /\ move' = [move EXCEPT ![o] = AtHome]
        /\ UNCHANGED <<balance, walletOf, homes, group>>
    BY <1>3 DEF CommitMove
  <2> QED
    BY <1>1, <2>1, AtHomeKeeps DEF otherVars, ledgerVars, WalletInv, WalletTypeOK
<1>4. CASE Total(from) >= Sum(carry)
  <2>1. /\ walletOf' = [walletOf EXCEPT ![o] = to]
        /\ homes' = [homes EXCEPT ![o] = @ \cup {to}]
        /\ group' = [group EXCEPT ![to] = "open"]
        /\ balance' = [balance EXCEPT ![from] = Minus(@, carry), ![to] = Plus(@, carry)]
        /\ move' = [move EXCEPT ![o].pc = "moved"]
    BY <1>4 DEF CommitMove
  <2>2. /\ balance[from] \in Change /\ balance[to] \in Change
        /\ balance \in [Wallets -> Change] /\ move \in [Orgs -> MoveOf]
    BY <1>1 DEF WalletInv, WalletTypeOK, Change
  <2>3. /\ Minus(balance[from], carry) \in Change /\ Plus(balance[to], carry) \in Change
        /\ Sum(Minus(balance[from], carry)) = Total(from) - Sum(carry)
        /\ Sum(Plus(balance[to], carry)) = Total(to) + Sum(carry)
        /\ Minus(balance[from], carry)["grant"] = balance[from]["grant"] - carry["grant"]
        /\ Plus(balance[to], carry)["grant"] = balance[to]["grant"] + carry["grant"]
    BY <1>2, <2>2, PlusTyped, MinusTyped DEF Total
  <2>4. /\ carry["grant"] \in Nat /\ Sum(carry) \in Nat
        /\ carry["grant"] <= balance[from]["grant"]
        /\ balance[from]["grant"] \in Int /\ balance[to]["grant"] \in Int
        /\ balance[from]["grant"] >= 0 /\ balance[to]["grant"] >= 0
        /\ Total(from) \in Int /\ Total(to) \in Int /\ Total(to) >= 0
    <3>1. carry["grant"] \in Nat /\ Sum(carry) \in Nat
      BY <1>2 DEF Sum, Buckets
    <3>2. carry["grant"] <= balance[from]["grant"]
      BY <1>1, NothingTyped DEF WalletInv, ReadingsHold, Carries, Solvent
    <3> QED
      BY <1>1, <3>1, <3>2, WalletNumbers DEF WalletInv, Solvent
  <2> HIDE DEF carry, from, to
  <2>5. \A v \in Wallets : balance'[v] =
          IF v = to THEN Plus(balance[to], carry)
          ELSE IF v = from THEN Minus(balance[from], carry) ELSE balance[v]
    BY <1>1, <2>1, <2>2
  <2>6. balance' \in [Wallets -> Change]
    BY <1>1, <2>1, <2>2, <2>3
  <2>7. Solvent'
    <3> SUFFICES ASSUME NEW v \in Wallets
                 PROVE  Sum(balance'[v]) >= 0 /\ balance'[v]["grant"] >= 0
      BY DEF Solvent, Total
    <3>1. CASE v = to
      BY <2>3, <2>4, <2>5, <3>1
    <3>2. CASE v = from
      BY <1>1, <1>4, <2>3, <2>4, <2>5, <3>2
    <3>3. CASE v \notin {from, to}
      BY <2>5, <3>3 DEF WalletInv, Solvent, Total
    <3> QED
      BY <3>1, <3>2, <3>3
  <2>8. /\ move' \in [Orgs -> MoveOf] /\ OtherMoves(o) /\ move'[o].pc = "moved"
    <3>1. [move[o] EXCEPT !.pc = "moved"] \in MoveOf /\ [move[o] EXCEPT !.pc = "moved"].pc = "moved"
      BY <2>2 DEF MoveOf
    <3> QED
      BY <2>1, <2>2, <3>1 DEF OtherMoves
  <2>9. WalletTypeOK'
    <3>1. /\ walletOf' \in [Orgs -> Wallets] /\ homes' \in [Orgs -> SUBSET Wallets]
          /\ group' \in [Wallets -> {"unborn", "open", "closed"}]
      BY <1>1, <2>1 DEF WalletInv, WalletTypeOK
    <3> QED
      BY <1>1, <2>6, <2>8, <3>1 DEF WalletInv, WalletTypeOK, Change, otherVars
  <2>10. ChargedAsRun' /\ HoldsDebit'
    BY <1>1 DEF WalletInv, ChargedAsRun, HoldsDebit, Written, otherVars
  <2>11. MovesSound'
    BY <1>1, <2>1, <2>8 DEF OtherMoves, WalletInv, WalletTypeOK, MovesSound
  <2>12. LocksApart'
    <3>1. \A r \in Runs, v \in Wallets : Reserves(r, v)' => Reserves(r, v)
      BY <1>1 DEF Reserves, otherVars
    <3>2. \A p \in Orgs, v \in Wallets : CarriesAt(p, v)' => CarriesAt(p, v)
      BY <2>8 DEF OtherMoves, CarriesAt, Carries
    <3> QED
      BY <3>1, <3>2 DEF WalletInv, LocksApart
  <2>13. ReadingsHold'
    <3>1. \A v \in Wallets \ {from} : balance'[v]["grant"] >= balance[v]["grant"]
      <4>1. \A v \in Wallets : balance[v]["grant"] \in Int
        BY WalletNumbers DEF WalletInv
      <4> QED
        BY <2>3, <2>4, <2>5, <4>1
    <3>2. move[o].carry = Null => \A v \in Wallets : balance'[v]["grant"] = balance[v]["grant"]
      <4>1. move[o].carry = Null => carry["grant"] = 0
        BY NothingTyped DEF carry
      <4> QED
        BY <2>3, <2>4, <2>5, <4>1
    <3>3. ASSUME NEW v \in Wallets, \/ \E r \in Runs : Reserves(r, v)
                                    \/ \E p \in Orgs \ {o} : CarriesAt(p, v)
          PROVE  balance'[v]["grant"] >= balance[v]["grant"]
      <4>1. balance[v]["grant"] \in Int
        BY WalletNumbers DEF WalletInv
      <4>2. CASE move[o].carry = Null
        BY <3>2, <4>1, <4>2
      <4>3. CASE move[o].carry # Null
        <5>1. CarriesAt(o, from)
          BY <1>1, <4>3 DEF CarriesAt, Carries, from
        <5>2. v # from
          BY <1>1, <3>3, <5>1 DEF WalletInv, LocksApart
        <5> QED
          BY <3>1, <5>2
      <4> QED
        BY <4>2, <4>3
    <3>4. ASSUME NEW r \in Runs, run[r].pc = "reserving"
          PROVE  run[r].cut["grant"] <= balance'[run[r].wallet]["grant"]
      <4>1. run[r].wallet \in Wallets /\ Reserves(r, run[r].wallet)
        BY <3>4 DEF WalletInv, WalletTypeOK, Reserves
      <4>2. /\ run[r].cut["grant"] \in Int /\ balance[run[r].wallet]["grant"] \in Int
            /\ balance'[run[r].wallet]["grant"] \in Int
        BY <2>6, <4>1 DEF WalletInv, WalletTypeOK, Change, Buckets
      <4> QED
        BY <3>3, <3>4, <4>1, <4>2 DEF WalletInv, ReadingsHold
    <3>5. ASSUME NEW p \in Orgs, Carries(p), p # o
          PROVE  move[p].carry["grant"] <= balance'[move[p].from]["grant"]
      <4>1. move[p].from \in Wallets /\ CarriesAt(p, move[p].from)
        BY <3>5 DEF WalletInv, MovesSound, Carries, CarriesAt
      <4>2. /\ move[p].carry["grant"] \in Int /\ balance[move[p].from]["grant"] \in Int
            /\ balance'[move[p].from]["grant"] \in Int
        BY <2>6, <3>5, <4>1 DEF WalletInv, WalletTypeOK, MoveOf, Carries, Change, Buckets
      <4> QED
        BY <3>3, <3>5, <4>1, <4>2 DEF WalletInv, ReadingsHold
    <3> QED
      BY <1>1, <2>8, <3>4, <3>5 DEF WalletInv, ReadingsHold, Carries, OtherMoves, otherVars
  <2> QED
    BY <2>7, <2>9, <2>10, <2>11, <2>12, <2>13 DEF WalletInv
<1> QED
  BY <1>3, <1>4

(***************************************************************************)
(* The invariant holds throughout.                                          *)
(***************************************************************************)
LEMMA InitKeeps == WalletInit => WalletInv
<1> SUFFICES ASSUME WalletInit PROVE WalletInv
  OBVIOUS
<1>1. /\ \A r \in Runs : run[r] = Outside
      /\ \A o \in Orgs : move[o] = AtHome
      /\ Outside.pc = "idle" /\ AtHome.pc = "idle"
  BY DEF WalletInit, Outside, AtHome
<1>2. WalletTypeOK
  <2>1. Outside \in RunOf /\ AtHome \in MoveOf
    BY Constants, NothingTyped DEF Outside, AtHome, RunOf, RunPcs, MoveOf
  <2>2. Nothing \in [Buckets -> Int] /\ 1 \in 1..MaxMonth
    BY Constants, NothingTyped DEF Change
  <2>3. walletOf \in [Orgs -> Wallets] /\ homes \in [Orgs -> SUBSET Wallets]
    BY WalletAssumption DEF WalletAssumption, WalletInit
  <2> QED
    BY <1>1, <2>1, <2>2, <2>3, Constants DEF WalletInit, WalletTypeOK, RunOf
<1>3. ChargedAsRun /\ HoldsDebit
  BY <1>1, RunCauses DEF WalletInit, ChargedAsRun, HoldsDebit, Written
<1>4. Solvent
  BY NothingTyped DEF WalletInit, Solvent, Total
<1>5. LocksApart /\ ReadingsHold
  BY <1>1 DEF LocksApart, ReadingsHold, Reserves, Carries, CarriesAt
<1>6. MovesSound
  BY <1>1, WalletAssumption DEF WalletAssumption, WalletInit, MovesSound
<1> QED
  BY <1>2, <1>3, <1>4, <1>5, <1>6 DEF WalletInv

LEMMA MonthPassesKeeps ==
  ASSUME WalletInv, MonthPasses PROVE WalletInv'
<1>1. month' \in 1..MaxMonth
  BY Constants DEF MonthPasses, WalletInv, WalletTypeOK
<1>2. UNCHANGED <<ledgerVars, groupVars, run, crashes>>
  BY DEF MonthPasses
<1>3. WalletTypeOK'
  BY <1>1, <1>2 DEF WalletInv, WalletTypeOK, ledgerVars, groupVars
<1>4. ChargedAsRun' /\ HoldsDebit' /\ Solvent' /\ MovesSound'
  BY <1>2 DEF WalletInv, ChargedAsRun, HoldsDebit, Solvent, MovesSound, Written,
     Total, ledgerVars, groupVars
<1>5. LocksApart' /\ ReadingsHold'
  BY <1>2 DEF WalletInv, LocksApart, ReadingsHold, Reserves, Carries, CarriesAt,
     ledgerVars, groupVars
<1> QED
  BY <1>3, <1>4, <1>5 DEF WalletInv

(* Grants, purchases, refunds and adjustments book aside.                   *)
LEMMA GrantsAside ==
  ASSUME WalletInv, PaymentStep \/ \E w \in Wallets : GrantStep(w)
  PROVE  Aside /\ UNCHANGED <<groupVars, otherVars>>
<1>1. CASE PaymentStep
  <2>1. PICK p \in Purchases : RecordRefund(p) \/ \E w \in Wallets : RecordPurchase(p, w)
    BY <1>1 DEF PaymentStep
  <2>2. UNCHANGED <<groupVars, otherVars>>
    BY <2>1 DEF RecordRefund, RecordPurchase
  <2> QED
    BY <2>1, <2>2, RefundAside, PurchaseAside
<1>2. CASE \E w \in Wallets : GrantStep(w)
  <2>1. PICK w \in Wallets : GrantStep(w)
    BY <1>2
  <2>2. CASE GrantMonthly(w)
    BY <2>2, MonthlyAside DEF GrantMonthly
  <2>3. CASE GrantTrial(w)
    BY <2>3, TrialAside DEF GrantTrial
  <2>4. CASE \E o \in Earners : RecordEarnGrant(o, w)
    BY <2>4, EarnAside DEF RecordEarnGrant
  <2>5. CASE \E j \in Adjustments : AdminAdjust(j, w)
    BY <2>5, AdjustAside DEF AdminAdjust
  <2> QED
    BY <2>1, <2>2, <2>3, <2>4, <2>5 DEF GrantStep
<1> QED
  BY <1>1, <1>2

LEMMA StepKeeps ==
  ASSUME WalletInv, [WalletNext]_walletVars PROVE WalletInv'
<1>1. CASE UNCHANGED walletVars
  BY <1>1, UnchangedKeeps
<1>2. CASE PaymentStep \/ \E w \in Wallets : GrantStep(w)
  BY <1>2, GrantsAside, AsideKeeps
<1>3. CASE \E r \in Runs : RunStep(r)
  BY <1>3, ReserveReadKeeps, ReserveWriteKeeps, SettleKeeps, ReleaseKeeps,
     CrashRunKeeps DEF RunStep
<1>4. CASE \E o \in Orgs : MoveStep(o)
  BY <1>4, AttachKeeps, CommitMoveKeeps, CloseEmptyGroupKeeps, CrashMoveKeeps
     DEF MoveStep
<1>5. CASE MonthPasses
  BY <1>5, MonthPassesKeeps
<1> QED
  BY <1>1, <1>2, <1>3, <1>4, <1>5 DEF WalletNext, OwnStep

LEMMA InvHolds == WalletSpec => []WalletInv
<1>1. WalletInv /\ [WalletNext]_walletVars => WalletInv'
  BY StepKeeps
<1> QED
  BY <1>1, InitKeeps, PTL DEF WalletSpec

(* Balances, rows, runs and moves keep their types; the cut of a hold and what
   a move carries are never negative, for any number of organisations.      *)
THEOREM WalletTypeCorrect == WalletSpec => []WalletTypeOK
<1>1. WalletInv => WalletTypeOK
  BY DEF WalletInv
<1> QED
  BY <1>1, InvHolds, PTL

(* An AI run that spendCredit runs to its end is charged in full, one that
   failed is given back bucket by bucket where it was held, a refused or lost
   one costs nothing, whatever moves, grants and months come in between.    *)
THEOREM RunsChargedRight == WalletSpec => []ChargedAsRun
<1>1. WalletInv => ChargedAsRun
  BY DEF WalletInv
<1> QED
  BY <1>1, InvHolds, PTL

(* No wallet is ever below zero, nor its grant bucket, although refunds of runs
   and trial grants do not take the wallet's lock.                          *)
THEOREM WalletsStaySolvent == WalletSpec => []Solvent
<1>1. WalletInv => Solvent
  BY DEF WalletInv
<1> QED
  BY <1>1, InvHolds, PTL

(***************************************************************************)
(* The monthly cap.                                                         *)
(***************************************************************************)
(* Run r's hold counts in this month's spend on wallet w.                   *)
Counts(r, w) ==
  /\ Written(Hold(r)) /\ ~Written(Refund(r))
  /\ entry[Hold(r)] = w /\ run[r].since = month

(* What is read under a wallet's lock is still so when the hold is written,
   although refunds and the next month come without it: both only lower the
   spend.                                                                   *)
ReadUnderCap ==
  \A r \in Runs : run[r].pc = "reserving" => WithinCap(r, run[r].wallet)
MonthsPast == \A r \in Runs : run[r].since <= month
Holding == {r \in Runs : Written(Hold(r))}

CapInv == CapKept /\ ReadUnderCap /\ MonthsPast /\ IsFiniteSet(Holding)

LEMMA Spent ==
  ASSUME IsFiniteSet(Holding), NEW o, NEW w
  PROVE  LET counted == {r \in Runs : OrgOf[r] = o /\ Counts(r, w)}
         IN  /\ SpentThisPeriod(w, o) = SumFunctionOnSet(Cost, counted)
             /\ IsFiniteSet(counted) /\ SpentThisPeriod(w, o) \in Nat
<1> DEFINE counted == {r \in Runs : OrgOf[r] = o /\ Counts(r, w)}
<1>1. SpentThisPeriod(w, o) = SumFunctionOnSet(Cost, counted)
  <2>1. counted = {r \in Runs : /\ OrgOf[r] = o /\ Written(Hold(r)) /\ ~Written(Refund(r))
                                /\ entry[Hold(r)] = w /\ run[r].since = month}
    BY DEF Counts
  <2> HIDE DEF counted
  <2> QED
    BY <2>1 DEF SpentThisPeriod
<1>2. IsFiniteSet(counted)
  <2>1. counted \in SUBSET Holding
    BY DEF Counts, Holding
  <2> QED
    BY <2>1, FS_Subset
<1>3. \A r \in counted : Cost[r] \in Nat
  BY Constants
<1>4. SumFunctionOnSet(Cost, counted) \in Nat
  <2> HIDE DEF counted
  <2> QED BY <1>2, <1>3, SumOfFewer
<1> QED
  BY <1>1, <1>2, <1>4

(* Holds that are given back, or written in a month that has passed, lower
   what is spent.                                                           *)
LEMMA SpendFalls ==
  ASSUME IsFiniteSet(Holding), IsFiniteSet(Holding'), NEW w,
         \A r \in Runs : Counts(r, w)' => Counts(r, w)
  PROVE  \A o \in Orgs : /\ SpentThisPeriod(w, o)' <= SpentThisPeriod(w, o)
                         /\ SpentThisPeriod(w, o)' \in Nat
                         /\ SpentThisPeriod(w, o) \in Nat
<1> TAKE o \in Orgs
<1> DEFINE counted == {r \in Runs : OrgOf[r] = o /\ Counts(r, w)}
<1>1. /\ SpentThisPeriod(w, o) = SumFunctionOnSet(Cost, counted)
      /\ IsFiniteSet(counted) /\ SpentThisPeriod(w, o) \in Nat
  BY Spent
<1>2. SpentThisPeriod(w, o)' = SumFunctionOnSet(Cost, counted')
  <2>1. counted' = {r \in Runs : /\ OrgOf[r] = o /\ Written(Hold(r))' /\ ~Written(Refund(r))'
                                 /\ entry'[Hold(r)] = w /\ run'[r].since = month'}
    BY DEF Counts
  <2> HIDE DEF counted
  <2> QED
    BY <2>1 DEF SpentThisPeriod
<1>3. counted' \in SUBSET counted /\ \A r \in counted : Cost[r] \in Nat
  BY Constants
<1> HIDE DEF counted
<1>4. SumFunctionOnSet(Cost, counted') <= SumFunctionOnSet(Cost, counted)
  BY <1>1, <1>3, SumOfFewer
<1>5. IsFiniteSet(counted') /\ \A r \in counted' : Cost[r] \in Nat
  BY <1>1, <1>3, FS_Subset
<1>6. SumFunctionOnSet(Cost, counted') \in Nat
  BY <1>5, SumOfFewer
<1> QED
  BY <1>1, <1>2, <1>4, <1>6

LEMMA CapFalls ==
  ASSUME WalletInv, CapInv, WalletTypeOK', Holding' \subseteq Holding,
         \A r \in Runs, w \in Wallets : Counts(r, w)' => Counts(r, w),
         \A r \in Runs : /\ run'[r].since <= month'
                         /\ run'[r].pc = "reserving" => WithinCap(r, run'[r].wallet)
  PROVE  CapInv'
<1>1. IsFiniteSet(Holding) /\ IsFiniteSet(Holding')
  BY FS_Subset DEF CapInv
<1>2. \A w \in Wallets, o \in Orgs :
        /\ SpentThisPeriod(w, o)' <= SpentThisPeriod(w, o)
        /\ SpentThisPeriod(w, o)' \in Nat /\ SpentThisPeriod(w, o) \in Nat
  BY <1>1, SpendFalls
<1>3. \A o \in Orgs : Cap[o] # Null => Cap[o] \in Nat
  BY WalletAssumption DEF WalletAssumption
<1>4. CapKept'
  BY <1>2, <1>3 DEF CapInv, CapKept
<1>5. ReadUnderCap'
  <2> SUFFICES ASSUME NEW r \in Runs, run'[r].pc = "reserving"
               PROVE  WithinCap(r, run[r].wallet)'
    BY DEF ReadUnderCap
  <2>1. PICK w \in Wallets : w = run'[r].wallet
    BY DEF WalletTypeOK
  <2>2. OrgOf[r] \in Orgs /\ Cost[r] \in Nat
    BY Constants, WalletAssumption DEF WalletAssumption
  <2>3. WithinCap(r, w)
    BY <2>1
  <2>4. WithinCap(r, w)'
    <3> SUFFICES ASSUME Cap[OrgOf[r]] # Null
                 PROVE  SpentThisPeriod(w, OrgOf[r])' + Cost[r] <= Cap[OrgOf[r]]
      BY DEF WithinCap
    <3>1. SpentThisPeriod(w, OrgOf[r]) + Cost[r] <= Cap[OrgOf[r]]
      BY <2>3 DEF WithinCap
    <3>2. Cap[OrgOf[r]] \in Nat
      BY <1>3, <2>2
    <3> QED
      BY <1>2, <2>2, <3>1, <3>2
  <2> QED
    BY <2>1, <2>4 DEF WithinCap, SpentThisPeriod
<1>6. MonthsPast'
  BY DEF MonthsPast
<1> QED
  BY <1>1, <1>4, <1>5, <1>6 DEF CapInv

(* A step that leaves runs, months and the rows of runs alone.              *)
LEMMA CapStill ==
  ASSUME WalletInv, CapInv, WalletTypeOK', UNCHANGED <<run, month>>,
         \A r \in Runs : /\ entry'[Hold(r)] = entry[Hold(r)]
                         /\ entry'[Refund(r)] = entry[Refund(r)]
  PROVE  CapInv'
<1>1. /\ Holding' \subseteq Holding
      /\ \A r \in Runs, w \in Wallets : Counts(r, w)' => Counts(r, w)
  BY DEF Holding, Counts, Written
<1>2. \A r \in Runs : /\ run'[r].since <= month'
                      /\ run'[r].pc = "reserving" => WithinCap(r, run'[r].wallet)
  BY DEF CapInv, MonthsPast, ReadUnderCap
<1> QED
  BY <1>1, <1>2, CapFalls

LEMMA CapAside ==
  ASSUME WalletInv, CapInv, Aside, UNCHANGED <<groupVars, otherVars>>
  PROVE  CapInv'
<1>1. WalletTypeOK'
  BY AsideKeeps DEF WalletInv
<1>2. CASE UNCHANGED ledgerVars
  BY <1>1, <1>2, CapStill DEF ledgerVars, otherVars
<1>3. CASE \E c, w, d : BooksAside(c, w, d)
  <2>1. PICK c, w, d : BooksAside(c, w, d)
    BY <1>3
  <2>2. Books(c, w, d) /\ c.kind \notin {"hold", "refund"}
    BY <2>1 DEF BooksAside
  <2>3. \A e \in Causes : e # c => entry'[e] = entry[e]
    BY <2>2, BooksEffect
  <2>4. \A r \in Runs : /\ entry'[Hold(r)] = entry[Hold(r)]
                        /\ entry'[Refund(r)] = entry[Refund(r)]
    BY <2>2, <2>3, RunCauses
  <2> QED
    BY <1>1, <2>4, CapStill DEF otherVars
<1> QED
  BY <1>2, <1>3 DEF Aside

(* A run that takes no hold leaves the cap kept.                            *)
LEMMA CapLeaving ==
  ASSUME WalletInv, CapInv, WalletTypeOK', NEW r \in Runs, NEW pc, Leaves(r, pc),
         run'[r].since \in {0, run[r].since},
         \A s \in Runs : /\ entry'[Hold(s)] = entry[Hold(s)]
                         /\ Written(Refund(s)) => Written(Refund(s))'
  PROVE  CapInv'
<1>1. /\ month' = month /\ month \in Nat \ {0}
      /\ \A s \in Runs : /\ s # r => run'[s] = run[s]
                         /\ run'[s].since \in {0, run[s].since}
                         /\ run[s].since \in Nat
                         /\ run'[s].pc = "reserving" => s # r
  BY Constants DEF Leaves, OtherRuns, WalletInv, WalletTypeOK
<1>2. /\ Holding' \subseteq Holding
      /\ \A s \in Runs, w \in Wallets : Counts(s, w)' => Counts(s, w)
  BY <1>1 DEF Holding, Counts, Written
<1>3. \A s \in Runs : /\ run'[s].since <= month'
                      /\ run'[s].pc = "reserving" => WithinCap(s, run'[s].wallet)
  BY <1>1 DEF CapInv, MonthsPast, ReadUnderCap
<1> QED
  BY <1>2, <1>3, CapFalls

LEMMA CapReserveRead ==
  ASSUME WalletInv, CapInv, NEW r \in Runs, NEW w \in Wallets, ReserveRead(r, w)
  PROVE  CapInv'
<1>1. /\ WalletTypeOK' /\ run \in [Runs -> RunOf] /\ month \in Nat \ {0}
      /\ UNCHANGED <<ledgerVars, month>>
  BY Constants, ReserveReadKeeps DEF ReserveRead, WalletInv, WalletTypeOK, RunOf
<1>2. /\ \A s \in Runs : s # r => run'[s] = run[s]
      /\ run'[r].since = 0
      /\ run'[r].pc = "reserving" => run'[r].wallet = w /\ WithinCap(r, w)
  BY <1>1 DEF ReserveRead, Quit, Outside, Reserving, RunOf
<1>3. /\ Holding' \subseteq Holding
      /\ \A s \in Runs, v \in Wallets : Counts(s, v)' => Counts(s, v)
  BY <1>1, <1>2 DEF Holding, Counts, Written, ledgerVars
<1>4. \A s \in Runs : /\ run'[s].since <= month'
                      /\ run'[s].pc = "reserving" => WithinCap(s, run'[s].wallet)
  BY <1>1, <1>2 DEF CapInv, MonthsPast, ReadUnderCap
<1> QED
  BY <1>1, <1>3, <1>4, CapFalls

(* The hold that is written is the one the cap was read for.                *)
LEMMA CapReserveWrite ==
  ASSUME WalletInv, CapInv, NEW r \in Runs, ReserveWrite(r)
  PROVE  CapInv'
<1>0. /\ WalletTypeOK' /\ run \in [Runs -> RunOf] /\ run[r].pc = "reserving"
      /\ month' = month /\ month \in Nat \ {0}
  BY Constants, ReserveWriteKeeps DEF ReserveWrite, WalletInv, WalletTypeOK, RunOf
<1>1. /\ WalletTypeOK' /\ run \in [Runs -> RunOf] /\ run[r].pc = "reserving"
      /\ month' = month /\ month \in Nat \ {0}
      /\ \A s \in Runs : s # r => run'[s] = run[s]
      /\ run'[r].pc # "reserving"
  <2>1. \/ run' = [run EXCEPT ![r] = [Outside EXCEPT !.pc = "held", !.since = month]]
        \/ run' = [run EXCEPT ![r] = [Outside EXCEPT !.pc = "refused"]]
    BY DEF ReserveWrite, Quit
  <2> QED
    BY <1>0, <2>1 DEF Outside
<1>2. CASE ~Covered(r)
  <2>1. run'[r].since = 0 /\ UNCHANGED ledgerVars
    BY <1>1, <1>2 DEF ReserveWrite, Quit, Outside
  <2>2. /\ Holding' \subseteq Holding
        /\ \A s \in Runs, v \in Wallets : Counts(s, v)' => Counts(s, v)
    BY <1>1, <2>1 DEF Holding, Counts, Written, ledgerVars
  <2>3. \A s \in Runs : /\ run'[s].since <= month'
                        /\ run'[s].pc = "reserving" => WithinCap(s, run'[s].wallet)
    BY <1>1, <2>1 DEF CapInv, MonthsPast, ReadUnderCap
  <2> QED
    BY <1>1, <2>2, <2>3, CapFalls
<1>3. CASE Covered(r)
  <2> DEFINE Of(v, o) == {s \in Runs : OrgOf[s] = o /\ Counts(s, v)}
  <2>1. PICK w \in Wallets : w = run[r].wallet
    BY <1>1 DEF WalletInv, WalletTypeOK
  <2>2. PICK d : d = Minus(Nothing, run[r].cut)
    OBVIOUS
  <2>3. Books(Hold(r), w, d)
    BY <1>3, <2>1, <2>2, HoldBooked
  <2>4. /\ entry'[Hold(r)] = w
        /\ \A e \in Causes : e # Hold(r) => entry'[e] = entry[e]
    BY <2>3, BooksEffect
  <2>5. /\ ~Written(Hold(r)) /\ ~Written(Refund(r))
        /\ \A s \in Runs : /\ s # r => entry'[Hold(s)] = entry[Hold(s)]
                           /\ entry'[Refund(s)] = entry[Refund(s)]
    BY <1>1, <2>4, RunCauses DEF WalletInv, ChargedAsRun
  <2>6. run'[r].since = month
    BY <1>1, <1>3 DEF ReserveWrite, Outside
  <2>7. \A s \in Runs, v \in Wallets :
          Counts(s, v)' <=> Counts(s, v) \/ (s = r /\ v = w)
    BY <1>1, <2>4, <2>5, <2>6, Constants DEF Counts, Written
  <2>8. Holding' = Holding \cup {r} /\ IsFiniteSet(Holding) /\ IsFiniteSet(Holding')
    <3>1. Holding' = Holding \cup {r}
      BY <2>4, <2>5, Constants DEF Holding, Written
    <3> QED
      BY <3>1, FS_AddElement DEF CapInv
  <2>9. \A v \in Wallets, o \in Orgs :
          /\ SpentThisPeriod(v, o) = SumFunctionOnSet(Cost, Of(v, o))
          /\ IsFiniteSet(Of(v, o)) /\ SpentThisPeriod(v, o) \in Nat
    BY <2>8, Spent
  <2>10. \A v \in Wallets, o \in Orgs :
           SpentThisPeriod(v, o)' = SumFunctionOnSet(Cost, Of(v, o)')
    <3> SUFFICES ASSUME NEW v \in Wallets, NEW o \in Orgs
                 PROVE  SpentThisPeriod(v, o)' = SumFunctionOnSet(Cost, Of(v, o)')
      OBVIOUS
    <3> DEFINE counted == Of(v, o)
    <3>1. counted' = {s \in Runs : /\ OrgOf[s] = o /\ Written(Hold(s))' /\ ~Written(Refund(s))'
                                   /\ entry'[Hold(s)] = v /\ run'[s].since = month'}
      BY DEF Counts
    <3> HIDE DEF counted
    <3>2. SpentThisPeriod(v, o)' = SumFunctionOnSet(Cost, counted')
      BY <3>1 DEF SpentThisPeriod
    <3> QED
      BY <3>2 DEF counted
  <2>11. \A v \in Wallets, o \in Orgs :
           v # w \/ o # OrgOf[r] => SpentThisPeriod(v, o)' = SpentThisPeriod(v, o)
    <3> SUFFICES ASSUME NEW v \in Wallets, NEW o \in Orgs, v # w \/ o # OrgOf[r]
                 PROVE  SpentThisPeriod(v, o)' = SpentThisPeriod(v, o)
      OBVIOUS
    <3>1. Of(v, o)' = Of(v, o)
      BY <2>7
    <3> QED
      BY <2>9, <2>10, <3>1
  <2>12. OrgOf[r] \in Orgs /\ SpentThisPeriod(w, OrgOf[r])' = SpentThisPeriod(w, OrgOf[r]) + Cost[r]
    <3> DEFINE o == OrgOf[r]
               before == Of(w, o)
    <3>1. o \in Orgs /\ \A s \in before \cup {r} : Cost[s] \in Int
      BY Constants, WalletAssumption DEF WalletAssumption
    <3>2. before' = before \cup {r} /\ r \notin before
      BY <2>5, <2>7 DEF Counts
    <3>3. IsFiniteSet(before) /\ SpentThisPeriod(w, o) = SumFunctionOnSet(Cost, before)
      BY <2>9, <3>1
    <3>4. SpentThisPeriod(w, o)' = SumFunctionOnSet(Cost, before \cup {r})
      BY <2>10, <3>1, <3>2
    <3> HIDE DEF before
    <3>5. SumFunctionOnSet(Cost, before \cup {r}) = SumFunctionOnSet(Cost, before) + Cost[r]
      BY <3>1, <3>2, <3>3, SumOneMore
    <3> QED
      BY <3>1, <3>3, <3>4, <3>5
  <2>13. CapKept'
    <3> SUFFICES ASSUME NEW v \in Wallets, NEW o \in Orgs, Cap[o] # Null
                 PROVE  SpentThisPeriod(v, o)' <= Cap[o]
      BY DEF CapKept
    <3>1. CASE v = w /\ o = OrgOf[r]
      <4>1. WithinCap(r, w)
        BY <1>1, <2>1 DEF CapInv, ReadUnderCap
      <4> QED
        BY <2>12, <3>1, <4>1 DEF WithinCap
    <3>2. CASE v # w \/ o # OrgOf[r]
      BY <2>11, <3>2 DEF CapInv, CapKept
    <3> QED
      BY <3>1, <3>2
  <2>14. ReadUnderCap'
    <3> SUFFICES ASSUME NEW s \in Runs, run'[s].pc = "reserving"
                 PROVE  WithinCap(s, run[s].wallet)'
      BY DEF ReadUnderCap
    <3>1. PICK v \in Wallets : v = run'[s].wallet
      BY <1>1 DEF WalletTypeOK
    <3>2. run'[s] = run[s] /\ v # w
      BY <1>1, <2>1, <3>1 DEF WalletInv, LocksApart, Reserves
    <3>3. WithinCap(s, v)
      BY <3>1, <3>2 DEF CapInv, ReadUnderCap
    <3>4. OrgOf[s] \in Orgs
      BY WalletAssumption DEF WalletAssumption
    <3>5. WithinCap(s, v)'
      BY <2>11, <3>2, <3>3, <3>4 DEF WithinCap
    <3> QED
      BY <3>1, <3>5 DEF WithinCap, SpentThisPeriod
  <2>15. MonthsPast'
    BY <1>1, <2>6 DEF CapInv, MonthsPast
  <2> QED
    BY <2>8, <2>13, <2>14, <2>15 DEF CapInv
<1> QED
  BY <1>2, <1>3

LEMMA CapRunStep ==
  ASSUME WalletInv, CapInv, NEW r \in Runs, RunStep(r)
  PROVE  CapInv'
<1>1. /\ WalletTypeOK' /\ run \in [Runs -> RunOf] /\ month \in Nat \ {0}
      /\ crashes \in 0..MaxCrashes
  BY StepKeeps, Constants DEF WalletNext, OwnStep, WalletInv, WalletTypeOK, RunOf
<1>2. CASE \E w \in Wallets : ReserveRead(r, w)
  BY <1>2, CapReserveRead
<1>3. CASE ReserveWrite(r)
  BY <1>3, CapReserveWrite
<1>4. CASE Settle(r)
  <2>1. /\ [run[r] EXCEPT !.pc = "settled"] \in RunOf
        /\ [run[r] EXCEPT !.pc = "settled"].pc = "settled"
        /\ [run[r] EXCEPT !.pc = "settled"].since = run[r].since
    BY <1>1 DEF RunOf, RunPcs
  <2>2. Leaves(r, "settled") /\ run'[r].since = run[r].since /\ entry' = entry
    BY <1>1, <1>4, <2>1 DEF Settle, Goto, Leaves, OtherRuns, ledgerVars
  <2> QED
    BY <1>1, <2>2, CapLeaving DEF Written
<1>5. CASE Release(r)
  <2>1. /\ [run[r] EXCEPT !.pc = "released"] \in RunOf
        /\ [run[r] EXCEPT !.pc = "released"].pc = "released"
        /\ [run[r] EXCEPT !.pc = "released"].since = run[r].since
    BY <1>1 DEF RunOf, RunPcs
  <2>2. Leaves(r, "released") /\ run'[r].since = run[r].since
    BY <1>1, <1>5, <2>1 DEF Release, Goto, Leaves, OtherRuns
  <2>3. PICK w, d : Books(Refund(r), w, d) /\ w \in Wallets
    BY <1>5, RefundBooked
  <2>4. /\ entry'[Refund(r)] = w
        /\ \A e \in Causes : e # Refund(r) => entry'[e] = entry[e]
    BY <2>3, BooksEffect
  <2>5. \A s \in Runs : /\ entry'[Hold(s)] = entry[Hold(s)]
                        /\ Written(Refund(s)) => Written(Refund(s))'
    BY <2>3, <2>4, RunCauses, Constants DEF Written
  <2> QED
    BY <1>1, <2>2, <2>5, CapLeaving
<1>6. CASE CrashRun(r)
  <2>1. crashes' \in 0..MaxCrashes
    BY <1>6, StepKeeps DEF WalletNext, OwnStep, RunStep, WalletInv, WalletTypeOK
  <2>2. Leaves(r, "lost") /\ run'[r].since = 0 /\ entry' = entry
    BY <1>1, <1>6, <2>1, OutsideTyped
       DEF CrashRun, Quit, Leaves, OtherRuns, RunPcs, Outside, ledgerVars
  <2> QED
    BY <1>1, <2>2, CapLeaving DEF Written
<1> QED
  BY <1>2, <1>3, <1>4, <1>5, <1>6 DEF RunStep

LEMMA CapStep ==
  ASSUME WalletInv, CapInv, [WalletNext]_walletVars
  PROVE  CapInv'
<1>0. WalletTypeOK'
  BY StepKeeps DEF WalletInv
<1>1. CASE UNCHANGED walletVars
  BY <1>0, <1>1, CapStill DEF walletVars, ledgerVars, otherVars
<1>2. CASE PaymentStep \/ \E w \in Wallets : GrantStep(w)
  BY <1>2, GrantsAside, CapAside
<1>3. CASE \E r \in Runs : RunStep(r)
  BY <1>3, CapRunStep
<1>4. CASE \E o \in Orgs : MoveStep(o)
  <2>1. UNCHANGED <<run, month, entry>>
    BY <1>4 DEF MoveStep, Attach, Detach, Begin, CommitMove, CloseEmptyGroup,
       CrashMove, ledgerVars, otherVars
  <2> QED
    BY <1>0, <2>1, CapStill
<1>5. CASE MonthPasses
  <2>1. /\ month \in Nat /\ month' = month + 1
        /\ UNCHANGED <<run, entry>> /\ \A r \in Runs : run[r].since \in Nat
    BY <1>5, Constants DEF MonthPasses, ledgerVars, WalletInv, WalletTypeOK
  <2>2. \A r \in Runs : run[r].since <= month
    BY DEF CapInv, MonthsPast
  <2>3. /\ Holding' \subseteq Holding
        /\ \A r \in Runs, w \in Wallets : Counts(r, w)' => Counts(r, w)
    BY <2>1, <2>2 DEF Holding, Counts, Written
  <2>4. \A r \in Runs : /\ run'[r].since <= month'
                        /\ run'[r].pc = "reserving" => WithinCap(r, run'[r].wallet)
    BY <2>1, <2>2 DEF CapInv, ReadUnderCap
  <2> QED
    BY <1>0, <2>3, <2>4, CapFalls
<1> QED
  BY <1>1, <1>2, <1>3, <1>4, <1>5 DEF WalletNext, OwnStep

LEMMA InitCap == WalletInit => CapInv
<1> SUFFICES ASSUME WalletInit PROVE CapInv
  OBVIOUS
<1>1. \A r \in Runs : ~Written(Hold(r)) /\ run[r] = Outside
  BY RunCauses DEF WalletInit, Written
<1>2. Holding = {} /\ IsFiniteSet(Holding)
  BY <1>1, FS_EmptySet DEF Holding
<1>3. CapKept
  <2> SUFFICES ASSUME NEW w \in Wallets, NEW o \in Orgs, Cap[o] # Null
               PROVE  SpentThisPeriod(w, o) <= Cap[o]
    BY DEF CapKept
  <2> DEFINE counted == {r \in Runs : OrgOf[r] = o /\ Counts(r, w)}
  <2>1. SpentThisPeriod(w, o) = SumFunctionOnSet(Cost, counted) /\ counted = {}
    BY <1>1, <1>2, Spent DEF Counts
  <2> HIDE DEF counted
  <2>2. Cap[o] \in Nat
    BY WalletAssumption DEF WalletAssumption
  <2> QED
    BY <2>1, <2>2, SumEmpty
<1>4. ReadUnderCap /\ MonthsPast
  BY <1>1 DEF WalletInit, ReadUnderCap, MonthsPast, Outside
<1> QED
  BY <1>2, <1>3, <1>4 DEF CapInv

(* Runs of one organisation at a time, with refunds and the turn of the month
   between them, never take it past its monthly cap: what reserve reads under
   the lock bounds what the hold it writes makes of the spend.              *)
THEOREM CapIsKept == WalletSpec => []CapKept
<1>1. WalletInv /\ CapInv /\ [WalletNext]_walletVars => CapInv'
  BY CapStep
<1>2. CapInv => CapKept
  BY DEF CapInv
<1> QED
  BY <1>1, <1>2, InitCap, InvHolds, PTL DEF WalletSpec

(***************************************************************************)
(* The lifetime cap of the milestones.                                      *)
(***************************************************************************)
EarnedBy == [o \in Earners |-> delta[Earn(o)]["pack"]]
EarnersOn(w) == {o \in Earners : Written(Earn(o)) /\ entry[Earn(o)] = w}
EarnInv == EarnCapKept /\ IsFiniteSet({o \in Earners : Written(Earn(o))})

EarnUntouched ==
  \A o \in Earners : /\ entry'[Earn(o)] = entry[Earn(o)]
                     /\ delta'[Earn(o)] = delta[Earn(o)]

LEMMA EarnCauses ==
  ASSUME WalletInv, NEW o \in Earners
  PROVE  Earn(o) \in Causes /\ Earn(o).kind = "earn" /\ EarnedBy[o] \in Int
<1>1. Earn(o) \in Causes /\ Earn(o).kind = "earn"
  BY DEF Causes, Earn, About
<1>2. delta[Earn(o)]["pack"] \in Int
  BY <1>1 DEF WalletInv, WalletTypeOK, Buckets
<1> QED
  BY <1>1, <1>2 DEF EarnedBy

LEMMA EarnedSums ==
  ASSUME EarnInv, NEW w
  PROVE  Earned(w) = SumFunctionOnSet(EarnedBy, EarnersOn(w)) /\ IsFiniteSet(EarnersOn(w))
<1>1. EarnersOn(w) \in SUBSET {o \in Earners : Written(Earn(o))}
  BY DEF EarnersOn
<1>2. IsFiniteSet(EarnersOn(w))
  BY <1>1, FS_Subset DEF EarnInv
<1> QED
  BY <1>2 DEF Earned, EarnedBy, EarnersOn

LEMMA OtherAppend ==
  ASSUME WalletInv, NEW c, NEW w, NEW d, Append(c, w, d), c.kind # "earn"
  PROVE  EarnUntouched
<1>1. \A o \in Earners : Earn(o) \in Causes /\ Earn(o) # c
  BY EarnCauses
<1> QED
  BY <1>1 DEF EarnUntouched, Append, ledgerVars, WalletInv, WalletTypeOK

LEMMA EarnStill ==
  ASSUME EarnInv, EarnUntouched PROVE EarnInv'
<1>1. \A o \in Earners : Written(Earn(o))' = Written(Earn(o))
  BY DEF EarnUntouched, Written
<1>2. \A w \in Wallets : Earned(w)' = Earned(w)
  <2> SUFFICES ASSUME NEW w \in Wallets PROVE Earned(w)' = Earned(w)
    OBVIOUS
  <2>1. EarnedBy' = EarnedBy
    BY DEF EarnedBy, EarnUntouched
  <2>2. EarnersOn(w)' = EarnersOn(w)
    BY <1>1 DEF EarnersOn, EarnUntouched
  <2> QED
    BY <2>1, <2>2 DEF Earned, EarnedBy, EarnersOn
<1>3. {o \in Earners : Written(Earn(o))}' = {o \in Earners : Written(Earn(o))}
  BY <1>1
<1> QED
  BY <1>2, <1>3 DEF EarnInv, EarnCapKept

(* What is granted fits under what the wallet has earned so far.            *)
LEMMA EarnGranted ==
  ASSUME WalletInv, EarnInv, NEW o \in Earners, NEW w \in Wallets, RecordEarnGrant(o, w)
  PROVE  EarnInv'
<1> DEFINE n == Lower(EarnAmount, Headroom(o, w))
<1>1. CASE n \notin 1..EarnAmount \/ Written(Earn(o))
  <2>1. UNCHANGED ledgerVars
    BY <1>1 DEF RecordEarnGrant, Append
  <2> QED
    BY <2>1, EarnStill DEF EarnUntouched, ledgerVars
<1>2. CASE n \in 1..EarnAmount /\ ~Written(Earn(o))
  <2>1. n \in Int /\ Append(Earn(o), w, Amounts(0, n))
    BY <1>2, Constants DEF RecordEarnGrant
  <2>2. /\ \A p \in Earners : Earn(p) \in Causes /\ EarnedBy[p] \in Int
        /\ \A p \in Earners : p # o => Earn(p) # Earn(o)
    BY EarnCauses DEF Earn, About
  <2>3. Earned(w) = SumFunctionOnSet(EarnedBy, EarnersOn(w)) /\ Earned(w) \in Int
    <3>1. Earned(w) = SumFunctionOnSet(EarnedBy, EarnersOn(w)) /\ IsFiniteSet(EarnersOn(w))
      BY EarnedSums
    <3>2. \A p \in EarnersOn(w) : EarnedBy[p] \in Int
      BY <2>2 DEF EarnersOn
    <3> QED
      BY <3>1, <3>2, SumTakesOut
  <2>4. n <= EarnCap - Earned(w)
    BY <2>3, Constants DEF Lower, Headroom
  <2> DEFINE d == Amounts(0, n)
  <2> HIDE DEF n
  <2>5. d["pack"] = n
    BY <2>1, AmountsTyped
  <2> HIDE DEF d
  <2>6. /\ entry'[Earn(o)] = w /\ delta'[Earn(o)] = d
        /\ \A p \in Earners : p # o => /\ entry'[Earn(p)] = entry[Earn(p)]
                                       /\ delta'[Earn(p)] = delta[Earn(p)]
    BY <1>2, <2>1, <2>2 DEF Append, WalletInv, WalletTypeOK, d
  <2>7. /\ EarnedBy'[o] = n
        /\ \A p \in Earners : p # o => EarnedBy'[p] = EarnedBy[p]
    BY <2>5, <2>6 DEF EarnedBy
  <2>8. \A v \in Wallets : EarnersOn(v)' = IF v = w THEN EarnersOn(v) \cup {o} ELSE EarnersOn(v)
    BY <1>2, <2>6, Constants DEF EarnersOn, Written
  <2>9. \A v : Earned(v)' = SumFunctionOnSet(EarnedBy', EarnersOn(v)')
    BY DEF Earned, EarnedBy, EarnersOn
  <2>10. \A v \in Wallets :
           /\ Earned(v) = SumFunctionOnSet(EarnedBy', EarnersOn(v))
           /\ IsFiniteSet(EarnersOn(v)) /\ o \notin EarnersOn(v)
    <3> SUFFICES ASSUME NEW v \in Wallets
                 PROVE  /\ Earned(v) = SumFunctionOnSet(EarnedBy', EarnersOn(v))
                        /\ IsFiniteSet(EarnersOn(v)) /\ o \notin EarnersOn(v)
      OBVIOUS
    <3>1. /\ Earned(v) = SumFunctionOnSet(EarnedBy, EarnersOn(v))
          /\ IsFiniteSet(EarnersOn(v)) /\ o \notin EarnersOn(v)
      BY <1>2, EarnedSums DEF EarnersOn
    <3>2. \A p \in EarnersOn(v) : EarnedBy[p] \in Int /\ EarnedBy'[p] = EarnedBy[p]
      BY <2>2, <2>7, <3>1 DEF EarnersOn
    <3>3. SumFunctionOnSet(EarnedBy', EarnersOn(v)) = SumFunctionOnSet(EarnedBy, EarnersOn(v))
      <4> DEFINE V == EarnedBy'
      <4>1. \A p \in EarnersOn(v) : V[p] = EarnedBy[p]
        BY <3>2
      <4> HIDE DEF V
      <4>2. SumFunctionOnSet(V, EarnersOn(v)) = SumFunctionOnSet(EarnedBy, EarnersOn(v))
        BY <3>1, <3>2, <4>1, SumSame
      <4> QED
        BY <4>2 DEF V
    <3> QED
      BY <3>1, <3>3
  <2>11. Earned(w)' = Earned(w) + n
    <3> DEFINE V == EarnedBy'
    <3>1. \A p \in EarnersOn(w) \cup {o} : V[p] \in Int
      BY <2>1, <2>2, <2>7 DEF EarnersOn
    <3>2. V[o] = n
      BY <2>7
    <3> HIDE DEF V
    <3>3. SumFunctionOnSet(V, EarnersOn(w) \cup {o}) = SumFunctionOnSet(V, EarnersOn(w)) + V[o]
      BY <2>10, <3>1, SumOneMore
    <3>4. Earned(w)' = SumFunctionOnSet(V, EarnersOn(w) \cup {o})
      BY <2>8, <2>9 DEF V
    <3>5. Earned(w) = SumFunctionOnSet(V, EarnersOn(w))
      BY <2>10 DEF V
    <3> QED
      BY <3>2, <3>3, <3>4, <3>5
  <2>12. \A v \in Wallets : v # w => Earned(v)' = Earned(v)
    BY <2>8, <2>9, <2>10
  <2>13. EarnCapKept'
    BY <2>1, <2>3, <2>4, <2>11, <2>12, Constants DEF EarnInv, EarnCapKept
  <2>14. IsFiniteSet({p \in Earners : Written(Earn(p))})'
    <3>1. {p \in Earners : Written(Earn(p))}' = {p \in Earners : Written(Earn(p))} \cup {o}
      BY <2>6, Constants DEF Written
    <3> QED
      BY <3>1, FS_AddElement DEF EarnInv
  <2> QED
    BY <2>13, <2>14 DEF EarnInv
<1> QED
  BY <1>1, <1>2

LEMMA EarnStep ==
  ASSUME WalletInv, EarnInv, [WalletNext]_walletVars
  PROVE  EarnInv'
<1>1. CASE UNCHANGED ledgerVars
  BY <1>1, EarnStill DEF EarnUntouched, ledgerVars
<1>2. CASE \E c, w, d : Append(c, w, d) /\ c.kind # "earn"
  BY <1>2, OtherAppend, EarnStill
<1>3. CASE PaymentStep
  <2>1. PICK p \in Purchases : RecordRefund(p) \/ \E w \in Wallets : RecordPurchase(p, w)
    BY <1>3 DEF PaymentStep
  <2>2. Pack(p).kind # "earn" /\ Clawback(p).kind # "earn"
    BY DEF Pack, Clawback, About
  <2> QED
    BY <1>1, <1>2, <2>1, <2>2 DEF RecordRefund, RecordPurchase
<1>4. CASE \E w \in Wallets : GrantStep(w)
  <2>1. PICK w \in Wallets : GrantStep(w)
    BY <1>4
  <2>2. CASE GrantMonthly(w) \/ GrantTrial(w)
    <3>1. Monthly(w, month).kind # "earn" /\ Trial(w).kind # "earn"
      BY DEF Monthly, Trial, About
    <3> QED
      BY <1>1, <1>2, <2>2, <3>1 DEF GrantMonthly, GrantTrial
  <2>3. CASE \E o \in Earners : RecordEarnGrant(o, w)
    BY <2>3, EarnGranted
  <2>4. CASE \E j \in Adjustments : AdminAdjust(j, w)
    <3>1. PICK j \in Adjustments : AdminAdjust(j, w)
      BY <2>4
    <3>2. Adjust(j).kind # "earn"
      BY DEF Adjust, About
    <3> QED
      BY <1>2, <3>1, <3>2 DEF AdminAdjust
  <2> QED
    BY <2>1, <2>2, <2>3, <2>4 DEF GrantStep
<1>5. CASE \E r \in Runs : RunStep(r)
  <2>1. PICK r \in Runs : RunStep(r)
    BY <1>5
  <2>2. Hold(r).kind # "earn" /\ Refund(r).kind # "earn"
    BY DEF Hold, Refund, About
  <2> QED
    BY <1>1, <1>2, <2>1, <2>2 DEF RunStep, ReserveRead, ReserveWrite, Settle, Release, CrashRun
<1>6. CASE \E o \in Orgs : MoveStep(o)
  <2>1. entry' = entry /\ delta' = delta
    BY <1>6 DEF MoveStep, Attach, Detach, Begin, CommitMove, CloseEmptyGroup,
       CrashMove, ledgerVars
  <2> QED
    BY <2>1, EarnStill DEF EarnUntouched
<1>7. CASE MonthPasses
  BY <1>1, <1>7 DEF MonthPasses
<1>8. CASE UNCHANGED walletVars
  BY <1>1, <1>8 DEF walletVars
<1> QED
  BY <1>3, <1>4, <1>5, <1>6, <1>7, <1>8 DEF WalletNext, OwnStep

LEMMA InitEarn == WalletInit => EarnInv
<1> SUFFICES ASSUME WalletInit PROVE EarnInv
  OBVIOUS
<1>1. {o \in Earners : Written(Earn(o))} = {}
  BY DEF WalletInit, Written, Causes
<1>2. \A w \in Wallets : Earned(w) = SumFunctionOnSet(EarnedBy, {})
  BY <1>1 DEF Earned, EarnedBy
<1> QED
  BY <1>1, <1>2, SumEmpty, FS_EmptySet, Constants DEF EarnInv, EarnCapKept

(* Milestones of organisations that share a wallet, or come to share one by a
   move, never earn it more than the lifetime cap: recordEarnGrant sums what
   the wallet itself was ever given, and nothing takes such a row away.     *)
THEOREM EarnCapIsKept == WalletSpec => []EarnCapKept
<1>1. WalletInv /\ EarnInv /\ [WalletNext]_walletVars => EarnInv'
  BY EarnStep
<1>2. EarnInv => EarnCapKept
  BY DEF EarnInv
<1> QED
  BY <1>1, <1>2, InitEarn, InvHolds, PTL DEF WalletSpec

(***************************************************************************)
(* The ledger implements the pool.                                          *)
(***************************************************************************)
LEMMA CauseKinds ==
  ASSUME NEW c \in Causes
  PROVE  \/ c.kind = "monthly" \/ c.kind = "trial" \/ c.kind = "earn"
         \/ c.kind \in {"pack", "clawback"} /\ c.of \in Purchases
         \/ c.kind = "adjust" /\ c.of \in Adjustments
         \/ c.kind \in {"hold", "refund"} /\ c.of \in Runs
BY DEF Causes, Monthly, Trial, Earn, Pack, Clawback, Adjust, Hold, Refund, About

Least(c, w) == IF Extent(c).least = Null THEN Extent(c).most - Total(w)
               ELSE Extent(c).least

(* A booking changes the total by no more than its cause is worth.          *)
LEMMA BookingFits ==
  ASSUME WalletInv, NEW c, NEW w, NEW d, Books(c, w, d)
  PROVE  Sum(d) \in Least(c, w)..Extent(c).most
<1>1. /\ c \in Causes /\ w \in Wallets /\ Fits(c, w, d) /\ Sum(d) \in Int
      /\ Total(w) \in Int
  BY PlusTyped, WalletNumbers DEF Books, WalletInv
<1>2. CASE c.kind = "monthly"
  <2>1. Extent(c) = [least |-> Null, most |-> Allowance]
    BY <1>2 DEF Extent
  <2> QED
    BY <1>1, <1>2, <2>1, Constants DEF Fits, Least
<1>3. CASE c.kind = "trial"
  <2>1. Extent(c) = [least |-> TrialCredits, most |-> TrialCredits]
    BY <1>3 DEF Extent
  <2> QED
    BY <1>1, <1>3, <2>1, Constants DEF Fits, Least
<1>4. CASE c.kind = "earn"
  <2>1. Extent(c) = [least |-> 1, most |-> EarnAmount]
    BY <1>4 DEF Extent
  <2> QED
    BY <1>1, <1>4, <2>1, Constants DEF Fits, Least
<1>5. CASE c.kind = "pack" /\ c.of \in Purchases
  <2>1. Extent(c) = [least |-> Credits[c.of], most |-> Credits[c.of]]
    BY <1>5 DEF Extent
  <2> QED
    BY <1>1, <1>5, <2>1, Constants DEF Fits, Least
<1>6. CASE c.kind = "clawback" /\ c.of \in Purchases
  <2>1. Extent(c) = [least |-> -Credits[c.of], most |-> -1]
    BY <1>6 DEF Extent
  <2>2. -Credits[c.of] \in Int
    BY <1>6, Constants
  <2> QED
    BY <1>1, <1>6, <2>1, <2>2, Constants DEF Fits, Least
<1>7. CASE c.kind = "adjust" /\ c.of \in Adjustments
  <2>1. Extent(c) = [least |-> AdjustBy[c.of], most |-> AdjustBy[c.of]]
    BY <1>7 DEF Extent
  <2> QED
    BY <1>1, <1>7, <2>1, Constants DEF Fits, Least
<1>8. CASE c.kind = "hold" /\ c.of \in Runs
  <2>1. Extent(c) = [least |-> -Cost[c.of], most |-> -Cost[c.of]]
    BY <1>8 DEF Extent
  <2>2. -Cost[c.of] \in Int
    BY <1>8, Constants
  <2> QED
    BY <1>1, <1>8, <2>1, <2>2, Constants DEF Fits, Least
<1>9. CASE c.kind = "refund" /\ c.of \in Runs
  <2>1. Extent(c) = [least |-> Cost[c.of], most |-> Cost[c.of]]
    BY <1>9 DEF Extent
  <2> QED
    BY <1>1, <1>9, <2>1, Constants DEF Fits, Least
<1> QED
  BY <1>1, <1>2, <1>3, <1>4, <1>5, <1>6, <1>7, <1>8, <1>9, CauseKinds

pools == [w \in Wallets |-> Total(w)]

LEMMA BooksApply ==
  ASSUME WalletInv, NEW c, NEW w, NEW d, Books(c, w, d)
  PROVE  Pool!Next
<1>1. /\ c \in Causes /\ w \in Wallets /\ d \in Change /\ entry[c] = Null
      /\ entry' = [entry EXCEPT ![c] = w] /\ Total(w) + Sum(d) >= 0
  BY DEF Books, Written
<1>2. entry'[c] = w /\ w # Null /\ entry[c] # entry'[c]
  BY <1>1, Constants DEF WalletInv, WalletTypeOK
<1>3. pools' = [pools EXCEPT ![w] = @ + Sum(d)]
  <2>1. balance \in [Wallets -> Change]
    BY DEF WalletInv, WalletTypeOK, Change
  <2>2. Sum(Plus(balance[w], d)) = Total(w) + Sum(d)
    BY <1>1, <2>1, PlusTyped DEF Total
  <2>3. \A v \in Wallets : balance'[v] = IF v = w THEN Plus(balance[w], d) ELSE balance[v]
    BY <1>1, <2>1 DEF Books
  <2>4. \A v \in Wallets : Sum(balance'[v]) = IF v = w THEN Total(w) + Sum(d) ELSE Total(v)
    BY <2>2, <2>3 DEF Total
  <2>5. pools' = [v \in Wallets |-> Sum(balance'[v])]
    BY DEF pools, Total
  <2> QED
    BY <1>1, <2>4, <2>5 DEF pools
<1>4. Sum(d) \in Least(c, w)..Extent(c).most
  BY BookingFits
<1>5. LET u == CASE c.kind = "clawback" -> Pack(c.of)
                 [] c.kind = "refund" -> Hold(c.of)
                 [] OTHER -> Null
      IN  u # Null => entry[u] = w
  <2>1. CASE c.kind = "clawback"
    BY <2>1 DEF Books, Fits
  <2>2. CASE c.kind = "refund"
    BY <2>2 DEF Books, Fits
  <2>3. CASE c.kind \notin {"clawback", "refund"}
    BY <2>3
  <2> QED
    BY <2>1, <2>2, <2>3
<1>6. Pool!Apply(c, w)
  <2>1. Sum(d) \in Pool!Changes(c, w)
    BY <1>1, <1>4 DEF Pool!Changes, Least
  <2>2. pools[w] = Total(w)
    BY <1>1 DEF pools
  <2> QED
    BY <1>1, <1>2, <1>3, <1>5, <2>1, <2>2 DEF Pool!Apply, pools
<1> QED
  BY <1>1, <1>2, <1>6 DEF Pool!Next

LEMMA CommitCarries ==
  ASSUME WalletInv, NEW o \in Orgs, CommitMove(o)
  PROVE  [Pool!Next]_<<pools, entry>>
<1> DEFINE from == move[o].from
           to == move[o].to
           carry == IF move[o].carry = Null THEN Nothing ELSE move[o].carry
<1>1. from \in Wallets /\ to \in Wallets /\ from # to /\ entry' = entry
  BY DEF CommitMove, WalletInv, MovesSound
<1>2. carry \in Change /\ Sum(carry) \in Nat
  <2>1. move[o].carry \in [Buckets -> Nat] \cup {Null}
    BY DEF WalletInv, WalletTypeOK, MoveOf
  <2>2. carry \in [Buckets -> Nat]
    BY <2>1, NothingTyped
  <2> QED
    BY <2>2 DEF Change, Sum, Buckets
<1>3. balance \in [Wallets -> Change]
  BY DEF WalletInv, WalletTypeOK, Change
<1>4. CASE ~(Total(from) >= Sum(carry))
  BY <1>1, <1>4 DEF CommitMove, pools, Total
<1>5. CASE Total(from) >= Sum(carry)
  <2>1. balance' = [balance EXCEPT ![from] = Minus(@, carry), ![to] = Plus(@, carry)]
    BY <1>5 DEF CommitMove
  <2> HIDE DEF carry, from, to
  <2>2. \A v \in Wallets : Sum(balance'[v]) =
          IF v = to THEN Total(to) + Sum(carry)
          ELSE IF v = from THEN Total(from) - Sum(carry) ELSE Total(v)
    <3>1. \A v \in Wallets : balance'[v] =
            IF v = to THEN Plus(balance[to], carry)
            ELSE IF v = from THEN Minus(balance[from], carry) ELSE balance[v]
      BY <1>1, <1>3, <2>1
    <3>2. /\ Sum(Minus(balance[from], carry)) = Total(from) - Sum(carry)
          /\ Sum(Plus(balance[to], carry)) = Total(to) + Sum(carry)
      BY <1>1, <1>2, <1>3, PlusTyped, MinusTyped DEF Total
    <3> QED
      BY <3>1, <3>2 DEF Total
  <2>3. pools' = [v \in Wallets |-> Sum(balance'[v])] /\ pools = [v \in Wallets |-> Total(v)]
    BY DEF pools, Total
  <2>4. \A v \in Wallets : Total(v) \in Int
    BY WalletNumbers DEF WalletInv
  <2>5. pools' = [pools EXCEPT ![from] = @ - Sum(carry), ![to] = @ + Sum(carry)]
    BY <1>1, <2>2, <2>3, <2>4
  <2>6. CASE Sum(carry) = 0
    <3>1. pools' = pools
      BY <1>1, <2>2, <2>3, <2>4, <2>6
    <3> QED
      BY <1>1, <3>1
  <2>7. CASE Sum(carry) # 0
    <3>1. Sum(carry) \in 1..pools[from]
      BY <1>1, <1>2, <1>5, <2>3, <2>4, <2>7
    <3>2. Pool!Carry(from, to)
      BY <1>1, <2>5, <3>1 DEF Pool!Carry, pools
    <3> QED
      BY <1>1, <3>2 DEF Pool!Next
  <2> QED
    BY <2>6, <2>7
<1> QED
  BY <1>4, <1>5

LEMMA StepImplements ==
  ASSUME WalletInv, [WalletNext]_walletVars
  PROVE  [Pool!Next]_<<pools, entry>>
<1>1. CASE UNCHANGED <<balance, entry>>
  BY <1>1 DEF pools, Total
<1>2. CASE PaymentStep \/ \E w \in Wallets : GrantStep(w)
  <2>1. CASE UNCHANGED ledgerVars
    BY <1>1, <2>1 DEF ledgerVars
  <2>2. CASE \E c, w, d : BooksAside(c, w, d)
    BY <2>2, BooksApply DEF BooksAside
  <2> QED
    BY <1>2, <2>1, <2>2, GrantsAside DEF Aside
<1>3. CASE \E r \in Runs : RunStep(r)
  <2>1. PICK r \in Runs : RunStep(r)
    BY <1>3
  <2>2. CASE ReserveWrite(r)
    <3>1. CASE Covered(r)
      BY <2>2, <3>1, HoldBooked, BooksApply
    <3>2. CASE ~Covered(r)
      BY <1>1, <2>2, <3>2 DEF ReserveWrite, ledgerVars
    <3> QED
      BY <3>1, <3>2
  <2>3. CASE Release(r)
    BY <2>3, RefundBooked, BooksApply
  <2>4. CASE (\E w \in Wallets : ReserveRead(r, w)) \/ Settle(r) \/ CrashRun(r)
    BY <1>1, <2>4 DEF ReserveRead, Settle, CrashRun, ledgerVars
  <2> QED
    BY <2>1, <2>2, <2>3, <2>4 DEF RunStep
<1>4. CASE \E o \in Orgs : MoveStep(o)
  <2>1. PICK o \in Orgs : MoveStep(o)
    BY <1>4
  <2>2. CASE CommitMove(o)
    BY <2>2, CommitCarries
  <2>3. CASE ~CommitMove(o)
    BY <1>1, <2>1, <2>3 DEF MoveStep, Attach, Detach, Begin, CloseEmptyGroup,
       CrashMove, ledgerVars
  <2> QED
    BY <2>2, <2>3
<1>5. CASE MonthPasses
  BY <1>1, <1>5 DEF MonthPasses, ledgerVars
<1> QED
  BY <1>1, <1>2, <1>3, <1>4, <1>5 DEF WalletNext, OwnStep, walletVars, ledgerVars

LEMMA InitImplements == WalletInit => Pool!Init
BY NothingTyped DEF WalletInit, Pool!Init, Total

(* The ledger implements the credit pool of its promise: with reserves split
   by their lock, releases without it, moves between groups and events that
   come again, every cause counts once, for no more than it is worth, a refund
   where the debit was, and credits only move when a wallet merges.         *)
THEOREM LedgerImplementsPool == WalletSpec => PoolSpec
<1>1. WalletInv /\ [WalletNext]_walletVars => [Pool!Next]_<<pools, entry>>
  BY StepImplements
<1>2. WalletInv /\ [WalletNext]_walletVars =>
        [Pool!Next]_<<[w \in Wallets |-> Total(w)], entry>>
  BY <1>1 DEF pools
<1> QED
  BY <1>2, InvHolds, InitImplements, PTL DEF WalletSpec, PoolSpec, Pool!Spec
=============================================================================
