---------------------------- MODULE CreditWallet ----------------------------
(***************************************************************************)
(* The AI credit ledger and the wallets it keeps                            *)
(* (apps/web/src/lib/credits.ts), with the moves of organisations between   *)
(* billing groups that merge wallets                                        *)
(* (apps/web/src/server/usecases/billing-groups.ts).                        *)
(*                                                                          *)
(* The grain is the transaction under the wallet's advisory lock.  Its own  *)
(* reads and writes are one step where nothing that commits without the     *)
(* lock can come between them to any effect, and two, with the lock held    *)
(* from one to the other, in reserve and in a move, where it can: release   *)
(* and grantTrialForRow take no wallet lock.                                *)
(***************************************************************************)
EXTENDS Integers, FiniteSets, Functions

CONSTANTS
  Null,
  Orgs,
  Wallets,      \* subscription ids, those not yet minted included
  HomeOf,       \* the billing group each organisation starts in
  Runs, OrgOf, Cost,        \* AI runs: who starts them, what they cost
  Cap,          \* org_credit_allocation: monthly cap per organisation, or Null
  Purchases, Buyer, Credits,    \* paid packs and event passes: who, how many
  Earners, EarnAmount, EarnCap,   \* organisations that reach a milestone
  Trials, TrialCredits,     \* wallets whose subscription starts a trial
  Adjustments, AdjustBy,    \* staff adjustments
  Allowance,    \* the monthly grant
  MaxMonth, MaxMoves, MaxCrashes

ASSUME WalletAssumption ==
  /\ HomeOf \in [Orgs -> Wallets]
  /\ OrgOf \in [Runs -> Orgs]
  /\ Cost \in [Runs -> Nat \ {0}]
  /\ Cap \in [Orgs -> Nat \cup {Null}]
  /\ Buyer \in [Purchases -> Orgs] /\ Credits \in [Purchases -> Nat \ {0}]
  /\ Earners \subseteq Orgs /\ Trials \subseteq Wallets
  /\ AdjustBy \in [Adjustments -> Int \ {0}]
  /\ {EarnAmount, EarnCap, TrialCredits, Allowance} \subseteq Nat \ {0}
  /\ MaxMonth \in Nat \ {0} /\ {MaxMoves, MaxCrashes} \subseteq Nat
  /\ Null \notin Int \cup Wallets

VARIABLES
  balance,      \* sum(delta) per wallet and bucket
  entry,        \* the wallet of the rows about each cause, or Null
  delta,        \* and what they change there
  walletOf,     \* organizations.subscription_id
  homes,        \* history: the wallets each organisation has been in
  group,        \* subscriptions rows: "unborn", "open" or "closed"
  month,        \* the UTC calendar month
  run,          \* each AI run's place in spendCredit
  move,         \* each organisation's attach or detach under way
  moves, crashes

ledgerVars == <<balance, entry, delta>>
groupVars == <<walletOf, homes, group, move, moves>>
otherVars == <<month, run, crashes>>
walletVars == <<ledgerVars, groupVars, otherVars>>

Buckets == {"grant", "pack"}
Amounts(g, p) == [b \in Buckets |-> IF b = "grant" THEN g ELSE p]
Sum(a) == a["grant"] + a["pack"]
Plus(a, d) == [b \in Buckets |-> a[b] + d[b]]
Minus(a, d) == [b \in Buckets |-> a[b] - d[b]]
Positive(n) == IF n > 0 THEN n ELSE 0
Lower(m, n) == IF m < n THEN m ELSE n
Nothing == Amounts(0, 0)
Total(w) == Sum(balance[w])

(* What a row is about: its idempotency key, or the run that it holds for.  *)
About(kind, of, at) == [kind |-> kind, of |-> of, at |-> at]
Monthly(w, m) == About("monthly", w, m)
Trial(w) == About("trial", w, 0)
Pack(p) == About("pack", p, 0)
Clawback(p) == About("clawback", p, 0)
Earn(o) == About("earn", o, 0)
Adjust(j) == About("adjust", j, 0)
Hold(r) == About("hold", r, 0)
Refund(r) == About("refund", r, 0)

Causes ==
  {Monthly(w, m) : w \in Wallets, m \in 1..MaxMonth}
  \cup {Trial(w) : w \in Trials} \cup {Earn(o) : o \in Earners}
  \cup {Pack(p) : p \in Purchases} \cup {Clawback(p) : p \in Purchases}
  \cup {Adjust(j) : j \in Adjustments}
  \cup {Hold(r) : r \in Runs} \cup {Refund(r) : r \in Runs}

Outside == [pc |-> "idle", wallet |-> Null, cut |-> Nothing, since |-> 0]
AtHome == [pc |-> "idle", from |-> Null, to |-> Null, locks |-> Null,
           carry |-> Null]

WalletInit ==
  /\ balance = [w \in Wallets |-> Nothing]
  /\ entry = [c \in Causes |-> Null]
  /\ delta = [c \in Causes |-> Nothing]
  /\ walletOf = HomeOf
  /\ homes = [o \in Orgs |-> {HomeOf[o]}]
  /\ group = [w \in Wallets |->
                IF \E o \in Orgs : HomeOf[o] = w THEN "open" ELSE "unborn"]
  /\ month = 1
  /\ run = [r \in Runs |-> Outside]
  /\ move = [o \in Orgs |-> AtHome]
  /\ moves = 0 /\ crashes = 0

Written(c) == entry[c] # Null

(* Faulty: a row is written although its key is there.                      *)
AppendAgain(c, w, d) ==
  /\ entry' = [entry EXCEPT ![c] = w]
  /\ delta' = [delta EXCEPT ![c] = d]
  /\ balance' = [balance EXCEPT ![w] = Plus(@, d)]

(* appendLedgerRow, on conflict do nothing; there may be a row per bucket.  *)
Append(c, w, d) ==
  IF Written(c) THEN UNCHANGED ledgerVars
  ELSE /\ entry' = [entry EXCEPT ![c] = w]
       /\ delta' = [delta EXCEPT ![c] = d]
       /\ balance' = [balance EXCEPT ![w] = Plus(@, d)]

(* pg_advisory_xact_lock on a wallet: held by a reserve between its reads and
   its writes, and by a move that merges.                                   *)
Locked(w) ==
  \/ \E r \in Runs : run[r].pc = "reserving" /\ run[r].wallet = w
  \/ \E o \in Orgs : /\ move[o].pc = "moving" /\ move[o].carry # Null
                     /\ w \in {move[o].from, move[o].to}

(* Faulty: without the least of the two, all of the grant bucket is taken.  *)
GrantWhole(w, n) ==
  LET g == Positive(balance[w]["grant"]) IN Amounts(g, n - g)

(* Grant first, then pack.                                                  *)
GrantFirst(w, n) ==
  LET g == Lower(n, Positive(balance[w]["grant"])) IN Amounts(g, n - g)

(* walletIdFor is a statement of its own, and its caller acts on the wallet
   it read, whichever the organisation has moved to since: a call, or a retry
   of it, may be about any of these.                                        *)
Resolved(o) == homes[o]

(***************************************************************************)
(* Grants and purchases.                                                    *)
(***************************************************************************)
LiveWallets == {walletOf[o] : o \in Orgs}

(* grantMonthlyForAllWallets lists the wallets of live organisations first and
   visits one at a time, beyond a move, the month's end or the next sweep.  *)
Listed == UNION {Resolved(o) : o \in Orgs}

(* grantMonthlyDelta, under the lock: nothing if this month's key is there;
   else what is left of the grant bucket expires and the allowance comes in.
   The CHECK aborts it when the expiry would take the wallet below zero.    *)
GrantMonthly(w) ==
  /\ w \in Listed /\ ~Locked(w)
  /\ LET left == Positive(balance[w]["grant"])
     IN  IF Total(w) >= left
         THEN Append(Monthly(w, month), w, Amounts(Allowance - left, 0))
         ELSE UNCHANGED ledgerVars
  /\ UNCHANGED <<groupVars, otherVars>>

(* grantTrialForRow: under the subscription's row lock, not the wallet's.   *)
GrantTrial(w) ==
  /\ w \in Trials /\ group[w] = "open" /\ ~Written(Trial(w))
  /\ Append(Trial(w), w, Amounts(TrialCredits, 0))
  /\ UNCHANGED <<groupVars, otherVars>>

(* recordPackPurchase and recordPassGrant.                                  *)
RecordPurchase(p, w) ==
  /\ w \in Resolved(Buyer[p]) /\ ~Locked(w)
  /\ Append(Pack(p), w, Amounts(0, Credits[p]))
  /\ UNCHANGED <<groupVars, otherVars>>

(* recordPackRefund and recordPassRefund: the wallet that was credited gives
   back what its pack bucket still has of the purchase.                     *)
RecordRefund(p) ==
  /\ IF ~Written(Pack(p)) THEN UNCHANGED ledgerVars
     ELSE LET w == entry[Pack(p)]
              clawback == Lower(Credits[p], Positive(balance[w]["pack"]))
          IN  /\ ~Locked(w)
              /\ IF clawback = 0 THEN UNCHANGED ledgerVars
                 ELSE Append(Clawback(p), w, Amounts(0, -clawback))
  /\ UNCHANGED <<groupVars, otherVars>>

(* recordEarnGrant: capped over what the wallet itself ever earned.         *)
Earned(w) ==
  SumFunctionOnSet([o \in Earners |-> delta[Earn(o)]["pack"]],
    {o \in Earners : Written(Earn(o)) /\ entry[Earn(o)] = w})

(* Faulty: the cap is the organisation's, not its wallet's.                 *)
OwnHeadroom(o, w) == EarnCap

Headroom(o, w) == EarnCap - Earned(w)

RecordEarnGrant(o, w) ==
  /\ w \in Resolved(o) /\ ~Locked(w)
  /\ LET grantable == Lower(EarnAmount, Headroom(o, w))
     IN  IF grantable \in 1..EarnAmount
         THEN Append(Earn(o), w, Amounts(0, grantable))
         ELSE UNCHANGED ledgerVars
  /\ UNCHANGED <<groupVars, otherVars>>

(* adminAdjust on a wallet staff resolved from some organisation.           *)
AdminAdjust(j, w) ==
  /\ group[w] # "unborn" /\ ~Locked(w)
  /\ ~Written(Adjust(j))
  /\ LET need == -AdjustBy[j]
     IN  IF need < 0 THEN Append(Adjust(j), w, Amounts(-need, 0))
         ELSE /\ Positive(balance[w]["grant"]) + Positive(balance[w]["pack"])
                   >= need
              /\ Total(w) >= need
              /\ Append(Adjust(j), w, Minus(Nothing, GrantFirst(w, need)))
  /\ UNCHANGED <<groupVars, otherVars>>

(***************************************************************************)
(* spendCredit: reserve, the metered work, then settle or release.          *)
(***************************************************************************)
Goto(r, pc) == run' = [run EXCEPT ![r].pc = pc]
Quit(r, pc) == run' = [run EXCEPT ![r] = [Outside EXCEPT !.pc = pc]]

(* spentThisPeriodByOrg: this month's holds less their refunds.             *)
SpentThisPeriod(w, o) ==
  SumFunctionOnSet(Cost,
    {r \in Runs : /\ OrgOf[r] = o /\ Written(Hold(r)) /\ ~Written(Refund(r))
                  /\ entry[Hold(r)] = w /\ run[r].since = month})

WithinCap(r, w) ==
  LET o == OrgOf[r]
  IN  Cap[o] # Null => SpentThisPeriod(w, o) + Cost[r] <= Cap[o]

Reserving(w, n) ==
  [pc |-> "reserving", wallet |-> w, cut |-> GrantFirst(w, n), since |-> 0]

(* Faulty: the cap and the buckets are read without the lock.               *)
ReserveReadUnlocked(r, w) ==
  /\ run[r].pc = "idle" /\ w \in Resolved(OrgOf[r])
  /\ IF WithinCap(r, w) THEN run' = [run EXCEPT ![r] = Reserving(w, Cost[r])]
     ELSE Quit(r, "refused")
  /\ UNCHANGED <<ledgerVars, groupVars, month, crashes>>

(* reserve under the lock: the cap, then the grant bucket.                  *)
ReserveRead(r, w) ==
  /\ run[r].pc = "idle" /\ w \in Resolved(OrgOf[r]) /\ ~Locked(w)
  /\ IF WithinCap(r, w) THEN run' = [run EXCEPT ![r] = Reserving(w, Cost[r])]
     ELSE Quit(r, "refused")
  /\ UNCHANGED <<ledgerVars, groupVars, month, crashes>>

(* The CHECK on balance_after, as the rows of a hold are inserted.          *)
Covered(r) == Total(run[r].wallet) >= Cost[r]

ReserveWrite(r) ==
  /\ run[r].pc = "reserving"
  /\ IF Covered(r)
     THEN /\ Append(Hold(r), run[r].wallet, Minus(Nothing, run[r].cut))
          /\ run' = [run EXCEPT ![r] = [Outside EXCEPT !.pc = "held", !.since = month]]
     ELSE UNCHANGED ledgerVars /\ Quit(r, "refused")
  /\ UNCHANGED <<groupVars, month, crashes>>

(* The work succeeded; settle links the hold, which stays if it fails.      *)
Settle(r) ==
  /\ run[r].pc = "held"
  /\ Goto(r, "settled")
  /\ UNCHANGED <<ledgerVars, groupVars, month, crashes>>

ReleaseTo(r) == entry[Hold(r)]

(* Faulty: all of it goes to the grant bucket, the pack row's part too.     *)
GiveBackAsGrant(r) == Amounts(Cost[r], 0)

(* One refund row for each row of the hold, in its bucket.                  *)
GiveBack(r) == Minus(Nothing, delta[Hold(r)])

(* The work failed: the hold is refunded, without the lock.                 *)
Release(r) ==
  /\ run[r].pc = "held"
  /\ Append(Refund(r), ReleaseTo(r), GiveBack(r))
  /\ Goto(r, "released")
  /\ UNCHANGED <<groupVars, month, crashes>>

(***************************************************************************)
(* attachOrgToGroup and detachOrgFromGroup.                                 *)
(***************************************************************************)
(* The row locks: the organisation's, the target group's in an attach, the
   group it leaves in a detach.                                             *)
GroupLocked(w) ==
  \E o \in Orgs : move[o].pc = "moving" /\ move[o].locks = w

Siblings(o) == {p \in Orgs \ {o} : walletOf[p] = walletOf[o]}

(* The last one out takes the wallet along, read under both wallets' locks;
   with siblings left it takes nothing.                                     *)
Carried(o) ==
  IF Siblings(o) # {} THEN Null
  ELSE [b \in Buckets |-> Positive(balance[walletOf[o]][b])]

Begin(o, to, locks) ==
  /\ move[o].pc = "idle" /\ moves < MaxMoves
  /\ ~GroupLocked(locks)
  /\ Siblings(o) = {} => ~Locked(walletOf[o]) /\ ~Locked(to)
  /\ moves' = moves + 1
  /\ move' = [move EXCEPT ![o] = [pc |-> "moving", from |-> walletOf[o], to |-> to,
                                  locks |-> locks, carry |-> Carried(o)]]
  /\ UNCHANGED <<ledgerVars, otherVars, walletOf, homes, group>>

Attach(o, w) ==
  /\ group[w] = "open" /\ w # walletOf[o]
  /\ Begin(o, w, w)

(* A detach mints a group of its own for the organisation.                  *)
Detach(o, w) ==
  /\ group[w] = "unborn"
  /\ \A p \in Orgs : move[p].to # w
  /\ Begin(o, w, walletOf[o])

(* mergeWalletOnAttach; its CHECK aborts the whole move.                    *)
CommitMove(o) ==
  /\ move[o].pc = "moving"
  /\ LET from == move[o].from
         to == move[o].to
         carry == IF move[o].carry = Null THEN Nothing ELSE move[o].carry
     IN  IF Total(from) >= Sum(carry)
         THEN /\ walletOf' = [walletOf EXCEPT ![o] = to]
              /\ homes' = [homes EXCEPT ![o] = @ \cup {to}]
              /\ group' = [group EXCEPT ![to] = "open"]
              /\ balance' = [balance EXCEPT ![from] = Minus(@, carry),
                                            ![to] = Plus(@, carry)]
              /\ move' = [move EXCEPT ![o].pc = "moved"]
         ELSE /\ move' = [move EXCEPT ![o] = AtHome]
              /\ UNCHANGED <<balance, walletOf, homes, group>>
  /\ UNCHANGED <<otherVars, entry, delta, moves>>

(* dropEmptyGroup, cancelGroupIfEmpty: after the commit, if still empty.    *)
CloseEmptyGroup(o) ==
  /\ move[o].pc = "moved"
  /\ ~GroupLocked(move[o].from)
  /\ move' = [move EXCEPT ![o] = AtHome]
  /\ group' = IF move[o].from \in LiveWallets THEN group
              ELSE [group EXCEPT ![move[o].from] = "closed"]
  /\ UNCHANGED <<ledgerVars, otherVars, walletOf, homes, moves>>

(***************************************************************************)
(* Time and failure.                                                        *)
(***************************************************************************)
MonthPasses ==
  /\ month < MaxMonth
  /\ month' = month + 1
  /\ UNCHANGED <<ledgerVars, groupVars, run, crashes>>

(* A process dies and its transaction rolls back.  A run that dies in its
   work leaves its hold behind: it stays "held".                            *)
CrashRun(r) ==
  /\ run[r].pc = "reserving" /\ crashes < MaxCrashes
  /\ crashes' = crashes + 1
  /\ Quit(r, "lost")
  /\ UNCHANGED <<ledgerVars, groupVars, month>>

CrashMove(o) ==
  /\ move[o].pc # "idle" /\ crashes < MaxCrashes
  /\ crashes' = crashes + 1
  /\ move' = [move EXCEPT ![o] = AtHome]
  /\ UNCHANGED <<ledgerVars, month, run, walletOf, homes, group, moves>>

RunStep(r) == \/ (\E w \in Wallets : ReserveRead(r, w)) \/ ReserveWrite(r)
              \/ Settle(r) \/ Release(r) \/ CrashRun(r)

MoveStep(o) == \/ \E w \in Wallets : Attach(o, w) \/ Detach(o, w)
               \/ CommitMove(o) \/ CloseEmptyGroup(o) \/ CrashMove(o)

GrantStep(w) ==
  \/ GrantMonthly(w) \/ GrantTrial(w)
  \/ \E o \in Earners : RecordEarnGrant(o, w)
  \/ \E j \in Adjustments : AdminAdjust(j, w)

(* What Stripe's events bring, and what the application does of itself.     *)
PaymentStep ==
  \E p \in Purchases : RecordRefund(p) \/ \E w \in Wallets : RecordPurchase(p, w)
OwnStep ==
  \/ \E r \in Runs : RunStep(r)
  \/ \E o \in Orgs : MoveStep(o)
  \/ \E w \in Wallets : GrantStep(w)
  \/ MonthPasses

WalletNext == PaymentStep \/ OwnStep

WalletSpec == WalletInit /\ [][WalletNext]_walletVars

(***************************************************************************)
(* Properties.                                                              *)
(***************************************************************************)
RunPcs == {"idle", "reserving", "refused", "held", "settled",
           "released", "lost"}
MoveOf ==
  [pc : {"idle", "moving", "moved"}, from : Wallets \cup {Null},
   to : Wallets \cup {Null}, locks : Wallets \cup {Null},
   carry : [Buckets -> Nat] \cup {Null}]

(* Types.  A run between its reads and its writes has a wallet.             *)
WalletTypeOK ==
  /\ balance \in [Wallets -> [Buckets -> Int]]
  /\ entry \in [Causes -> Wallets \cup {Null}]
  /\ delta \in [Causes -> [Buckets -> Int]]
  /\ walletOf \in [Orgs -> Wallets]
  /\ homes \in [Orgs -> SUBSET Wallets]
  /\ group \in [Wallets -> {"unborn", "open", "closed"}]
  /\ month \in 1..MaxMonth
  /\ run \in [Runs -> [pc : RunPcs, wallet : Wallets \cup {Null},
                       cut : [Buckets -> Nat], since : 0..MaxMonth]]
  /\ \A r \in Runs : run[r].pc = "reserving" => run[r].wallet \in Wallets
  /\ move \in [Orgs -> MoveOf]
  /\ moves \in 0..MaxMoves /\ crashes \in 0..MaxCrashes

(* The ledger's rows implement a credit pool: however requests, webhooks,
   sweeps and moves interleave, a cause takes effect once, for no more than it
   is worth, a refund where the debit was, and no wallet ends below zero.   *)
Extent(c) ==
  CASE c.kind = "monthly" -> [least |-> Null, most |-> Allowance]
    [] c.kind = "trial"   -> [least |-> TrialCredits, most |-> TrialCredits]
    [] c.kind = "pack"    -> [least |-> Credits[c.of], most |-> Credits[c.of]]
    [] c.kind = "clawback" -> [least |-> -Credits[c.of], most |-> -1]
    [] c.kind = "earn"    -> [least |-> 1, most |-> EarnAmount]
    [] c.kind = "adjust"  -> [least |-> AdjustBy[c.of], most |-> AdjustBy[c.of]]
    [] c.kind = "hold"    -> [least |-> -Cost[c.of], most |-> -Cost[c.of]]
    [] c.kind = "refund"  -> [least |-> Cost[c.of], most |-> Cost[c.of]]

Pool == INSTANCE CreditPool WITH
  Least <- [c \in Causes |-> Extent(c).least],
  Most <- [c \in Causes |-> Extent(c).most],
  Undoes <- [c \in Causes |-> CASE c.kind = "clawback" -> Pack(c.of)
                                [] c.kind = "refund" -> Hold(c.of)
                                [] OTHER -> Null],
  pool <- [w \in Wallets |-> Total(w)],
  took <- entry

PoolSpec == Pool!Spec

(* Two runs of one organisation at a time never take it past its monthly cap,
   which is summed from the ledger inside the reserve.                      *)
CapKept ==
  \A w \in Wallets, o \in Orgs :
    Cap[o] # Null => SpentThisPeriod(w, o) <= Cap[o]

(* The milestones of organisations that share a wallet never earn it more than
   the lifetime cap.                                                        *)
EarnCapKept == \A w \in Wallets : Earned(w) <= EarnCap

(* A run costs its organisation exactly what happened, in whichever buckets,
   months and wallets that was: a settled one stays charged in full, a failed
   one has each bucket of the wallet it was held on back, a refused or lost one
   left nothing.                                                            *)
ChargedAsRun ==
  \A r \in Runs :
    /\ run[r].pc \in {"held", "settled"} =>
         Written(Hold(r)) /\ ~Written(Refund(r)) /\ Sum(delta[Hold(r)]) = -Cost[r]
    /\ run[r].pc = "released" =>
         /\ Written(Hold(r)) /\ entry[Refund(r)] = entry[Hold(r)]
         /\ Plus(delta[Hold(r)], delta[Refund(r)]) = Nothing
    /\ run[r].pc \in {"idle", "reserving", "refused", "lost"} =>
         ~Written(Hold(r)) /\ ~Written(Refund(r))
=============================================================================
