----------------------------- MODULE CreditPool -----------------------------
(***************************************************************************)
(* What the AI credit ledger (apps/web/src/lib/credits.ts) promises whoever *)
(* pays for credits or spends them, without its buckets, locks, webhooks or *)
(* requests: a pool of credits per wallet, changed by causes that take      *)
(* effect at most once, each by no more than it is worth, and never below   *)
(* zero.  CreditWallet is shown to implement it.                            *)
(***************************************************************************)
EXTENDS Integers

CONSTANTS
  Null,
  Wallets,
  Causes,     \* what a ledger entry can be about: a purchase, a run, a month
  Least,      \* the least change a cause may make; Null: down to nothing left
  Most,       \* the most
  Undoes      \* the cause a refund takes back, or Null

VARIABLES
  pool,       \* the credits of each wallet
  took        \* the wallet on which a cause took effect, or Null

Changes(c, w) ==
  (IF Least[c] = Null THEN Most[c] - pool[w] ELSE Least[c]) .. Most[c]

(* A cause takes effect, once; a refund only where what it takes back did.  *)
Apply(c, w) ==
  /\ took[c] = Null /\ took'[c] = w
  /\ took' = [took EXCEPT ![c] = w]
  /\ Undoes[c] # Null => took[Undoes[c]] = w
  /\ \E d \in Changes(c, w) :
       /\ pool[w] + d >= 0
       /\ pool' = [pool EXCEPT ![w] = @ + d]

(* Credits move between wallets; none is made or lost on the way.           *)
Carry(v, w) ==
  /\ v # w
  /\ \E n \in 1..pool[v] : pool' = [pool EXCEPT ![v] = @ - n, ![w] = @ + n]
  /\ UNCHANGED took

Init == /\ pool = [w \in Wallets |-> 0]
        /\ took = [c \in Causes |-> Null]

Next == \/ \E c \in Causes : took[c] # took'[c] /\ \E w \in Wallets : Apply(c, w)
        \/ \E v, w \in Wallets : Carry(v, w)

Spec == Init /\ [][Next]_<<pool, took>>
=============================================================================
