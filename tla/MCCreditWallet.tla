--------------------------- MODULE MCCreditWallet ---------------------------
(* An instance of CreditWallet for TLC: two organisations in one billing
   group, one of which runs twice and has a cap, and a second group to found. *)
EXTENDS CreditWallet, TLC

CONSTANTS a, b, w1, w2, pack,
  MaxChanges,      \* bound on ledger entries, moves and crashes together
  MaxBusy       \* bound on the runs and moves under way at once

Together == (a :> w1) @@ (b :> w1)
ByOne == [r \in Runs |-> a]
CostsThree == [r \in Runs |-> 3]
OneCapped == (a :> 5) @@ (b :> Null)
BoughtByOne == [p \in Purchases |-> a]
PackOfTwo == [p \in Purchases |-> 2]
MinusOne == [j \in Adjustments |-> -1]
Symmetry == Permutations(Runs)

BoundedNext ==
  /\ WalletNext
  /\ Cardinality({c \in Causes : entry'[c] # Null}) + crashes' + moves' <= MaxChanges
  /\ Cardinality({r \in Runs : run'[r].pc \in {"reserving", "held"}})
     + Cardinality({o \in Orgs : move'[o].pc # "idle"}) <= MaxBusy
BoundedSpec == WalletInit /\ [][BoundedNext]_walletVars
=============================================================================
