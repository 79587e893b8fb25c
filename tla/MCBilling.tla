----------------------------- MODULE MCBilling ------------------------------
(* An instance of Billing for TLC: one pack, its purchase and its refund, and
   an organisation that moves meanwhile.                                    *)
EXTENDS Billing, TLC

CONSTANTS a, w1, w2, pack, bought, returned

AtOne == [o \in Orgs |-> w1]
ByPack == [p \in Purchases |-> a]
Uncapped == [o \in Orgs |-> Null]
Two == [p \in Purchases |-> 2]
None == <<>>
Kinds == [e \in Events |-> IF e = bought THEN "purchase" ELSE "refund"]
OnePack == [e \in Events |-> pack]

(* No monthly grants, and moves do not crash: MCCreditWallet has those.     *)
BoundedNext ==
  /\ Next
  /\ \A w \in Wallets : entry'[Monthly(w, 1)] = Null
  /\ crashes' # crashes => UNCHANGED move
BoundedSpec == Init /\ [][BoundedNext]_vars /\ Fairness
=============================================================================
