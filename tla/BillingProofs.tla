---------------------------- MODULE BillingProofs ---------------------------
(***************************************************************************)
(* Proofs about Billing: for any number of events, handlers, leases, sweeps *)
(* and crashes a stamped payment has its credits, and the wallets behind    *)
(* the inbox still implement the credit pool.                               *)
(***************************************************************************)
EXTENDS Billing, CreditWalletProofs

RowsOf == [status : {"missing", "received", "processed"},
           leased : BOOLEAN, aged : BOOLEAN, attempts : Nat]
WorkerOf == [pc : {"idle", "start", "stamp"}, event : Events \cup {Unset},
             source : {"caller", "sweeper", Unset}]

InboxTyped ==
  /\ inbox \in [Events -> RowsOf] /\ worker \in [Workers -> WorkerOf]
  /\ \A k \in Workers : Busy(k) =>
       /\ worker[k].event \in Events
       /\ inbox[worker[k].event].status # "missing"

(* A handler that is through has booked its payment: what the stamp rests on. *)
HandledIsApplied ==
  \A k \in Workers : worker[k].pc = "stamp" /\ Kind[worker[k].event] = "purchase" =>
    Written(Pack(Subject[worker[k].event]))

BillingInv == WalletInv /\ InboxTyped /\ HandledIsApplied /\ ProcessedIsApplied

LEMMA EventsTyped ==
  ASSUME NEW e \in Events
  PROVE  /\ Kind[e] \in {"purchase", "refund"} /\ Subject[e] \in Purchases
         /\ Pack(Subject[e]) \in Causes
<1>1. Kind[e] \in {"purchase", "refund"} /\ Subject[e] \in Purchases
  BY BillingAssumption DEF BillingAssumption
<1> QED
  BY <1>1 DEF Causes

(***************************************************************************)
(* The wallets, whatever the inbox does.                                    *)
(***************************************************************************)
(* A wallet step, or none but the count of a sweeper that died.             *)
WalletsGoOn ==
  \/ [WalletNext]_walletVars
  \/ UNCHANGED <<ledgerVars, groupVars, month, run>> /\ crashes' \in 0..MaxCrashes

LEMMA StepsGoOn == WalletInv /\ InboxTyped /\ [Next]_vars => WalletsGoOn
<1> SUFFICES ASSUME WalletInv, InboxTyped, [Next]_vars PROVE WalletsGoOn
  OBVIOUS
<1>1. CASE (OwnStep /\ UNCHANGED inboxVars) \/ (InboxNext /\ UNCHANGED walletVars)
            \/ UNCHANGED vars
  BY <1>1 DEF WalletsGoOn, WalletNext, vars
<1>2. CASE \E k \in Workers : Handle(k)
  <2>1. PICK k \in Workers : Handle(k)
    BY <1>2
  <2>2. worker[k].event \in Events
    BY <2>1 DEF Handle, InboxTyped, Busy
  <2>3. PaymentStep
    BY <2>1, <2>2, EventsTyped DEF Handle, PaymentStep
  <2> QED
    BY <2>3 DEF WalletsGoOn, WalletNext
<1>3. CASE \E k \in Workers : CrashSweeper(k)
  <2>1. crashes \in 0..MaxCrashes /\ MaxCrashes \in Nat
    BY Constants DEF WalletInv, WalletTypeOK
  <2> QED
    BY <1>3, <2>1 DEF CrashSweeper, WalletsGoOn
<1> QED
  BY <1>1, <1>2, <1>3 DEF Next

LEMMA GoingOnKeeps == WalletInv /\ WalletsGoOn => WalletInv'
<1> SUFFICES ASSUME WalletInv, WalletsGoOn PROVE WalletInv'
  OBVIOUS
<1>1. CASE [WalletNext]_walletVars
  BY <1>1, StepKeeps
<1>2. CASE UNCHANGED <<ledgerVars, groupVars, month, run>> /\ crashes' \in 0..MaxCrashes
  <2> USE <1>2 DEF ledgerVars, groupVars
  <2>1. WalletTypeOK'
    BY DEF WalletInv, WalletTypeOK
  <2>2. ChargedAsRun' /\ HoldsDebit' /\ Solvent' /\ MovesSound'
    BY DEF WalletInv, ChargedAsRun, Solvent, MovesSound, HoldsDebit, Written, Total
  <2>3. LocksApart' /\ ReadingsHold'
    BY DEF WalletInv, LocksApart, ReadingsHold, Reserves, Carries, CarriesAt
  <2> QED
    BY <2>1, <2>2, <2>3 DEF WalletInv
<1> QED
  BY <1>1, <1>2 DEF WalletsGoOn

LEMMA GoingOnImplements ==
  WalletInv /\ WalletsGoOn => [Pool!Next]_<<pools, entry>>
<1> SUFFICES ASSUME WalletInv, WalletsGoOn PROVE [Pool!Next]_<<pools, entry>>
  OBVIOUS
<1>1. CASE [WalletNext]_walletVars
  BY <1>1, StepImplements
<1>2. CASE UNCHANGED ledgerVars
  BY <1>2 DEF pools, Total, ledgerVars
<1> QED
  BY <1>1, <1>2 DEF WalletsGoOn

(* An entry that is written stays.                                          *)
LEMMA EntriesStay ==
  ASSUME WalletInv, WalletsGoOn, NEW c \in Causes, Written(c)
  PROVE  Written(c)'
<1>1. entry \in [Causes -> Wallets \cup {Null}]
  BY DEF WalletInv, WalletTypeOK
<1>2. CASE \E e \in Causes, w \in Wallets : Pool!Apply(e, w)
  <2>1. PICK e \in Causes, w \in Wallets : Pool!Apply(e, w)
    BY <1>2
  <2>2. entry[e] = Null /\ entry' = [entry EXCEPT ![e] = w]
    BY <2>1 DEF Pool!Apply
  <2> QED
    BY <1>1, <2>2 DEF Written
<1>3. CASE \E v, w \in Wallets : Pool!Carry(v, w)
  BY <1>3 DEF Pool!Carry, Written
<1>4. CASE UNCHANGED <<pools, entry>>
  BY <1>4 DEF Written
<1> QED
  BY <1>2, <1>3, <1>4, GoingOnImplements DEF Pool!Next

(***************************************************************************)
(* The inbox.                                                               *)
(***************************************************************************)
(* What a step of the inbox may do to a row: it is never missing again, and
   it is stamped only by a handler that is through.                         *)
RowsGoOn ==
  \A e \in Events :
    /\ inbox[e].status # "missing" => inbox'[e].status # "missing"
    /\ inbox'[e].status = "processed" =>
         \/ inbox[e].status = "processed"
         \/ \E k \in Workers : worker[k].pc = "stamp" /\ worker[k].event = e

(* What a step may do to handlers: they get through in Handle only.         *)
WorkersGoOn ==
  \A k \in Workers :
    \/ worker'[k] = worker[k]
    \/ worker'[k] = Resting
    \/ /\ worker'[k].pc = "start" /\ worker'[k].event \in Events
       /\ inbox'[worker'[k].event].status # "missing"

LEMMA CountGoesOn ==
  ASSUME InboxTyped, NEW e \in Events, Count(e)
  PROVE  inbox' \in [Events -> RowsOf] /\ RowsGoOn
<1>1. CASE inbox[e].status = "processed"
  BY <1>1 DEF InboxTyped, Count, RowsGoOn
<1>2. CASE inbox[e].status # "processed"
  <2>1. /\ inbox[e] \in RowsOf
        /\ inbox' = [inbox EXCEPT ![e] = [inbox[e] EXCEPT !.attempts = inbox[e].attempts + 1]]
    BY <1>2 DEF InboxTyped, Count
  <2>2. /\ [inbox[e] EXCEPT !.attempts = inbox[e].attempts + 1] \in RowsOf
        /\ [inbox[e] EXCEPT !.attempts = inbox[e].attempts + 1].status = inbox[e].status
    BY <2>1 DEF RowsOf
  <2> QED
    BY <2>1, <2>2 DEF InboxTyped, RowsGoOn
<1> QED
  BY <1>1, <1>2

LEMMA InboxSteps ==
  ASSUME InboxTyped, InboxNext
  PROVE  /\ inbox' \in [Events -> RowsOf] /\ worker' \in [Workers -> WorkerOf]
         /\ RowsGoOn /\ WorkersGoOn
<1> USE DEF InboxTyped
<1>0. Resting \in WorkerOf
  BY DEF Resting, WorkerOf
<1>1. ASSUME NEW k \in Workers, NEW e \in Events, NEW source \in {"caller", "sweeper"},
             RunEvent(k, e, source)
      PROVE  /\ inbox' \in [Events -> RowsOf] /\ worker' \in [Workers -> WorkerOf]
             /\ RowsGoOn /\ WorkersGoOn
  <2> DEFINE row == [[inbox[e] EXCEPT !.status = "received"] EXCEPT !.leased = TRUE]
             new == [pc |-> "start", event |-> e, source |-> source]
  <2>a. row \in RowsOf /\ row.status = "received"
    <3>1. inbox[e] \in RowsOf
      OBVIOUS
    <3> QED
      BY <3>1 DEF RowsOf
  <2>b. new \in WorkerOf
    BY DEF WorkerOf
  <2>c. inbox' = [inbox EXCEPT ![e] = row] /\ worker' = [worker EXCEPT ![k] = new]
    BY <1>1 DEF RunEvent
  <2> HIDE DEF row, new
  <2>1. /\ row \in RowsOf /\ row.status = "received" /\ new \in WorkerOf
        /\ inbox' = [inbox EXCEPT ![e] = row] /\ worker' = [worker EXCEPT ![k] = new]
    BY <2>a, <2>b, <2>c
  <2>2. inbox' \in [Events -> RowsOf] /\ inbox'[e].status = "received"
    BY <2>1
  <2>3. worker' \in [Workers -> WorkerOf] /\ worker'[k] = new
    BY <2>1
  <2>4. RowsGoOn
    BY <2>1 DEF RowsGoOn
  <2>5. WorkersGoOn
    BY <2>1, <2>2, <2>3 DEF WorkersGoOn, new
  <2> QED
    BY <2>2, <2>3, <2>4, <2>5
<1>2. ASSUME NEW k \in Workers, NEW e \in Events, SweepReplay(k, e)
      PROVE  /\ inbox' \in [Events -> RowsOf] /\ worker' \in [Workers -> WorkerOf]
             /\ RowsGoOn /\ WorkersGoOn
  <2>1. CASE RunEvent(k, e, "sweeper")
    BY <1>1, <2>1
  <2>2. CASE Count(e) /\ UNCHANGED worker
    BY <2>2, CountGoesOn DEF WorkersGoOn
  <2> QED
    BY <1>2, <2>1, <2>2 DEF SweepReplay
<1>3. ASSUME NEW k \in Workers, Stamp(k)
      PROVE  /\ inbox' \in [Events -> RowsOf] /\ worker' \in [Workers -> WorkerOf]
             /\ RowsGoOn /\ WorkersGoOn
  <2>1. worker[k].pc = "stamp" /\ worker[k].event \in Events
    BY <1>3 DEF Stamp, Busy
  <2>2. RowOf("processed") \in RowsOf /\ RowOf("processed").status = "processed"
    BY DEF RowOf, RowsOf
  <2> QED
    BY <1>0, <1>3, <2>1, <2>2 DEF Stamp, Leave, RowsGoOn, WorkersGoOn
<1>4. ASSUME NEW k \in Workers, HandlerThrows(k)
      PROVE  /\ inbox' \in [Events -> RowsOf] /\ worker' \in [Workers -> WorkerOf]
             /\ RowsGoOn /\ WorkersGoOn
  <2>1. worker[k].event \in Events /\ worker' = [worker EXCEPT ![k] = Resting]
    BY <1>4 DEF HandlerThrows, Leave
  <2>2. inbox' \in [Events -> RowsOf] /\ RowsGoOn
    BY <1>4, <2>1, CountGoesOn DEF HandlerThrows, RowsGoOn
  <2> QED
    BY <1>0, <2>1, <2>2 DEF WorkersGoOn
<1>5. ASSUME NEW e \in Events, Park(e)
      PROVE  /\ inbox' \in [Events -> RowsOf] /\ worker' \in [Workers -> WorkerOf]
             /\ RowsGoOn /\ WorkersGoOn
  BY <1>5, CountGoesOn DEF Park, WorkersGoOn
<1>6. ASSUME NEW e \in Events, LeaseExpires(e)
      PROVE  /\ inbox' \in [Events -> RowsOf] /\ worker' \in [Workers -> WorkerOf]
             /\ RowsGoOn /\ WorkersGoOn
  <2> DEFINE row == [[inbox[e] EXCEPT !.leased = FALSE] EXCEPT !.aged = TRUE]
  <2>1. row \in RowsOf /\ row.status = inbox[e].status /\ inbox' = [inbox EXCEPT ![e] = row]
    BY <1>6 DEF LeaseExpires, RowsOf
  <2> QED
    BY <1>6, <2>1 DEF LeaseExpires, RowsGoOn, WorkersGoOn
<1> QED
  BY <1>1, <1>2, <1>3, <1>4, <1>5, <1>6 DEF InboxNext, InboxStep, Deliver

LEMMA InboxKeeps ==
  ASSUME BillingInv, InboxNext, UNCHANGED walletVars
  PROVE  InboxTyped' /\ HandledIsApplied' /\ ProcessedIsApplied'
<1>1. /\ inbox' \in [Events -> RowsOf] /\ worker' \in [Workers -> WorkerOf]
      /\ RowsGoOn /\ WorkersGoOn /\ entry' = entry /\ Resting.pc = "idle"
  BY InboxSteps DEF BillingInv, walletVars, ledgerVars, Resting
<1>2. InboxTyped'
  BY <1>1 DEF BillingInv, InboxTyped, Busy, RowsGoOn, WorkersGoOn
<1>3. HandledIsApplied'
  BY <1>1 DEF BillingInv, HandledIsApplied, WorkersGoOn, Written
<1>4. ProcessedIsApplied'
  BY <1>1 DEF BillingInv, HandledIsApplied, ProcessedIsApplied, RowsGoOn, Written
<1> QED
  BY <1>2, <1>3, <1>4

(* A handler that books its payment, or finds it booked.                    *)
LEMMA HandlePurchaseBooks ==
  ASSUME BillingInv, NEW p \in Purchases, NEW w \in Wallets, RecordPurchase(p, w)
  PROVE  Written(Pack(p))'
<1>1. /\ entry \in [Causes -> Wallets \cup {Null}] /\ Pack(p) \in Causes /\ w # Null
      /\ Append(Pack(p), w, Amounts(0, Credits[p]))
  BY Constants DEF BillingInv, WalletInv, WalletTypeOK, Causes, RecordPurchase
<1> QED
  BY <1>1 DEF Append, Written, ledgerVars

LEMMA HandleKeeps ==
  ASSUME BillingInv, NEW k \in Workers, Handle(k), WalletsGoOn
  PROVE  InboxTyped' /\ HandledIsApplied' /\ ProcessedIsApplied'
<1>1. PICK e \in Events :
        /\ worker[k].event = e /\ worker[k].pc = "start"
        /\ inbox[e].status # "missing"
  BY DEF Handle, BillingInv, InboxTyped, Busy
<1>2. PICK row \in WorkerOf : row.pc = "stamp" /\ row.event = e
                             /\ worker' = [worker EXCEPT ![k] = row]
  <2>1. worker[k] \in WorkerOf
    BY DEF BillingInv, InboxTyped
  <2>2. /\ [worker[k] EXCEPT !.pc = "stamp"] \in WorkerOf
        /\ [worker[k] EXCEPT !.pc = "stamp"].pc = "stamp"
        /\ [worker[k] EXCEPT !.pc = "stamp"].event = e
    BY <1>1, <2>1 DEF WorkerOf
  <2> QED
    BY <2>2 DEF Handle
<1>a. inbox' = inbox /\ worker \in [Workers -> WorkerOf]
  BY DEF Handle, BillingInv, InboxTyped
<1>b. worker' \in [Workers -> WorkerOf] /\ worker'[k] = row
      /\ \A h \in Workers \ {k} : worker'[h] = worker[h]
  BY <1>2, <1>a
<1>3. InboxTyped'
  BY <1>1, <1>2, <1>a, <1>b DEF BillingInv, InboxTyped, Busy
<1>4. \A f \in Events : Written(Pack(Subject[f])) => Written(Pack(Subject[f]))'
  BY EntriesStay, EventsTyped DEF BillingInv
<1>5. Kind[e] = "purchase" => Written(Pack(Subject[e]))'
  BY <1>1, EventsTyped, HandlePurchaseBooks DEF Handle
<1>6. HandledIsApplied'
  <2>1. \A f \in Events : Written(Pack(Subject[f]))' <=> entry'[Pack(Subject[f])] # Null
    BY DEF Written
  <2>2. \A h \in Workers \ {k} : worker[h].pc = "stamp" => worker[h].event \in Events
    BY DEF BillingInv, InboxTyped, Busy
  <2>3. \A h \in Workers \ {k} :
          worker[h].pc = "stamp" /\ Kind[worker[h].event] = "purchase" =>
            entry'[Pack(Subject[worker[h].event])] # Null
    BY <1>4, <2>1, <2>2 DEF BillingInv, HandledIsApplied
  <2>4. worker'[k].pc = "stamp" /\ Kind[worker'[k].event] = "purchase" =>
          entry'[Pack(Subject[worker'[k].event])] # Null
    BY <1>2, <1>5, <1>b, <2>1
  <2> QED
    BY <1>b, <2>3, <2>4 DEF HandledIsApplied, Written
<1>7. ProcessedIsApplied'
  BY <1>a, <1>4 DEF BillingInv, ProcessedIsApplied
<1> QED
  BY <1>3, <1>6, <1>7

LEMMA CrashSweeperKeeps ==
  ASSUME BillingInv, NEW k \in Workers, CrashSweeper(k)
  PROVE  InboxTyped' /\ HandledIsApplied' /\ ProcessedIsApplied'
<1>1. /\ inbox' = inbox /\ entry' = entry /\ worker \in [Workers -> WorkerOf]
      /\ worker' = [worker EXCEPT ![k] = Resting]
      /\ Resting \in WorkerOf /\ Resting.pc = "idle"
  BY DEF CrashSweeper, Leave, BillingInv, InboxTyped, ledgerVars, Resting, WorkerOf
<1> QED
  BY <1>1 DEF BillingInv, InboxTyped, HandledIsApplied, ProcessedIsApplied, Busy, Written

LEMMA OwnStepKeeps ==
  ASSUME BillingInv, WalletsGoOn, UNCHANGED inboxVars
  PROVE  InboxTyped' /\ HandledIsApplied' /\ ProcessedIsApplied'
<1>1. inbox' = inbox /\ worker' = worker
  BY DEF inboxVars
<1>2. \A f \in Events : Written(Pack(Subject[f])) => Written(Pack(Subject[f]))'
  BY EntriesStay, EventsTyped DEF BillingInv
<1>3. InboxTyped' /\ ProcessedIsApplied'
  BY <1>1, <1>2 DEF BillingInv, InboxTyped, ProcessedIsApplied, Busy
<1>4. HandledIsApplied'
  <2>1. \A k \in Workers : worker[k].pc = "stamp" => worker[k].event \in Events
    BY DEF BillingInv, InboxTyped, Busy
  <2> QED
    BY <1>1, <1>2, <2>1 DEF BillingInv, HandledIsApplied
<1> QED
  BY <1>3, <1>4

LEMMA BillingStep == BillingInv /\ [Next]_vars => BillingInv'
<1> SUFFICES ASSUME BillingInv, [Next]_vars PROVE BillingInv'
  OBVIOUS
<1>1. WalletsGoOn /\ WalletInv'
  BY StepsGoOn, GoingOnKeeps DEF BillingInv
<1>2. CASE OwnStep /\ UNCHANGED inboxVars
  BY <1>1, <1>2, OwnStepKeeps DEF BillingInv
<1>3. CASE InboxNext /\ UNCHANGED walletVars
  BY <1>1, <1>3, InboxKeeps DEF BillingInv
<1>4. CASE \E k \in Workers : Handle(k)
  BY <1>1, <1>4, HandleKeeps DEF BillingInv
<1>5. CASE \E k \in Workers : CrashSweeper(k)
  BY <1>1, <1>5, CrashSweeperKeeps DEF BillingInv
<1>6. CASE UNCHANGED vars
  BY <1>1, <1>6, OwnStepKeeps DEF BillingInv, vars
<1> QED
  BY <1>2, <1>3, <1>4, <1>5, <1>6 DEF Next

LEMMA BillingInit == Init => BillingInv
<1> SUFFICES ASSUME Init PROVE BillingInv
  OBVIOUS
<1>1. WalletInv
  BY InitKeeps DEF Init
<1>2. /\ \A e \in Events : inbox[e] = RowOf("missing")
      /\ RowOf("missing") \in RowsOf /\ RowOf("missing").status = "missing"
      /\ \A k \in Workers : worker[k] = Resting
      /\ Resting \in WorkerOf /\ Resting.pc = "idle"
  BY DEF Init, InboxInit, RowOf, RowsOf, Resting, WorkerOf
<1>3. InboxTyped
  BY <1>2 DEF Init, InboxInit, InboxTyped, Busy
<1>4. HandledIsApplied /\ ProcessedIsApplied
  BY <1>2 DEF HandledIsApplied, ProcessedIsApplied
<1> QED
  BY <1>1, <1>3, <1>4 DEF BillingInv

LEMMA BillingInvHolds == Spec => []BillingInv
BY BillingInit, BillingStep, PTL DEF Spec

(* The wallets and the inbox keep their types together; who is busy has an
   event that is in the ledger of events.                                   *)
THEOREM BillingTypeCorrect == Spec => []TypeOK
<1>1. BillingInv => TypeOK
  BY DEF BillingInv, WalletInv, InboxTyped, RowsOf, WorkerOf, TypeOK
<1> QED
  BY <1>1, BillingInvHolds, PTL

(* However often an event is delivered, swept, taken over from a slow or dead
   handler, or stamped twice: once it is stamped its payment is booked.     *)
THEOREM StampedIsApplied == Spec => []ProcessedIsApplied
<1>1. BillingInv => ProcessedIsApplied
  BY DEF BillingInv
<1> QED
  BY <1>1, BillingInvHolds, PTL

LEMMA GoingOnCaps ==
  WalletInv /\ CapInv /\ EarnInv /\ WalletsGoOn => CapInv' /\ EarnInv'
<1> SUFFICES ASSUME WalletInv, CapInv, EarnInv, WalletsGoOn PROVE CapInv' /\ EarnInv'
  OBVIOUS
<1>1. CASE [WalletNext]_walletVars
  BY <1>1, CapStep, EarnStep
<1>2. CASE UNCHANGED <<ledgerVars, groupVars, month, run>> /\ crashes' \in 0..MaxCrashes
  <2>1. WalletTypeOK' /\ UNCHANGED <<run, month, entry, delta>>
    BY <1>2, GoingOnKeeps DEF WalletInv, ledgerVars
  <2> QED
    BY <2>1, CapStill, EarnStill DEF EarnUntouched
<1> QED
  BY <1>1, <1>2 DEF WalletsGoOn

(* What the wallets promise alone they keep behind the inbox: handlers that run
   twice, at once or after their lease never take an organisation past its
   monthly cap or a wallet past its lifetime earnings, and an AI run is still
   charged or given back in full.                                           *)
THEOREM BillingKeepsCaps == Spec => [](CapKept /\ EarnCapKept /\ ChargedAsRun)
<1>1. BillingInv /\ CapInv /\ EarnInv /\ [Next]_vars => CapInv' /\ EarnInv'
  BY StepsGoOn, GoingOnCaps DEF BillingInv
<1>2. Init => CapInv /\ EarnInv
  BY InitCap, InitEarn DEF Init
<1>3. BillingInv /\ CapInv /\ EarnInv => CapKept /\ EarnCapKept /\ ChargedAsRun
  BY DEF CapInv, EarnInv, BillingInv, WalletInv
<1> QED
  BY <1>1, <1>2, <1>3, BillingInvHolds, PTL DEF Spec

(* Behind an inbox that delivers at least once, in any order and to several
   handlers at a time, the wallets still implement the credit pool, in which
   every purchase and every refund counts once.                             *)
THEOREM BillingImplementsPool == Spec => PoolSpec
<1>1. BillingInv /\ [Next]_vars => [Pool!Next]_<<[w \in Wallets |-> Total(w)], entry>>
  <2>1. WalletInv /\ InboxTyped /\ [Next]_vars => [Pool!Next]_<<pools, entry>>
    BY StepsGoOn, GoingOnImplements
  <2> QED
    BY <2>1 DEF BillingInv, pools
<1>2. Init => Pool!Init
  BY InitImplements DEF Init
<1> QED
  BY <1>1, <1>2, BillingInvHolds, PTL DEF Spec, PoolSpec, Pool!Spec
=============================================================================
