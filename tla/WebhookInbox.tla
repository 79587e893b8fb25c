---------------------------- MODULE WebhookInbox ----------------------------
(***************************************************************************)
(* billing_events, the ledger of Stripe events                              *)
(* (apps/web/src/server/usecases/billing-events.ts): the signed webhook,    *)
(* the sweeper of stuck events and the staff replay all go through          *)
(* runEvent, which claims the event's row under a lease, runs the handler   *)
(* and stamps processed_at.  What a handler does is Billing's.              *)
(*                                                                          *)
(* The lease and the age at which the sweeper looks at a row are both ten   *)
(* minutes, so the first lease has expired when a row is old enough.        *)
(***************************************************************************)
EXTENDS Naturals

CONSTANTS
  Unset,        \* in a field that has no value yet
  Events,       \* Stripe event ids
  Workers,      \* concurrent executions of runEvent
  MaxReplays    \* sweeper attempts before a row is parked: 3 in the code

VARIABLES
  inbox,        \* billing_events: [status, leased, aged, attempts]
  worker        \* each execution: [pc, event, source]

inboxVars == <<inbox, worker>>

Resting == [pc |-> "idle", event |-> Unset, source |-> Unset]
Busy(k) == worker[k].pc # "idle"

RowOf(status) ==
  [status |-> status, leased |-> FALSE, aged |-> FALSE, attempts |-> 0]

InboxInit ==
  /\ inbox = [e \in Events |-> RowOf("missing")]
  /\ worker = [k \in Workers |-> Resting]

(* INSERT .. ON CONFLICT DO UPDATE: a new row, or one unprocessed and not
   under a live lease.                                                      *)
Claimable(e) == inbox[e].status # "processed" /\ ~inbox[e].leased

(* runEvent up to the handler; without the row the call ends there, and a
   webhook is answered 200.                                                 *)
RunEvent(k, e, source) ==
  /\ ~Busy(k)
  /\ Claimable(e)
  /\ inbox' = [inbox EXCEPT ![e].status = "received", ![e].leased = TRUE]
  /\ worker' = [worker EXCEPT ![k] =
                  [pc |-> "start", event |-> e, source |-> source]]

(* Stripe delivers, again after a 5xx or a lost answer, and now and then
   without any reason; the staff console replays what is not processed.     *)
Deliver(k, e) == RunEvent(k, e, "caller")

Parked(e) == inbox[e].attempts > MaxReplays

(* Faulty: rows at the cap are no longer selected, so nobody parks them.    *)
StuckBelowCap(e) ==
  inbox[e].status = "received" /\ inbox[e].aged /\ inbox[e].attempts < MaxReplays

(* The sweeper's selection.                                                 *)
Stuck(e) == inbox[e].status = "received" /\ inbox[e].aged /\ ~Parked(e)

(* replay_attempts; nobody looks at those of a processed row.               *)
Count(e) ==
  inbox' = IF inbox[e].status = "processed" THEN inbox
           ELSE [inbox EXCEPT ![e].attempts = @ + 1]

(* sweepStuckEvents: park and alert at the cap, else re-pull from Stripe and
   replay, which may fail before the claim.                                 *)
Park(e) ==
  /\ Stuck(e) /\ inbox[e].attempts = MaxReplays
  /\ Count(e)
  /\ UNCHANGED worker

SweepReplay(k, e) ==
  /\ Stuck(e) /\ inbox[e].attempts < MaxReplays
  /\ \/ RunEvent(k, e, "sweeper")
     \/ ~Busy(k) /\ Count(e) /\ UNCHANGED worker

Leave(k) == worker' = [worker EXCEPT ![k] = Resting]

(* Faulty: the event is stamped before its handler has run.                 *)
StampFirst(k) ==
  /\ worker[k].pc \in {"start", "stamp"}
  /\ inbox' = [inbox EXCEPT ![worker[k].event] = RowOf("processed")]
  /\ Leave(k)

(* processed_at; nothing looks at the rest of a row that has it.            *)
Stamp(k) ==
  /\ worker[k].pc = "stamp"
  /\ inbox' = [inbox EXCEPT ![worker[k].event] = RowOf("processed")]
  /\ Leave(k)

(* The handler throws, or a caller's process dies in it: the row keeps its
   lease, and only the sweeper counts.                                      *)
HandlerThrows(k) ==
  /\ Busy(k)
  /\ IF worker[k].source = "sweeper" THEN Count(worker[k].event)
     ELSE UNCHANGED inbox
  /\ Leave(k)

(* Ten minutes pass after a claim, whether or not its handler still runs.   *)
LeaseExpires(e) ==
  /\ inbox[e].status = "received" /\ inbox[e].leased
  /\ inbox' = [inbox EXCEPT ![e].leased = FALSE, ![e].aged = TRUE]
  /\ UNCHANGED worker

InboxStep(k) ==
  \/ \E e \in Events : Deliver(k, e) \/ SweepReplay(k, e)
  \/ Stamp(k) \/ HandlerThrows(k)

InboxNext == (\E k \in Workers : InboxStep(k))
             \/ \E e \in Events : Park(e) \/ LeaseExpires(e)

Settled(e) == inbox[e].status = "processed" \/ Parked(e)
=============================================================================
