----------------------------- MODULE FoldKernel -----------------------------
(***************************************************************************)
(* The fold kernel of packages/engine/src/core/events.ts: void resolution   *)
(* and foldMatchWithStoppage.  An event is                                  *)
(*   [seq, type, payload, voids, key, by]                                   *)
(* where seq is its place in the fixture's ledger (the event id, as far as  *)
(* the fold can tell), voids the seq a core.void cancels or Null, key the   *)
(* idempotency key of the request that recorded it, by the device link or   *)
(* Null.  Game-time stamps are not modelled: no generic event carries one.  *)
(***************************************************************************)
EXTENDS GenericSport, Sequences, FiniteSetsExt, Folds

PostDecision == {"core.note", "core.finalize", "core.award"}
DuringStoppage == {"core.resume", "core.note", "core.award", "core.abandon",
                   "core.forfeit", "core.finalize"}

Voided(events) ==
  {events[i].voids : i \in {j \in DOMAIN events : events[j].type = "core.void"}}

(* Every void names an earlier event that is not itself a void.            *)
VoidsResolve(events) ==
  \A i \in DOMAIN events :
    events[i].type = "core.void" =>
      /\ events[i].voids \in 1..(i - 1)
      /\ events[events[i].voids].type # "core.void"

(* The places of the events that survive, in the order of the ledger.      *)
ResolveVoids(events) ==
  {i \in DOMAIN events : events[i].type # "core.void"
                         /\ events[i].seq \notin Voided(events)}

ActiveTypes(events) == {events[i].type : i \in ResolveVoids(events)}

(***************************************************************************)
(* One iteration of the fold loop over [state, decided, stopped].           *)
(***************************************************************************)
(* Faulty: guarantee 5 forgotten.                                           *)
BarredOnceDecided(acc, event) == acc.decided /\ event.type \notin PostDecision

Barred(acc, event) ==
  \/ acc.decided /\ event.type \notin PostDecision
  \/ acc.stopped /\ event.type \notin DuringStoppage

ApplyToModule(cfg, acc, event) ==
  LET next == Apply(cfg, acc.state, event)
  IN  IF next = Refused THEN [acc EXCEPT !.state = Refused]
      ELSE [state   |-> next,
            decided |-> acc.decided \/ next.outcome # Null,
            stopped |-> acc.stopped /\ (acc.decided \/ next.outcome = Null)]

FoldStep(cfg, acc, event) ==
  CASE acc.state = Refused -> acc
    [] acc.state # Refused /\ Barred(acc, event) ->
         [acc EXCEPT !.state = Refused]
    [] acc.state # Refused /\ ~Barred(acc, event) ->
         CASE event.type = "core.suspend" -> [acc EXCEPT !.stopped = TRUE]
           [] event.type = "core.resume" -> [acc EXCEPT !.stopped = FALSE]
           [] OTHER -> ApplyToModule(cfg, acc, event)

FoldInit == [state |-> InitState, decided |-> FALSE, stopped |-> FALSE]

(* The loop over the events at some places, the last place last.           *)
FoldOver(cfg, events, places) ==
  MapThenFoldSet(LAMBDA e, acc : FoldStep(cfg, acc, e), FoldInit,
                 LAMBDA i : events[i], LAMBDA S : Max(S), places)

FoldWithStoppage(cfg, events) ==
  IF VoidsResolve(events)
  THEN FoldOver(cfg, events, ResolveVoids(events))
  ELSE [FoldInit EXCEPT !.state = Refused]

FoldMatch(cfg, events) == FoldWithStoppage(cfg, events).state
=============================================================================
