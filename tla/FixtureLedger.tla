--------------------------- MODULE FixtureLedger ----------------------------
(***************************************************************************)
(* One fixture's event ledger as its transactions see it: appendEvent,      *)
(* foldFixture and rebuildState (apps/web/src/server/engine-db) and the     *)
(* staff re-snapshot hatch (usecases/admin-fixture-config.ts).  Each of     *)
(* them holds the fixture's advisory lock to commit, so each is one action; *)
(* organisers' config edits commit beside them.  ScoreLedger adds the       *)
(* requests that reach appendEvent.                                         *)
(***************************************************************************)
EXTENDS FoldKernel, FiniteSets

CONSTANTS
  Keys,         \* idempotency keys, one per client action
  DeviceLinks,  \* day-of device links an event may be recorded through
  Menu,         \* what is recorded: [type, payload] records
  Cfgs,         \* the configs an organiser may give the division
  StageKind,    \* the fixture's stage kind
  MaxEdits      \* bound: config edits and re-snapshots

ASSUME FixtureLedgerAssumption ==
  /\ Null \notin Keys /\ Null \notin DeviceLinks /\ Null \notin Cfgs
  /\ Null \notin Outcomes
  /\ \A m \in Menu : m.type = "generic.result" => m.payload.winner \in Sides \cup {Null}
  /\ MaxEdits \in Nat

VARIABLES
  fixture,      \* fixtures row: status, outcome, snapshot (config_snapshot)
  ledger,       \* score_events of the fixture in seq order
  matchState,   \* match_states row: Null or [lastSeq, state]
  divisionCfg,  \* divisions.config
  edits         \* config edits and re-snapshots so far, for the bound

ledgerVars == <<fixture, ledger, matchState, divisionCfg, edits>>

(* Faulty: a finalized ledger left open.                                    *)
LockedCancelled == {"cancelled"}

Locked == {"finalized", "cancelled"}

ResolveFixtureCfg == IF fixture.snapshot # Null THEN fixture.snapshot
                     ELSE divisionCfg

(* fixtures.status as a function of the fold and the surviving events.     *)
StatusFromFold(outcome, active) ==
  CASE "core.abandon" \in active -> "abandoned"
    [] "core.abandon" \notin active /\ outcome # Null ->
         IF "core.forfeit" \in active THEN "forfeited" ELSE "decided"
    [] OTHER -> IF "core.start" \in active THEN "in_play" ELSE "scheduled"

(* Faulty: status by transition, so an undone start leaves the fixture in play. *)
StickyStatus(type, outcome, active) ==
  CASE type = "core.finalize" -> "finalized"
    [] type # "core.finalize" /\ outcome = Null /\ fixture.status = "in_play" -> "in_play"
    [] OTHER -> StatusFromFold(outcome, active)

NextStatus(type, outcome, active) ==
  IF type = "core.finalize" THEN "finalized" ELSE StatusFromFold(outcome, active)

LedgerInit ==
  /\ fixture = [status |-> "scheduled", outcome |-> Null, snapshot |-> Null]
  /\ ledger = <<>>
  /\ matchState = Null
  /\ divisionCfg \in Cfgs
  /\ edits = 0

(* The fold-validated write: everything between lock and commit.            *)
Validates(cfg, event) ==
  LET state == FoldMatch(cfg, Append(ledger, event))
  IN  /\ state # Refused
      /\ state.outcome = Draw => SupportsDraws(cfg, StageKind)

(* Faulty: the row is rewritten only by a decision.                         *)
RowMovesOnDecision(status, outcome) == outcome # Null

(* The row is rewritten also when a void erased a stored outcome.          *)
RowMoves(status, outcome) ==
  status # fixture.status \/ outcome # Null \/ fixture.outcome # Null

(* Faulty: no config is ever frozen, as before V347.                        *)
NeverFreezes == FALSE

FreezesCfg == fixture.snapshot = Null /\ ledger = <<>>

RecordEvent(cfg, event) ==
  LET stream  == Append(ledger, event)
      state   == FoldMatch(cfg, stream)
      status  == NextStatus(event.type, state.outcome, ActiveTypes(stream))
      frozen  == IF FreezesCfg THEN cfg ELSE fixture.snapshot
  IN  /\ ledger' = stream
      /\ matchState' = [lastSeq |-> event.seq, state |-> state]
      /\ fixture' = IF RowMoves(status, state.outcome)
                    THEN [status |-> status, outcome |-> state.outcome,
                          snapshot |-> frozen]
                    ELSE [fixture EXCEPT !.snapshot = frozen]

EventTargets(type) == IF type = "core.void" THEN 1..Len(ledger) ELSE {Null}

NewEvent(m, target, k, by) ==
  [seq |-> Len(ledger) + 1, type |-> m.type, payload |-> m.payload,
   voids |-> target, key |-> k, by |-> by]

AppendEvent(k, by) ==
  /\ fixture.status \notin Locked
  /\ \E m \in Menu : \E target \in EventTargets(m.type) :
       /\ Validates(ResolveFixtureCfg, NewEvent(m, target, k, by))
       /\ RecordEvent(ResolveFixtureCfg, NewEvent(m, target, k, by))
  /\ UNCHANGED <<divisionCfg, edits>>

(***************************************************************************)
(* Organisers and staff.                                                    *)
(***************************************************************************)
(* patchDivision refuses format edits once fixtures exist, but checks without
   a lock: an edit that passed the check before this fixture was generated
   commits at any later time.                                               *)
EditConfig ==
  /\ edits < MaxEdits
  /\ edits' = edits + 1
  /\ divisionCfg' \in Cfgs \ {divisionCfg}
  /\ UNCHANGED <<fixture, ledger, matchState>>

(* rebuildState: refold under the lock; the outcome only where none is set. *)
RebuildState ==
  /\ ledger # <<>>
  /\ LET state == FoldMatch(ResolveFixtureCfg, ledger)
     IN  /\ state # Refused
         /\ matchState' = [lastSeq |-> Len(ledger), state |-> state]
         /\ fixture' = [fixture EXCEPT
              !.outcome = IF @ = Null THEN state.outcome ELSE @]
  /\ UNCHANGED <<ledger, divisionCfg, edits>>

(* Faulty: a re-snapshot without the preflight fold.                        *)
ResnapshotUnread ==
  /\ edits < MaxEdits
  /\ edits' = edits + 1
  /\ fixture.status \notin Locked
  /\ fixture.snapshot # Null
  /\ fixture' = [fixture EXCEPT !.snapshot = divisionCfg]
  /\ UNCHANGED <<ledger, matchState, divisionCfg>>

(* resnapshotFixtureConfig: re-freeze live config if the ledger reads under it. *)
ResnapshotFixtureConfig ==
  /\ edits < MaxEdits
  /\ edits' = edits + 1
  /\ fixture.status \notin Locked
  /\ fixture.snapshot # Null
  /\ LET state == FoldMatch(divisionCfg, ledger)
     IN  /\ state # Refused
         /\ matchState' = [lastSeq |-> Len(ledger), state |-> state]
         /\ fixture' = [status   |-> StatusFromFold(state.outcome, ActiveTypes(ledger)),
                        outcome  |-> state.outcome,
                        snapshot |-> divisionCfg]
  /\ UNCHANGED <<ledger, divisionCfg>>

LedgerNext ==
  \/ \E k \in Keys, by \in DeviceLinks \cup {Null} : AppendEvent(k, by)
  \/ EditConfig \/ RebuildState \/ ResnapshotFixtureConfig

(* An operation that changes something; the first conjunct spares TLC trying
   the operations on every stutter of the specification that implements it. *)
LedgerStep == ledgerVars' # ledgerVars /\ LedgerNext

LedgerSpec == LedgerInit /\ [][LedgerStep]_ledgerVars

(***************************************************************************)
(* Properties.                                                              *)
(***************************************************************************)
EventOf == [seq : Nat \ {0}, type : {m.type : m \in Menu},
            payload : {m.payload : m \in Menu}, voids : Nat \cup {Null},
            key : Keys, by : DeviceLinks \cup {Null}]

(* Types of the rows; the ledger is gapless from 1.                        *)
LedgerTypeOK ==
  /\ fixture = [status |-> fixture.status, outcome |-> fixture.outcome,
                snapshot |-> fixture.snapshot]
  /\ fixture.snapshot \in Cfgs \cup {Null}
  /\ ledger \in Seq(EventOf)
  /\ \A i \in DOMAIN ledger : ledger[i].seq = i
  /\ divisionCfg \in Cfgs
  /\ edits \in Nat

(* A recorded ledger always folds again under the config the fixture reads,
   whatever the organiser has since edited and staff re-frozen: the freeze on
   the first event and the re-snapshot preflight of appendEvent / admin.    *)
LedgerReplays == ledger # <<>> => FoldMatch(ResolveFixtureCfg, ledger) # Refused

(* match_states and fixtures.outcome are exactly the fold of the ledger: no
   append, void, rebuild or re-snapshot leaves a stale cache behind.        *)
CacheIsFold ==
  IF ledger = <<>> THEN matchState = Null /\ fixture.outcome = Null
  ELSE LET state == FoldMatch(ResolveFixtureCfg, ledger)
       IN  /\ matchState = [lastSeq |-> Len(ledger), state |-> state]
           /\ fixture.outcome = state.outcome

(* fixtures.status agrees with the surviving events: an undecided fixture is
   never shown decided, a voided start or forfeit never lingers, and only an
   active core.finalize locks (nextStatus, fixtureStatusFromFold).          *)
StatusFollowsLedger ==
  LET active == ActiveTypes(ledger)
  IN  CASE fixture.status = "finalized" ->
             "core.finalize" \in active /\ fixture.outcome # Null
        [] fixture.status = "abandoned" -> fixture.outcome = NoResult
        [] fixture.status = "forfeited" -> fixture.outcome.kind = "award"
        [] fixture.status = "decided" -> fixture.outcome.kind \in {"win", "draw"}
        [] fixture.status = "in_play" -> fixture.outcome = Null /\ "core.start" \in active
        [] fixture.status = "scheduled" -> fixture.outcome = Null /\ "core.start" \notin active
        [] OTHER -> FALSE

(* No config history locks scorers out: while a fixture is not locked, a
   scorer could still record a note (the argument in the long comment of
   resnapshotFixtureConfig that the recovery vocabulary survives every cfg). *)
NotLockedOut ==
  fixture.status \notin Locked =>
    Validates(ResolveFixtureCfg,
              [seq |-> Len(ledger) + 1, type |-> "core.note", payload |-> Null,
               voids |-> Null, key |-> Null, by |-> Null])

(* Between an active core.suspend and the resume that follows it the surviving
   ledger holds only annotations and events that end the stoppage, even after
   undos re-expose the suspension (guarantee 5 of foldMatch).               *)
StoppageRecordsNothing ==
  LET active == ResolveVoids(ledger)
  IN  \A i, j \in active :
        /\ i < j /\ ledger[i].type = "core.suspend"
        /\ \A n \in active \cap (i + 1)..(j - 1) :
             ledger[n].type \notin {"core.resume", "core.abandon", "core.forfeit"}
        => ledger[j].type \in DuringStoppage

(* A finalized fixture is final: its ledger, status, outcome and frozen config
   never change again, whoever was already past the checks.                 *)
FinalizedIsFinal ==
  [][fixture.status = "finalized" => UNCHANGED <<fixture, ledger>>]_ledgerVars

(* The ledger only ever grows by one event, and a result already entered
   changes only by an undo or where staff re-freeze the config: no other event
   recorded after it (the fold's post-decision vocabulary), no rebuild and no
   edit of the division's config moves it.  A re-freeze rewrites it as the new
   config reads the ledger and may un-decide the fixture
   (resnapshotFixtureConfig) - in sports whose config says when a match is
   over; the generic sport's does not.                                      *)
ResultStands ==
  [][/\ ledger' # ledger => SubSeq(ledger', 1, Len(ledger)) = ledger
                            /\ Len(ledger') = Len(ledger) + 1
     /\ fixture.outcome # Null /\ fixture'.outcome # fixture.outcome =>
          \/ ledger' # ledger /\ ledger'[Len(ledger')].type = "core.void"
          \/ ResnapshotFixtureConfig]_ledgerVars
=============================================================================
