-------------------------- MODULE DivisionHistory --------------------------
(***************************************************************************)
(* Undo and redo of a division's schedule                                   *)
(* (packages/engine/src/history/history.ts and                              *)
(* apps/web/src/server/usecases/history.ts, with the board edits of         *)
(* schedule.ts, schedule-plus.ts and stages.ts that it takes back).         *)
(*                                                                          *)
(* division_events is append-only: an undo appends the inverse of an edit   *)
(* and moves divisions.edit_watermark back before it, a redo appends a copy *)
(* and moves the watermark forward, and a fresh edit is meant to bring it   *)
(* back to the head.  Every writer holds the division's advisory lock; the  *)
(* scorers, who decide fixtures meanwhile, do not.                          *)
(*                                                                          *)
(* An event is [type, on, rows, original].  "moved" stands for the five     *)
(* types whose apply, inverse and executor are those of a list of moves:    *)
(* schedule_applied, _shifted, _edited, _cleared and _restored.  on gives   *)
(* each fixture concerned where it was and where it goes, both the same in  *)
(* an event that makes or drops fixtures; rows are the fixtures whose       *)
(* snapshots the payload carries, Null when it has none; original tells an  *)
(* edit from an inverse or a redo copy (__undo_of, __redo_of).              *)
(***************************************************************************)
EXTENDS Integers, Sequences, FiniteSets

CONSTANTS
  Null,          \* SQL null: no slot, no watermark, no snapshots
  Handlers,      \* concurrent requests
  Pairs,         \* the pairings that the generator makes, by ext_key
  Pool,          \* those of them in the pool that can be emptied
  Slots,         \* times and courts, as numbers that a shift adds to
  MaxMade,       \* bound: times the generator makes one pairing
  MaxEvents,     \* bound on the ledger
  MaxScores      \* bound on what the scorers do

ASSUME HistoryAssumption ==
  /\ Pool \subseteq Pairs /\ Slots \subseteq Int /\ Null \notin Slots
  /\ MaxMade \in Nat /\ MaxEvents \in Nat /\ MaxScores \in Nat
  /\ Null \notin Int /\ \A S \in SUBSET (Pairs \X (1..MaxMade)) : S # Null

VARIABLES
  fixture,       \* the fixtures table, [exists, at, status, keyed] by id
  events,        \* division_events, by seq
  watermark,     \* divisions.edit_watermark
  job,           \* what each request is at and what it has read
  scores,        \* what the scorers have done, for the bound
  detached       \* history: what has set table and ledger apart

vars == <<fixture, events, watermark, job, scores, detached>>

(* A fixture is the n-th that the generator made for its pairing: a new row
   has a new id, a row put back from a snapshot its old one.                *)
Ids == Pairs \X (1..MaxMade)
Where == Slots \cup {Null}
Statuses == {"scheduled", "in_play", "decided", "finalized"}
Rows == [exists : BOOLEAN, at : Where, status : Statuses, keyed : BOOLEAN]
NoRow == [exists |-> FALSE, at |-> Null, status |-> "scheduled", keyed |-> FALSE]

Types == {"moved", "generated", "cleared", "pool_cleared", "pool_restored", "noted"}
Held == {"undo", "redo", "clear", "pool", "apply", "shift"}
Idle == [op |-> "idle", read |-> [f \in Ids |-> NoRow], expected |-> Null]

Init ==
  /\ fixture = [f \in Ids |-> NoRow]
  /\ events = <<>> /\ watermark = Null
  /\ job = [h \in Handlers |-> Idle]
  /\ scores = 0 /\ detached = {}

----------------------------------------------------------------------------
(* The engine: what an event does to the schedule it is folded into, its
   inverse, and the fold of the first n events.                             *)

Effect(state, e) ==
  [f \in Ids |->
     IF f \notin DOMAIN e.on THEN state[f]
     ELSE CASE e.type = "moved" -> [state[f] EXCEPT !.at = e.on[f].to]
            [] e.type = "generated" -> [state[f] EXCEPT !.exists = TRUE]
            [] e.type = "pool_restored" -> [exists |-> TRUE, at |-> e.on[f].to]
            [] OTHER -> [exists |-> FALSE, at |-> Null]]

Fold(n) ==
  LET upTo[k \in 0..n] ==
        IF k = 0 THEN [f \in Ids |-> [exists |-> FALSE, at |-> Null]]
        ELSE Effect(upTo[k - 1], events[k])
  IN  upTo[n]

Opposite(type) ==
  CASE type = "generated" -> "cleared"
    [] type = "cleared" -> "generated"
    [] type = "pool_cleared" -> "pool_restored"
    [] type = "pool_restored" -> "pool_cleared"
    [] OTHER -> type

Inverted(e) ==
  [type |-> Opposite(e.type),
   on |-> [f \in DOMAIN e.on |-> [from |-> e.on[f].to, to |-> e.on[f].from]],
   rows |-> e.rows, original |-> FALSE]

Copy(e) == [type |-> e.type, on |-> e.on, rows |-> e.rows, original |-> FALSE]

Position == IF watermark = Null THEN Len(events) ELSE watermark
Reversible(i) == events[i].type # "noted"
Ahead == {i \in (Position + 1)..Len(events) : Reversible(i) /\ events[i].original}

(* i is the last edit before place n, 0 if there is none.                   *)
LastEdit(i, n) ==
  /\ i > 0 => Reversible(i)
  /\ \A j \in (i + 1)..(n - 1) : ~Reversible(j)

(* The results guard: no fixture the event touches was decided when read.   *)
Unguarded(h, e) == \A f \in DOMAIN e.on : job[h].read[f].status # "decided"

----------------------------------------------------------------------------
(* The tables, under the division lock.                                     *)

Locked == \E h \in Handlers : job[h].op \in Held
Existing == {f \in Ids : fixture[f].exists}
Decided(f) == fixture[f].exists /\ fixture[f].status = "decided"

(* Faulty: a write that trusts the guard.                                   *)
SparedNever(f) == FALSE

(* "and status <> 'decided'", in each statement of execute but the inserts. *)
Spared(f) == fixture[f].status = "decided"

Snapshots(S) == [f \in S |-> [from |-> fixture[f].at, to |-> fixture[f].at]]

PutBack(f, at) ==
  IF fixture[f].exists THEN fixture[f] ELSE [NoRow EXCEPT !.exists = TRUE, !.at = at]

Execute(e) ==
  [f \in Ids |->
     IF f \notin DOMAIN e.on THEN fixture[f]
     ELSE CASE e.type = "moved" ->
                 IF Spared(f) \/ ~fixture[f].exists THEN fixture[f]
                 ELSE [fixture[f] EXCEPT !.at = e.on[f].to]
            [] e.type \in {"cleared", "pool_cleared"} ->
                 IF Spared(f) THEN fixture[f] ELSE NoRow
            [] OTHER ->
                 IF e.rows # Null /\ f \in e.rows THEN PutBack(f, e.on[f].to)
                 ELSE fixture[f]]

Append1(e) == events' = Append(events, e)
Blame(causes) == detached' = detached \cup causes
RaceOn(e) == IF \E f \in DOMAIN e.on : Decided(f) THEN {"raced"} ELSE {}
StaleMark == IF watermark # Null THEN {"stale"} ELSE {}

----------------------------------------------------------------------------
(* Requests.  One that takes the lock reads the table under it; the writes
   of its transaction follow, and only scorers come in between.             *)

Room == Len(events) < MaxEvents
Work(op, expected) == [op |-> op, read |-> fixture, expected |-> expected]
Done(h) == job' = [job EXCEPT ![h] = Idle]

(* Faulty: nothing waits for the division lock.                             *)
TakeAnyway(h, op) ==
  /\ job[h].op = "idle"
  /\ job' = [job EXCEPT ![h] = Work(op, Null)]
  /\ UNCHANGED <<fixture, events, watermark, scores, detached>>

Take(h, op) ==
  /\ job[h].op = "idle" /\ ~Locked
  /\ job' = [job EXCEPT ![h] = Work(op, Null)]
  /\ UNCHANGED <<fixture, events, watermark, scores, detached>>

(* step, "undo": the inverse of the last edit before the watermark.  Undoing
   a generation takes the snapshots that its event was recorded without.    *)
Enriched(e) ==
  IF e.type = "cleared" /\ e.rows = Null
  THEN [type |-> "cleared", on |-> Snapshots(DOMAIN e.on),
        rows |-> DOMAIN e.on \cap Existing, original |-> e.original]
  ELSE e

Undo(h) ==
  /\ job[h].op = "undo" /\ Room
  /\ \E target \in 1..Position : \E before \in 0..(target - 1) :
       LET e == Enriched(Inverted(events[target]))
       IN  /\ LastEdit(target, Position + 1) /\ LastEdit(before, target)
           /\ Unguarded(h, events[target])
           /\ fixture' = Execute(e)
           /\ Append1(e)
           /\ watermark' = before
           /\ Blame(RaceOn(e))
  /\ Done(h)
  /\ UNCHANGED scores

(* step, "redo": the next original edit after the watermark.  A generation
   recorded without snapshots is made again by the generator, outside the
   transaction.                                                             *)
Redo(h) ==
  /\ job[h].op = "redo" /\ Room
  /\ \E next \in Ahead :
       LET e == Copy(events[next])
           again == e.type = "generated" /\ e.rows = Null
       IN  /\ \A j \in Ahead : next <= j
           /\ Unguarded(h, e)
           /\ fixture' = Execute(e)
           /\ Append1(e)
           /\ watermark' = next
           /\ Blame(RaceOn(e)
                    \cup (IF \E i \in (Position + 1)..(next - 1) : Reversible(i)
                          THEN {"skipped"} ELSE {})
                    \cup (IF again THEN {"regenerated"} ELSE {}))
           /\ job' = [job EXCEPT ![h] = IF again THEN Work("generate", Null) ELSE Idle]
  /\ UNCHANGED scores

(* generateStageFixtures: the pairings that no row with an ext_key stands for. *)
Missing == {p \in Pairs : \A f \in Existing : f[1] = p => ~fixture[f].keyed}
Made(p) == Cardinality({n \in 1..MaxMade :
             \E i \in DOMAIN events : <<p, n>> \in DOMAIN events[i].on})

Generate(h) ==
  /\ job[h].op \in {"idle", "generate"} /\ ~Locked /\ Room
  /\ \A p \in Missing : Made(p) < MaxMade
  /\ Missing # {} /\ Done(h)
  /\ LET new == {<<p, Made(p) + 1>> : p \in Missing}
     IN  /\ fixture' = [f \in Ids |-> IF f \in new
                          THEN [NoRow EXCEPT !.exists = TRUE, !.keyed = TRUE]
                          ELSE fixture[f]]
         /\ Append1([type |-> "generated",
                     on |-> [f \in new |-> [from |-> Null, to |-> Null]],
                     rows |-> Null, original |-> TRUE])
  /\ watermark' = Null
  /\ UNCHANGED <<scores, detached>>

Movement(on) == [type |-> "moved", on |-> on, rows |-> Null, original |-> TRUE]

(* From where the transaction has read the rows to where it puts them.      *)
MoveTo(h, to) == [f \in DOMAIN to |-> [from |-> job[h].read[f].at, to |-> to[f]]]
Rewrite(on) ==
  fixture' = [f \in Ids |-> IF f \in DOMAIN on /\ fixture[f].exists
                THEN [fixture[f] EXCEPT !.at = on[f].to] ELSE fixture[f]]

(* applySchedule, and each division's part of the joint apply.  Neither
   touches the watermark.                                                   *)
Apply(h) ==
  /\ job[h].op = "apply" /\ Room
  /\ \E S \in (SUBSET Existing) \ {{}} : \E to \in [S -> Slots] :
       LET on == MoveTo(h, to)
       IN  /\ \A f \in S : job[h].read[f].status = "scheduled"
           /\ Rewrite(on) /\ Append1(Movement(on))
  /\ Blame(StaleMark)
  /\ Done(h)
  /\ UNCHANGED <<watermark, scores>>

(* moveFixture reads the row before it asks for the lock; the client's
   expected_seq, when it sends one, is the only thing compared after.       *)
MoveRead(h) ==
  /\ job[h].op = "idle"
  /\ \E expected \in {Null, Len(events)} :
       job' = [job EXCEPT ![h] = Work("move", expected)]
  /\ UNCHANGED <<fixture, events, watermark, scores, detached>>

(* Faulty: the token is compared with nothing.                              *)
FreshAnyway(h) == TRUE

Fresh(h) == job[h].expected \in {Null, Len(events)}

MoveWrite(h) ==
  /\ job[h].op = "move" /\ ~Locked /\ Room /\ Fresh(h)
  /\ \E f \in Ids : \E slot \in Where :
       LET row == job[h].read[f]
           on == MoveTo(h, [g \in {f} |-> slot])
       IN  /\ row.exists /\ row.status = "scheduled"
           /\ Rewrite(on) /\ Append1(Movement(on))
           /\ Blame(StaleMark
                    \cup (IF job[h].expected = Null /\ (fixture[f].at # row.at \/ ~fixture[f].exists)
                          THEN {"raced"} ELSE {}))
  /\ Done(h)
  /\ UNCHANGED <<watermark, scores>>

(* shiftDivisionSchedule: the placed, undecided fixtures in scope, by delta. *)
Shift(h) ==
  /\ job[h].op = "shift" /\ Room
  /\ \E S \in (SUBSET Existing) \ {{}} : \E delta \in {-1, 1} :
       LET on == MoveTo(h, [f \in S |-> job[h].read[f].at + delta])
       IN  /\ \A f \in S : /\ job[h].read[f].at # Null
                           /\ job[h].read[f].at + delta \in Slots
                           /\ job[h].read[f].status # "decided"
           /\ Rewrite(on) /\ Append1(Movement(on))
  /\ watermark' = Null
  /\ Done(h)
  /\ UNCHANGED <<scores, detached>>

(* clearScheduleScoped: the same fixtures lose their place.                 *)
Clear(h) ==
  /\ job[h].op = "clear" /\ Room
  /\ \E S \in (SUBSET Existing) \ {{}} :
       LET e == Movement(MoveTo(h, [f \in S |-> Null]))
       IN  /\ \A f \in S : job[h].read[f].at # Null /\ job[h].read[f].status # "decided"
           /\ fixture' = Execute(e) /\ Append1(e) /\ Blame(RaceOn(e))
  /\ watermark' = Null
  /\ Done(h)
  /\ UNCHANGED scores

(* clearPoolEntrants: all fixtures of the pool, unless one is decided.      *)
ClearPool(h) ==
  /\ job[h].op = "pool" /\ Room
  /\ LET S == {f \in Existing : f[1] \in Pool}
         e == [type |-> "pool_cleared", on |-> Snapshots(S), rows |-> S, original |-> TRUE]
     IN  /\ Unguarded(h, e)
         /\ fixture' = Execute(e) /\ Append1(e) /\ Blame(RaceOn(e))
  /\ watermark' = Null
  /\ Done(h)
  /\ UNCHANGED scores

(* Any other division event, as a completed stage: history passes over it.  *)
Note(h) ==
  /\ job[h].op = "idle" /\ ~Locked /\ Room
  /\ Append1([type |-> "noted", on |-> <<>>, rows |-> Null, original |-> TRUE])
  /\ UNCHANGED <<fixture, watermark, job, scores, detached>>

(* A refusal rolls back, and so does a crash; one before the generator is
   called again leaves the redone generation without its fixtures.          *)
Quit(h) ==
  /\ job[h].op # "idle"
  /\ Done(h)
  /\ UNCHANGED <<fixture, events, watermark, scores, detached>>

(* A scorer's event under the fixture's own lock, a void among them.        *)
Score(f) ==
  /\ fixture[f].exists /\ scores < MaxScores
  /\ \E next \in Statuses :
       /\ <<fixture[f].status, next>> \in
            {<<"scheduled", "in_play">>, <<"in_play", "decided">>,
             <<"decided", "in_play">>, <<"decided", "finalized">>}
       /\ fixture' = [fixture EXCEPT ![f].status = next]
  /\ scores' = scores + 1
  /\ UNCHANGED <<events, watermark, job, detached>>

HistoryStep(h) == Undo(h) \/ Redo(h) \/ Clear(h) \/ ClearPool(h)
BoardEdit(h) == Apply(h) \/ MoveRead(h) \/ MoveWrite(h) \/ Shift(h)
Next ==
  \/ \E h \in Handlers :
       \/ \E op \in Held : Take(h, op)
       \/ HistoryStep(h) \/ BoardEdit(h) \/ Generate(h) \/ Note(h) \/ Quit(h)
  \/ \E f \in Ids : Score(f)

Spec == Init /\ [][Next]_vars

----------------------------------------------------------------------------
(* Properties.                                                              *)

Moves == [from : Where, to : Where]
MovesOf == UNION {[S -> Moves] : S \in SUBSET Ids}
EventsOf == [type : Types, on : MovesOf,
             rows : (SUBSET Ids) \cup {Null}, original : BOOLEAN]
Jobs == [op : Held \cup {"idle", "move", "generate"},
         read : [Ids -> Rows], expected : Nat \cup {Null}]

Causes == {"stale", "raced", "skipped", "regenerated"}

(* The watermark names a place in the ledger.                               *)
LedgerTyped ==
  /\ events \in Seq(EventsOf)
  /\ watermark = Null \/ watermark \in 0..Len(events)

(* One transaction at a time holds the division lock.                       *)
JobsTyped ==
  /\ job \in [Handlers -> Jobs]
  /\ \A g, h \in Handlers : job[g].op \in Held /\ job[h].op \in Held => g = h

(* Types; one transaction at a time holds the division lock, and the
   watermark names a place in the ledger.                                   *)
HistoryTypeOK ==
  /\ fixture \in [Ids -> Rows]
  /\ LedgerTyped /\ JobsTyped
  /\ scores \in Nat
  /\ detached \subseteq Causes

(* What the table has, in the terms of a fold.                              *)
Agrees ==
  \A f \in Ids :
    LET folded == Fold(Position)[f]
    IN  folded.exists = fixture[f].exists /\ folded.at = fixture[f].at

(* "fold(events <= watermark) is always the current schedule state": through
   any undos, redos, clears, shifts and generations, as long as no board edit
   was made behind the head, no redo passed over an undone event or ran the
   generator, no fixture was decided between a reading and its use, and a
   move that read its row too early had an expected_seq.                    *)
LinearHistoryFolds == detached = {} => Agrees

(* The same sentence for the one case that is nobody's race: an edit of the
   board after an undo.                                                     *)
FoldIsTable == detached \subseteq {"stale"} => Agrees

(* Whatever its event says, an undo, redo or clear leaves a fixture alone that
   is decided by the time it writes, be it decided after the guard looked.  *)
DecidedStands ==
  [][\A h \in Handlers :
       job[h].op \in {"undo", "redo", "clear", "pool"} /\ job'[h] # job[h] =>
         \A f \in Ids : Decided(f) => fixture'[f] = fixture[f]]_vars
=============================================================================
