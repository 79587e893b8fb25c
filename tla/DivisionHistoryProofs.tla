----------------------- MODULE DivisionHistoryProofs -----------------------
(* Proofs about DivisionHistory: its types with the division lock's
   exclusion, and that history leaves decided fixtures alone.               *)
EXTENDS DivisionHistory, Induction, SequenceTheorems, FiniteSetTheorems, TLAPS

(* The moves of an event are a function on some of the fixtures.            *)
LEMMA MovesDomain ==
  ASSUME NEW on \in MovesOf
  PROVE  DOMAIN on \subseteq Ids /\ on \in [DOMAIN on -> Moves]
BY DEF MovesOf

LEMMA MovesMade ==
  ASSUME NEW S, S \subseteq Ids, NEW on \in [S -> Moves]
  PROVE  on \in MovesOf
BY DEF MovesOf

(* The inverse and the copy of an event are events.                         *)
LEMMA InvertedOK ==
  ASSUME NEW e \in EventsOf
  PROVE  Inverted(e) \in EventsOf /\ DOMAIN Inverted(e).on = DOMAIN e.on
<1> DEFINE on == [f \in DOMAIN e.on |-> [from |-> e.on[f].to, to |-> e.on[f].from]]
<1>1. e.on \in MovesOf /\ e.type \in Types /\ e.rows \in (SUBSET Ids) \cup {Null}
  BY DEF EventsOf
<1>2. DOMAIN e.on \subseteq Ids /\ e.on \in [DOMAIN e.on -> Moves]
  BY <1>1, MovesDomain
<1>3. on \in [DOMAIN e.on -> Moves]
  BY <1>2 DEF Moves
<1>4. on \in MovesOf
  BY <1>2, <1>3, MovesMade
<1>5. Opposite(e.type) \in Types
  BY <1>1 DEF Opposite, Types
<1>6. Inverted(e) = [type |-> Opposite(e.type), on |-> on, rows |-> e.rows, original |-> FALSE]
  BY DEF Inverted
<1>7. DOMAIN on = DOMAIN e.on
  OBVIOUS
<1> HIDE DEF on
<1> QED
  BY <1>1, <1>4, <1>5, <1>6, <1>7 DEF EventsOf

LEMMA CopyOK ==
  ASSUME NEW e \in EventsOf
  PROVE  Copy(e) \in EventsOf
BY DEF EventsOf, Copy

(* Snapshots of existing or missing rows are moves.                         *)
LEMMA SnapshotsOK ==
  ASSUME fixture \in [Ids -> Rows], NEW S, S \subseteq Ids
  PROVE  Snapshots(S) \in MovesOf /\ DOMAIN Snapshots(S) = S
<1>1. \A f \in S : fixture[f].at \in Where
  BY DEF Rows
<1>2. Snapshots(S) \in [S -> Moves]
  BY <1>1 DEF Snapshots, Moves
<1> QED
  BY <1>2, MovesMade DEF Snapshots

LEMMA EnrichedOK ==
  ASSUME fixture \in [Ids -> Rows], NEW e \in EventsOf
  PROVE  Enriched(e) \in EventsOf
<1> DEFINE S == DOMAIN e.on
<1>1. e.on \in MovesOf /\ e.original \in BOOLEAN
  BY DEF EventsOf
<1>2. S \subseteq Ids
  BY <1>1, MovesDomain
<1>3. Snapshots(S) \in MovesOf
  BY <1>2, SnapshotsOK
<1>4. S \cap Existing \in SUBSET Ids
  BY <1>2
<1>5. "cleared" \in Types
  BY DEF Types
<1> QED
  BY <1>1, <1>3, <1>4, <1>5 DEF EventsOf, Enriched

(* What a history event and an organiser's move leave in the table.         *)
LEMMA NoRowOK == NoRow \in Rows
BY DEF NoRow, Rows, Where, Statuses

LEMMA ExecuteOK ==
  ASSUME fixture \in [Ids -> Rows], NEW e \in EventsOf
  PROVE  Execute(e) \in [Ids -> Rows]
<1>1. e.on \in MovesOf
  BY DEF EventsOf
<1>2. e.on \in [DOMAIN e.on -> Moves]
  BY <1>1, MovesDomain
<1>3. \A f \in DOMAIN e.on : e.on[f].to \in Where
  BY <1>2 DEF Moves
<1>4. \A f \in Ids : fixture[f] \in Rows
  OBVIOUS
<1>5. \A f \in DOMAIN e.on : f \in Ids => PutBack(f, e.on[f].to) \in Rows
  BY <1>3, <1>4 DEF PutBack, NoRow, Rows, Statuses
<1>6. \A f \in DOMAIN e.on : f \in Ids => [fixture[f] EXCEPT !.at = e.on[f].to] \in Rows
  BY <1>3, <1>4 DEF Rows
<1> QED
  BY <1>4, <1>5, <1>6, NoRowOK DEF Execute

LEMMA RewriteOK ==
  ASSUME fixture \in [Ids -> Rows], NEW on \in MovesOf, Rewrite(on)
  PROVE  fixture' \in [Ids -> Rows]
<1>1. \A f \in DOMAIN on : on[f].to \in Where
  BY MovesDomain DEF Moves
<1>2. \A f \in Ids : fixture[f] \in Rows
  OBVIOUS
<1>3. \A f \in DOMAIN on : f \in Ids => [fixture[f] EXCEPT !.at = on[f].to] \in Rows
  BY <1>1, <1>2 DEF Rows
<1> QED
  BY <1>2, <1>3 DEF Rewrite

LEMMA MoveToOK ==
  ASSUME HistoryTypeOK, NEW h \in Handlers, NEW S, S \subseteq Ids, NEW to \in [S -> Where]
  PROVE  /\ MoveTo(h, to) \in MovesOf
         /\ Movement(MoveTo(h, to)) \in EventsOf
<1>1. \A f \in S : job[h].read[f].at \in Where
  BY DEF HistoryTypeOK, JobsTyped, Jobs, Rows
<1>2. MoveTo(h, to) \in [S -> Moves]
  BY <1>1 DEF MoveTo, Moves
<1>3. MoveTo(h, to) \in MovesOf
  BY <1>2, MovesMade
<1> QED
  BY <1>3 DEF Movement, EventsOf, Types

(* The table a request has read is one, and Work and Idle are jobs.         *)
LEMMA WorkOK ==
  ASSUME HistoryTypeOK, NEW op \in Held \cup {"idle", "move", "generate"},
         NEW expected \in Nat \cup {Null}
  PROVE  Work(op, expected) \in Jobs
BY DEF HistoryTypeOK, Jobs, Work

LEMMA IdleOK == Idle \in Jobs /\ Idle.op \notin Held
BY NoRowOK DEF Idle, Jobs, Held

(* What every write has in common: it appends an event, ends its request and
   may note what it has set apart.                                          *)
LEMMA AppendKeeps ==
  ASSUME LedgerTyped, NEW e \in EventsOf, Append1(e)
  PROVE  events' \in Seq(EventsOf) /\ Len(events') = Len(events) + 1 /\ Len(events) \in Nat
BY AppendProperties, LenProperties DEF LedgerTyped, Append1

LEMMA HeadKeeps ==
  ASSUME LedgerTyped, NEW e \in EventsOf, Append1(e), UNCHANGED watermark \/ watermark' = Null
  PROVE  LedgerTyped'
BY AppendKeeps DEF LedgerTyped

LEMMA MarkKeeps ==
  ASSUME LedgerTyped, NEW e \in EventsOf, Append1(e), watermark' \in 0..Len(events)
  PROVE  LedgerTyped'
BY AppendKeeps DEF LedgerTyped

LEMMA DoneKeeps ==
  ASSUME JobsTyped, NEW h \in Handlers, Done(h)
  PROVE  JobsTyped'
BY IdleOK DEF JobsTyped, Done

(* A request may come to hold the lock when nobody does.                    *)
LEMMA StartKeeps ==
  ASSUME JobsTyped, NEW h \in Handlers, NEW new \in Jobs,
         ~Locked \/ new.op \notin Held, job' = [job EXCEPT ![h] = new]
  PROVE  JobsTyped'
BY DEF JobsTyped, Locked

LEMMA BlameKeeps ==
  ASSUME detached \subseteq Causes, NEW causes, causes \subseteq Causes, Blame(causes)
  PROVE  (detached \subseteq Causes)'
BY DEF Blame

LEMMA CausesOK == /\ StaleMark \subseteq Causes
                  /\ \A e : RaceOn(e) \subseteq Causes
BY DEF StaleMark, RaceOn, Causes

LEMMA PositionOK ==
  ASSUME LedgerTyped
  PROVE  Position \in 0..Len(events) /\ Len(events) \in Nat
BY LenProperties DEF LedgerTyped, Position

----------------------------------------------------------------------------
(* Each action keeps the types.                                             *)

LEMMA TakeKeeps ==
  ASSUME HistoryTypeOK, NEW h \in Handlers, NEW op \in Held, Take(h, op)
  PROVE  HistoryTypeOK'
<1>1. Work(op, Null) \in Jobs
  BY WorkOK
<1>2. JobsTyped'
  BY <1>1, StartKeeps DEF Take, HistoryTypeOK
<1> QED
  BY <1>2 DEF Take, HistoryTypeOK, LedgerTyped

LEMMA UndoKeeps ==
  ASSUME HistoryTypeOK, NEW h \in Handlers, Undo(h)
  PROVE  HistoryTypeOK'
<1>1. PICK target \in 1..Position : \E before \in 0..(target - 1) :
        /\ fixture' = Execute(Enriched(Inverted(events[target])))
        /\ Append1(Enriched(Inverted(events[target])))
        /\ watermark' = before
        /\ Blame(RaceOn(Enriched(Inverted(events[target]))))
  BY DEF Undo
<1> DEFINE e == Enriched(Inverted(events[target]))
<1>2. target \in 1..Len(events) /\ watermark' \in 0..Len(events)
  BY <1>1, PositionOK DEF HistoryTypeOK
<1>3. events[target] \in EventsOf
  BY <1>2, ElementOfSeq DEF HistoryTypeOK, LedgerTyped
<1>4. e \in EventsOf
  BY <1>3, InvertedOK, EnrichedOK DEF HistoryTypeOK
<1>5. fixture' = Execute(e) /\ Append1(e) /\ Blame(RaceOn(e))
  BY <1>1
<1> HIDE DEF e
<1>6. fixture' \in [Ids -> Rows] /\ LedgerTyped' /\ (detached \subseteq Causes)'
  BY <1>2, <1>4, <1>5, ExecuteOK, MarkKeeps, BlameKeeps, CausesOK DEF HistoryTypeOK
<1>7. JobsTyped' /\ scores' = scores
  BY DoneKeeps DEF Undo, HistoryTypeOK
<1> QED
  BY <1>6, <1>7 DEF HistoryTypeOK

LEMMA RedoKeeps ==
  ASSUME HistoryTypeOK, NEW h \in Handlers, Redo(h)
  PROVE  HistoryTypeOK'
<1>1. PICK next \in Ahead : \E again \in BOOLEAN : \E skipped \in SUBSET Causes :
        /\ fixture' = Execute(Copy(events[next]))
        /\ Append1(Copy(events[next]))
        /\ watermark' = next
        /\ Blame(RaceOn(Copy(events[next])) \cup skipped)
        /\ job' = [job EXCEPT ![h] = IF again THEN Work("generate", Null) ELSE Idle]
  <2>1. PICK next \in Ahead :
          /\ fixture' = Execute(Copy(events[next]))
          /\ Append1(Copy(events[next]))
          /\ watermark' = next
          /\ Blame(RaceOn(Copy(events[next]))
                   \cup (IF \E i \in (Position + 1)..(next - 1) : Reversible(i)
                         THEN {"skipped"} ELSE {})
                   \cup (IF Copy(events[next]).type = "generated" /\ Copy(events[next]).rows = Null
                         THEN {"regenerated"} ELSE {}))
          /\ job' = [job EXCEPT ![h] =
                IF Copy(events[next]).type = "generated" /\ Copy(events[next]).rows = Null
                THEN Work("generate", Null) ELSE Idle]
    BY DEF Redo
  <2> DEFINE passed == IF \E i \in (Position + 1)..(next - 1) : Reversible(i)
                       THEN {"skipped"} ELSE {}
             again == Copy(events[next]).type = "generated" /\ Copy(events[next]).rows = Null
             made == IF again THEN {"regenerated"} ELSE {}
  <2>2. passed \cup made \in SUBSET Causes
    BY DEF Causes
  <2>3. Blame(RaceOn(Copy(events[next])) \cup (passed \cup made))
    BY <2>1 DEF Blame
  <2>4. again \in BOOLEAN
    OBVIOUS
  <2>5. job' = [job EXCEPT ![h] = IF again THEN Work("generate", Null) ELSE Idle]
    BY <2>1
  <2> HIDE DEF passed, again, made
  <2> QED
    BY <2>1, <2>2, <2>3, <2>4, <2>5
<1>2. PICK again \in BOOLEAN, skipped \in SUBSET Causes :
        /\ Blame(RaceOn(Copy(events[next])) \cup skipped)
        /\ job' = [job EXCEPT ![h] = IF again THEN Work("generate", Null) ELSE Idle]
  BY <1>1
<1>3. next \in 1..Len(events) /\ watermark' \in 0..Len(events)
  BY <1>1, PositionOK DEF HistoryTypeOK, Ahead
<1>4. Copy(events[next]) \in EventsOf
  BY <1>3, ElementOfSeq, CopyOK DEF HistoryTypeOK, LedgerTyped
<1>5. fixture' \in [Ids -> Rows] /\ LedgerTyped'
  BY <1>1, <1>3, <1>4, ExecuteOK, MarkKeeps DEF HistoryTypeOK
<1>6. RaceOn(Copy(events[next])) \cup skipped \subseteq Causes
  BY CausesOK
<1>7. (detached \subseteq Causes)'
  BY <1>2, <1>6, BlameKeeps DEF HistoryTypeOK
<1>8. JobsTyped'
  <2>1. Work("generate", Null) \in Jobs /\ Work("generate", Null).op \notin Held
    <3>1. "generate" \notin Held
      BY DEF Held
    <3> QED
      BY <3>1, WorkOK DEF Work
  <2>2. (IF again THEN Work("generate", Null) ELSE Idle) \in Jobs
        /\ (IF again THEN Work("generate", Null) ELSE Idle).op \notin Held
    BY <2>1, IdleOK
  <2> QED
    BY <1>2, <2>2, StartKeeps DEF HistoryTypeOK
<1> QED
  BY <1>5, <1>7, <1>8 DEF HistoryTypeOK, Redo

(* How often a pairing has been made is a number, for any ledger.           *)
LEMMA MadeNat ==
  ASSUME NEW p
  PROVE  Made(p) \in Nat
<1>1. IsFiniteSet(1..MaxMade)
  BY FS_Interval, HistoryAssumption
<1> QED
  BY <1>1, FS_Subset, FS_CardinalityType DEF Made

LEMMA GenerateKeeps ==
  ASSUME HistoryTypeOK, NEW h \in Handlers, Generate(h)
  PROVE  HistoryTypeOK'
<1>1. PICK new : new = {<<p, Made(p) + 1>> : p \in Missing}
  OBVIOUS
<1> DEFINE on == [f \in new |-> [from |-> Null, to |-> Null]]
           e == [type |-> "generated", on |-> on, rows |-> Null, original |-> TRUE]
<1>2. /\ fixture' = [f \in Ids |-> IF f \in new
                       THEN [NoRow EXCEPT !.exists = TRUE, !.keyed = TRUE] ELSE fixture[f]]
      /\ Append1(e)
  BY <1>1 DEF Generate
<1>3. new \subseteq Ids
  <2>1. \A p \in Missing : p \in Pairs /\ Made(p) < MaxMade
    BY DEF Generate, Missing
  <2>2. \A p \in Missing : Made(p) \in Nat
    BY MadeNat
  <2> QED
    BY <1>1, <2>1, <2>2, HistoryAssumption DEF Ids
<1>4. on \in MovesOf
  BY <1>3, MovesMade DEF Moves, Where
<1>5. e \in EventsOf
  BY <1>4 DEF EventsOf, Types
<1>6. fixture' \in [Ids -> Rows]
  <2>1. [NoRow EXCEPT !.exists = TRUE, !.keyed = TRUE] \in Rows
    BY DEF NoRow, Rows, Where, Statuses
  <2> QED
    BY <1>2, <2>1 DEF HistoryTypeOK
<1> HIDE DEF e, on
<1>7. LedgerTyped' /\ JobsTyped'
  BY <1>2, <1>5, HeadKeeps, DoneKeeps DEF Generate, HistoryTypeOK
<1> QED
  BY <1>6, <1>7 DEF HistoryTypeOK, Generate

LEMMA ApplyKeeps ==
  ASSUME HistoryTypeOK, NEW h \in Handlers, Apply(h)
  PROVE  HistoryTypeOK'
<1>1. PICK S \in (SUBSET Existing) \ {{}} : \E to \in [S -> Slots] :
        Rewrite(MoveTo(h, to)) /\ Append1(Movement(MoveTo(h, to)))
  BY DEF Apply
<1>2. PICK to \in [S -> Slots] : Rewrite(MoveTo(h, to)) /\ Append1(Movement(MoveTo(h, to)))
  BY <1>1
<1>3. to \in [S -> Where] /\ S \subseteq Ids
  BY <1>2 DEF Where, Existing
<1>4. MoveTo(h, to) \in MovesOf /\ Movement(MoveTo(h, to)) \in EventsOf
  BY <1>3, MoveToOK
<1>5. fixture' \in [Ids -> Rows] /\ LedgerTyped'
  BY <1>2, <1>4, RewriteOK, HeadKeeps DEF HistoryTypeOK, Apply
<1>6. JobsTyped' /\ (detached \subseteq Causes)'
  BY DoneKeeps, BlameKeeps, CausesOK DEF HistoryTypeOK, Apply
<1> QED
  BY <1>5, <1>6 DEF HistoryTypeOK, Apply

LEMMA MoveReadKeeps ==
  ASSUME HistoryTypeOK, NEW h \in Handlers, MoveRead(h)
  PROVE  HistoryTypeOK'
<1>1. PICK expected \in {Null, Len(events)} :
        job' = [job EXCEPT ![h] = Work("move", expected)]
  BY DEF MoveRead
<1>2. expected \in Nat \cup {Null}
  BY PositionOK DEF HistoryTypeOK
<1>3. Work("move", expected) \in Jobs /\ Work("move", expected).op \notin Held
  BY <1>2, WorkOK DEF Held, Work
<1>4. JobsTyped'
  BY <1>1, <1>3, StartKeeps DEF HistoryTypeOK
<1> QED
  BY <1>4 DEF HistoryTypeOK, MoveRead, LedgerTyped

LEMMA MoveWriteKeeps ==
  ASSUME HistoryTypeOK, NEW h \in Handlers, MoveWrite(h)
  PROVE  HistoryTypeOK'
<1>1. PICK f \in Ids : \E slot \in Where : \E raced \in SUBSET Causes :
        LET on == MoveTo(h, [g \in {f} |-> slot])
        IN  Rewrite(on) /\ Append1(Movement(on)) /\ Blame(StaleMark \cup raced)
  <2>1. PICK f \in Ids, slot \in Where :
          LET on == MoveTo(h, [g \in {f} |-> slot])
              row == job[h].read[f]
          IN  /\ Rewrite(on) /\ Append1(Movement(on))
              /\ Blame(StaleMark
                       \cup (IF job[h].expected = Null /\ (fixture[f].at # row.at \/ ~fixture[f].exists)
                             THEN {"raced"} ELSE {}))
    BY DEF MoveWrite
  <2>2. (IF job[h].expected = Null /\ (fixture[f].at # job[h].read[f].at \/ ~fixture[f].exists)
         THEN {"raced"} ELSE {}) \in SUBSET Causes
    BY DEF Causes
  <2> QED
    BY <2>1, <2>2
<1>2. PICK slot \in Where, raced \in SUBSET Causes :
        LET on == MoveTo(h, [g \in {f} |-> slot])
        IN  Rewrite(on) /\ Append1(Movement(on)) /\ Blame(StaleMark \cup raced)
  BY <1>1
<1> DEFINE to == [g \in {f} |-> slot]
<1>3. to \in [{f} -> Where] /\ {f} \subseteq Ids
  OBVIOUS
<1>4. Rewrite(MoveTo(h, to)) /\ Append1(Movement(MoveTo(h, to))) /\ Blame(StaleMark \cup raced)
  BY <1>2
<1> HIDE DEF to
<1>5. MoveTo(h, to) \in MovesOf /\ Movement(MoveTo(h, to)) \in EventsOf
  BY <1>3, MoveToOK
<1>6. fixture' \in [Ids -> Rows] /\ LedgerTyped'
  BY <1>4, <1>5, RewriteOK, HeadKeeps DEF HistoryTypeOK, MoveWrite
<1>7. StaleMark \cup raced \subseteq Causes
  BY CausesOK
<1>8. JobsTyped' /\ (detached \subseteq Causes)'
  BY <1>4, <1>7, DoneKeeps, BlameKeeps DEF HistoryTypeOK, MoveWrite
<1> QED
  BY <1>6, <1>8 DEF HistoryTypeOK, MoveWrite

LEMMA ShiftKeeps ==
  ASSUME HistoryTypeOK, NEW h \in Handlers, Shift(h)
  PROVE  HistoryTypeOK'
<1>1. PICK S \in (SUBSET Existing) \ {{}}, delta \in {-1, 1} :
        LET on == MoveTo(h, [f \in S |-> job[h].read[f].at + delta])
        IN  /\ \A f \in S : job[h].read[f].at + delta \in Slots
            /\ Rewrite(on) /\ Append1(Movement(on))
  BY DEF Shift
<1> DEFINE to == [f \in S |-> job[h].read[f].at + delta]
<1>2. to \in [S -> Where] /\ S \subseteq Ids
  BY <1>1 DEF Where, Existing
<1>3. Rewrite(MoveTo(h, to)) /\ Append1(Movement(MoveTo(h, to)))
  BY <1>1
<1> HIDE DEF to
<1>4. MoveTo(h, to) \in MovesOf /\ Movement(MoveTo(h, to)) \in EventsOf
  BY <1>2, MoveToOK
<1>5. fixture' \in [Ids -> Rows] /\ LedgerTyped' /\ JobsTyped'
  BY <1>3, <1>4, RewriteOK, HeadKeeps, DoneKeeps DEF HistoryTypeOK, Shift
<1> QED
  BY <1>5 DEF HistoryTypeOK, Shift

LEMMA ClearKeeps ==
  ASSUME HistoryTypeOK, NEW h \in Handlers, Clear(h)
  PROVE  HistoryTypeOK'
<1>1. PICK S \in (SUBSET Existing) \ {{}} :
        LET e == Movement(MoveTo(h, [f \in S |-> Null]))
        IN  fixture' = Execute(e) /\ Append1(e) /\ Blame(RaceOn(e))
  BY DEF Clear
<1> DEFINE to == [f \in S |-> Null]
           e == Movement(MoveTo(h, to))
<1>2. to \in [S -> Where] /\ S \subseteq Ids
  BY DEF Where, Existing
<1>3. fixture' = Execute(e) /\ Append1(e) /\ Blame(RaceOn(e))
  BY <1>1
<1>4. e \in EventsOf
  BY <1>2, MoveToOK
<1> HIDE DEF e
<1>5. fixture' \in [Ids -> Rows] /\ LedgerTyped' /\ JobsTyped'
  BY <1>3, <1>4, ExecuteOK, HeadKeeps, DoneKeeps DEF HistoryTypeOK, Clear
<1>6. (detached \subseteq Causes)'
  BY <1>3, BlameKeeps, CausesOK DEF HistoryTypeOK
<1> QED
  BY <1>5, <1>6 DEF HistoryTypeOK, Clear

LEMMA ClearPoolKeeps ==
  ASSUME HistoryTypeOK, NEW h \in Handlers, ClearPool(h)
  PROVE  HistoryTypeOK'
<1> DEFINE S == {f \in Existing : f[1] \in Pool}
           e == [type |-> "pool_cleared", on |-> Snapshots(S), rows |-> S, original |-> TRUE]
<1>1. fixture' = Execute(e) /\ Append1(e) /\ Blame(RaceOn(e))
  BY DEF ClearPool
<1>2. S \subseteq Ids
  BY DEF Existing
<1>3. e \in EventsOf
  BY <1>2, SnapshotsOK DEF HistoryTypeOK, EventsOf, Types
<1> HIDE DEF e
<1>4. fixture' \in [Ids -> Rows] /\ LedgerTyped' /\ JobsTyped'
  BY <1>1, <1>3, ExecuteOK, HeadKeeps, DoneKeeps DEF HistoryTypeOK, ClearPool
<1>5. (detached \subseteq Causes)'
  BY <1>1, BlameKeeps, CausesOK DEF HistoryTypeOK
<1> QED
  BY <1>4, <1>5 DEF HistoryTypeOK, ClearPool

LEMMA NoteKeeps ==
  ASSUME HistoryTypeOK, NEW h \in Handlers, Note(h)
  PROVE  HistoryTypeOK'
<1> DEFINE e == [type |-> "noted", on |-> <<>>, rows |-> Null, original |-> TRUE]
<1>1. Append1(e)
  BY DEF Note
<1>2. <<>> \in [{} -> Moves]
  OBVIOUS
<1>3. <<>> \in MovesOf
  BY <1>2 DEF MovesOf
<1>4. e \in EventsOf
  BY <1>3 DEF EventsOf, Types
<1> HIDE DEF e
<1>5. LedgerTyped'
  BY <1>1, <1>4, HeadKeeps DEF HistoryTypeOK, Note
<1> QED
  BY <1>5 DEF HistoryTypeOK, Note, JobsTyped

LEMMA QuitKeeps ==
  ASSUME HistoryTypeOK, NEW h \in Handlers, Quit(h)
  PROVE  HistoryTypeOK'
BY DoneKeeps DEF HistoryTypeOK, Quit, LedgerTyped

LEMMA ScoreKeeps ==
  ASSUME HistoryTypeOK, NEW f \in Ids, Score(f)
  PROVE  HistoryTypeOK'
<1>1. PICK next \in Statuses : fixture' = [fixture EXCEPT ![f].status = next]
  BY DEF Score
<1>2. [fixture[f] EXCEPT !.status = next] \in Rows
  BY DEF HistoryTypeOK, Rows
<1>3. fixture' = [fixture EXCEPT ![f] = [fixture[f] EXCEPT !.status = next]]
  BY <1>1 DEF HistoryTypeOK
<1> QED
  BY <1>2, <1>3 DEF HistoryTypeOK, Score, LedgerTyped, JobsTyped

----------------------------------------------------------------------------
LEMMA HistoryInit == Init => HistoryTypeOK
<1> SUFFICES ASSUME Init PROVE HistoryTypeOK
  OBVIOUS
<1>1. fixture \in [Ids -> Rows] /\ JobsTyped
  BY NoRowOK, IdleOK DEF Init, JobsTyped
<1> QED
  BY <1>1 DEF Init, HistoryTypeOK, LedgerTyped

LEMMA HistoryKeeps == HistoryTypeOK /\ [Next]_vars => HistoryTypeOK'
<1> SUFFICES ASSUME HistoryTypeOK, [Next]_vars PROVE HistoryTypeOK'
  OBVIOUS
<1>1. ASSUME NEW h \in Handlers, HistoryStep(h) PROVE HistoryTypeOK'
  BY <1>1, UndoKeeps, RedoKeeps, ClearKeeps, ClearPoolKeeps DEF HistoryStep
<1>2. ASSUME NEW h \in Handlers, BoardEdit(h) PROVE HistoryTypeOK'
  BY <1>2, ApplyKeeps, MoveReadKeeps, MoveWriteKeeps, ShiftKeeps DEF BoardEdit
<1>3. CASE UNCHANGED vars
  BY <1>3 DEF vars, HistoryTypeOK, LedgerTyped, JobsTyped
<1> QED
  BY <1>1, <1>2, <1>3, TakeKeeps, GenerateKeeps, NoteKeeps, QuitKeeps, ScoreKeeps DEF Next

(* Whatever requests and scorers interleave, the division lock has one holder,
   the watermark names a place in the ledger, and table and ledger hold what
   their columns admit.                                                     *)
THEOREM HistoryTypeCorrect == Spec => []HistoryTypeOK
BY HistoryInit, HistoryKeeps, PTL DEF Spec

----------------------------------------------------------------------------
(* What history writes, whatever the event, spares a decided fixture.       *)
LEMMA ExecuteSpares ==
  ASSUME NEW e, fixture' = Execute(e)
  PROVE  \A f \in Ids : Decided(f) => fixture'[f] = fixture[f]
BY DEF Execute, Decided, Spared, PutBack

(* Only h itself ends or changes what h is at.                              *)
LEMMA OthersWork ==
  ASSUME job \in [Handlers -> Jobs], NEW g \in Handlers, NEW new,
         job' = [job EXCEPT ![g] = new], NEW h \in Handlers, job'[h] # job[h]
  PROVE  h = g
OBVIOUS

(* An undo, redo, clear or pool clear leaves alone whatever fixture is decided
   by the time it writes, for any number of requests, fixtures and events.  *)
THEOREM DecidedUntouched == Spec => DecidedStands
<1> DEFINE Ops == {"undo", "redo", "clear", "pool"}
           Stands == \A f \in Ids : Decided(f) => fixture'[f] = fixture[f]
           Sparing == \A h \in Handlers : job[h].op \in Ops /\ job'[h] # job[h] => Stands
<1>1. ASSUME HistoryTypeOK, Next PROVE Sparing
  <2>1. SUFFICES ASSUME NEW h \in Handlers, job[h].op \in Ops, job'[h] # job[h]
                 PROVE  Stands
    OBVIOUS
  <2>2. job \in [Handlers -> Jobs]
    BY <1>1 DEF HistoryTypeOK, JobsTyped
  <2>3. ASSUME NEW g \in Handlers, HistoryStep(g) PROVE Stands
    BY <2>3, ExecuteSpares DEF HistoryStep, Undo, Redo, Clear, ClearPool
  <2>4. ASSUME NEW g \in Handlers, BoardEdit(g) PROVE FALSE
    <3>1. \E new : job' = [job EXCEPT ![g] = new]
      BY <2>4 DEF BoardEdit, Apply, MoveRead, MoveWrite, Shift, Done
    <3>2. h = g
      BY <2>1, <2>2, <3>1, OthersWork
    <3> QED
      BY <2>1, <2>4, <3>2 DEF BoardEdit, Apply, MoveRead, MoveWrite, Shift
  <2>5. ASSUME NEW g \in Handlers, NEW op \in Held, Take(g, op) PROVE FALSE
    BY <2>1, <2>2, <2>5, OthersWork DEF Take
  <2>6. ASSUME NEW g \in Handlers, Generate(g) PROVE FALSE
    BY <2>1, <2>2, <2>6, OthersWork DEF Generate, Done
  <2>7. ASSUME NEW g \in Handlers, Note(g) \/ Quit(g) PROVE Stands
    BY <2>7 DEF Note, Quit
  <2>8. ASSUME NEW f \in Ids, Score(f) PROVE FALSE
    BY <2>1, <2>8 DEF Score
  <2> QED
    BY <1>1, <2>3, <2>4, <2>5, <2>6, <2>7, <2>8 DEF Next
<1>2. HistoryTypeOK /\ [Next]_vars => [Sparing]_vars
  BY <1>1
<1> QED
  BY <1>2, HistoryTypeCorrect, PTL DEF Spec, DecidedStands

----------------------------------------------------------------------------
(* The fold of the first n events of any ledger.                            *)
Gone == [exists |-> FALSE, at |-> Null]
Blank == [f \in Ids |-> Gone]

FoldOf(log, n) ==
  LET upTo[k \in 0..n] ==
        IF k = 0 THEN [f \in Ids |-> [exists |-> FALSE, at |-> Null]]
        ELSE Effect(upTo[k - 1], log[k])
  IN  upTo[n]

LEMMA FoldIsFoldOf == \A n : Fold(n) = FoldOf(events, n)
BY DEF Fold, FoldOf

(* What the recursion asks of a function on 0..n.                           *)
Folding(g, log, n) ==
  g = [k \in 0..n |-> IF k = 0 THEN Blank ELSE Effect(g[k - 1], log[k])]

LEMMA FoldingExists ==
  ASSUME NEW log, NEW N \in Nat
  PROVE  \E g : Folding(g, log, N)
<1> DEFINE G == {n \in Nat : \E g : Folding(g, log, n)}
<1>1. 0 \in G
  <2>1. Folding([k \in 0..0 |-> Blank], log, 0)
    BY DEF Folding
  <2> QED
    BY <2>1
<1>2. ASSUME NEW n \in 0..(N - 1), n \in G
      PROVE  n + 1 \in G
  <2>1. PICK g : Folding(g, log, n)
    BY <1>2
  <2> DEFINE h == [k \in 0..(n + 1) |-> IF k = 0 THEN Blank ELSE Effect(g[k - 1], log[k])]
  <2>2. n \in Nat
    BY <1>2
  <2>3. \A k \in 0..n : k \in 0..(n + 1) /\ g[k] = h[k]
    BY <2>1, <2>2 DEF Folding
  <2>4. \A k \in 0..(n + 1) : k # 0 => k - 1 \in 0..n
    BY <2>2
  <2>5. \A k \in 0..(n + 1) : h[k] = IF k = 0 THEN Blank ELSE Effect(h[k - 1], log[k])
    BY <2>3, <2>4
  <2>6. Folding(h, log, n + 1)
    BY <2>5 DEF Folding
  <2> HIDE DEF h
  <2> QED
    BY <2>2, <2>6
<1>3. \A n \in 0..N : n \in G
  <2> HIDE DEF G
  <2> QED BY <1>1, <1>2, UpTo
<1>4. N \in 0..N
  OBVIOUS
<1> QED
  BY <1>3, <1>4

LEMMA FoldUnfolds ==
  ASSUME NEW log, NEW n \in Nat
  PROVE  \E g : Folding(g, log, n) /\ FoldOf(log, n) = g[n]
<1> DEFINE upTo[k \in 0..n] ==
      IF k = 0 THEN [f \in Ids |-> [exists |-> FALSE, at |-> Null]]
      ELSE Effect(upTo[k - 1], log[k])
<1>1. FoldOf(log, n) = upTo[n]
  BY DEF FoldOf
<1>2. \E g : g = [k \in 0..n |->
                    IF k = 0 THEN [f \in Ids |-> [exists |-> FALSE, at |-> Null]]
                    ELSE Effect(g[k - 1], log[k])]
  BY FoldingExists DEF Folding, Blank, Gone
<1>3. upTo = [k \in 0..n |->
                IF k = 0 THEN [f \in Ids |-> [exists |-> FALSE, at |-> Null]]
                ELSE Effect(upTo[k - 1], log[k])]
  BY <1>2
<1>4. Folding(upTo, log, n)
  BY <1>3 DEF Folding, Blank, Gone
<1> QED
  BY <1>1, <1>4

(* Ledgers that agree so far fold the same so far.                          *)
Agree(log, more, n) == \A k \in 1..n : log[k] = more[k]

LEMMA FoldingSame ==
  ASSUME NEW log, NEW more, NEW m \in Nat, NEW n \in Nat, m <= n,
         Agree(log, more, m),
         NEW g, NEW h, Folding(g, log, n), Folding(h, more, m)
  PROVE  g[m] = h[m]
<1> DEFINE G == {k \in 0..m : g[k] = h[k]}
<1>1. 0 \in G
  BY DEF Folding
<1>2. ASSUME NEW k \in 0..(m - 1), k \in G
      PROVE  k + 1 \in G
  <2>1. k + 1 \in 0..m /\ k + 1 \in 0..n /\ k + 1 # 0 /\ (k + 1) - 1 = k /\ k + 1 \in 1..m
    BY <1>2
  <2>2. g[k + 1] = Effect(g[k], log[k + 1]) /\ h[k + 1] = Effect(h[k], more[k + 1])
    BY <2>1 DEF Folding
  <2> QED
    BY <1>2, <2>1, <2>2 DEF Agree
<1>3. \A k \in 0..m : k \in G
  <2> HIDE DEF G
  <2> QED BY <1>1, <1>2, UpTo
<1>4. m \in 0..m
  OBVIOUS
<1> QED
  BY <1>3, <1>4

LEMMA FoldSame ==
  ASSUME NEW log, NEW more, NEW n \in Nat, Agree(log, more, n)
  PROVE  FoldOf(log, n) = FoldOf(more, n)
<1>1. PICK g : Folding(g, log, n) /\ FoldOf(log, n) = g[n]
  BY FoldUnfolds
<1>2. PICK h : Folding(h, more, n) /\ FoldOf(more, n) = h[n]
  BY FoldUnfolds
<1>3. n <= n
  OBVIOUS
<1>4. g[n] = h[n]
  BY <1>1, <1>2, <1>3, FoldingSame
<1> QED
  BY <1>1, <1>2, <1>4

LEMMA FoldNone == \A log : FoldOf(log, 0) = Blank
<1> TAKE log
<1>1. PICK g : Folding(g, log, 0) /\ FoldOf(log, 0) = g[0]
  BY FoldUnfolds
<1> QED
  BY <1>1 DEF Folding

(* The recursion equation.                                                  *)
LEMMA FoldNext ==
  ASSUME NEW log, NEW n \in Nat
  PROVE  FoldOf(log, n + 1) = Effect(FoldOf(log, n), log[n + 1])
<1>0. n + 1 \in Nat /\ n + 1 \in 0..(n + 1) /\ n + 1 # 0 /\ (n + 1) - 1 = n /\ n <= n + 1
  OBVIOUS
<1>1. PICK g : Folding(g, log, n + 1) /\ FoldOf(log, n + 1) = g[n + 1]
  BY <1>0, FoldUnfolds
<1>2. PICK h : Folding(h, log, n) /\ FoldOf(log, n) = h[n]
  BY FoldUnfolds
<1>3. g[n] = h[n]
  <2>1. Agree(log, log, n)
    BY DEF Agree
  <2> QED
    BY <1>0, <1>1, <1>2, <2>1, FoldingSame
<1>4. g[n + 1] = Effect(g[n], log[n + 1])
  BY <1>0, <1>1 DEF Folding
<1> QED
  BY <1>1, <1>2, <1>3, <1>4

----------------------------------------------------------------------------
(* The table in the terms of a fold, and the events that fit one: those whose
   "from" and snapshots say what is there.                                  *)
Cells == [exists : BOOLEAN, at : Where]
TableOf(rows) == [f \in Ids |-> [exists |-> rows[f].exists, at |-> rows[f].at]]

Kept(e, f) == e.rows # Null /\ f \in e.rows
Placed(at) == [exists |-> TRUE, at |-> at]

FitsAt(cell, e, f) ==
  LET from == e.on[f].from
      to == e.on[f].to
  IN  \/ e.type = "moved" /\ cell.exists /\ cell.at = from
      \/ /\ e.type = "generated" /\ cell = Gone /\ from = Null /\ to = Null
         /\ e.rows = Null \/ Kept(e, f)
      \/ /\ e.type = "cleared" /\ cell = Placed(Null) /\ from = Null /\ to = Null
         /\ Kept(e, f)
      \/ e.type = "pool_cleared" /\ cell = Placed(to) /\ from = to /\ Kept(e, f)
      \/ e.type = "pool_restored" /\ cell = Gone /\ from = to /\ Kept(e, f)

Fits(T, e) == \A f \in DOMAIN e.on : FitsAt(T[f], e, f)

LEMMA TableTyped ==
  ASSUME fixture \in [Ids -> Rows]
  PROVE  TableOf(fixture) \in [Ids -> Cells]
BY DEF TableOf, Cells, Rows

LEMMA EffectTyped ==
  ASSUME NEW T \in [Ids -> Cells], NEW e \in EventsOf
  PROVE  Effect(T, e) \in [Ids -> Cells]
<1>1. e.on \in [DOMAIN e.on -> Moves]
  BY MovesDomain DEF EventsOf
<1>2. \A f \in DOMAIN e.on : e.on[f].to \in Where
  BY <1>1 DEF Moves
<1>3. \A f \in Ids : T[f].exists \in BOOLEAN /\ T[f].at \in Where /\ Null \in Where
  BY DEF Cells, Where
<1>4. \A f \in Ids : T[f] \in Cells
  OBVIOUS
<1>5. \A f \in DOMAIN e.on : f \in Ids => [T[f] EXCEPT !.at = e.on[f].to] \in Cells
  BY <1>2, <1>4 DEF Cells
<1>6. \A f \in Ids : [T[f] EXCEPT !.exists = TRUE] \in Cells
  BY <1>4 DEF Cells
<1>7. \A f \in DOMAIN e.on : [exists |-> TRUE, at |-> e.on[f].to] \in Cells
  BY <1>2 DEF Cells
<1>8. [exists |-> FALSE, at |-> Null] \in Cells
  BY <1>3 DEF Cells, Where
<1> QED
  BY <1>4, <1>5, <1>6, <1>7, <1>8 DEF Effect

(* What an event does to one cell.                                          *)
LEMMA EffectAt ==
  ASSUME NEW T \in [Ids -> Cells], NEW e, NEW f \in Ids
  PROVE  /\ f \notin DOMAIN e.on => Effect(T, e)[f] = T[f]
         /\ f \in DOMAIN e.on =>
              /\ e.type = "moved" =>
                   Effect(T, e)[f] = [exists |-> T[f].exists, at |-> e.on[f].to]
              /\ e.type = "generated" => Effect(T, e)[f] = Placed(T[f].at)
              /\ e.type = "pool_restored" => Effect(T, e)[f] = Placed(e.on[f].to)
              /\ e.type \in {"cleared", "pool_cleared"} => Effect(T, e)[f] = Gone
<1>1. T[f] = [exists |-> T[f].exists, at |-> T[f].at]
  BY DEF Cells
<1> QED
  BY <1>1 DEF Effect, Placed, Gone

(* A row that is not there has no place.                                    *)
NoGhosts == \A f \in Ids : ~fixture[f].exists => fixture[f].at = Null
Remade(e) == e.type = "generated" /\ e.rows = Null

LEMMA ExecuteAt ==
  ASSUME fixture \in [Ids -> Rows], NoGhosts, NEW e, NEW f \in Ids, f \in DOMAIN e.on,
         FitsAt(TableOf(fixture)[f], e, f), ~Decided(f), ~Remade(e)
  PROVE  /\ Execute(e)[f].exists = Effect(TableOf(fixture), e)[f].exists
         /\ Execute(e)[f].at = Effect(TableOf(fixture), e)[f].at
<1> DEFINE T == TableOf(fixture)
           row == fixture[f]
<1>1. /\ T \in [Ids -> Cells] /\ T[f] = [exists |-> row.exists, at |-> row.at]
      /\ T[f].exists = row.exists /\ T[f].at = row.at
  BY TableTyped DEF TableOf
<1>2. row = [exists |-> row.exists, at |-> row.at, status |-> row.status, keyed |-> row.keyed]
  BY DEF Rows
<1>3. row.exists => ~Spared(f)
  BY DEF Decided, Spared
<1> HIDE DEF T, row
<1>4. CASE e.type = "moved"
  <2>1. row.exists
    BY <1>1, <1>4 DEF FitsAt, T
  <2>2. Execute(e)[f] = [row EXCEPT !.at = e.on[f].to]
    BY <1>3, <1>4, <2>1 DEF Execute, row
  <2>3. Effect(T, e)[f] = [exists |-> T[f].exists, at |-> e.on[f].to]
    BY <1>1, <1>4, EffectAt
  <2> QED
    BY <1>1, <1>2, <2>2, <2>3 DEF T
<1>5. CASE e.type \in {"cleared", "pool_cleared"}
  <2>1. row.exists
    <3>1. T[f].exists
      BY <1>5 DEF FitsAt, Placed, T
    <3> QED
      BY <1>1, <3>1
  <2>2. Execute(e)[f] = NoRow
    BY <1>3, <1>5, <2>1 DEF Execute, row
  <2>3. Effect(T, e)[f] = Gone
    BY <1>1, <1>5, EffectAt
  <2> QED
    BY <2>2, <2>3 DEF T, NoRow, Gone
<1>6. CASE e.type \in {"generated", "pool_restored"}
  <2>1. T[f] = Gone /\ Kept(e, f) /\ (e.type = "generated" => e.on[f].to = Null)
    BY <1>6 DEF FitsAt, T, Remade
  <2>2. ~row.exists
    BY <1>1, <2>1 DEF Gone
  <2>3. Execute(e)[f] = PutBack(f, e.on[f].to)
    BY <1>6, <2>1 DEF Execute, Kept
  <2>4. Execute(e)[f].exists = TRUE /\ Execute(e)[f].at = e.on[f].to
    BY <2>2, <2>3 DEF PutBack, NoRow, row
  <2>5. /\ e.type = "generated" => Effect(T, e)[f] = Placed(T[f].at)
        /\ e.type = "pool_restored" => Effect(T, e)[f] = Placed(e.on[f].to)
    BY <1>1, EffectAt
  <2>6. Effect(T, e)[f] = Placed(e.on[f].to)
    BY <1>6, <2>1, <2>5 DEF Gone
  <2>7. Effect(T, e)[f].exists = TRUE /\ Effect(T, e)[f].at = e.on[f].to
    BY <2>6 DEF Placed
  <2> QED
    BY <2>4, <2>7 DEF T
<1> QED
  BY <1>4, <1>5, <1>6 DEF FitsAt

(* The executor does to the table what the engine says, unless a fixture was
   decided too late for the guard or the generator is to run again.         *)
LEMMA ExecuteFolds ==
  ASSUME fixture \in [Ids -> Rows], NoGhosts, NEW e \in EventsOf,
         Fits(TableOf(fixture), e), RaceOn(e) = {}, ~Remade(e) \/ DOMAIN e.on = {}
  PROVE  TableOf(Execute(e)) = Effect(TableOf(fixture), e)
<1> DEFINE T == TableOf(fixture)
<1>1. T \in [Ids -> Cells] /\ Effect(T, e) \in [Ids -> Cells]
  BY TableTyped, EffectTyped
<1>2. ASSUME NEW f \in Ids
      PROVE  /\ Execute(e)[f].exists = Effect(T, e)[f].exists
             /\ Execute(e)[f].at = Effect(T, e)[f].at
  <2>1. CASE f \in DOMAIN e.on
    <3>1. FitsAt(T[f], e, f) /\ ~Decided(f) /\ ~Remade(e)
      BY <2>1 DEF Fits, RaceOn
    <3> QED
      BY <2>1, <3>1, ExecuteAt
  <2>2. CASE f \notin DOMAIN e.on
    <3>1. Effect(T, e)[f] = T[f]
      BY <2>2 DEF Effect
    <3>2. Execute(e)[f] = fixture[f]
      BY <2>2 DEF Execute
    <3> QED
      BY <3>1, <3>2 DEF TableOf
  <2> QED
    BY <2>1, <2>2
<1> HIDE DEF T
<1>3. \A f \in Ids : Effect(T, e)[f] = [exists |-> Effect(T, e)[f].exists,
                                        at |-> Effect(T, e)[f].at]
  BY <1>1 DEF Cells
<1>4. \A f \in Ids : TableOf(Execute(e))[f] = Effect(T, e)[f]
  BY <1>2, <1>3 DEF TableOf
<1>5. TableOf(Execute(e)) = [f \in Ids |-> TableOf(Execute(e))[f]]
  BY DEF TableOf
<1>6. Effect(T, e) = [f \in Ids |-> Effect(T, e)[f]]
  BY <1>1
<1> QED
  BY <1>4, <1>5, <1>6 DEF T

(* The inverse of the event that led to the table fits the table, and leads
   back, whether its snapshots were recorded or are taken only now.         *)
Back(e) == Enriched(Inverted(e))

LEMMA BackIs ==
  ASSUME NEW e \in EventsOf
  PROVE  /\ Back(e) \in EventsOf \/ fixture \notin [Ids -> Rows]
         /\ Back(e).type = Opposite(e.type) /\ DOMAIN Back(e).on = DOMAIN e.on
         /\ \A f \in DOMAIN e.on :
              /\ ~Remade(e) => /\ Back(e).on[f].from = e.on[f].to
                               /\ Back(e).on[f].to = e.on[f].from
                               /\ Back(e).rows = e.rows
              /\ Remade(e) => /\ Back(e).on[f].from = fixture[f].at
                              /\ Back(e).on[f].to = fixture[f].at
                              /\ Back(e).rows = DOMAIN e.on \cap Existing
<1> DEFINE i == Inverted(e)
<1>1. /\ i.type = Opposite(e.type) /\ DOMAIN i.on = DOMAIN e.on /\ i.rows = e.rows
      /\ \A f \in DOMAIN e.on : i.on[f].from = e.on[f].to /\ i.on[f].to = e.on[f].from
  BY DEF Inverted
<1>2. i \in EventsOf
  BY InvertedOK
<1>3. i.type = "cleared" <=> e.type = "generated"
  BY <1>1 DEF Opposite, EventsOf, Types
<1> HIDE DEF i
<1>4. CASE ~Remade(e)
  <2>1. Back(e) = i
    BY <1>1, <1>3, <1>4 DEF Back, Enriched, Remade, i
  <2> QED
    BY <1>1, <1>2, <1>4, <2>1
<1>5. CASE Remade(e)
  <2>1. Back(e) = [type |-> "cleared", on |-> Snapshots(DOMAIN e.on),
                   rows |-> DOMAIN e.on \cap Existing, original |-> i.original]
    BY <1>1, <1>3, <1>5 DEF Back, Enriched, Remade, i
  <2>2. fixture \in [Ids -> Rows] => Back(e) \in EventsOf
    BY <1>2, EnrichedOK DEF Back, i
  <2> QED
    BY <1>1, <1>3, <1>5, <2>1, <2>2 DEF Snapshots, Remade
<1> QED
  BY <1>4, <1>5

LEMMA BackAt ==
  ASSUME fixture \in [Ids -> Rows], NEW T \in [Ids -> Cells], NEW e \in EventsOf,
         NEW f \in Ids, f \in DOMAIN e.on, FitsAt(T[f], e, f),
         TableOf(fixture)[f] = Effect(T, e)[f]
  PROVE  /\ FitsAt(TableOf(fixture)[f], Back(e), f)
         /\ Effect(TableOf(fixture), Back(e))[f] = T[f]
         /\ ~Remade(Back(e))
<1> DEFINE now == TableOf(fixture)
           b == Back(e)
<1>1. /\ b.type = Opposite(e.type) /\ f \in DOMAIN b.on
      /\ ~Remade(e) => b.on[f].from = e.on[f].to /\ b.on[f].to = e.on[f].from /\ b.rows = e.rows
      /\ Remade(e) => /\ b.on[f].from = fixture[f].at /\ b.on[f].to = fixture[f].at
                      /\ b.rows = DOMAIN e.on \cap Existing
  BY BackIs
<1>2. /\ now \in [Ids -> Cells]
      /\ now[f].exists = fixture[f].exists /\ now[f].at = fixture[f].at
      /\ now[f] = Effect(T, e)[f]
  BY TableTyped DEF TableOf
<1>3. T[f] = [exists |-> T[f].exists, at |-> T[f].at] /\ T[f].exists \in BOOLEAN
  BY DEF Cells
<1>4. /\ e.type = "moved" => now[f] = [exists |-> T[f].exists, at |-> e.on[f].to]
      /\ e.type = "generated" => now[f] = Placed(T[f].at)
      /\ e.type = "pool_restored" => now[f] = Placed(e.on[f].to)
      /\ e.type \in {"cleared", "pool_cleared"} => now[f] = Gone
  BY <1>2, EffectAt
<1> HIDE DEF now, b
<1>5. /\ b.type = "moved" =>
           Effect(now, b)[f] = [exists |-> now[f].exists, at |-> b.on[f].to]
      /\ b.type = "generated" => Effect(now, b)[f] = Placed(now[f].at)
      /\ b.type = "pool_restored" => Effect(now, b)[f] = Placed(b.on[f].to)
      /\ b.type \in {"cleared", "pool_cleared"} => Effect(now, b)[f] = Gone
  BY <1>1, <1>2, EffectAt
<1> SUFFICES FitsAt(now[f], b, f) /\ Effect(now, b)[f] = T[f] /\ ~Remade(b)
  BY DEF now, b
<1>6. CASE e.type = "moved"
  <2>1. b.type = "moved" /\ ~Remade(e) /\ T[f].exists /\ T[f].at = e.on[f].from
    BY <1>1, <1>6 DEF Opposite, Remade, FitsAt
  <2>2. now[f].exists /\ now[f].at = b.on[f].from /\ b.on[f].to = T[f].at
    BY <1>1, <1>4, <1>6, <2>1
  <2>3. now[f].exists = T[f].exists
    BY <1>4, <1>6
  <2>4. Effect(now, b)[f] = [exists |-> now[f].exists, at |-> b.on[f].to]
    BY <1>5, <2>1
  <2>5. Effect(now, b)[f] = T[f]
    BY <1>3, <2>2, <2>3, <2>4
  <2> QED
    BY <2>1, <2>2, <2>5 DEF FitsAt, Remade
<1>7. CASE e.type = "generated"
  <2>1. b.type = "cleared" /\ T[f] = Gone /\ e.on[f].from = Null /\ e.on[f].to = Null
    BY <1>1, <1>7 DEF Opposite, FitsAt
  <2>2. now[f] = Placed(Null) /\ fixture[f].exists /\ fixture[f].at = Null
    BY <1>2, <1>4, <1>7, <2>1 DEF Gone, Placed
  <2>3. Kept(b, f) /\ b.on[f].from = Null /\ b.on[f].to = Null
    <3>1. CASE Remade(e)
      <4>1. f \in DOMAIN e.on \cap Existing
        BY <2>2 DEF Existing
      <4>2. DOMAIN e.on \cap Existing \in SUBSET Ids
        BY DEF Existing
      <4>3. Null \notin SUBSET Ids
        BY HistoryAssumption DEF Ids
      <4> QED
        BY <1>1, <2>2, <3>1, <4>1, <4>2, <4>3 DEF Kept
    <3>2. CASE ~Remade(e)
      BY <1>1, <1>7, <2>1, <3>2 DEF Kept, Remade, FitsAt
    <3> QED
      BY <3>1, <3>2
  <2> QED
    BY <1>5, <2>1, <2>2, <2>3 DEF FitsAt, Remade
<1>8. CASE e.type = "cleared"
  <2>1. /\ b.type = "generated" /\ ~Remade(e) /\ T[f] = Placed(Null) /\ Kept(e, f)
        /\ e.on[f].from = Null /\ e.on[f].to = Null
    BY <1>1, <1>8 DEF Opposite, FitsAt, Remade
  <2>2. now[f] = Gone /\ now[f].at = Null /\ Kept(b, f) /\ ~Remade(b)
    BY <1>1, <1>4, <1>8, <2>1 DEF Gone, Kept, Remade
  <2> QED
    BY <1>1, <1>5, <2>1, <2>2 DEF FitsAt
<1>9. CASE e.type = "pool_cleared"
  <2>1. /\ b.type = "pool_restored" /\ ~Remade(e) /\ T[f] = Placed(e.on[f].to) /\ Kept(e, f)
        /\ e.on[f].from = e.on[f].to
    BY <1>1, <1>9 DEF Opposite, FitsAt, Remade
  <2>2. now[f] = Gone /\ Kept(b, f) /\ ~Remade(b)
    BY <1>1, <1>4, <1>9, <2>1 DEF Kept, Remade
  <2> QED
    BY <1>1, <1>5, <2>1, <2>2 DEF FitsAt
<1>10. CASE e.type = "pool_restored"
  <2>1. /\ b.type = "pool_cleared" /\ ~Remade(e) /\ T[f] = Gone /\ Kept(e, f)
        /\ e.on[f].from = e.on[f].to
    BY <1>1, <1>10 DEF Opposite, FitsAt, Remade
  <2>2. now[f] = Placed(e.on[f].to) /\ Kept(b, f) /\ ~Remade(b)
    BY <1>1, <1>4, <1>10, <2>1 DEF Kept, Remade
  <2> QED
    BY <1>1, <1>5, <2>1, <2>2 DEF FitsAt
<1> QED
  BY <1>6, <1>7, <1>8, <1>9, <1>10 DEF FitsAt

LEMMA BackFolds ==
  ASSUME fixture \in [Ids -> Rows], NEW T \in [Ids -> Cells], NEW e \in EventsOf,
         Fits(T, e), TableOf(fixture) = Effect(T, e)
  PROVE  /\ Back(e) \in EventsOf /\ Fits(TableOf(fixture), Back(e))
         /\ Effect(TableOf(fixture), Back(e)) = T
         /\ ~Remade(Back(e)) \/ DOMAIN e.on = {}
<1> DEFINE now == TableOf(fixture)
<1>1. /\ Back(e) \in EventsOf /\ DOMAIN Back(e).on = DOMAIN e.on
      /\ now \in [Ids -> Cells]
  BY BackIs, TableTyped
<1>2. \A f \in DOMAIN e.on : f \in Ids
  BY MovesDomain DEF EventsOf
<1>3. ASSUME NEW f \in DOMAIN e.on
      PROVE  /\ FitsAt(now[f], Back(e), f) /\ Effect(now, Back(e))[f] = T[f]
             /\ ~Remade(Back(e))
  <2>1. f \in Ids /\ FitsAt(T[f], e, f) /\ TableOf(fixture)[f] = Effect(T, e)[f]
    BY <1>2, <1>3 DEF Fits
  <2> QED
    BY <2>1, BackAt
<1>4. Effect(now, Back(e)) \in [Ids -> Cells]
  BY <1>1, EffectTyped
<1>5. ASSUME NEW f \in Ids PROVE Effect(now, Back(e))[f] = T[f]
  <2>1. CASE f \in DOMAIN e.on
    BY <1>3, <2>1
  <2>2. CASE f \notin DOMAIN e.on
    <3>1. Effect(now, Back(e))[f] = now[f] /\ Effect(T, e)[f] = T[f]
      <4> HIDE DEF now
      <4> QED BY <1>1, <2>2 DEF Effect
    <3> QED
      BY <3>1
  <2> QED
    BY <2>1, <2>2
<1> HIDE DEF now
<1>6. Effect(now, Back(e)) = T
  BY <1>4, <1>5
<1>7. Fits(now, Back(e))
  BY <1>1, <1>3 DEF Fits
<1> QED
  BY <1>1, <1>3, <1>6, <1>7 DEF now

----------------------------------------------------------------------------
(* What holds of a ledger whose fold is T: every event fitted where it was
   appended, what stands was made by an event, and the generator's numbers
   have no gap.                                                             *)
FitsAll(log) == \A i \in DOMAIN log : Fits(FoldOf(log, i - 1), log[i])
MadeIn(log) == UNION {DOMAIN log[i].on : i \in DOMAIN log}
Standing(T, log) == \A f \in Ids : T[f].exists => f \in MadeIn(log)
Gapless(S) == \A f \in S : \A m \in 1..f[2] : <<f[1], m>> \in S

History(log, T) ==
  /\ FoldOf(log, Len(log)) = T
  /\ FitsAll(log)
  /\ Standing(T, log)
  /\ Gapless(MadeIn(log))

LEMMA FoldTyped ==
  ASSUME NEW log \in Seq(EventsOf), NEW n \in 0..Len(log)
  PROVE  FoldOf(log, n) \in [Ids -> Cells]
<1> DEFINE G == {k \in 0..Len(log) : FoldOf(log, k) \in [Ids -> Cells]}
<1>1. Len(log) \in Nat
  BY LenProperties
<1>2. 0 \in G
  <2>1. Blank \in [Ids -> Cells]
    BY DEF Blank, Gone, Cells, Where
  <2> QED
    BY <1>1, <2>1, FoldNone
<1>3. ASSUME NEW k \in 0..(Len(log) - 1), k \in G PROVE k + 1 \in G
  <2>1. k \in Nat /\ k + 1 \in 1..Len(log) /\ k + 1 \in 0..Len(log)
    BY <1>1
  <2>2. log[k + 1] \in EventsOf
    BY <2>1, ElementOfSeq
  <2>3. FoldOf(log, k + 1) = Effect(FoldOf(log, k), log[k + 1])
    BY <2>1, FoldNext
  <2> QED
    BY <1>3, <2>1, <2>2, <2>3, EffectTyped
<1>4. \A k \in 0..Len(log) : k \in G
  <2> HIDE DEF G
  <2> QED BY <1>1, <1>2, <1>3, UpTo
<1> QED
  BY <1>4

(* History passes over what is not an edit.                                 *)
LEMMA PassedOver ==
  ASSUME NEW log \in Seq(EventsOf), FitsAll(log),
         NEW m \in 0..Len(log), NEW n \in m..Len(log),
         \A k \in (m + 1)..n : log[k].type = "noted"
  PROVE  FoldOf(log, m) = FoldOf(log, n)
<1> DEFINE G == {d \in 0..(n - m) : FoldOf(log, m + d) = FoldOf(log, m)}
<1>1. Len(log) \in Nat /\ m \in Nat /\ n \in Nat /\ n - m \in Nat /\ n <= Len(log)
      /\ DOMAIN log = 1..Len(log)
  BY LenProperties
<1>2. 0 \in G
  BY <1>1
<1>3. ASSUME NEW d \in 0..((n - m) - 1), d \in G PROVE d + 1 \in G
  <2>1. /\ m + d \in Nat /\ m + (d + 1) = (m + d) + 1 /\ m + d \in 0..Len(log)
        /\ (m + d) + 1 \in (m + 1)..n /\ (m + d) + 1 \in 1..Len(log)
        /\ ((m + d) + 1) - 1 = m + d
    BY <1>1
  <2> DEFINE k == m + d
             T == FoldOf(log, k)
  <2>2. Fits(T, log[k + 1]) /\ log[k + 1].type = "noted"
    BY <1>1, <2>1 DEF FitsAll
  <2>3. DOMAIN log[k + 1].on = {}
    BY <2>2 DEF Fits, FitsAt
  <2>4. T \in [Ids -> Cells]
    BY <2>1, FoldTyped
  <2>5. FoldOf(log, k + 1) = Effect(T, log[k + 1])
    BY <2>1, FoldNext
  <2> HIDE DEF T, k
  <2>6. Effect(T, log[k + 1]) = T
    BY <2>3, <2>4 DEF Effect
  <2> QED
    BY <1>3, <2>1, <2>5, <2>6 DEF T, k
<1>4. \A d \in 0..(n - m) : d \in G
  <2> HIDE DEF G
  <2> QED BY <1>1, <1>2, <1>3, UpTo
<1>5. n - m \in 0..(n - m) /\ m + (n - m) = n
  BY <1>1
<1> QED
  BY <1>4, <1>5

LEMMA AppendIs ==
  ASSUME NEW log \in Seq(EventsOf), NEW e \in EventsOf
  PROVE  LET more == Append(log, e)
         IN  /\ Len(log) \in Nat /\ DOMAIN log = 1..Len(log)
             /\ Len(more) = Len(log) + 1 /\ DOMAIN more = 1..(Len(log) + 1)
             /\ more \in Seq(EventsOf)
             /\ \A k \in 1..Len(log) : more[k] = log[k]
             /\ more[Len(log) + 1] = e
             /\ \A n \in 0..Len(log) : FoldOf(more, n) = FoldOf(log, n)
             /\ MadeIn(more) = MadeIn(log) \cup DOMAIN e.on
<1> DEFINE more == Append(log, e)
           N == Len(log)
<1>1. /\ N \in Nat /\ DOMAIN log = 1..N /\ Len(more) = N + 1 /\ DOMAIN more = 1..(N + 1)
      /\ more \in Seq(EventsOf) /\ more[N + 1] = e
      /\ \A k \in 1..N : more[k] = log[k]
  OBVIOUS
<1> HIDE DEF more, N
<1>2. ASSUME NEW n \in 0..N PROVE FoldOf(more, n) = FoldOf(log, n)
  <2>1. Agree(more, log, n) /\ n \in Nat
    BY <1>1 DEF Agree
  <2> QED
    BY <2>1, FoldSame
<1>3. \A k \in 1..(N + 1) : k \in 1..N \/ k = N + 1
  BY <1>1
<1>4. N + 1 \in 1..(N + 1) /\ \A k \in 1..N : k \in 1..(N + 1)
  BY <1>1
<1>5. MadeIn(more) = MadeIn(log) \cup DOMAIN e.on
  BY <1>1, <1>3, <1>4 DEF MadeIn
<1> QED
  BY <1>1, <1>2, <1>5 DEF more, N

(* An event that fits goes on with the history.                             *)
LEMMA HistoryGrows ==
  ASSUME NEW log \in Seq(EventsOf), NEW e \in EventsOf, NEW T \in [Ids -> Cells],
         History(log, T), Fits(T, e), Gapless(MadeIn(log) \cup DOMAIN e.on)
  PROVE  History(Append(log, e), Effect(T, e))
<1> DEFINE more == Append(log, e)
           N == Len(log)
<1>1. /\ N \in Nat /\ DOMAIN log = 1..N /\ Len(more) = N + 1 /\ DOMAIN more = 1..(N + 1)
      /\ \A k \in 1..N : more[k] = log[k]
      /\ more[N + 1] = e
      /\ \A n \in 0..N : FoldOf(more, n) = FoldOf(log, n)
      /\ MadeIn(more) = MadeIn(log) \cup DOMAIN e.on
  BY AppendIs
<1> HIDE DEF more
<1>2. FoldOf(more, N) = T
  BY <1>1 DEF History
<1> HIDE DEF N
<1>3. FoldOf(more, N + 1) = Effect(T, e)
  BY <1>1, <1>2, FoldNext
<1>4. FitsAll(more)
  <2> SUFFICES ASSUME NEW k \in 1..(N + 1) PROVE Fits(FoldOf(more, k - 1), more[k])
    BY <1>1 DEF FitsAll
  <2>1. CASE k = N + 1
    <3>1. k - 1 = N
      BY <1>1, <2>1
    <3> QED
      BY <1>1, <1>2, <2>1, <3>1
  <2>2. CASE k # N + 1
    <3>1. k \in 1..N /\ k - 1 \in 0..N
      BY <1>1, <2>2
    <3>2. Fits(FoldOf(log, k - 1), log[k])
      BY <1>1, <3>1 DEF History, FitsAll
    <3> QED
      BY <1>1, <3>1, <3>2
  <2> QED
    BY <2>1, <2>2
<1>5. Standing(Effect(T, e), more)
  <2> SUFFICES ASSUME NEW f \in Ids, Effect(T, e)[f].exists PROVE f \in MadeIn(more)
    BY DEF Standing
  <2>1. CASE f \in DOMAIN e.on
    BY <1>1, <2>1
  <2>2. CASE f \notin DOMAIN e.on
    <3>1. Effect(T, e)[f] = T[f]
      BY <2>2 DEF Effect
    <3> QED
      BY <1>1, <3>1 DEF History, Standing
  <2> QED
    BY <2>1, <2>2
<1> QED
  BY <1>1, <1>3, <1>4, <1>5 DEF History, more

----------------------------------------------------------------------------
(* The inductive invariant.  While nothing has set ledger and table apart,
   the table is the fold of the whole ledger and the fold of the part before
   the watermark; and what a request has read is still what is there, if it
   holds the lock or its expected_seq still is the head.                    *)
Linear ==
  /\ History(events, TableOf(fixture))
  /\ FoldOf(events, Position) = TableOf(fixture)

Current ==
  \A h \in Handlers :
    /\ job[h].op \in Held => TableOf(job[h].read) = TableOf(fixture)
    /\ job[h].op = "move" /\ job[h].expected # Null =>
         /\ job[h].expected <= Len(events)
         /\ job[h].expected = Len(events) => TableOf(job[h].read) = TableOf(fixture)

Together == detached = {} => Linear /\ Current
HistoryInv == HistoryTypeOK /\ NoGhosts /\ Together

LEMMA BlameNone ==
  ASSUME NEW causes, Blame(causes), detached' = {}
  PROVE  detached = {} /\ causes = {}
BY DEF Blame

(* Appending an event that fits and was carried out, with the watermark at the
   head or where the fold is the new table.                                 *)
LEMMA LinearGrows ==
  ASSUME HistoryTypeOK, Linear, NEW e \in EventsOf, Append1(e),
         Fits(TableOf(fixture), e), Gapless(MadeIn(events) \cup DOMAIN e.on),
         TableOf(fixture') = Effect(TableOf(fixture), e),
         \/ watermark' = Null
         \/ /\ watermark' \in 0..Len(events)
            /\ FoldOf(events, watermark') = TableOf(fixture')
  PROVE  Linear'
<1> DEFINE T == TableOf(fixture)
           more == Append(events, e)
<1>1. events \in Seq(EventsOf) /\ T \in [Ids -> Cells] /\ events' = more
  BY TableTyped DEF HistoryTypeOK, LedgerTyped, Append1
<1>2. History(more, TableOf(fixture'))
  BY <1>1, HistoryGrows DEF Linear
<1>3. /\ Len(events) \in Nat /\ Len(more) = Len(events) + 1
      /\ \A n \in 0..Len(events) : FoldOf(more, n) = FoldOf(events, n)
  BY <1>1, AppendIs
<1>4. FoldOf(more, Position') = TableOf(fixture')
  <2>1. CASE watermark' = Null
    <3>1. Position' = Len(more)
      BY <1>1, <2>1 DEF Position
    <3> QED
      BY <1>2, <3>1 DEF History
  <2>2. CASE watermark' # Null
    <3>1. /\ watermark' \in 0..Len(events) /\ Position' = watermark'
          /\ FoldOf(events, watermark') = TableOf(fixture')
      BY <2>2 DEF Position
    <3>2. FoldOf(more, watermark') = FoldOf(events, watermark')
      BY <1>3, <3>1
    <3> HIDE DEF more
    <3> QED
      BY <3>1, <3>2
  <2> QED
    BY <2>1, <2>2
<1>5. History(events', TableOf(fixture')) /\ FoldOf(events', Position') = TableOf(fixture')
  <2> HIDE DEF more
  <2> QED BY <1>1, <1>2, <1>4
<1> QED
  BY <1>5 DEF Linear, History, FitsAll, Standing, Gapless, MadeIn, TableOf, FoldOf,
     Effect, Fits, FitsAt

(* The events that are not the generator's concern fixtures made before.    *)
LEMMA GaplessKept ==
  ASSUME Linear, NEW S, \A f \in S : f \in MadeIn(events)
  PROVE  Gapless(MadeIn(events) \cup S)
<1>1. MadeIn(events) \cup S = MadeIn(events)
  OBVIOUS
<1> QED
  BY <1>1 DEF Linear, History

(* A write ends its request, and no other request holds the lock or has seen
   the new head.                                                            *)
LEMMA CurrentAfterWrite ==
  ASSUME HistoryTypeOK, Current, NEW h \in Handlers, NEW new, NEW e \in EventsOf,
         job[h].op \in Held \/ ~Locked, job' = [job EXCEPT ![h] = new],
         new.op \notin Held, new.op # "move", Append1(e)
  PROVE  Current'
<1>1. Len(events') = Len(events) + 1 /\ Len(events) \in Nat
  BY AppendKeeps DEF HistoryTypeOK
<1>2. job \in [Handlers -> Jobs]
      /\ \A g \in Handlers : job[g].op \in Held /\ job[h].op \in Held => g = h
  BY DEF HistoryTypeOK, JobsTyped
<1> SUFFICES ASSUME NEW g \in Handlers
             PROVE  /\ job'[g].op \notin Held
                    /\ job'[g].op = "move" /\ job'[g].expected # Null =>
                         /\ job'[g].expected <= Len(events')
                         /\ job'[g].expected # Len(events')
  BY DEF Current
<1>3. CASE g = h
  BY <1>2, <1>3
<1>4. CASE g # h
  <2>1. job'[g] = job[g] /\ job[g].op \notin Held
    BY <1>2, <1>4 DEF Locked
  <2>2. job[g].expected \in Nat \cup {Null}
    BY <1>2 DEF Jobs
  <2> QED
    BY <1>1, <2>1, <2>2 DEF Current
<1> QED
  BY <1>3, <1>4

LEMMA IdleIs == Idle.op = "idle" /\ "idle" \notin Held
BY DEF Idle, Held

LEMMA ReadIs ==
  ASSUME NEW rows, TableOf(rows) = TableOf(fixture), NEW f \in Ids
  PROVE  rows[f].exists = fixture[f].exists /\ rows[f].at = fixture[f].at
<1>1. TableOf(rows)[f] = TableOf(fixture)[f]
  OBVIOUS
<1> QED
  BY <1>1 DEF TableOf

(* Taking back the last edit before the watermark.                          *)
LEMMA UndoLinear ==
  ASSUME HistoryInv, NEW h \in Handlers, Undo(h), detached' = {}
  PROVE  Linear' /\ Current'
<1>1. PICK target \in 1..Position : \E before \in 0..(target - 1) :
        /\ LastEdit(target, Position + 1) /\ LastEdit(before, target)
        /\ fixture' = Execute(Back(events[target]))
        /\ Append1(Back(events[target]))
        /\ watermark' = before
        /\ Blame(RaceOn(Back(events[target])))
  BY DEF Undo, Back
<1>2. PICK before \in 0..(target - 1) :
        /\ LastEdit(target, Position + 1) /\ LastEdit(before, target)
        /\ fixture' = Execute(Back(events[target]))
        /\ Append1(Back(events[target]))
        /\ watermark' = before
        /\ Blame(RaceOn(Back(events[target])))
  BY <1>1
<1> DEFINE done == events[target]
           T == FoldOf(events, target - 1)
           now == TableOf(fixture)
<1>3. RaceOn(Back(done)) = {} /\ Linear /\ Current
  BY <1>2, BlameNone DEF HistoryInv, Together
<1>4. /\ events \in Seq(EventsOf) /\ Len(events) \in Nat /\ DOMAIN events = 1..Len(events)
      /\ Position \in 0..Len(events) /\ target \in 1..Len(events)
      /\ target - 1 \in 0..Len(events) /\ (target - 1) + 1 = target
      /\ before \in 0..Len(events) /\ target - 1 \in before..Len(events)
      /\ Position \in target..Len(events) /\ target \in 0..Len(events)
  BY PositionOK, LenProperties DEF HistoryInv, HistoryTypeOK, LedgerTyped
<1>5. done \in EventsOf /\ Fits(T, done) /\ FitsAll(events)
  BY <1>3, <1>4, ElementOfSeq DEF Linear, History, FitsAll
<1>6. FoldOf(events, target) = now
  <2>1. \A k \in (target + 1)..Position : events[k].type = "noted"
    BY <1>2, <1>4 DEF LastEdit, Reversible
  <2>2. FoldOf(events, target) = FoldOf(events, Position)
    BY <1>4, <1>5, <2>1, PassedOver
  <2> QED
    BY <1>3, <2>2 DEF Linear
<1>7. FoldOf(events, before) = T
  <2>1. \A k \in (before + 1)..(target - 1) : events[k].type = "noted"
    BY <1>2 DEF LastEdit, Reversible
  <2> QED
    BY <1>4, <1>5, <2>1, PassedOver
<1>8. now = Effect(T, done)
  <2>1. FoldOf(events, (target - 1) + 1) = Effect(T, events[(target - 1) + 1])
    BY <1>4, FoldNext
  <2> QED
    BY <1>4, <1>6, <2>1
<1>9. T \in [Ids -> Cells] /\ fixture \in [Ids -> Rows] /\ NoGhosts
  BY <1>4, FoldTyped DEF HistoryInv, HistoryTypeOK
<1>10. fixture' = Execute(Back(done)) /\ Append1(Back(done)) /\ watermark' = before
  BY <1>2
<1>11. \A f \in DOMAIN done.on : f \in MadeIn(events)
  BY <1>4 DEF MadeIn
<1> HIDE DEF done, T
<1>12. /\ Back(done) \in EventsOf /\ Fits(now, Back(done)) /\ Effect(now, Back(done)) = T
       /\ ~Remade(Back(done)) \/ DOMAIN Back(done).on = {}
       /\ DOMAIN Back(done).on = DOMAIN done.on
  BY <1>5, <1>8, <1>9, BackFolds, BackIs
<1>13. TableOf(fixture') = T /\ TableOf(fixture') = Effect(now, Back(done))
  BY <1>3, <1>9, <1>10, <1>12, ExecuteFolds
<1>14. Gapless(MadeIn(events) \cup DOMAIN Back(done).on)
  BY <1>3, <1>11, <1>12, GaplessKept
<1>15. Linear'
  BY <1>3, <1>4, <1>7, <1>10, <1>12, <1>13, <1>14, LinearGrows DEF HistoryInv
<1>16. Current'
  BY <1>3, <1>10, <1>12, CurrentAfterWrite, IdleIs DEF HistoryInv, Undo, Done, Held
<1> QED
  BY <1>15, <1>16

(* Redoing the next edit ahead of the watermark, with none passed over.     *)
LEMMA RedoLinear ==
  ASSUME HistoryInv, NEW h \in Handlers, Redo(h), detached' = {}
  PROVE  Linear' /\ Current'
<1>1. PICK next \in Ahead :
        LET e == Copy(events[next])
            skips == IF \E i \in (Position + 1)..(next - 1) : Reversible(i)
                     THEN {"skipped"} ELSE {}
            again == IF Remade(e) THEN {"regenerated"} ELSE {}
        IN  /\ fixture' = Execute(e) /\ Append1(e) /\ watermark' = next
            /\ Blame(RaceOn(e) \cup skips \cup again)
            /\ job' = [job EXCEPT ![h] = IF Remade(e) THEN Work("generate", Null) ELSE Idle]
  BY DEF Redo, Remade
<1> DEFINE it == events[next]
           e == Copy(it)
           skips == IF \E i \in (Position + 1)..(next - 1) : Reversible(i)
                    THEN {"skipped"} ELSE {}
           again == IF Remade(e) THEN {"regenerated"} ELSE {}
           T == TableOf(fixture)
<1>2. /\ fixture' = Execute(e) /\ Append1(e) /\ watermark' = next
      /\ Blame(RaceOn(e) \cup skips \cup again)
      /\ job' = [job EXCEPT ![h] = IF Remade(e) THEN Work("generate", Null) ELSE Idle]
  BY <1>1
<1>3. RaceOn(e) \cup skips \cup again = {} /\ Linear /\ Current
  <2> HIDE DEF skips, again, e
  <2> QED BY <1>2, BlameNone DEF HistoryInv, Together
<1>4. RaceOn(e) = {} /\ ~Remade(e)
      /\ \A k \in (Position + 1)..(next - 1) : events[k].type = "noted"
  BY <1>3 DEF Reversible
<1>5. /\ events \in Seq(EventsOf) /\ Len(events) \in Nat /\ DOMAIN events = 1..Len(events)
      /\ Position \in 0..Len(events) /\ next \in 1..Len(events)
      /\ next - 1 \in Position..Len(events) /\ (next - 1) + 1 = next
      /\ next - 1 \in 0..Len(events) /\ next \in 0..Len(events)
  BY PositionOK, LenProperties DEF HistoryInv, HistoryTypeOK, LedgerTyped, Ahead
<1>6. it \in EventsOf /\ Fits(FoldOf(events, next - 1), it) /\ FitsAll(events)
  BY <1>3, <1>5, ElementOfSeq DEF Linear, History, FitsAll
<1>7. FoldOf(events, next - 1) = T
  <2>1. FoldOf(events, Position) = FoldOf(events, next - 1)
    BY <1>4, <1>5, <1>6, PassedOver
  <2> QED
    BY <1>3, <2>1 DEF Linear
<1>8. FoldOf(events, next) = Effect(T, it)
  <2>1. FoldOf(events, (next - 1) + 1) = Effect(FoldOf(events, next - 1), events[(next - 1) + 1])
    BY <1>5, FoldNext
  <2> QED
    BY <1>5, <1>7, <2>1
<1>9. \A f \in DOMAIN it.on : f \in MadeIn(events)
  BY <1>5 DEF MadeIn
<1> HIDE DEF it, T
<1>10. /\ e \in EventsOf /\ e.on = it.on /\ e.type = it.type /\ e.rows = it.rows
  BY <1>6, CopyOK DEF Copy
<1>11. Fits(T, e) /\ Effect(T, e) = Effect(T, it)
  BY <1>6, <1>7, <1>10 DEF Fits, FitsAt, Kept, Effect
<1> HIDE DEF e
<1>12. TableOf(fixture') = Effect(T, e)
  BY <1>2, <1>4, <1>10, <1>11, ExecuteFolds DEF T, HistoryInv, HistoryTypeOK
<1>13. Gapless(MadeIn(events) \cup DOMAIN e.on)
  BY <1>3, <1>9, <1>10, GaplessKept
<1>14. watermark' \in 0..Len(events) /\ FoldOf(events, watermark') = TableOf(fixture')
  BY <1>2, <1>5, <1>8, <1>11, <1>12
<1>15. Linear'
  BY <1>2, <1>3, <1>10, <1>11, <1>12, <1>13, <1>14, LinearGrows DEF HistoryInv, T
<1>16. Current'
  <2>1. job' = [job EXCEPT ![h] = Idle] /\ job[h].op \in Held
    BY <1>2, <1>4 DEF Redo, Held
  <2>2. HistoryTypeOK /\ Current /\ e \in EventsOf /\ Append1(e)
    BY <1>2, <1>3, <1>10 DEF HistoryInv
  <2>3. Idle.op \notin Held /\ Idle.op # "move"
    BY IdleIs
  <2> QED
    BY <2>1, <2>2, <2>3, CurrentAfterWrite
<1> QED
  BY <1>15, <1>16

(* The board's moves: from where the rows are to where they are put.        *)
LEMMA MovesFit ==
  ASSUME fixture \in [Ids -> Rows], NEW on,
         \A f \in DOMAIN on : f \in Ids /\ fixture[f].exists /\ fixture[f].at = on[f].from
  PROVE  Fits(TableOf(fixture), Movement(on))
BY DEF Fits, FitsAt, Movement, TableOf

LEMMA RewriteFolds ==
  ASSUME fixture \in [Ids -> Rows], NEW on, Rewrite(on),
         \A f \in DOMAIN on : f \in Ids /\ fixture[f].exists
  PROVE  TableOf(fixture') = Effect(TableOf(fixture), Movement(on))
<1> DEFINE T == TableOf(fixture)
           e == Movement(on)
<1>1. e.on = on /\ e.type = "moved"
  BY DEF Movement
<1>2. ASSUME NEW f \in Ids
      PROVE  [exists |-> fixture'[f].exists, at |-> fixture'[f].at] = Effect(T, e)[f]
  <2>1. T \in [Ids -> Cells] /\ T[f] = [exists |-> fixture[f].exists, at |-> fixture[f].at]
    BY TableTyped DEF TableOf
  <2>2. CASE f \in DOMAIN on
    <3>1. Effect(T, e)[f] = [exists |-> T[f].exists, at |-> on[f].to]
      <4> HIDE DEF T, e
      <4> QED BY <1>1, <2>1, <2>2, EffectAt
    <3>2. fixture[f] = [exists |-> fixture[f].exists, at |-> fixture[f].at,
                        status |-> fixture[f].status, keyed |-> fixture[f].keyed]
      BY DEF Rows
    <3>3. fixture'[f] = [fixture[f] EXCEPT !.at = on[f].to]
      BY <2>2 DEF Rewrite
    <3>4. fixture'[f].exists = fixture[f].exists /\ fixture'[f].at = on[f].to
      BY <3>2, <3>3
    <3> HIDE DEF T, e
    <3> QED
      BY <2>1, <3>1, <3>4
  <2>3. CASE f \notin DOMAIN on
    <3>1. fixture'[f] = fixture[f]
      BY <2>3 DEF Rewrite
    <3>2. Effect(T, e)[f] = T[f]
      <4> HIDE DEF T, e
      <4> QED BY <1>1, <2>3 DEF Effect
    <3> HIDE DEF T, e
    <3> QED BY <2>1, <3>1, <3>2
  <2> QED
    BY <2>2, <2>3
<1>3. Effect(T, e) = [f \in Ids |-> Effect(T, e)[f]]
  BY DEF Effect
<1> HIDE DEF T, e
<1> QED
  BY <1>2, <1>3 DEF T, e, TableOf

LEMMA StandingMade ==
  ASSUME Linear, NEW f \in Ids, fixture[f].exists
  PROVE  f \in MadeIn(events)
<1>1. TableOf(fixture)[f].exists
  BY DEF TableOf
<1> QED
  BY <1>1 DEF Linear, History, Standing

(* What a move of the board has in common, whoever makes it.                *)
LEMMA MoveLinear ==
  ASSUME HistoryInv, Linear, NEW on \in MovesOf, Append1(Movement(on)), Rewrite(on),
         \A f \in DOMAIN on : fixture[f].exists /\ fixture[f].at = on[f].from,
         watermark' = Null
  PROVE  Linear' /\ Movement(on) \in EventsOf
<1>1. Movement(on) \in EventsOf /\ DOMAIN on \subseteq Ids /\ Movement(on).on = on
  BY MovesDomain DEF Movement, EventsOf, Types
<1>2. \A f \in DOMAIN on : f \in Ids /\ fixture[f].exists /\ fixture[f].at = on[f].from
  BY <1>1
<1>3. fixture \in [Ids -> Rows] /\ HistoryTypeOK
  BY DEF HistoryInv, HistoryTypeOK
<1>4. Fits(TableOf(fixture), Movement(on))
  BY <1>2, <1>3, MovesFit
<1>5. TableOf(fixture') = Effect(TableOf(fixture), Movement(on))
  BY <1>2, <1>3, RewriteFolds
<1>6. Gapless(MadeIn(events) \cup DOMAIN Movement(on).on)
  BY <1>1, <1>2, StandingMade, GaplessKept
<1> QED
  BY <1>1, <1>3, <1>4, <1>5, <1>6, LinearGrows

LEMMA ApplyLinear ==
  ASSUME HistoryInv, NEW h \in Handlers, Apply(h), detached' = {}
  PROVE  Linear' /\ Current'
<1>1. PICK S \in (SUBSET Existing) \ {{}} : \E to \in [S -> Slots] :
        Rewrite(MoveTo(h, to)) /\ Append1(Movement(MoveTo(h, to)))
  BY DEF Apply
<1>2. PICK to \in [S -> Slots] : Rewrite(MoveTo(h, to)) /\ Append1(Movement(MoveTo(h, to)))
  BY <1>1
<1>3. StaleMark = {} /\ Linear /\ Current
  BY BlameNone DEF Apply, HistoryInv, Together
<1>4. watermark' = Null
  BY <1>3 DEF StaleMark, Apply
<1> DEFINE on == MoveTo(h, to)
<1>5. to \in [S -> Where] /\ S \subseteq Ids /\ \A f \in S : fixture[f].exists
  BY DEF Where, Existing
<1>6. on \in MovesOf /\ DOMAIN on = S /\ \A f \in S : on[f].from = job[h].read[f].at
  BY <1>5, MoveToOK DEF MoveTo, HistoryInv
<1>7. TableOf(job[h].read) = TableOf(fixture)
  BY <1>3 DEF Current, Apply, Held
<1>8. \A f \in S : fixture[f].at = job[h].read[f].at
  BY <1>5, <1>7, ReadIs
<1> HIDE DEF on
<1>9. Rewrite(on) /\ Append1(Movement(on))
  BY <1>2 DEF on
<1>10. Linear' /\ Movement(on) \in EventsOf
  BY <1>3, <1>4, <1>5, <1>6, <1>8, <1>9, MoveLinear
<1>11. Current'
  BY <1>3, <1>9, <1>10, CurrentAfterWrite, IdleIs DEF HistoryInv, Apply, Done, Held
<1> QED
  BY <1>10, <1>11

LEMMA ShiftLinear ==
  ASSUME HistoryInv, NEW h \in Handlers, Shift(h), detached' = {}
  PROVE  Linear' /\ Current'
<1>1. PICK S \in (SUBSET Existing) \ {{}} : \E delta \in {-1, 1} :
        LET on == MoveTo(h, [f \in S |-> job[h].read[f].at + delta])
        IN  /\ \A f \in S : job[h].read[f].at + delta \in Slots
            /\ Rewrite(on) /\ Append1(Movement(on))
  BY DEF Shift
<1>2. PICK delta \in {-1, 1} :
        LET on == MoveTo(h, [f \in S |-> job[h].read[f].at + delta])
        IN  /\ \A f \in S : job[h].read[f].at + delta \in Slots
            /\ Rewrite(on) /\ Append1(Movement(on))
  BY <1>1
<1> DEFINE to == [f \in S |-> job[h].read[f].at + delta]
           on == MoveTo(h, to)
<1>3. Linear /\ Current
  BY DEF Shift, HistoryInv, Together
<1>4. watermark' = Null
  BY DEF Shift
<1>5. to \in [S -> Where] /\ S \subseteq Ids /\ \A f \in S : fixture[f].exists
  BY <1>2 DEF Where, Existing
<1> HIDE DEF to
<1>6. on \in MovesOf /\ DOMAIN on = S /\ \A f \in S : on[f].from = job[h].read[f].at
  BY <1>5, MoveToOK DEF MoveTo, HistoryInv
<1>7. TableOf(job[h].read) = TableOf(fixture)
  BY <1>3 DEF Current, Shift, Held
<1>8. \A f \in S : fixture[f].at = job[h].read[f].at
  BY <1>5, <1>7, ReadIs
<1>9. Rewrite(on) /\ Append1(Movement(on))
  BY <1>2 DEF to
<1> HIDE DEF on
<1>10. Linear' /\ Movement(on) \in EventsOf
  BY <1>3, <1>4, <1>5, <1>6, <1>8, <1>9, MoveLinear
<1>11. Current'
  BY <1>3, <1>9, <1>10, CurrentAfterWrite, IdleIs DEF HistoryInv, Shift, Done, Held
<1> QED
  BY <1>10, <1>11

(* A move reads its row before it waits for the lock: either it was told the
   head that it saw, or what it read must still be there.                   *)
LEMMA MoveWriteLinear ==
  ASSUME HistoryInv, NEW h \in Handlers, MoveWrite(h), detached' = {}
  PROVE  Linear' /\ Current'
<1>1. PICK f \in Ids, slot \in Where :
        LET on == MoveTo(h, [g \in {f} |-> slot])
            row == job[h].read[f]
        IN  /\ row.exists
            /\ Rewrite(on) /\ Append1(Movement(on))
            /\ Blame(StaleMark
                     \cup (IF job[h].expected = Null /\ (fixture[f].at # row.at \/ ~fixture[f].exists)
                           THEN {"raced"} ELSE {}))
  BY DEF MoveWrite
<1> DEFINE to == [g \in {f} |-> slot]
           on == MoveTo(h, to)
           row == job[h].read[f]
           raced == IF job[h].expected = Null /\ (fixture[f].at # row.at \/ ~fixture[f].exists)
                    THEN {"raced"} ELSE {}
<1>2. /\ Rewrite(on) /\ Append1(Movement(on)) /\ row.exists
      /\ Blame(StaleMark \cup raced)
  BY <1>1
<1>3. StaleMark = {} /\ raced = {} /\ Linear /\ Current
  <2>1. StaleMark \cup raced = {} /\ detached = {}
    <3> HIDE DEF raced
    <3> QED BY <1>2, BlameNone
  <2> QED
    BY <2>1 DEF HistoryInv, Together
<1>4. watermark' = Null
  BY <1>3 DEF StaleMark, MoveWrite
<1>5. to \in [{f} -> Where] /\ {f} \subseteq Ids
  OBVIOUS
<1>6. fixture[f].exists /\ fixture[f].at = row.at
  <2>1. CASE job[h].expected = Null
    BY <1>3, <2>1
  <2>2. CASE job[h].expected # Null
    <3>1. job[h].op = "move" /\ job[h].expected = Len(events)
      BY <2>2 DEF MoveWrite, Fresh
    <3>2. TableOf(job[h].read) = TableOf(fixture)
      BY <1>3, <2>2, <3>1 DEF Current
    <3> QED
      BY <1>2, <3>2, ReadIs
  <2> QED
    BY <2>1, <2>2
<1> HIDE DEF to, raced
<1>7. on \in MovesOf
  BY <1>5, MoveToOK DEF HistoryInv
<1>8. DOMAIN on = {f} /\ on[f].from = row.at
  BY <1>5 DEF MoveTo
<1> HIDE DEF on
<1>9. Linear' /\ Movement(on) \in EventsOf
  BY <1>2, <1>3, <1>4, <1>6, <1>7, <1>8, MoveLinear
<1>10. Current'
  BY <1>2, <1>3, <1>9, CurrentAfterWrite, IdleIs DEF HistoryInv, MoveWrite, Done
<1> QED
  BY <1>9, <1>10

(* Emptying the schedule or the pool of fixtures that are not decided.      *)
LEMMA ClearLinear ==
  ASSUME HistoryInv, NEW h \in Handlers, Clear(h), detached' = {}
  PROVE  Linear' /\ Current'
<1>1. PICK S \in (SUBSET Existing) \ {{}} :
        LET e == Movement(MoveTo(h, [f \in S |-> Null]))
        IN  fixture' = Execute(e) /\ Append1(e) /\ Blame(RaceOn(e))
  BY DEF Clear
<1> DEFINE to == [f \in S |-> Null]
           on == MoveTo(h, to)
           e == Movement(on)
<1>2. fixture' = Execute(e) /\ Append1(e) /\ Blame(RaceOn(e))
  BY <1>1
<1>3. RaceOn(e) = {} /\ Linear /\ Current
  <2> HIDE DEF e
  <2> QED BY <1>2, BlameNone DEF HistoryInv, Together
<1>4. to \in [S -> Where] /\ S \subseteq Ids /\ \A f \in S : fixture[f].exists
  BY DEF Where, Existing
<1> HIDE DEF to
<1>5. /\ on \in MovesOf /\ e \in EventsOf /\ DOMAIN on = S
      /\ \A f \in S : on[f].from = job[h].read[f].at
  BY <1>4, MoveToOK DEF MoveTo, HistoryInv
<1>6. TableOf(job[h].read) = TableOf(fixture)
  BY <1>3 DEF Current, Clear, Held
<1>7. \A f \in S : fixture[f].at = job[h].read[f].at
  BY <1>4, <1>6, ReadIs
<1> HIDE DEF on
<1>8. fixture \in [Ids -> Rows] /\ HistoryTypeOK /\ NoGhosts /\ ~Remade(e) /\ e.on = on
  BY DEF HistoryInv, HistoryTypeOK, Remade, Movement
<1>9. Fits(TableOf(fixture), e)
  BY <1>4, <1>5, <1>7, <1>8, MovesFit
<1> HIDE DEF e
<1>10. TableOf(fixture') = Effect(TableOf(fixture), e)
  BY <1>2, <1>3, <1>5, <1>8, <1>9, ExecuteFolds
<1>11. Gapless(MadeIn(events) \cup DOMAIN e.on)
  BY <1>3, <1>4, <1>5, <1>8, StandingMade, GaplessKept
<1>12. Linear'
  BY <1>2, <1>3, <1>5, <1>8, <1>9, <1>10, <1>11, LinearGrows DEF Clear
<1>13. Current'
  BY <1>2, <1>3, <1>5, <1>8, CurrentAfterWrite, IdleIs DEF Clear, Done, Held
<1> QED
  BY <1>12, <1>13

LEMMA ClearPoolLinear ==
  ASSUME HistoryInv, NEW h \in Handlers, ClearPool(h), detached' = {}
  PROVE  Linear' /\ Current'
<1> DEFINE S == {f \in Existing : f[1] \in Pool}
           on == Snapshots(S)
           e == [type |-> "pool_cleared", on |-> on, rows |-> S, original |-> TRUE]
<1>1. fixture' = Execute(e) /\ Append1(e) /\ Blame(RaceOn(e))
  BY DEF ClearPool
<1>2. RaceOn(e) = {} /\ Linear /\ Current
  <2> HIDE DEF e
  <2> QED BY <1>1, BlameNone DEF HistoryInv, Together
<1>3. S \subseteq Ids /\ S \in SUBSET Ids /\ S # Null /\ \A f \in S : fixture[f].exists
  <2>1. S \subseteq Ids /\ \A f \in S : fixture[f].exists
    BY DEF Existing
  <2> HIDE DEF S
  <2> QED BY <2>1, HistoryAssumption DEF Ids
<1> HIDE DEF S
<1>4. /\ on \in MovesOf /\ DOMAIN on = S
      /\ \A f \in S : on[f].from = fixture[f].at /\ on[f].to = fixture[f].at
  BY <1>3, SnapshotsOK DEF HistoryInv, HistoryTypeOK, Snapshots
<1> HIDE DEF on
<1>5. /\ e \in EventsOf /\ e.on = on /\ e.rows = S /\ e.type = "pool_cleared" /\ ~Remade(e)
  BY <1>3, <1>4 DEF EventsOf, Types, Remade
<1> HIDE DEF e
<1>6. Fits(TableOf(fixture), e)
  <2> SUFFICES ASSUME NEW f \in S PROVE FitsAt(TableOf(fixture)[f], e, f)
    BY <1>4, <1>5 DEF Fits
  <2>1. TableOf(fixture)[f] = Placed(fixture[f].at)
    BY <1>3 DEF TableOf, Placed, HistoryInv, HistoryTypeOK, Rows
  <2> QED
    BY <1>3, <1>4, <1>5, <2>1 DEF FitsAt, Kept
<1>7. fixture \in [Ids -> Rows] /\ HistoryTypeOK /\ NoGhosts
  BY DEF HistoryInv, HistoryTypeOK
<1>8. TableOf(fixture') = Effect(TableOf(fixture), e)
  BY <1>1, <1>2, <1>5, <1>6, <1>7, ExecuteFolds
<1>9. Gapless(MadeIn(events) \cup DOMAIN e.on)
  BY <1>2, <1>3, <1>4, <1>5, StandingMade, GaplessKept
<1>10. Linear'
  BY <1>1, <1>2, <1>5, <1>6, <1>7, <1>8, <1>9, LinearGrows DEF ClearPool
<1>11. Current'
  BY <1>1, <1>2, <1>5, <1>7, CurrentAfterWrite, IdleIs DEF ClearPool, Done, Held
<1> QED
  BY <1>10, <1>11

(* The generator's numbers: the times a pairing has been made are 1 to Made.  *)
LEMMA MadeIs ==
  ASSUME events \in Seq(EventsOf), Gapless(MadeIn(events)), NEW p \in Pairs
  PROVE  /\ Made(p) \in Nat
         /\ \A n \in 1..MaxMade : <<p, n>> \in MadeIn(events) <=> n <= Made(p)
<1> DEFINE S == {n \in 1..MaxMade : \E i \in DOMAIN events : <<p, n>> \in DOMAIN events[i].on}
<1>1. MaxMade \in Nat /\ Made(p) = Cardinality(S)
  BY HistoryAssumption DEF Made
<1>2. \A n \in 1..MaxMade : <<p, n>> \in MadeIn(events) <=> n \in S
  BY DEF MadeIn
<1>3. \A n \in S : n \in Nat /\ n <= MaxMade /\ n \in 1..MaxMade
  BY <1>1
<1>4. ASSUME NEW n \in S, NEW m \in 1..n PROVE m \in S
  <2>1. <<p, n>> \in MadeIn(events) /\ m \in 1..MaxMade
    BY <1>1, <1>2, <1>3
  <2>2. <<p, n>>[1] = p /\ <<p, n>>[2] = n
    OBVIOUS
  <2>3. <<p, m>> \in MadeIn(events)
    BY <2>1, <2>2 DEF Gapless
  <2> QED
    BY <1>2, <2>1, <2>3
<1> HIDE DEF S
<1>5. \E k \in 0..MaxMade : S = 1..k
  <2>1. CASE S = {}
    <3>1. S = 1..0 /\ 0 \in 0..MaxMade
      BY <1>1, <2>1
    <3> QED
      BY <3>1
  <2>2. CASE S # {}
    <3>1. PICK k \in S : \A n \in S : n <= k
      BY <1>1, <1>3, <2>2, GreatestNatural
    <3>2. \A n \in S : n \in 1..k
      BY <1>3, <3>1
    <3>3. \A n \in 1..k : n \in S
      BY <1>4
    <3>4. k \in 0..MaxMade
      BY <1>3
    <3> QED
      BY <3>2, <3>3, <3>4
  <2> QED
    BY <2>1, <2>2
<1>6. PICK k \in 0..MaxMade : S = 1..k
  BY <1>5
<1>7. k \in Nat /\ Made(p) = k
  BY <1>1, <1>6, FS_Interval
<1> QED
  BY <1>1, <1>2, <1>6, <1>7

LEMMA GenerateLinear ==
  ASSUME HistoryInv, NEW h \in Handlers, Generate(h), detached' = {}
  PROVE  Linear' /\ Current'
<1> DEFINE new == {<<p, Made(p) + 1>> : p \in Missing}
           on == [f \in new |-> [from |-> Null, to |-> Null]]
           e == [type |-> "generated", on |-> on, rows |-> Null, original |-> TRUE]
           T == TableOf(fixture)
           S == MadeIn(events)
<1>1. /\ fixture' = [f \in Ids |-> IF f \in new
                       THEN [NoRow EXCEPT !.exists = TRUE, !.keyed = TRUE] ELSE fixture[f]]
      /\ Append1(e) /\ watermark' = Null
  BY DEF Generate
<1>2. Linear /\ Current /\ HistoryTypeOK /\ fixture \in [Ids -> Rows] /\ NoGhosts
  BY DEF Generate, HistoryInv, Together, HistoryTypeOK
<1>3. events \in Seq(EventsOf) /\ Gapless(S)
  BY <1>2 DEF HistoryTypeOK, LedgerTyped, Linear, History
<1>4. ASSUME NEW f \in new
      PROVE  /\ f \in Ids /\ f \notin S
             /\ \A m \in 1..f[2] : <<f[1], m>> \in S \cup new
  <2>1. PICK p \in Missing : f = <<p, Made(p) + 1>>
    OBVIOUS
  <2>2. p \in Pairs /\ Made(p) < MaxMade
    BY DEF Generate, Missing
  <2>3. Made(p) \in Nat /\ \A n \in 1..MaxMade : <<p, n>> \in S <=> n <= Made(p)
    BY <1>3, <2>2, MadeIs
  <2>4. Made(p) + 1 \in 1..MaxMade /\ ~(Made(p) + 1 <= Made(p))
    BY <2>2, <2>3, HistoryAssumption
  <2>5. f \in Ids /\ f \notin S /\ f[1] = p /\ f[2] = Made(p) + 1
    <3> HIDE DEF S
    <3> QED BY <2>1, <2>2, <2>3, <2>4 DEF Ids
  <2>6. ASSUME NEW m \in 1..(Made(p) + 1) PROVE <<p, m>> \in S \cup new
    <3>1. CASE m = Made(p) + 1
      BY <2>1, <3>1
    <3>2. CASE m # Made(p) + 1
      <4>1. m \in 1..MaxMade /\ m <= Made(p)
        BY <2>2, <2>3, <2>4, <3>2, HistoryAssumption
      <4> QED
        BY <2>3, <4>1
    <3> QED
      BY <3>1, <3>2
  <2> HIDE DEF S, new
  <2> QED
    BY <2>5, <2>6
<1> HIDE DEF new
<1>5. on \in MovesOf /\ DOMAIN on = new
      /\ \A f \in new : on[f].from = Null /\ on[f].to = Null
  <2>1. new \subseteq Ids
    BY <1>4
  <2> QED
    BY <2>1, MovesMade DEF Moves, Where
<1> HIDE DEF on
<1>6. e \in EventsOf /\ e.on = on /\ e.type = "generated" /\ e.rows = Null
  BY <1>5 DEF EventsOf, Types
<1> HIDE DEF e
<1>7. ASSUME NEW f \in new PROVE T[f] = Gone
  <2>1. ~fixture[f].exists /\ f \in Ids
    BY <1>2, <1>4, StandingMade
  <2>2. fixture[f].exists = FALSE /\ fixture[f].at = Null
    BY <1>2, <2>1 DEF NoGhosts, Rows
  <2> QED
    BY <2>1, <2>2 DEF TableOf, Gone
<1>8. Fits(T, e)
  BY <1>5, <1>6, <1>7 DEF Fits, FitsAt
<1>9. Gapless(S \cup DOMAIN e.on)
  <2> SUFFICES ASSUME NEW f \in S \cup new, NEW m \in 1..f[2] PROVE <<f[1], m>> \in S \cup new
    BY <1>5, <1>6 DEF Gapless
  <2> HIDE DEF S
  <2> QED
    BY <1>3, <1>4 DEF Gapless
<1>10. TableOf(fixture') = Effect(T, e)
  <2>1. ASSUME NEW f \in Ids
        PROVE  [exists |-> fixture'[f].exists, at |-> fixture'[f].at] = Effect(T, e)[f]
    <3>1. T \in [Ids -> Cells] /\ T[f] = [exists |-> fixture[f].exists, at |-> fixture[f].at]
      BY <1>2, TableTyped DEF TableOf
    <3>2. CASE f \in new
      <4>1. Effect(T, e)[f] = Placed(T[f].at)
        <5> HIDE DEF T
        <5> QED BY <1>5, <1>6, <3>1, <3>2, EffectAt
      <4>2. T[f].at = Null
        BY <1>7, <3>2 DEF Gone
      <4>3. fixture'[f].exists = TRUE /\ fixture'[f].at = Null
        BY <1>1, <3>2 DEF NoRow
      <4> HIDE DEF T
      <4> QED
        BY <4>1, <4>2, <4>3 DEF Placed
    <3>3. CASE f \notin new
      <4>1. Effect(T, e)[f] = T[f]
        <5> HIDE DEF T
        <5> QED BY <1>5, <1>6, <3>3 DEF Effect
      <4>2. fixture'[f] = fixture[f]
        BY <1>1, <3>3
      <4> HIDE DEF T
      <4> QED
        BY <3>1, <4>1, <4>2
    <3> QED
      BY <3>2, <3>3
  <2>2. Effect(T, e) = [f \in Ids |-> Effect(T, e)[f]]
    BY DEF Effect
  <2> HIDE DEF T
  <2> QED
    BY <2>1, <2>2 DEF TableOf
<1>11. Linear'
  BY <1>1, <1>2, <1>6, <1>8, <1>9, <1>10, LinearGrows
<1>12. Current'
  BY <1>1, <1>2, <1>6, CurrentAfterWrite, IdleIs DEF Generate, Done
<1> QED
  BY <1>11, <1>12

(* Any other division event, which history passes over.                     *)
LEMMA NoteLinear ==
  ASSUME HistoryInv, NEW h \in Handlers, Note(h), detached = {}
  PROVE  Linear' /\ Current'
<1> DEFINE e == [type |-> "noted", on |-> <<>>, rows |-> Null, original |-> TRUE]
           T == TableOf(fixture)
<1>1. /\ Append1(e) /\ ~Locked /\ fixture' = fixture /\ watermark' = watermark /\ job' = job
      /\ Linear /\ Current /\ HistoryTypeOK
  BY DEF Note, HistoryInv, Together
<1>2. DOMAIN e.on = {} /\ e.on \in MovesOf
  <2>1. <<>> \in [{} -> Moves]
    OBVIOUS
  <2>2. <<>> \in MovesOf
    BY <2>1 DEF MovesOf
  <2> QED
    BY <2>2
<1>3. e \in EventsOf
  BY <1>2 DEF EventsOf, Types
<1> HIDE DEF e
<1>4. T \in [Ids -> Cells]
  BY <1>1, TableTyped DEF HistoryTypeOK
<1> HIDE DEF T
<1>5. Effect(T, e) = T /\ Fits(T, e)
  BY <1>2, <1>4 DEF Effect, Fits
<1>6. TableOf(fixture') = Effect(TableOf(fixture), e)
  BY <1>1, <1>5 DEF T
<1>7. Gapless(MadeIn(events) \cup DOMAIN e.on)
  BY <1>1, <1>2, GaplessKept
<1>8. watermark' = Null \/ /\ watermark' \in 0..Len(events)
                           /\ FoldOf(events, watermark') = TableOf(fixture')
  BY <1>1 DEF Linear, Position, HistoryTypeOK, LedgerTyped
<1>9. Linear'
  BY <1>1, <1>3, <1>5, <1>6, <1>7, <1>8, LinearGrows DEF T
<1>10. Len(events') = Len(events) + 1 /\ Len(events) \in Nat
  BY <1>1, <1>3, AppendKeeps DEF HistoryTypeOK
<1>11. \A g \in Handlers : job[g].expected \in Nat \cup {Null} /\ job[g].op \notin Held
  BY <1>1 DEF HistoryTypeOK, JobsTyped, Jobs, Locked
<1>12. Current'
  BY <1>1, <1>10, <1>11 DEF Current
<1> QED
  BY <1>9, <1>12

(* A request that starts, reads or ends, and a scorer, leave ledger and table
   as far as a fold can tell; a lock is taken by one that reads the table now. *)
LEMMA QuietLinear ==
  ASSUME HistoryInv, detached = {}, UNCHANGED <<events, watermark>>,
         TableOf(fixture') = TableOf(fixture),
         \A h \in Handlers :
           \/ job'[h] = job[h] \/ job'[h] = Idle
           \/ /\ job'[h].read = fixture /\ job'[h].expected \in {Null, Len(events)}
              /\ fixture' = fixture
  PROVE  Linear' /\ Current'
<1>1. Linear /\ Current /\ Len(events) \in Nat
  BY PositionOK DEF HistoryInv, Together, HistoryTypeOK
<1>2. Position' = Position
  BY DEF Position
<1>3. History(events', TableOf(fixture')) /\ FoldOf(events', Position') = TableOf(fixture')
  BY <1>1, <1>2 DEF Linear
<1>4. Linear'
  BY <1>3 DEF Linear, History, FitsAll, Standing, Gapless, MadeIn, TableOf, FoldOf,
     Effect, Fits, FitsAt
<1>5. ASSUME NEW h \in Handlers
      PROVE  /\ job'[h].op \in Held => TableOf(job'[h].read) = TableOf(fixture')
             /\ job'[h].op = "move" /\ job'[h].expected # Null =>
                  /\ job'[h].expected <= Len(events')
                  /\ job'[h].expected = Len(events') =>
                       TableOf(job'[h].read) = TableOf(fixture')
  <2>1. CASE job'[h] = job[h]
    BY <1>1, <2>1 DEF Current
  <2>2. CASE job'[h] = Idle
    BY <2>2, IdleIs
  <2>3. CASE /\ job'[h].read = fixture /\ job'[h].expected \in {Null, Len(events)}
             /\ fixture' = fixture
    BY <1>1, <2>3
  <2> QED
    BY <2>1, <2>2, <2>3
<1>6. Current'
  BY <1>5 DEF Current, TableOf
<1> QED
  BY <1>4, <1>6

LEMMA JobChanges ==
  ASSUME HistoryInv, NEW h \in Handlers, NEW new, job' = [job EXCEPT ![h] = new]
  PROVE  \A g \in Handlers : job'[g] = IF g = h THEN new ELSE job[g]
BY DEF HistoryInv, HistoryTypeOK, JobsTyped

LEMMA TogetherKept == HistoryInv /\ [Next]_vars => Together'
<1> SUFFICES ASSUME HistoryInv, [Next]_vars, detached' = {}
             PROVE  Linear' /\ Current'
  BY DEF Together
<1>1. ASSUME NEW h \in Handlers, HistoryStep(h) PROVE Linear' /\ Current'
  BY <1>1, UndoLinear, RedoLinear, ClearLinear, ClearPoolLinear DEF HistoryStep
<1>2. ASSUME NEW h \in Handlers, MoveRead(h) PROVE Linear' /\ Current'
  <2>1. PICK expected \in {Null, Len(events)} : job' = [job EXCEPT ![h] = Work("move", expected)]
    BY <1>2 DEF MoveRead
  <2>2. Work("move", expected).read = fixture /\ Work("move", expected).expected = expected
    BY DEF Work
  <2>3. UNCHANGED <<fixture, events, watermark, detached>>
    BY <1>2 DEF MoveRead
  <2>4. TableOf(fixture') = TableOf(fixture)
    BY <2>3
  <2> QED
    BY <2>1, <2>2, <2>3, <2>4, JobChanges, QuietLinear
<1>3. ASSUME NEW h \in Handlers, BoardEdit(h) PROVE Linear' /\ Current'
  BY <1>2, <1>3, ApplyLinear, MoveWriteLinear, ShiftLinear DEF BoardEdit
<1>4. ASSUME NEW h \in Handlers, NEW op \in Held, Take(h, op) PROVE Linear' /\ Current'
  <2>1. job' = [job EXCEPT ![h] = Work(op, Null)]
        /\ UNCHANGED <<fixture, events, watermark, detached>>
    BY <1>4 DEF Take
  <2>2. Work(op, Null).read = fixture /\ Work(op, Null).expected = Null
    BY DEF Work
  <2>3. TableOf(fixture') = TableOf(fixture)
    BY <2>1
  <2> QED
    BY <2>1, <2>2, <2>3, JobChanges, QuietLinear
<1>5. ASSUME NEW h \in Handlers, Quit(h) PROVE Linear' /\ Current'
  <2>1. job' = [job EXCEPT ![h] = Idle] /\ UNCHANGED <<fixture, events, watermark, detached>>
    BY <1>5 DEF Quit, Done
  <2>2. TableOf(fixture') = TableOf(fixture)
    BY <2>1
  <2> QED
    BY <2>1, <2>2, JobChanges, QuietLinear
<1>6. ASSUME NEW f \in Ids, Score(f) PROVE Linear' /\ Current'
  <2>1. PICK next \in Statuses : fixture' = [fixture EXCEPT ![f].status = next]
    BY <1>6 DEF Score
  <2>2. UNCHANGED <<events, watermark, job, detached>>
    BY <1>6 DEF Score
  <2>3. \A g \in Ids : fixture'[g].exists = fixture[g].exists /\ fixture'[g].at = fixture[g].at
    BY <2>1 DEF HistoryInv, HistoryTypeOK, Rows
  <2>4. TableOf(fixture') = TableOf(fixture)
    BY <2>3 DEF TableOf
  <2> QED
    BY <2>2, <2>4, QuietLinear
<1>7. CASE UNCHANGED vars
  <2>1. UNCHANGED <<fixture, events, watermark, job, detached>>
    BY <1>7 DEF vars
  <2>2. TableOf(fixture') = TableOf(fixture)
    BY <2>1
  <2> QED
    BY <2>1, <2>2, QuietLinear
<1>8. ASSUME NEW h \in Handlers, Note(h) PROVE Linear' /\ Current'
  BY <1>8, NoteLinear DEF Note
<1> QED
  BY <1>1, <1>3, <1>4, <1>5, <1>6, <1>7, <1>8, GenerateLinear DEF Next

LEMMA NoGhostsKept == HistoryInv /\ [Next]_vars => NoGhosts'
<1> SUFFICES ASSUME HistoryInv, [Next]_vars, NEW f \in Ids, ~fixture'[f].exists
             PROVE  fixture'[f].at = Null
  BY DEF NoGhosts
<1>1. /\ fixture \in [Ids -> Rows] /\ (~fixture[f].exists => fixture[f].at = Null)
      /\ NoRow.at = Null
  BY DEF HistoryInv, HistoryTypeOK, NoGhosts, NoRow
<1>2. fixture[f] = [exists |-> fixture[f].exists, at |-> fixture[f].at,
                    status |-> fixture[f].status, keyed |-> fixture[f].keyed]
  BY <1>1 DEF Rows
<1>3. ASSUME NEW e, fixture' = Execute(e) PROVE fixture'[f].at = Null
  <2>1. \A at : PutBack(f, at).exists
    BY <1>1, <1>2 DEF PutBack, NoRow, Rows
  <2> QED
    BY <1>1, <1>2, <1>3, <2>1 DEF Execute
<1>4. ASSUME NEW on, Rewrite(on) PROVE fixture'[f].at = Null
  BY <1>1, <1>2, <1>4 DEF Rewrite
<1>5. ASSUME NEW h \in Handlers, Generate(h) PROVE fixture'[f].at = Null
  BY <1>1, <1>2, <1>5 DEF Generate, NoRow
<1>6. ASSUME NEW g \in Ids, Score(g) PROVE fixture'[f].at = Null
  <2>1. PICK next \in Statuses : fixture' = [fixture EXCEPT ![g].status = next]
    BY <1>6 DEF Score
  <2>2. fixture'[f].exists = fixture[f].exists /\ fixture'[f].at = fixture[f].at
    BY <1>1, <1>2, <2>1
  <2> QED
    BY <1>1, <2>2
<1>7. CASE fixture' = fixture
  BY <1>1, <1>7
<1>8. ASSUME NEW h \in Handlers, HistoryStep(h) PROVE fixture'[f].at = Null
  BY <1>3, <1>8 DEF HistoryStep, Undo, Redo, Clear, ClearPool
<1>9. ASSUME NEW h \in Handlers, BoardEdit(h) PROVE fixture'[f].at = Null
  BY <1>4, <1>7, <1>9 DEF BoardEdit, Apply, MoveRead, MoveWrite, Shift
<1>10. ASSUME NEW h \in Handlers, (\E op \in Held : Take(h, op)) \/ Note(h) \/ Quit(h)
       PROVE  fixture'[f].at = Null
  BY <1>7, <1>10 DEF Take, Note, Quit
<1> QED
  BY <1>5, <1>6, <1>7, <1>8, <1>9, <1>10 DEF Next, vars

(* "fold(events <= watermark) is always the current schedule state", for any
   number of requests, fixtures and events, and in any order of edits, undos
   and redos: unless one of the four causes in detached came up, the fold of
   the ledger before the watermark is the table.  The inverse of the last edit
   fits the table and leads back to the fold before it, so undo after undo
   and redo after redo walk the same line.                                  *)
THEOREM HistoryFolds == Spec => []LinearHistoryFolds
<1>1. Init => NoGhosts /\ Together
  <2> SUFFICES ASSUME Init PROVE NoGhosts /\ Together
    OBVIOUS
  <2>1. /\ fixture = [f \in Ids |-> NoRow] /\ events = <<>> /\ watermark = Null
        /\ job = [h \in Handlers |-> Idle]
    BY DEF Init
  <2>2. Len(events) = 0 /\ Position = 0 /\ DOMAIN events = {}
    BY <2>1 DEF Position
  <2>3. TableOf(fixture) = Blank
    BY <2>1 DEF TableOf, NoRow, Blank, Gone
  <2>4. MadeIn(events) = {} /\ FitsAll(events) /\ Gapless({})
    BY <2>2 DEF MadeIn, FitsAll, Gapless
  <2>5. Standing(Blank, events)
    BY DEF Standing, Blank, Gone
  <2>6. Linear
    BY <2>2, <2>3, <2>4, <2>5, FoldNone DEF Linear, History
  <2>7. Current
    BY <2>1, IdleIs DEF Current
  <2>8. NoGhosts
    BY <2>1 DEF NoGhosts, NoRow
  <2> QED
    BY <2>6, <2>7, <2>8 DEF Together
<1>2. HistoryInv => LinearHistoryFolds
  <2> SUFFICES ASSUME HistoryInv, detached = {} PROVE Agrees
    BY DEF LinearHistoryFolds
  <2>1. Fold(Position) = TableOf(fixture)
    BY FoldIsFoldOf DEF HistoryInv, Together, Linear
  <2> QED
    BY <2>1 DEF Agrees, TableOf
<1> QED
  BY <1>1, <1>2, TogetherKept, NoGhostsKept, HistoryTypeCorrect, PTL DEF Spec, HistoryInv
=============================================================================
