------------------------ MODULE StageProgressProofs -------------------------
(***************************************************************************)
(* The division ledger is gapless, watermarked and in order, for any number *)
(* of concurrent requests, stages and fixtures.  The invariant ties what a  *)
(* request in flight is about to do to what the ledger already records.     *)
(***************************************************************************)
EXTENDS StageProgress, TLAPS, FiniteSetTheorems

EventRecord == [type : EventTypes, stage : Stages]
Recorded(log, type, s) == \E i \in DOMAIN log : log[i] = [type |-> type, stage |-> s]

(* What has to be in the log before an event may be.                        *)
Justified(log, e) ==
  /\ e.type = "stage_seeded" => Recorded(log, "stage_completed", e.stage - 1)
  /\ e.type = "fixtures_generated" =>
       (e.stage > 1 => Recorded(log, "stage_seeded", e.stage))
  /\ e.type = "division_completed" =>
       \A r \in Stages : Recorded(log, "stage_completed", r)

Grows(log, more) ==
  \A type, s : Recorded(log, type, s) => Recorded(more, type, s)

(* A request in flight stands on what was recorded when it got there.       *)
RequestOK(q, log) ==
  /\ DOMAIN q = {"pc", "fixture", "stage", "target", "out", "auto", "read"}
  /\ q.pc # "idle" => q.stage \in Stages
  /\ q.pc = "complete" /\ q.read.status = "complete" =>
       Recorded(log, "stage_completed", q.stage)
  /\ q.pc = "seed" => Recorded(log, "stage_completed", q.stage)
  /\ q.pc \in {"generate", "build"} =>
       /\ q.target \in Stages
       /\ q.target > 1 => Recorded(log, "stage_seeded", q.target)

LogInv ==
  /\ events \in Seq(EventRecord)
  /\ division = [status |-> division.status, seq |-> Len(events)]
  /\ \A i \in DOMAIN events : Justified(SubSeq(events, 1, i - 1), events[i])

StageInv ==
  /\ stage = [s \in Stages |-> stage[s]]
  /\ \A s \in Stages :
       /\ DOMAIN stage[s] = {"status", "qualified"}
       /\ stage[s].status = "complete" => Recorded(events, "stage_completed", s)
       /\ stage[s].qualified # Null => Recorded(events, "stage_seeded", s)

RequestInv ==
  /\ hook = [h \in Handlers |-> hook[h]]
  /\ \A h \in Handlers : RequestOK(hook[h], events)

ProgressInv == LogInv /\ StageInv /\ RequestInv

(***************************************************************************)
(* The log.                                                                 *)
(***************************************************************************)
(* Appending an event keeps what was recorded and records the event.        *)
LEMMA AppendRecords ==
  ASSUME NEW log \in Seq(EventRecord), NEW e \in EventRecord
  PROVE  /\ Append(log, e) \in Seq(EventRecord)
         /\ Len(Append(log, e)) = Len(log) + 1
         /\ Grows(log, Append(log, e))
         /\ Recorded(Append(log, e), e.type, e.stage)
<1>1. /\ DOMAIN log = 1..Len(log) /\ Len(log) \in Nat
      /\ DOMAIN Append(log, e) = 1..(Len(log) + 1)
      /\ \A i \in 1..Len(log) : Append(log, e)[i] = log[i]
      /\ Append(log, e)[Len(log) + 1] = e
  OBVIOUS
<1>2. e = [type |-> e.type, stage |-> e.stage]
  BY DEF EventRecord
<1>3. Grows(log, Append(log, e))
  BY <1>1 DEF Grows, Recorded
<1>4. Recorded(Append(log, e), e.type, e.stage)
  BY <1>1, <1>2 DEF Recorded
<1> QED
  BY <1>3, <1>4

(* A justified event keeps every event justified by those before it.        *)
LEMMA AppendJustified ==
  ASSUME NEW log \in Seq(EventRecord), NEW e \in EventRecord, Justified(log, e),
         \A i \in DOMAIN log : Justified(SubSeq(log, 1, i - 1), log[i])
  PROVE  LET more == Append(log, e)
         IN  \A i \in DOMAIN more : Justified(SubSeq(more, 1, i - 1), more[i])
<1> DEFINE more == Append(log, e)
<1>1. /\ DOMAIN log = 1..Len(log) /\ Len(log) \in Nat
      /\ DOMAIN more = 1..(Len(log) + 1)
      /\ \A i \in 1..Len(log) : more[i] = log[i]
      /\ more[Len(log) + 1] = e
  OBVIOUS
<1>2. ASSUME NEW i \in DOMAIN more
      PROVE  SubSeq(more, 1, i - 1) = SubSeq(log, 1, i - 1)
  <2>1. i \in 1..(Len(log) + 1)
    BY <1>1
  <2>2. \A j \in 1..(i - 1) : more[j] = log[j]
    BY <1>1, <2>1
  <2>3. /\ SubSeq(more, 1, i - 1) = [j \in 1..(i - 1) |-> more[j]]
        /\ SubSeq(log, 1, i - 1) = [j \in 1..(i - 1) |-> log[j]]
    BY <1>1, <2>1
  <2> QED
    BY <2>2, <2>3
<1>3. SubSeq(log, 1, Len(log)) = log
  OBVIOUS
<1>4. ASSUME NEW i \in DOMAIN more
      PROVE  Justified(SubSeq(more, 1, i - 1), more[i])
  <2> HIDE DEF more
  <2>1. CASE i = Len(log) + 1
    <3>1. i - 1 = Len(log)
      BY <1>1, <2>1
    <3>2. SubSeq(more, 1, i - 1) = log /\ more[i] = e
      BY <1>1, <1>2, <1>3, <2>1, <3>1
    <3> QED
      BY <3>2
  <2>2. CASE i \in 1..Len(log)
    BY <1>1, <1>2, <2>2
  <2> QED
    BY <1>1, <2>1, <2>2
<1> QED
  BY <1>4

(***************************************************************************)
(* One step.                                                                *)
(***************************************************************************)
(* A step that writes no event keeps the log.                               *)
LEMMA LogUnchanged ==
  ASSUME LogInv, UNCHANGED <<division, events>>
  PROVE  LogInv'
BY DEF LogInv

(* An event appended with its watermark, justified, keeps the log lawful.   *)
LEMMA LogAppended ==
  ASSUME LogInv, NEW e \in EventRecord, Justified(events, e),
         events' = Append(events, e),
         division' = [status |-> division'.status, seq |-> Len(events) + 1]
  PROVE  LogInv' /\ Grows(events, events') /\ Recorded(events', e.type, e.stage)
<1>1. events \in Seq(EventRecord)
  BY DEF LogInv
<1>2. /\ events' \in Seq(EventRecord)
      /\ Len(events') = Len(events) + 1
      /\ Grows(events, events')
      /\ Recorded(events', e.type, e.stage)
  BY <1>1, AppendRecords
<1>3. \A i \in DOMAIN events' :
        Justified(SubSeq(events', 1, i - 1), events'[i])
  BY <1>1, AppendJustified DEF LogInv
<1>4. division' = [status |-> division'.status, seq |-> Len(events')]
  BY <1>2
<1> QED
  BY <1>2, <1>3, <1>4 DEF LogInv

LEMMA GrowsRefl == ASSUME NEW log PROVE Grows(log, log)
BY DEF Grows

(* A request stays well founded as the log grows.                           *)
LEMMA RequestGrows ==
  ASSUME NEW q, NEW log, NEW more, RequestOK(q, log), Grows(log, more)
  PROVE  RequestOK(q, more)
BY DEF RequestOK, Grows

(* Replacing one request by a well-founded one keeps them all so.           *)
LEMMA RequestStep ==
  ASSUME RequestInv, NEW h \in Handlers, NEW q, RequestOK(q, events'),
         hook' = [hook EXCEPT ![h] = q], Grows(events, events')
  PROVE  RequestInv'
<1>1. hook' = [g \in Handlers |-> hook'[g]]
  BY DEF RequestInv
<1>2. ASSUME NEW g \in Handlers PROVE RequestOK(hook'[g], events')
  <2>1. CASE g = h
    BY <2>1 DEF RequestInv
  <2>2. CASE g # h
    <3>1. hook'[g] = hook[g] /\ RequestOK(hook[g], events)
      BY <2>2 DEF RequestInv
    <3> QED
      BY <3>1, RequestGrows
  <2> QED
    BY <2>1, <2>2
<1> QED
  BY <1>1, <1>2 DEF RequestInv

LEMMA IdleOK == ASSUME NEW log PROVE RequestOK(Idle, log)
BY DEF RequestOK, Idle

(* Moving on to a counter that promises nothing.                            *)
LEMMA MovesOn ==
  ASSUME NEW q, NEW log, NEW pc, NEW read, NEW auto, RequestOK(q, log), q.pc # "idle",
         pc \notin {"complete", "seed", "generate", "build"}
  PROVE  RequestOK([q EXCEPT !.pc = pc, !.read = read, !.auto = auto], log)
<1> DEFINE r == [q EXCEPT !.pc = pc, !.read = read, !.auto = auto]
<1>1. q.stage \in Stages /\ DOMAIN q = {"pc", "fixture", "stage", "target", "out", "auto", "read"}
  BY DEF RequestOK
<1>2. DOMAIN r = DOMAIN q /\ r.pc = pc /\ r.stage = q.stage
  BY <1>1
<1> QED
  BY <1>1, <1>2 DEF RequestOK

Moves(h, pc, read) == hook' = [hook EXCEPT ![h].pc = pc, ![h].read = read]

LEMMA MoveStep ==
  ASSUME RequestInv, NEW h \in Handlers, NEW pc, NEW read, hook[h].pc # "idle",
         Moves(h, pc, read),
         pc \notin {"complete", "seed", "generate", "build"}, Grows(events, events')
  PROVE  RequestInv'
<1> DEFINE q == [hook[h] EXCEPT !.pc = pc, !.read = read, !.auto = hook[h].auto]
<1>1. hook' = [hook EXCEPT ![h] = q]
  BY DEF RequestInv, RequestOK, Moves
<1>2. RequestOK(q, events')
  BY MovesOn, RequestGrows DEF RequestInv
<1> QED
  BY <1>1, <1>2, RequestStep

LEMMA GotoStep ==
  ASSUME RequestInv, NEW h \in Handlers, NEW pc, Goto(h, pc), hook[h].pc # "idle",
         pc \notin {"complete", "seed", "generate", "build"}, Grows(events, events')
  PROVE  RequestInv'
BY MoveStep DEF Goto, Moves

LEMMA DoneStep ==
  ASSUME RequestInv, NEW h \in Handlers, Done(h), Grows(events, events')
  PROVE  RequestInv'
BY IdleOK, RequestStep DEF Done

LEMMA ReturnStep ==
  ASSUME RequestInv, NEW h \in Handlers, hook[h].pc # "idle", Grows(events, events'),
         CompleteReturns(h) \/ StandingsDone(h)
  PROVE  RequestInv'
BY GotoStep, DoneStep DEF CompleteReturns, StandingsDone

(* Stages keep their record of the log as it grows.                         *)
LEMMA StageKept ==
  ASSUME StageInv, UNCHANGED stage, Grows(events, events')
  PROVE  StageInv'
BY DEF StageInv, Grows

LEMMA Nothing ==
  ASSUME ProgressInv, UNCHANGED <<stage, division, events>>
  PROVE  LogInv' /\ StageInv' /\ Grows(events, events')
<1>1. Grows(events, events')
  BY GrowsRefl
<1> QED
  BY <1>1, LogUnchanged, StageKept DEF ProgressInv

(* The transactions of a request that write no event.                       *)
LEMMA ReadsKeep ==
  ASSUME ProgressInv, NEW h \in Handlers,
         \/ ReadConfig(h) \/ FillAndPin(h) \/ RecomputeRead(h) \/ RecomputeWrite(h)
         \/ AutoCheck(h) \/ CompleteRead(h) \/ GenerateRead(h) \/ MarkRead(h)
         \/ Crash(h)
  PROVE  ProgressInv'
<1>1. LogInv' /\ StageInv' /\ Grows(events, events')
  BY Nothing DEF ReadConfig, FillAndPin, RecomputeRead, RecomputeWrite, AutoCheck,
                 CompleteRead, GenerateRead, MarkRead, Crash, structure
<1>2. RequestInv
  BY DEF ProgressInv
<1> SUFFICES RequestInv'
  BY <1>1 DEF ProgressInv
<1>3. CASE ReadConfig(h)
  <2> DEFINE read == rankLocks[hook[h].stage]
  <2>1. hook[h].pc # "idle" /\ Moves(h, "fill", read)
    BY <1>3 DEF ReadConfig, Moves
  <2> HIDE DEF read
  <2> QED
    BY <1>1, <1>2, <2>1, MoveStep
<1>4. CASE FillAndPin(h)
  <2>1. hook[h].pc # "idle" /\ (Goto(h, "recompute") \/ StandingsDone(h))
    BY <1>4 DEF FillAndPin
  <2> QED
    BY <1>1, <1>2, <2>1, GotoStep, ReturnStep
<1>5. CASE RecomputeRead(h)
  <2> DEFINE read == StageInputs(hook[h].stage)
  <2>1. hook[h].pc # "idle" /\ Moves(h, "snapshot", read)
    BY <1>5 DEF RecomputeRead, Moves
  <2> HIDE DEF read
  <2> QED
    BY <1>1, <1>2, <2>1, MoveStep
<1>6. CASE RecomputeWrite(h)
  <2>1. hook[h].pc # "idle" /\ StandingsDone(h)
    BY <1>6 DEF RecomputeWrite
  <2> QED
    BY <1>1, <1>2, <2>1, ReturnStep
<1>7. CASE AutoCheck(h)
  <2>1. CASE Done(h)
    BY <1>1, <1>2, <2>1, DoneStep
  <2>2. CASE hook' = [hook EXCEPT ![h].pc = "load", ![h].auto = TRUE]
    <3> DEFINE q == [hook[h] EXCEPT !.pc = "load", !.read = hook[h].read, !.auto = TRUE]
    <3>1. hook' = [hook EXCEPT ![h] = q]
      BY <1>2, <2>2 DEF RequestInv, RequestOK
    <3>2. RequestOK(q, events')
      BY <1>1, <1>2, <1>7, MovesOn, RequestGrows DEF RequestInv, AutoCheck
    <3> QED
      BY <1>1, <1>2, <3>1, <3>2, RequestStep
  <2> QED
    BY <1>7, <2>1, <2>2 DEF AutoCheck
<1>8. CASE CompleteRead(h)
  <2> DEFINE q == [hook[h] EXCEPT !.pc = "complete", !.read = StageInputs(hook[h].stage)]
  <2>1. hook' = [hook EXCEPT ![h] = q]
    BY <1>2, <1>8 DEF CompleteRead, RequestInv, RequestOK
  <2>2. hook[h].stage \in Stages /\ RequestOK(hook[h], events)
    BY <1>2, <1>8 DEF RequestInv, RequestOK, CompleteRead
  <2>3. /\ DOMAIN q = DOMAIN hook[h] /\ q.pc = "complete" /\ q.stage = hook[h].stage
        /\ q.read.status = stage[hook[h].stage].status
    BY <2>2 DEF RequestOK, StageInputs
  <2>4. q.read.status = "complete" => Recorded(events, "stage_completed", q.stage)
    BY <2>2, <2>3 DEF ProgressInv, StageInv
  <2> HIDE DEF q
  <2>5. RequestOK(q, events)
    BY <2>2, <2>3, <2>4 DEF RequestOK
  <2> QED
    BY <1>1, <1>2, <2>1, <2>5, RequestGrows, RequestStep
<1>9. CASE MarkRead(h)
  <2> DEFINE read == [seq |-> Len(events)]
  <2>1. hook[h].pc # "idle" /\ Moves(h, "insert", read)
    BY <1>9 DEF MarkRead, Moves
  <2> HIDE DEF read
  <2> QED
    BY <1>1, <1>2, <2>1, MoveStep
<1>10. CASE Crash(h)
  BY <1>1, <1>2, <1>10, DoneStep DEF Crash
<1>11. CASE GenerateRead(h)
  <2> DEFINE read == [status |-> stage[hook[h].target].status]
             q == [hook[h] EXCEPT !.pc = "build", !.read = read]
  <2>1. /\ hook' = [hook EXCEPT ![h] = q]
        /\ hook[h].pc = "generate" /\ RequestOK(hook[h], events)
    BY <1>2, <1>11 DEF GenerateRead, RequestInv, RequestOK
  <2> HIDE DEF read
  <2>2. /\ DOMAIN q = DOMAIN hook[h] /\ q.pc = "build"
        /\ q.stage = hook[h].stage /\ q.target = hook[h].target
    BY <2>1 DEF RequestOK
  <2> HIDE DEF q
  <2>3. RequestOK(q, events)
    BY <2>1, <2>2 DEF RequestOK
  <2> QED
    BY <1>1, <1>2, <2>1, <2>3, RequestGrows, RequestStep
<1> QED
  BY <1>3, <1>4, <1>5, <1>6, <1>7, <1>8, <1>9, <1>10, <1>11

(* Requests that begin.                                                     *)
LEMMA BeginStep ==
  ASSUME ProgressInv, NEW h \in Handlers, NEW q, Begin(h, q), RequestOK(q, events),
         UNCHANGED <<stage, division, events>>
  PROVE  ProgressInv'
<1>1. LogInv' /\ StageInv' /\ Grows(events, events')
  BY Nothing
<1>2. RequestInv'
  BY <1>1, RequestStep DEF Begin, ProgressInv
<1> QED
  BY <1>1, <1>2 DEF ProgressInv

LEMMA BeginsKeep ==
  ASSUME ProgressInv, NEW h \in Handlers,
         \/ \E f \in Fixtures : Score(h, f)
         \/ \E s \in Stages : \/ OrganiserCompletes(h, s) \/ OrganiserGenerates(h, s)
                              \/ ReadStandings(h, s)
  PROVE  ProgressInv'
<1>1. ASSUME NEW f \in Fixtures, Score(h, f) PROVE ProgressInv'
  <2>1. PICK row \in CommitRows(f) :
          hook' = [hook EXCEPT ![h] =
            [Idle EXCEPT !.fixture = f, !.stage = StageOf[f], !.out = row.outcome,
                         !.pc = IF f \in Placements THEN "config" ELSE "fill"]]
    BY <1>1 DEF Score
  <2> DEFINE q == [Idle EXCEPT !.fixture = f, !.stage = StageOf[f], !.out = row.outcome,
                               !.pc = IF f \in Placements THEN "config" ELSE "fill"]
  <2>2. Begin(h, q) /\ UNCHANGED <<stage, division, events>>
    BY <1>1, <2>1 DEF Score, Begin, structure
  <2>3. RequestOK(q, events)
    BY StageProgressAssumption DEF RequestOK, Idle
  <2> HIDE DEF q
  <2> QED
    BY <2>2, <2>3, BeginStep
<1>2. ASSUME NEW s \in Stages, OrganiserCompletes(h, s) PROVE ProgressInv'
  <2> DEFINE q == [Idle EXCEPT !.pc = "load", !.stage = s]
  <2>1. Begin(h, q) /\ UNCHANGED <<stage, division, events>>
    BY <1>2 DEF OrganiserCompletes, structure
  <2>2. RequestOK(q, events)
    BY DEF RequestOK, Idle
  <2> HIDE DEF q
  <2> QED
    BY <2>1, <2>2, BeginStep
<1>3. ASSUME NEW s \in Stages, ReadStandings(h, s) PROVE ProgressInv'
  <2> DEFINE q == [Idle EXCEPT !.pc = "recompute", !.stage = s]
  <2>1. Begin(h, q) /\ UNCHANGED <<stage, division, events>>
    BY <1>3 DEF ReadStandings, structure
  <2>2. RequestOK(q, events)
    BY DEF RequestOK, Idle
  <2> HIDE DEF q
  <2> QED
    BY <2>1, <2>2, BeginStep
<1>4. ASSUME NEW s \in Stages, OrganiserGenerates(h, s) PROVE ProgressInv'
  <2>0. UNCHANGED <<stage, division, events>>
    BY <1>4 DEF OrganiserGenerates, structure
  <2>1. CASE (s = 1 \/ ~Unseeded(s))
             /\ Begin(h, [Idle EXCEPT !.pc = "generate", !.stage = s, !.target = s])
    <3> DEFINE q == [Idle EXCEPT !.pc = "generate", !.stage = s, !.target = s]
    <3>1. s > 1 => Recorded(events, "stage_seeded", s)
      BY <2>1 DEF ProgressInv, StageInv, Unseeded
    <3>2. RequestOK(q, events)
      BY <3>1 DEF RequestOK, Idle
    <3>3. Begin(h, q)
      BY <2>1
    <3> HIDE DEF q
    <3> QED
      BY <2>0, <3>2, <3>3, BeginStep
  <2>2. CASE /\ s > 1 /\ Unseeded(s) /\ stage[s - 1].status = "complete"
             /\ Begin(h, [Idle EXCEPT !.pc = "seed", !.stage = s - 1])
    <3> DEFINE q == [Idle EXCEPT !.pc = "seed", !.stage = s - 1]
    <3>1. s - 1 \in Stages
      BY <2>2, StageProgressAssumption DEF Stages
    <3>2. Recorded(events, "stage_completed", s - 1)
      BY <2>2, <3>1 DEF ProgressInv, StageInv
    <3>3. RequestOK(q, events)
      BY <3>1, <3>2 DEF RequestOK, Idle
    <3>4. Begin(h, q)
      BY <2>2
    <3> HIDE DEF q
    <3> QED
      BY <2>0, <3>3, <3>4, BeginStep
  <2> QED
    BY <1>4, <2>1, <2>2 DEF OrganiserGenerates
<1> QED
  BY <1>1, <1>2, <1>3, <1>4

(***************************************************************************)
(* The transactions that write.                                             *)
(***************************************************************************)
LEMMA EventWritten ==
  ASSUME ProgressInv, NEW h, NEW type \in EventTypes, NEW s \in Stages,
         Justified(events, [type |-> type, stage |-> s]), AppendDivisionEvent(h, type, s)
  PROVE  LogInv' /\ Grows(events, events') /\ Recorded(events', type, s)
<1> DEFINE e == [type |-> type, stage |-> s]
<1>1. e \in EventRecord /\ e.type = type /\ e.stage = s
  BY DEF EventRecord
<1>2. events' = Append(events, e) /\ Justified(events, e)
  BY DEF AppendDivisionEvent
<1>3. division' = [status |-> division'.status, seq |-> Len(events) + 1]
  BY DEF AppendDivisionEvent, ProgressInv, LogInv
<1> HIDE DEF e
<1> QED
  BY <1>1, <1>2, <1>3, LogAppended DEF ProgressInv

(* One field of one stage changed to what the log records.                  *)
LEMMA StageChanged ==
  ASSUME ProgressInv, NEW s \in Stages, NEW v, Grows(events, events'),
         \/ /\ stage' = [stage EXCEPT ![s].status = v]
            /\ v = "complete" => Recorded(events', "stage_completed", s)
         \/ /\ stage' = [stage EXCEPT ![s].qualified = v]
            /\ Recorded(events', "stage_seeded", s)
  PROVE  StageInv'
<1>1. /\ stage = [r \in Stages |-> stage[r]]
      /\ \A r \in Stages : /\ DOMAIN stage[r] = {"status", "qualified"}
                           /\ stage[r].status = "complete" =>
                                Recorded(events', "stage_completed", r)
                           /\ stage[r].qualified # Null =>
                                Recorded(events', "stage_seeded", r)
  BY DEF ProgressInv, StageInv, Grows
<1>2. stage' = [r \in Stages |-> stage'[r]]
  BY <1>1
<1>3. ASSUME NEW r \in Stages
      PROVE  /\ DOMAIN stage'[r] = {"status", "qualified"}
             /\ stage'[r].status = "complete" => Recorded(events', "stage_completed", r)
             /\ stage'[r].qualified # Null => Recorded(events', "stage_seeded", r)
  BY <1>1
<1> QED
  BY <1>2, <1>3 DEF StageInv

(* Going on to seed, once the completion is recorded.                       *)
LEMMA GoesToSeed ==
  ASSUME ProgressInv, NEW h \in Handlers, hook[h].pc # "idle", Goto(h, "seed"),
         Grows(events, events'), Recorded(events', "stage_completed", hook[h].stage)
  PROVE  RequestInv'
<1> DEFINE q == [hook[h] EXCEPT !.pc = "seed", !.read = Null]
<1>1. RequestOK(hook[h], events')
  BY RequestGrows DEF ProgressInv, RequestInv
<1>2. hook' = [hook EXCEPT ![h] = q]
  BY <1>1 DEF Goto, ProgressInv, RequestInv, RequestOK
<1>3. DOMAIN q = DOMAIN hook[h] /\ q.pc = "seed" /\ q.stage = hook[h].stage
  BY <1>1 DEF RequestOK
<1> HIDE DEF q
<1>4. RequestOK(q, events')
  BY <1>1, <1>3 DEF RequestOK
<1> QED
  BY <1>2, <1>4, RequestStep DEF ProgressInv

LEMMA CompleteKeeps ==
  ASSUME ProgressInv, NEW h \in Handlers, CompleteWrite(h)
  PROVE  ProgressInv'
<1> DEFINE s == hook[h].stage
           inputs == hook[h].read
<1>1. hook[h].pc = "complete" /\ RequestOK(hook[h], events)
  BY DEF CompleteWrite, ProgressInv, RequestInv
<1>2. s \in Stages
  BY <1>1 DEF RequestOK
<1>3. CASE inputs.status = "complete" /\ Goto(h, "seed") /\ UNCHANGED structure
  <2>1. LogInv' /\ StageInv' /\ Grows(events, events')
    BY <1>3, Nothing DEF structure
  <2>2. Recorded(events', "stage_completed", s)
    BY <1>1, <1>3 DEF RequestOK, structure
  <2> QED
    BY <1>1, <1>3, <2>1, <2>2, GoesToSeed DEF ProgressInv
<1>4. CASE CompleteReturns(h) /\ UNCHANGED structure
  <2>1. LogInv' /\ StageInv' /\ Grows(events, events')
    BY <1>4, Nothing DEF structure
  <2> QED
    BY <1>1, <1>4, <2>1, ReturnStep DEF ProgressInv
<1>5. CASE /\ stage' = [stage EXCEPT ![s].status = "complete"]
           /\ AppendDivisionEvent(h, "stage_completed", s)
           /\ Goto(h, "seed")
  <2>1. LogInv' /\ Grows(events, events') /\ Recorded(events', "stage_completed", s)
    BY <1>2, <1>5, EventWritten DEF Justified, EventTypes
  <2>2. StageInv'
    BY <1>2, <1>5, <2>1, StageChanged
  <2> QED
    BY <1>1, <1>5, <2>1, <2>2, GoesToSeed DEF ProgressInv
<1> QED
  BY <1>3, <1>4, <1>5 DEF CompleteWrite

LEMMA SeedKeeps ==
  ASSUME ProgressInv, NEW h \in Handlers, Seed(h)
  PROVE  ProgressInv'
<1> DEFINE s == hook[h].stage
           q == [hook[h] EXCEPT !.pc = "generate", !.target = s + 1]
<1>1. hook[h].pc = "seed" /\ RequestOK(hook[h], events)
  BY DEF Seed, ProgressInv, RequestInv
<1>2. s \in Stages /\ Recorded(events, "stage_completed", s)
  BY <1>1 DEF RequestOK
<1>3. CASE Goto(h, "finish") /\ UNCHANGED structure
  <2>1. LogInv' /\ StageInv' /\ Grows(events, events')
    BY <1>3, Nothing DEF structure
  <2> QED
    BY <1>1, <1>3, <2>1, GotoStep DEF ProgressInv
<1>4. ASSUME s < NStages, Grows(events, events'), Recorded(events', "stage_seeded", s + 1),
             hook' = [hook EXCEPT ![h].pc = "generate", ![h].target = s + 1]
      PROVE  RequestInv'
  <2>1. s + 1 \in Stages
    BY <1>2, <1>4, StageProgressAssumption DEF Stages
  <2>2. hook' = [hook EXCEPT ![h] = q]
    BY <1>1, <1>4 DEF ProgressInv, RequestInv, RequestOK
  <2>3. /\ DOMAIN q = DOMAIN hook[h] /\ q.pc = "generate"
        /\ q.stage = s /\ q.target = s + 1
    BY <1>1 DEF RequestOK
  <2> HIDE DEF q
  <2>4. RequestOK(q, events')
    BY <1>1, <1>2, <1>4, <2>1, <2>3 DEF RequestOK
  <2> QED
    BY <1>4, <2>2, <2>4, RequestStep DEF ProgressInv
<1>5. CASE /\ s < NStages /\ ~Unseeded(s + 1) /\ UNCHANGED structure
           /\ hook' = [hook EXCEPT ![h].pc = "generate", ![h].target = s + 1]
  <2>1. LogInv' /\ StageInv' /\ Grows(events, events')
    BY <1>5, Nothing DEF structure
  <2>2. s + 1 \in Stages
    BY <1>2, <1>5, StageProgressAssumption DEF Stages
  <2>3. Recorded(events', "stage_seeded", s + 1)
    BY <1>5, <2>2 DEF ProgressInv, StageInv, Unseeded, structure
  <2> QED
    BY <1>4, <1>5, <2>1, <2>3 DEF ProgressInv
<1>6. CASE /\ s < NStages /\ stage' = [stage EXCEPT ![s + 1].qualified = snapshot[s]]
           /\ AppendDivisionEvent(h, "stage_seeded", s + 1)
           /\ hook' = [hook EXCEPT ![h].pc = "generate", ![h].target = s + 1]
  <2>1. s + 1 \in Stages /\ (s + 1) - 1 = s
    BY <1>2, <1>6, StageProgressAssumption, SMTT(30) DEF Stages
  <2>2. Justified(events, [type |-> "stage_seeded", stage |-> s + 1])
    BY <1>2, <2>1 DEF Justified
  <2>3. /\ LogInv' /\ Grows(events, events')
        /\ Recorded(events', "stage_seeded", s + 1)
    BY <1>6, <2>1, <2>2, EventWritten DEF EventTypes
  <2>4. StageInv'
    BY <1>6, <2>1, <2>3, StageChanged
  <2> QED
    BY <1>4, <1>6, <2>3, <2>4 DEF ProgressInv
<1> QED
  BY <1>3, <1>5, <1>6 DEF Seed

LEMMA FinishKeeps ==
  ASSUME ProgressInv, NEW h \in Handlers, FinishDivision(h)
  PROVE  ProgressInv'
<1> DEFINE e == [type |-> "division_completed", stage |-> hook[h].stage]
<1>1. hook[h].pc # "idle" /\ CompleteReturns(h) /\ UNCHANGED stage
  BY DEF FinishDivision
<1>2. LogInv' /\ Grows(events, events')
  <2>1. CASE UNCHANGED <<division, events>>
    BY <1>1, <2>1, Nothing
  <2>2. CASE /\ DivisionFinished /\ events' = Append(events, e)
             /\ division' = [status |-> "completed", seq |-> Len(events) + 1]
    <3>1. hook[h].stage \in Stages
      BY <1>1 DEF ProgressInv, RequestInv, RequestOK
    <3>2. e \in EventRecord
      BY <3>1 DEF EventRecord, EventTypes
    <3>3. Justified(events, e)
      BY <2>2 DEF Justified, DivisionFinished, ProgressInv, StageInv
    <3>4. division' = [status |-> division'.status, seq |-> Len(events) + 1]
      BY <2>2
    <3>5. events' = Append(events, e)
      BY <2>2
    <3> HIDE DEF e
    <3> QED
      BY <3>2, <3>3, <3>4, <3>5, LogAppended DEF ProgressInv
  <2> QED
    BY <2>1, <2>2 DEF FinishDivision
<1>3. StageInv'
  BY <1>1, <1>2, StageKept DEF ProgressInv
<1> QED
  BY <1>1, <1>2, <1>3, ReturnStep DEF ProgressInv

LEMMA GenerateKeeps ==
  ASSUME ProgressInv, NEW h \in Handlers, GenerateFixtures(h)
  PROVE  ProgressInv'
<1> DEFINE s == hook[h].target
<1>1. hook[h].pc = "build" /\ CompleteReturns(h)
  BY DEF GenerateFixtures
<1>2. s \in Stages /\ (s > 1 => Recorded(events, "stage_seeded", s))
  BY <1>1 DEF ProgressInv, RequestInv, RequestOK
<1>3. SUFFICES LogInv' /\ Grows(events, events') /\ StageInv'
  BY <1>1, ReturnStep DEF ProgressInv
<1>4. CASE UNCHANGED <<stage, division, events>>
  BY <1>4, Nothing
<1>5. CASE /\ stage' = [stage EXCEPT ![s].status = Activated(hook[h].read, @)]
           /\ \/ AppendDivisionEvent(h, "fixtures_generated", s)
              \/ UNCHANGED <<division, events>>
  <2>1. ASSUME AppendDivisionEvent(h, "fixtures_generated", s)
        PROVE  LogInv' /\ Grows(events, events')
    <3>1. Justified(events, [type |-> "fixtures_generated", stage |-> s])
      BY <1>2 DEF Justified
    <3> QED
      BY <1>2, <2>1, <3>1, EventWritten DEF EventTypes
  <2>2. ASSUME UNCHANGED <<division, events>>
        PROVE  LogInv' /\ Grows(events, events')
    BY <2>2, GrowsRefl, LogUnchanged DEF ProgressInv
  <2>3. LogInv' /\ Grows(events, events')
    BY <1>5, <2>1, <2>2
  <2> DEFINE v == Activated(hook[h].read, stage[s].status)
  <2>4. stage' = [stage EXCEPT ![s].status = v]
    BY <1>5
  <2>5. v = "complete" => Recorded(events', "stage_completed", s)
    BY <1>2, <2>3 DEF ProgressInv, StageInv, Grows, Activated
  <2> HIDE DEF v
  <2>6. StageInv'
    BY <1>2, <2>3, <2>4, <2>5, StageChanged
  <2> QED
    BY <2>3, <2>6
<1> QED
  BY <1>4, <1>5 DEF GenerateFixtures

LEMMA MarkKeeps ==
  ASSUME ProgressInv, NEW h \in Handlers,
         MarkInsert(h) \/ \E g \in Handlers : MarkInsertTears(h, g)
  PROVE  ProgressInv'
<1>1. hook[h].pc = "insert" /\ UNCHANGED stage
  BY DEF MarkInsert, MarkInsertTears
<1>2. hook[h].stage \in Stages
  BY <1>1 DEF ProgressInv, RequestInv, RequestOK
<1>3. ASSUME AppendDivisionEvent(h, "stage_auto_advanced", hook[h].stage)
      PROVE  LogInv' /\ Grows(events, events')
  <2>1. Justified(events, [type |-> "stage_auto_advanced", stage |-> hook[h].stage])
    BY DEF Justified
  <2> QED
    BY <1>2, <1>3, <2>1, EventWritten DEF EventTypes
<1>4. ASSUME UNCHANGED <<division, events>>
      PROVE  LogInv' /\ Grows(events, events')
  BY <1>4, GrowsRefl, LogUnchanged DEF ProgressInv
<1>5. LogInv' /\ Grows(events, events')
  BY <1>3, <1>4 DEF MarkInsert, MarkInsertTears
<1>6. StageInv'
  BY <1>1, <1>5, StageKept DEF ProgressInv
<1>7. CASE MarkInsert(h)
  BY <1>5, <1>6, <1>7, DoneStep DEF MarkInsert, ProgressInv
<1>8. ASSUME NEW g \in Handlers, MarkInsertTears(h, g) PROVE RequestInv'
  <2> DEFINE q == IF hook[g].pc = "build" /\ hook[g].auto
                  THEN [hook[g] EXCEPT !.pc = "mark", !.read = Null, !.auto = hook[g].auto]
                  ELSE Idle
  <2>1. /\ h # g /\ hook' = [hook EXCEPT ![h] = Idle,
                ![g] = IF @.pc = "build" /\ @.auto
                       THEN [@ EXCEPT !.pc = "mark", !.read = Null] ELSE Idle]
        /\ hook = [k \in Handlers |-> hook[k]]
        /\ \A k \in Handlers : RequestOK(hook[k], events)
    BY <1>8 DEF MarkInsertTears, ProgressInv, RequestInv
  <2>2. DOMAIN hook[g] = {"pc", "fixture", "stage", "target", "out", "auto", "read"}
    BY <2>1 DEF RequestOK
  <2>3. hook' = [hook EXCEPT ![h] = Idle, ![g] = q]
    BY <2>1, <2>2
  <2>4. RequestOK(q, events)
    <3>1. CASE hook[g].pc = "build" /\ hook[g].auto
      BY <2>1, <3>1, MovesOn
    <3> QED
      BY <3>1, IdleOK
  <2> HIDE DEF q
  <2>5. \A k \in Handlers : RequestOK(hook'[k], events)
    BY <2>1, <2>3, <2>4, IdleOK
  <2>6. \A k \in Handlers : RequestOK(hook'[k], events')
    BY <1>5, <2>5, RequestGrows
  <2>7. hook' = [k \in Handlers |-> hook'[k]]
    BY <2>1, <2>3
  <2> QED
    BY <2>6, <2>7 DEF RequestInv
<1> QED
  BY <1>5, <1>6, <1>7, <1>8 DEF ProgressInv

(***************************************************************************)
(* Theorems.                                                                *)
(***************************************************************************)
(* The invariant holds initially and every step keeps it.                   *)
THEOREM ProgressInvInductive == Spec => []ProgressInv
<1>1. Init => ProgressInv
  <2> SUFFICES ASSUME Init PROVE ProgressInv
    OBVIOUS
  <2> DEFINE e == [type |-> "fixtures_generated", stage |-> 1]
  <2>1. e \in EventRecord
    BY StageProgressAssumption DEF EventRecord, EventTypes, Stages
  <2>2. events = <<e>> /\ Len(events) = 1 /\ DOMAIN events = {1} /\ events[1] = e
    BY DEF Init
  <2>3. \A log : Justified(log, e)
    BY DEF Justified
  <2>4. LogInv
    <3>1. events \in Seq(EventRecord)
      BY <2>1, <2>2
    <3>2. division = [status |-> division.status, seq |-> Len(events)]
      BY <2>2 DEF Init
    <3> HIDE DEF e
    <3> QED
      BY <2>2, <2>3, <3>1, <3>2 DEF LogInv
  <2>5. StageInv
    BY DEF Init, StageInv
  <2>6. RequestInv
    BY IdleOK DEF Init, RequestInv
  <2> QED
    BY <2>4, <2>5, <2>6 DEF ProgressInv
<1>2. ProgressInv /\ [Next]_vars => ProgressInv'
  <2> SUFFICES ASSUME ProgressInv, [Next]_vars PROVE ProgressInv'
    OBVIOUS
  <2>1. ASSUME NEW h \in Handlers, Transaction(h) PROVE ProgressInv'
    BY <2>1, ReadsKeep, CompleteKeeps, SeedKeeps, FinishKeeps, GenerateKeeps, MarkKeeps
       DEF Transaction
  <2>2. CASE Next
    BY <2>1, <2>2, ReadsKeep, BeginsKeep, MarkKeeps DEF Next
  <2>3. CASE UNCHANGED vars
    BY <2>3 DEF vars, structure, ProgressInv, LogInv, StageInv, RequestInv
  <2> QED
    BY <2>2, <2>3
<1> QED
  BY <1>1, <1>2, PTL DEF Spec

(* divisions.seq is the seq of the last division event in every reachable state,
   however requests interleave: the watermark undo relies on.               *)
THEOREM WatermarkCorrect == Spec => []WatermarkIsTip
<1>1. ProgressInv => WatermarkIsTip
  BY DEF ProgressInv, LogInv, WatermarkIsTip
<1> QED
  BY <1>1, ProgressInvInductive, PTL

(* Every division ledger is in order: seeded after completed, generated after
   seeded, the division completed after all its stages.                     *)
THEOREM OrderCorrect == Spec => []StructureInOrder
<1>1. ProgressInv => StructureInOrder
  <2> SUFFICES ASSUME ProgressInv, NEW i \in DOMAIN events
               PROVE  LET s == events[i].stage
                          Before(type, r) == \E j \in Occurrences(type, r) : j < i
                      IN  CASE events[i].type = "stage_seeded" -> Before("stage_completed", s - 1)
                            [] events[i].type = "fixtures_generated" ->
                                 s > 1 => Before("stage_seeded", s)
                            [] events[i].type = "division_completed" ->
                                 \A r \in Stages : Before("stage_completed", r)
                            [] OTHER -> TRUE
    BY DEF StructureInOrder
  <2> DEFINE prefix == SubSeq(events, 1, i - 1)
             Before(type, r) == \E j \in Occurrences(type, r) : j < i
  <2>1. /\ events \in Seq(EventRecord) /\ Justified(prefix, events[i])
        /\ DOMAIN events = 1..Len(events) /\ Len(events) \in Nat
    BY DEF ProgressInv, LogInv
  <2>2. i \in 1..Len(events)
    BY <2>1
  <2>3. DOMAIN prefix = 1..(i - 1) /\ \A j \in 1..(i - 1) : prefix[j] = events[j]
    BY <2>1, <2>2
  <2>4. ASSUME NEW type, NEW r, Recorded(prefix, type, r)
        PROVE  Before(type, r)
    <3>1. PICK j \in 1..(i - 1) : events[j] = [type |-> type, stage |-> r]
      BY <2>3, <2>4 DEF Recorded
    <3>2. j \in DOMAIN events /\ j < i
      BY <2>1, <2>2
    <3> QED
      BY <3>1, <3>2 DEF Occurrences
  <2> HIDE DEF prefix, Before
  <2>5. /\ events[i].type = "stage_seeded" => Before("stage_completed", events[i].stage - 1)
        /\ events[i].type = "fixtures_generated" =>
             (events[i].stage > 1 => Before("stage_seeded", events[i].stage))
        /\ events[i].type = "division_completed" =>
             \A r \in Stages : Before("stage_completed", r)
    BY <2>1, <2>4 DEF Justified
  <2> QED
    BY <2>5 DEF Before
<1> QED
  BY <1>1, ProgressInvInductive, PTL
(***************************************************************************)
(* Types, and what a request's reads are worth when it comes to write.      *)
(***************************************************************************)
Statuses == {"absent", "open", "decided", "finalized", "forfeited", "abandoned"}
Rows == [Fixtures -> [status : Statuses, outcome : Outcomes \cup {Null}]]
Locks == [Entrants -> Ranks \cup {Null}]
FreePcs == {"idle", "recompute", "check", "load", "seed", "finish", "generate",
            "build", "mark", "insert"}
Pcs == FreePcs \cup {"config", "fill", "snapshot", "complete"}

Exist(table, s) == {f \in InStage(s) : table[f].status # "absent"}

(* What a request read is of the right type, and the fixtures it read are
   still there: rows are never deleted here.                                *)
ReadsOf(q, table) ==
  /\ q.pc \in Pcs
  /\ q.pc \in {"config", "fill"} => q.out \in Outcomes \cup {Null}
  /\ q.pc = "fill" /\ q.fixture \in Placements => q.read \in Locks
  /\ q.pc \in {"snapshot", "complete"} =>
       /\ DOMAIN q.read.fixtures \subseteq Exist(table, q.stage)
       /\ TableFrom(q.read.fixtures) \in Tables

ReadsInv == \A h \in Handlers : ReadsOf(hook[h], fixture)

RowInv == TypeOK /\ ReadsInv /\ CompletionCoversRounds

(* Generated fixtures stay.                                                 *)
RowsStay(table, later) ==
  \A f \in Fixtures : table[f].status # "absent" => later[f].status # "absent"

LEMMA ReadsStay ==
  ASSUME NEW q, NEW table, NEW later, ReadsOf(q, table), RowsStay(table, later)
  PROVE  ReadsOf(q, later)
BY DEF ReadsOf, RowsStay, Exist, InStage

LEMMA ReadsStep ==
  ASSUME RequestInv, ReadsInv, NEW h \in Handlers, NEW q, ReadsOf(q, fixture'),
         hook' = [hook EXCEPT ![h] = q], RowsStay(fixture, fixture')
  PROVE  ReadsInv'
<1> SUFFICES ASSUME NEW g \in Handlers PROVE ReadsOf(hook'[g], fixture')
  BY DEF ReadsInv
<1>1. CASE g = h
  BY <1>1 DEF RequestInv
<1>2. CASE g # h
  <2>1. hook'[g] = hook[g] /\ ReadsOf(hook[g], fixture)
    BY <1>2 DEF RequestInv, ReadsInv
  <2> QED
    BY <2>1, ReadsStay
<1> QED
  BY <1>1, <1>2

(* Going where no earlier read is used.                                     *)
LEMMA FreeStep ==
  ASSUME RequestInv, ReadsInv, NEW h \in Handlers, NEW q, q.pc \in FreePcs,
         hook' = [hook EXCEPT ![h] = q], RowsStay(fixture, fixture')
  PROVE  ReadsInv'
<1>1. ReadsOf(q, fixture')
  BY DEF ReadsOf, Pcs, FreePcs
<1> QED
  BY <1>1, ReadsStep

LEMMA FreeGoto ==
  ASSUME RequestInv, ReadsInv, NEW h \in Handlers, NEW pc \in FreePcs, Goto(h, pc),
         RowsStay(fixture, fixture')
  PROVE  ReadsInv'
<1> DEFINE q == [hook[h] EXCEPT !.pc = pc, !.read = Null]
<1>1. hook' = [hook EXCEPT ![h] = q] /\ q.pc = pc
  BY DEF Goto, RequestInv, RequestOK
<1> HIDE DEF q
<1> QED
  BY <1>1, FreeStep

LEMMA FreeDone ==
  ASSUME RequestInv, ReadsInv, NEW h \in Handlers, RowsStay(fixture, fixture'),
         Done(h) \/ CompleteReturns(h) \/ StandingsDone(h)
  PROVE  ReadsInv'
<1>1. Idle.pc \in FreePcs
  BY DEF Idle, FreePcs
<1>2. CASE Done(h)
  <2>1. hook' = [hook EXCEPT ![h] = Idle]
    BY <1>2 DEF Done
  <2> QED
    BY <1>1, <2>1, FreeStep
<1>3. CASE Goto(h, "mark") \/ Goto(h, "check")
  BY <1>3, FreeGoto DEF FreePcs
<1> QED
  BY <1>2, <1>3 DEF CompleteReturns, StandingsDone

LEMMA FreeBegin ==
  ASSUME RequestInv, ReadsInv, NEW h \in Handlers, NEW q, q.pc \in FreePcs, Begin(h, q),
         fixture' = fixture
  PROVE  ReadsInv'
<1>1. RowsStay(fixture, fixture')
  BY DEF RowsStay
<1> QED
  BY <1>1, FreeStep DEF Begin

(* The table folded from what loadStageInputs returns is one.               *)
LEMMA InputsTyped ==
  ASSUME TypeOK, NEW s \in Stages
  PROVE  /\ DOMAIN StageInputs(s).fixtures \subseteq Exist(fixture, s)
         /\ TableFrom(StageInputs(s).fixtures) \in Tables
<1> DEFINE read == [f \in Existing(s) |-> fixture[f]]
<1>1. StageInputs(s).fixtures = read /\ DOMAIN read = Existing(s)
  BY DEF StageInputs
<1>2. Existing(s) = Exist(fixture, s) /\ Existing(s) \in SUBSET Fixtures
  BY DEF Existing, Exist, InStage
<1>3. TableFrom(read) = [f \in Existing(s) |-> fixture[f].outcome]
  BY <1>1 DEF TableFrom
<1>4. TableFrom(read) \in [Existing(s) -> Outcomes \cup {Null}]
  BY <1>2, <1>3 DEF TypeOK
<1> HIDE DEF read
<1>5. TableFrom(read) \in Tables
  BY <1>2, <1>4 DEF Tables
<1> QED
  BY <1>1, <1>2, <1>5

(***************************************************************************)
(* The fixtures rows.                                                       *)
(***************************************************************************)
LEMMA CommitTyped ==
  ASSUME TypeOK, NEW f \in Fixtures, Playable(f), NEW row \in CommitRows(f)
  PROVE  /\ row \in [status : Statuses, outcome : Outcomes \cup {Null}]
         /\ row.status # "absent"
<1>1. /\ fixture[f] \in [status : Statuses, outcome : Outcomes \cup {Null}]
      /\ fixture[f].status # "absent"
  BY DEF TypeOK, Statuses, Playable
<1>2. \A p \in Outcomes : p # Null /\ p.kind \in {"win", "award", "no_result"}
  BY StageProgressAssumption
<1>3. \A p \in Outcomes : StatusOf(p) \in {"decided", "forfeited", "abandoned"}
  BY <1>2 DEF StatusOf
<1>4. CASE fixture[f].outcome = Null
  <2>1. PICK p \in Outcomes : row = [status |-> StatusOf(p), outcome |-> p]
    BY <1>4 DEF CommitRows
  <2> QED
    BY <1>3, <2>1 DEF Statuses
<1>5. CASE fixture[f].outcome # Null
  <2>1. \/ row = [status |-> "open", outcome |-> Null]
        \/ row = fixture[f]
        \/ row = [status |-> "finalized", outcome |-> fixture[f].outcome]
    BY <1>5 DEF CommitRows
  <2> QED
    BY <1>1, <2>1 DEF Statuses
<1> QED
  BY <1>4, <1>5

(* Scoring and generating are all that write fixtures; neither removes one. *)
LEMMA RowsKept ==
  ASSUME TypeOK, [Next]_vars
  PROVE  fixture' \in Rows /\ RowsStay(fixture, fixture')
<1>0. fixture \in Rows
  BY DEF TypeOK, Rows, Statuses
<1>1. ASSUME NEW h \in Handlers, NEW f \in Fixtures, Score(h, f)
      PROVE  fixture' \in Rows /\ RowsStay(fixture, fixture')
  <2>1. PICK row \in CommitRows(f) : fixture' = [fixture EXCEPT ![f] = row]
    BY <1>1 DEF Score
  <2>2. /\ row \in [status : Statuses, outcome : Outcomes \cup {Null}]
        /\ row.status # "absent"
    BY <1>1, CommitTyped DEF Score
  <2> QED
    BY <1>0, <2>1, <2>2 DEF Rows, RowsStay
<1>2. ASSUME NEW h \in Handlers, GenerateFixtures(h)
      PROVE  fixture' \in Rows /\ RowsStay(fixture, fixture')
  <2>1. CASE fixture' = fixture
    BY <1>0, <2>1 DEF RowsStay
  <2>2. CASE fixture' = [f \in Fixtures |->
                IF f \in ToGenerate(hook[h].target)
                THEN [status |-> "open", outcome |-> Null] ELSE fixture[f]]
    <3>1. \A f \in Fixtures :
            \/ fixture'[f] = [status |-> "open", outcome |-> Null]
            \/ fixture'[f] = fixture[f]
      BY <2>2
    <3>2. fixture' = [f \in Fixtures |-> fixture'[f]]
      BY <2>2
    <3> QED
      BY <1>0, <3>1, <3>2 DEF Rows, RowsStay, Statuses
  <2> QED
    BY <1>2, <2>1, <2>2 DEF GenerateFixtures
<1>3. CASE fixture' = fixture
  BY <1>0, <1>3 DEF RowsStay
<1>4. \/ fixture' = fixture
      \/ \E h \in Handlers : \/ GenerateFixtures(h)
                             \/ \E f \in Fixtures : Score(h, f)
  BY ZenonT(60) DEF Next, Transaction, ReadConfig, FillAndPin, RecomputeRead, RecomputeWrite,
         AutoCheck, CompleteRead, CompleteWrite, Seed, FinishDivision, GenerateRead, MarkRead,
         MarkInsert, MarkInsertTears, Crash, OrganiserCompletes, OrganiserGenerates,
         ReadStandings, vars, rows
<1> QED
  BY <1>1, <1>2, <1>3, <1>4

(* A win has two entrants, an award one.                                    *)
LEMMA OutcomeSides ==
  ASSUME NEW o \in Outcomes
  PROVE  /\ o # Null
         /\ o.kind \in {"win", "award"} => o.winner \in Entrants
         /\ o.kind = "win" => o.loser \in Entrants /\ o.loser # o.winner
<1>1. o \in [kind : {"win", "award", "no_result"},
             winner : Entrants \cup {Null}, loser : Entrants \cup {Null}]
  BY StageProgressAssumption
<1> QED
  BY <1>1, StageProgressAssumption

(* Slots and rank locks are written by onDecided alone.                     *)
LEMMA SlotsKept ==
  ASSUME TypeOK, ReadsInv, [Next]_vars
  PROVE  /\ slot' \in [Fixtures -> Entrants \cup {Null}]
         /\ rankLocks' \in [Stages -> Locks]
<1>0. slot \in [Fixtures -> Entrants \cup {Null}] /\ rankLocks \in [Stages -> Locks]
  BY DEF TypeOK, Locks
<1>1. ASSUME NEW h \in Handlers, FillAndPin(h)
      PROVE  /\ slot' \in [Fixtures -> Entrants \cup {Null}]
             /\ rankLocks' \in [Stages -> Locks]
  <2> DEFINE f == hook[h].fixture
             o == hook[h].out
             read == hook[h].read
             s == hook[h].stage
  <2>1. /\ o \in Outcomes \cup {Null}
        /\ f \in Placements => read \in Locks
    BY <1>1 DEF FillAndPin, ReadsInv, ReadsOf
  <2>2. \/ slot' = slot
        \/ /\ o # Null /\ o.kind \in {"win", "award"}
           /\ slot' = [slot EXCEPT ![f] = IF @ = Null THEN o.winner ELSE @]
    BY <1>1 DEF FillAndPin, FillSlot
  <2>3. \/ rankLocks' = rankLocks
        \/ /\ o # Null /\ o.kind = "win" /\ f \in Placements
           /\ rankLocks' = [rankLocks EXCEPT ![s] = PinRank(read, f, o)]
    BY <1>1 DEF FillAndPin
  <2>4. f \in Placements => Place[f].winner \in Ranks /\ Place[f].loser \in Ranks
    BY DEF Ranks
  <2> HIDE DEF f, o, read, s
  <2>5. slot' \in [Fixtures -> Entrants \cup {Null}]
    BY <1>0, <2>1, <2>2, OutcomeSides
  <2>6. o # Null /\ o.kind = "win" /\ f \in Placements => PinRank(read, f, o) \in Locks
    BY <2>1, <2>4, OutcomeSides DEF Locks, PinRank
  <2>7. rankLocks' \in [Stages -> Locks]
    BY <1>0, <2>3, <2>6
  <2> QED
    BY <2>5, <2>7
<1>2. UNCHANGED <<slot, rankLocks>> \/ \E h \in Handlers : FillAndPin(h)
  <2>1. ASSUME NEW h \in Handlers, Transaction(h)
        PROVE  UNCHANGED <<slot, rankLocks>> \/ FillAndPin(h)
    <3>1. CASE ReadConfig(h) \/ RecomputeRead(h) \/ RecomputeWrite(h) \/ AutoCheck(h)
      BY <3>1 DEF ReadConfig, RecomputeRead, RecomputeWrite, AutoCheck, rows
    <3>2. CASE CompleteRead(h) \/ CompleteWrite(h) \/ Seed(h) \/ FinishDivision(h)
      BY <3>2 DEF CompleteRead, CompleteWrite, Seed, FinishDivision, rows
    <3>3. CASE GenerateRead(h) \/ GenerateFixtures(h) \/ MarkRead(h) \/ MarkInsert(h)
      BY <3>3 DEF GenerateRead, GenerateFixtures, MarkRead, MarkInsert, rows
    <3> QED
      BY <2>1, <3>1, <3>2, <3>3 DEF Transaction
  <2>2. ASSUME NEW h \in Handlers,
               \/ Crash(h)
               \/ \E g \in Handlers : MarkInsertTears(h, g)
               \/ \E f \in Fixtures : Score(h, f)
               \/ \E s \in Stages : \/ OrganiserCompletes(h, s) \/ OrganiserGenerates(h, s)
                                    \/ ReadStandings(h, s)
        PROVE  UNCHANGED <<slot, rankLocks>>
    BY <2>2 DEF Crash, MarkInsertTears, Score, OrganiserCompletes, OrganiserGenerates,
       ReadStandings, rows
  <2> QED
    BY <2>1, <2>2 DEF Next, vars, rows
<1> QED
  BY <1>0, <1>1, <1>2

(* Stages and snapshots hold tables folded from rows that were read.        *)
LEMMA StructureKept ==
  ASSUME TypeOK, ReadsInv, ProgressInv, ProgressInv', [Next]_vars
  PROVE  /\ stage' \in [Stages -> [status : {"pending", "active", "complete"},
                                   qualified : Tables \cup {Null}]]
         /\ snapshot' \in [Stages -> Tables \cup {Null}]
<1> DEFINE StageRows == [status : {"pending", "active", "complete"},
                         qualified : Tables \cup {Null}]
           Typed == /\ stage' \in [Stages -> StageRows]
                    /\ snapshot' \in [Stages -> Tables \cup {Null}]
<1>0. /\ stage \in [Stages -> StageRows]
      /\ snapshot \in [Stages -> Tables \cup {Null}]
  BY DEF TypeOK
<1>1. ASSUME NEW h \in Handlers, hook[h].pc # "idle" PROVE hook[h].stage \in Stages
  BY <1>1 DEF ProgressInv, RequestInv, RequestOK
<1>2. ASSUME NEW h \in Handlers, hook[h].pc \in {"snapshot", "complete"}
      PROVE  TableFrom(hook[h].read.fixtures) \in Tables
  BY <1>2 DEF ReadsInv, ReadsOf
<1>3. ASSUME NEW h \in Handlers, RecomputeWrite(h) PROVE Typed
  <2>1. /\ stage' = stage
        /\ snapshot' = [snapshot EXCEPT ![hook[h].stage] = TableFrom(hook[h].read.fixtures)]
        /\ TableFrom(hook[h].read.fixtures) \in Tables
    BY <1>2, <1>3 DEF RecomputeWrite
  <2> QED
    BY <1>0, <2>1
<1>4. ASSUME NEW h \in Handlers, CompleteWrite(h) PROVE Typed
  <2> DEFINE table == TableFrom(hook[h].read.fixtures)
  <2>1. /\ \/ stage' = stage
           \/ stage' = [stage EXCEPT ![hook[h].stage].status = "complete"]
        /\ \/ snapshot' = snapshot
           \/ snapshot' = [snapshot EXCEPT ![hook[h].stage] = table]
        /\ table \in Tables
    BY <1>2, <1>4 DEF CompleteWrite, structure
  <2> HIDE DEF table
  <2>2. stage' \in [Stages -> StageRows]
    BY <1>0, <2>1
  <2>3. snapshot' \in [Stages -> Tables \cup {Null}]
    BY <1>0, <2>1
  <2> QED
    BY <2>2, <2>3
<1>5. ASSUME NEW h \in Handlers, Seed(h) PROVE Typed
  <2>1. /\ snapshot' = snapshot
        /\ \/ stage' = stage
           \/ stage' = [stage EXCEPT ![hook[h].stage + 1].qualified =
                          snapshot[hook[h].stage]]
    BY <1>5 DEF Seed, structure
  <2>2. snapshot[hook[h].stage] \in Tables \cup {Null}
    BY <1>0, <1>1, <1>5 DEF Seed
  <2> QED
    BY <1>0, <2>1, <2>2
<1>6. ASSUME NEW h \in Handlers, GenerateFixtures(h) PROVE Typed
  <2>1. /\ snapshot' = snapshot
        /\ \/ stage' = stage
           \/ stage' = [stage EXCEPT ![hook[h].target].status =
                          Activated(hook[h].read, @)]
    BY <1>6 DEF GenerateFixtures
  <2> QED
    BY <1>0, <2>1 DEF Activated
<1>7. \/ UNCHANGED <<stage, snapshot>>
      \/ \E h \in Handlers : \/ RecomputeWrite(h) \/ CompleteWrite(h)
                             \/ Seed(h) \/ GenerateFixtures(h)
  BY ZenonT(60) DEF Next, Transaction, ReadConfig, FillAndPin, RecomputeRead, Score,
         AutoCheck, CompleteRead, FinishDivision, GenerateRead, MarkRead, MarkInsert,
         MarkInsertTears, Crash, OrganiserCompletes, OrganiserGenerates,
         ReadStandings, vars, structure
<1> QED
  BY <1>0, <1>3, <1>4, <1>5, <1>6, <1>7

(* A division only ever goes from active to completed.                      *)
LEMMA DivisionKept ==
  ASSUME ProgressInv, [Next]_vars
  PROVE  division'.status \in {division.status, "completed"}
<1>1. division = [status |-> division.status, seq |-> Len(events)]
  BY DEF ProgressInv, LogInv
<1>2. ASSUME NEW h, NEW type, NEW s, AppendDivisionEvent(h, type, s)
      PROVE  division'.status = division.status
  BY <1>1, <1>2 DEF AppendDivisionEvent
<1>3. ASSUME NEW h \in Handlers, FinishDivision(h)
      PROVE  division'.status \in {division.status, "completed"}
  BY <1>3 DEF FinishDivision
<1>4. \/ UNCHANGED division
      \/ \E h \in Handlers : FinishDivision(h)
      \/ \E h \in Handlers, type \in EventTypes : \E s : AppendDivisionEvent(h, type, s)
  <2>1. ASSUME NEW h \in Handlers,
               \/ CompleteWrite(h) \/ Seed(h) \/ GenerateFixtures(h) \/ MarkInsert(h)
               \/ \E g \in Handlers : MarkInsertTears(h, g)
        PROVE  \/ UNCHANGED division
               \/ \E type \in EventTypes : \E s : AppendDivisionEvent(h, type, s)
    <3>1. \/ UNCHANGED division
          \/ AppendDivisionEvent(h, "stage_completed", hook[h].stage)
          \/ AppendDivisionEvent(h, "stage_seeded", hook[h].stage + 1)
          \/ AppendDivisionEvent(h, "fixtures_generated", hook[h].target)
          \/ AppendDivisionEvent(h, "stage_auto_advanced", hook[h].stage)
      BY <2>1 DEF CompleteWrite, Seed, GenerateFixtures, MarkInsert,
                  MarkInsertTears, structure
    <3> QED
      BY <3>1 DEF EventTypes
  <2>2. \/ UNCHANGED division
        \/ \E h \in Handlers :
             \/ FinishDivision(h)
             \/ CompleteWrite(h) \/ Seed(h) \/ GenerateFixtures(h) \/ MarkInsert(h)
             \/ \E g \in Handlers : MarkInsertTears(h, g)
    BY ZenonT(60) DEF Next, Transaction, ReadConfig, FillAndPin, RecomputeRead, RecomputeWrite,
           Score, AutoCheck, CompleteRead, GenerateRead, MarkRead, Crash, OrganiserCompletes,
           OrganiserGenerates, ReadStandings, vars, structure
  <2> QED
    BY <2>1, <2>2
<1> QED
  BY <1>2, <1>3, <1>4

(* Requests in flight keep reads that are of use.                           *)
LEMMA TransactionsReads ==
  ASSUME TypeOK, ReadsInv, ProgressInv, RowsStay(fixture, fixture'),
         NEW h \in Handlers, Transaction(h)
  PROVE  ReadsInv'
<1>0. /\ RequestInv /\ ReadsOf(hook[h], fixture)
      /\ RequestOK(hook[h], events)
  BY DEF ProgressInv, RequestInv, ReadsInv
<1>1. CASE ReadConfig(h)
  <2> DEFINE locks == rankLocks[hook[h].stage]
             q == [hook[h] EXCEPT !.pc = "fill", !.read = locks]
  <2>1. /\ hook' = [hook EXCEPT ![h] = q]
        /\ q.pc = "fill" /\ q.read = locks /\ q.out = hook[h].out
    BY <1>0, <1>1 DEF ReadConfig, RequestInv, RequestOK
  <2>2. locks \in Locks /\ hook[h].out \in Outcomes \cup {Null}
    BY <1>0, <1>1 DEF ReadConfig, ReadsOf, RequestOK, TypeOK, Locks
  <2> HIDE DEF q, locks
  <2>3. ReadsOf(q, fixture')
    BY <2>1, <2>2 DEF ReadsOf, Pcs
  <2> QED
    BY <1>0, <2>1, <2>3, ReadsStep
<1>2. CASE FillAndPin(h)
  BY <1>0, <1>2, FreeGoto, FreeDone DEF FillAndPin, FreePcs
<1>3. ASSUME NEW pc \in {"snapshot", "complete"}, fixture' = fixture, hook[h].pc # "idle",
             hook' = [hook EXCEPT ![h].pc = pc, ![h].read = StageInputs(hook[h].stage)]
      PROVE  ReadsInv'
  <2> DEFINE q == [hook[h] EXCEPT !.pc = pc, !.read = StageInputs(hook[h].stage)]
  <2>1. /\ hook' = [hook EXCEPT ![h] = q]
        /\ q.pc = pc /\ q.stage = hook[h].stage
        /\ q.read = StageInputs(hook[h].stage)
        /\ hook[h].stage \in Stages
    BY <1>0, <1>3 DEF RequestInv, RequestOK
  <2>2. /\ DOMAIN q.read.fixtures \subseteq Exist(fixture, q.stage)
        /\ TableFrom(q.read.fixtures) \in Tables
    BY <2>1, InputsTyped
  <2> HIDE DEF q
  <2>3. ReadsOf(q, fixture')
    BY <1>3, <2>1, <2>2 DEF ReadsOf, Pcs
  <2> QED
    BY <1>0, <2>1, <2>3, ReadsStep
<1>4. CASE RecomputeRead(h)
  BY <1>3, <1>4 DEF RecomputeRead, rows
<1>5. CASE CompleteRead(h)
  BY <1>3, <1>5 DEF CompleteRead, rows
<1>6. CASE RecomputeWrite(h) \/ FinishDivision(h) \/ GenerateFixtures(h) \/ MarkInsert(h)
  BY <1>0, <1>6, FreeDone DEF RecomputeWrite, FinishDivision, GenerateFixtures, MarkInsert
<1>7. CASE AutoCheck(h)
  <2> DEFINE q == [hook[h] EXCEPT !.pc = "load", !.auto = TRUE]
  <2>1. Done(h) \/ hook' = [hook EXCEPT ![h] = q]
    BY <1>0, <1>7 DEF AutoCheck, RequestInv
  <2>2. q.pc \in FreePcs
    BY <1>0 DEF RequestOK, FreePcs
  <2> HIDE DEF q
  <2> QED
    BY <1>0, <2>1, <2>2, FreeStep, FreeDone
<1>8. CASE CompleteWrite(h)
  BY <1>0, <1>8, FreeGoto, FreeDone DEF CompleteWrite, FreePcs
<1>9. CASE Seed(h)
  <2> DEFINE q == [hook[h] EXCEPT !.pc = "generate", !.target = hook[h].stage + 1]
  <2>1. Goto(h, "finish") \/ hook' = [hook EXCEPT ![h] = q]
    BY <1>0, <1>9 DEF Seed, RequestInv
  <2>2. q.pc \in FreePcs /\ "finish" \in FreePcs
    BY <1>0 DEF RequestOK, FreePcs
  <2> HIDE DEF q
  <2> QED
    BY <1>0, <2>1, <2>2, FreeStep, FreeGoto
<1>10. ASSUME NEW pc \in {"build", "insert"}, NEW read,
              hook' = [hook EXCEPT ![h].pc = pc, ![h].read = read]
       PROVE  ReadsInv'
  <2> DEFINE q == [hook[h] EXCEPT !.pc = pc, !.read = read]
  <2>1. hook' = [hook EXCEPT ![h] = q]
    BY <1>0, <1>10 DEF RequestInv
  <2>2. q.pc \in FreePcs
    BY <1>0 DEF RequestOK, FreePcs
  <2> HIDE DEF q
  <2> QED
    BY <1>0, <2>1, <2>2, FreeStep
<1>11. CASE GenerateRead(h) \/ MarkRead(h)
  BY <1>10, <1>11 DEF GenerateRead, MarkRead
<1> QED
  BY <1>1, <1>2, <1>4, <1>5, <1>6, <1>7, <1>8, <1>9, <1>11 DEF Transaction

LEMMA ReadsKept ==
  ASSUME TypeOK, ReadsInv, ProgressInv, [Next]_vars
  PROVE  ReadsInv'
<1>0. RowsStay(fixture, fixture') /\ RequestInv
  BY RowsKept DEF ProgressInv
<1>1. ASSUME NEW h \in Handlers, NEW f \in Fixtures, Score(h, f) PROVE ReadsInv'
  <2>1. PICK row \in CommitRows(f) :
          hook' = [hook EXCEPT ![h] =
            [Idle EXCEPT !.fixture = f, !.stage = StageOf[f], !.out = row.outcome,
                         !.pc = IF f \in Placements THEN "config" ELSE "fill"]]
    BY <1>1 DEF Score
  <2> DEFINE q == [Idle EXCEPT !.fixture = f, !.stage = StageOf[f], !.out = row.outcome,
                               !.pc = IF f \in Placements THEN "config" ELSE "fill"]
  <2>2. row.outcome \in Outcomes \cup {Null}
    BY <1>1, CommitTyped DEF Score
  <2>3. /\ q.out = row.outcome /\ q.fixture = f
        /\ q.pc \in {"config", "fill"} /\ (q.pc = "fill" => f \notin Placements)
    BY DEF Idle
  <2> HIDE DEF q
  <2>4. ReadsOf(q, fixture')
    BY <2>2, <2>3 DEF ReadsOf, Pcs
  <2> QED
    BY <1>0, <2>1, <2>4, ReadsStep DEF q
<1>2. ASSUME NEW h \in Handlers, NEW s \in Stages,
             OrganiserCompletes(h, s) \/ OrganiserGenerates(h, s) \/ ReadStandings(h, s)
      PROVE  ReadsInv'
  <2>1. fixture' = fixture
    BY <1>2 DEF OrganiserCompletes, OrganiserGenerates, ReadStandings, rows
  <2>2. \/ Begin(h, [Idle EXCEPT !.pc = "load", !.stage = s])
        \/ Begin(h, [Idle EXCEPT !.pc = "generate", !.stage = s, !.target = s])
        \/ Begin(h, [Idle EXCEPT !.pc = "seed", !.stage = s - 1])
        \/ Begin(h, [Idle EXCEPT !.pc = "recompute", !.stage = s])
    BY <1>2 DEF OrganiserCompletes, OrganiserGenerates, ReadStandings
  <2>3. /\ [Idle EXCEPT !.pc = "load", !.stage = s].pc \in FreePcs
        /\ [Idle EXCEPT !.pc = "generate", !.stage = s, !.target = s].pc \in FreePcs
        /\ [Idle EXCEPT !.pc = "seed", !.stage = s - 1].pc \in FreePcs
        /\ [Idle EXCEPT !.pc = "recompute", !.stage = s].pc \in FreePcs
    BY DEF Idle, FreePcs
  <2> QED
    BY <1>0, <2>1, <2>2, <2>3, FreeBegin
<1>3. ASSUME NEW h \in Handlers, Crash(h) PROVE ReadsInv'
  BY <1>0, <1>3, FreeDone DEF Crash
<1>4. ASSUME NEW h \in Handlers, NEW g \in Handlers, MarkInsertTears(h, g)
      PROVE  ReadsInv'
  <2>1. /\ h # g /\ fixture' = fixture
        /\ hook' = [hook EXCEPT ![h] = Idle,
                ![g] = IF @.pc = "build" /\ @.auto
                       THEN [@ EXCEPT !.pc = "mark", !.read = Null] ELSE Idle]
    BY <1>4 DEF MarkInsertTears, rows
  <2>2. DOMAIN hook[g] = {"pc", "fixture", "stage", "target", "out", "auto", "read"}
    BY <1>0 DEF RequestInv, RequestOK
  <2>3. /\ hook'[h].pc \in FreePcs /\ hook'[g].pc \in FreePcs
        /\ \A k \in Handlers \ {h, g} : hook'[k] = hook[k]
    BY <1>0, <2>1, <2>2 DEF RequestInv, Idle, FreePcs
  <2>4. ASSUME NEW q, q.pc \in FreePcs PROVE ReadsOf(q, fixture)
    BY <2>4 DEF ReadsOf, Pcs, FreePcs
  <2> QED
    BY <2>1, <2>3, <2>4 DEF ReadsInv
<1>5. CASE UNCHANGED vars
  BY <1>5 DEF vars, rows, ReadsInv
<1> QED
  BY <1>0, <1>1, <1>2, <1>3, <1>4, <1>5, TransactionsReads DEF Next

(* A completion stands on a round of fixtures for every configured round.   *)
LEMMA CoverKept ==
  ASSUME TypeOK, ReadsInv, ProgressInv, CompletionCoversRounds, [Next]_vars
  PROVE  CompletionCoversRounds'
<1>0. RowsStay(fixture, fixture')
  BY RowsKept
<1>1. ASSUME NEW s \in Stages, NEW f \in Existing(s) PROVE f \in Existing(s)'
  BY <1>0, <1>1 DEF Existing, InStage, RowsStay
<1>2. ASSUME NEW s \in Stages, stage'[s].status = "complete", Kind[s] = "swiss",
             NEW r \in 1..Rounds[s]
      PROVE  \E f \in Existing(s) : RoundOf[f] = r
  <2>1. CASE stage[s].status = "complete"
    BY <1>2, <2>1 DEF CompletionCoversRounds
  <2>2. CASE stage[s].status # "complete"
    <3>1. stage \in [Stages -> [status : {"pending", "active", "complete"},
                                qualified : Tables \cup {Null}]]
      BY DEF TypeOK
    <3>2. \A h \in Handlers : ~Seed(h) /\ ~GenerateFixtures(h)
      <4>1. ASSUME NEW h \in Handlers, Seed(h) PROVE stage'[s].status = stage[s].status
        BY <3>1, <4>1 DEF Seed, structure
      <4>2. ASSUME NEW h \in Handlers, GenerateFixtures(h)
            PROVE  stage'[s].status \in {stage[s].status, "active"}
        BY <3>1, <4>2 DEF GenerateFixtures, Activated
      <4> QED
        BY <1>2, <2>2, <4>1, <4>2
    <3>3. PICK h \in Handlers : CompleteWrite(h)
      <4>1. stage' # stage
        BY <1>2, <2>2
      <4>2. ASSUME NEW h \in Handlers, Transaction(h) PROVE CompleteWrite(h)
        BY <3>2, <4>1, <4>2 DEF Transaction, ReadConfig, FillAndPin, RecomputeRead,
           RecomputeWrite, AutoCheck, CompleteRead, FinishDivision, GenerateRead, MarkRead,
           MarkInsert, structure
      <4> QED
        BY <4>1, <4>2 DEF Next, Score, MarkInsertTears, Crash, OrganiserCompletes,
           OrganiserGenerates, ReadStandings, vars, structure
    <3> DEFINE inputs == hook[h].read.fixtures
    <3>4. s = hook[h].stage /\ StageReady(s, inputs)
      BY <1>2, <2>2, <3>1, <3>3 DEF CompleteWrite, structure
    <3>5. DOMAIN inputs \subseteq Existing(s)
      BY <3>3, <3>4 DEF CompleteWrite, ReadsInv, ReadsOf, Exist, Existing
    <3> HIDE DEF inputs
    <3>6. \E f \in DOMAIN inputs : RoundOf[f] = r
      BY <1>2, <3>4 DEF StageReady
    <3> QED
      BY <3>5, <3>6
  <2> QED
    BY <2>1, <2>2
<1> QED
  BY <1>1, <1>2 DEF CompletionCoversRounds

(* A seed list stands; a stage leaves "complete" only when a generator that read
   it pending writes its status.                                            *)
LEMMA StageAdvances ==
  ASSUME TypeOK, [Next]_vars, NEW s \in Stages
  PROVE  /\ stage[s].qualified # Null => stage'[s].qualified = stage[s].qualified
         /\ stage[s].status = "complete" =>
              \/ stage'[s].status = "complete"
              \/ \E h \in Handlers : /\ hook[h].pc = "build" /\ hook[h].target = s
                                     /\ hook[h].read.status = "pending"
                                     /\ GenerateFixtures(h)
<1>0. stage \in [Stages -> [status : {"pending", "active", "complete"},
                            qualified : Tables \cup {Null}]]
  BY DEF TypeOK
<1>1. \/ UNCHANGED stage
      \/ \E h \in Handlers : CompleteWrite(h) \/ Seed(h) \/ GenerateFixtures(h)
  BY ZenonT(60) DEF Next, Transaction, ReadConfig, FillAndPin, RecomputeRead, RecomputeWrite,
         Score, AutoCheck, CompleteRead, FinishDivision, GenerateRead, MarkRead, MarkInsert,
         MarkInsertTears, Crash, OrganiserCompletes, OrganiserGenerates,
         ReadStandings, vars, structure
<1>2. ASSUME NEW h \in Handlers, Seed(h)
      PROVE  /\ stage[s].qualified # Null => stage'[s].qualified = stage[s].qualified
             /\ stage'[s].status = stage[s].status
  BY <1>0, <1>2 DEF Seed, Unseeded, structure
<1>3. ASSUME NEW h \in Handlers, CompleteWrite(h)
      PROVE  /\ stage'[s].qualified = stage[s].qualified
             /\ stage[s].status = "complete" => stage'[s].status = "complete"
  BY <1>0, <1>3 DEF CompleteWrite, structure
<1>4. ASSUME NEW h \in Handlers, GenerateFixtures(h)
      PROVE  /\ stage'[s].qualified = stage[s].qualified
             /\ stage'[s].status # stage[s].status =>
                  hook[h].target = s /\ hook[h].read.status = "pending"
             /\ hook[h].pc = "build"
  <2>1. /\ hook[h].pc = "build"
        /\ \/ UNCHANGED stage
           \/ stage' = [stage EXCEPT ![hook[h].target].status = Activated(hook[h].read, @)]
    BY <1>4 DEF GenerateFixtures
  <2> QED
    BY <1>0, <2>1 DEF Activated
<1> QED
  BY <1>1, <1>2, <1>3, <1>4

(***************************************************************************)
(* Theorems about the rows.                                                 *)
(***************************************************************************)
LEMMA RowInvInductive == Spec => []RowInv
<1>1. Init => RowInv
  <2> SUFFICES ASSUME Init PROVE RowInv
    OBVIOUS
  <2>1. TypeOK
    <3>1. /\ fixture \in [Fixtures -> [status : Statuses, outcome : Outcomes \cup {Null}]]
          /\ slot \in [Fixtures -> Entrants \cup {Null}]
          /\ rankLocks \in [Stages -> [Entrants -> Ranks \cup {Null}]]
          /\ snapshot \in [Stages -> Tables \cup {Null}]
      BY DEF Init, Statuses
    <3>2. stage \in [Stages -> [status : {"pending", "active", "complete"},
                                qualified : Tables \cup {Null}]]
      BY DEF Init
    <3>3. 1 \in Stages
      BY StageProgressAssumption DEF Stages
    <3>4. division \in [status : {"active", "completed"}, seq : Nat]
      BY DEF Init
    <3>5. events \in Seq([type : EventTypes, stage : Stages])
      BY <3>3 DEF Init, EventTypes
    <3>6. \A h \in Handlers : hook[h].pc = "idle"
      BY DEF Init, Idle
    <3> QED
      BY <3>1, <3>2, <3>4, <3>5, <3>6 DEF TypeOK, Statuses
  <2>2. ReadsInv
    BY DEF Init, Idle, ReadsInv, ReadsOf, Pcs, FreePcs
  <2>3. CompletionCoversRounds
    BY DEF Init, CompletionCoversRounds
  <2> QED
    BY <2>1, <2>2, <2>3 DEF RowInv
<1>2. ProgressInv /\ ProgressInv' /\ RowInv /\ [Next]_vars => RowInv'
  <2> SUFFICES ASSUME ProgressInv, ProgressInv', RowInv, [Next]_vars PROVE RowInv'
    OBVIOUS
  <2>1. TypeOK /\ ReadsInv /\ CompletionCoversRounds
    BY DEF RowInv
  <2>2. ReadsInv' /\ CompletionCoversRounds'
    BY <2>1, ReadsKept, CoverKept
  <2>3. fixture' \in Rows /\ rankLocks' \in [Stages -> Locks]
    BY <2>1, RowsKept, SlotsKept
  <2>4. division' \in [status : {"active", "completed"}, seq : Nat]
    <3>1. division'.status \in {"active", "completed"}
      BY <2>1, DivisionKept DEF TypeOK
    <3>2. /\ division' = [status |-> division'.status, seq |-> Len(events')]
          /\ Len(events') \in Nat
      BY DEF ProgressInv, LogInv
    <3> QED
      BY <3>1, <3>2
  <2>5. events' \in Seq([type : EventTypes, stage : Stages])
    BY DEF ProgressInv, LogInv, EventRecord
  <2>6. \A h \in Handlers : hook'[h].pc \in Pcs
    BY <2>2 DEF ReadsInv, ReadsOf
  <2>7. TypeOK'
    BY <2>1, <2>3, <2>4, <2>5, <2>6, SlotsKept, StructureKept
       DEF TypeOK, Rows, Locks, Statuses, Pcs, FreePcs
  <2> QED
    BY <2>2, <2>7 DEF RowInv
<1> QED
  BY <1>1, <1>2, ProgressInvInductive, PTL DEF Spec

(* Rows and requests keep their types, and every snapshot and seed list is a
   table, although tables are folded from reads made before the lock.       *)
THEOREM RowsTypeCorrect == Spec => []TypeOK
BY RowInvInductive, PTL DEF RowInv

(* No swiss stage completes on the rounds paired so far, although readiness is
   judged on fixtures read before the lock: fixtures only come, never go.   *)
THEOREM CompletionsCoverRounds == Spec => []CompletionCoversRounds
BY RowInvInductive, PTL DEF RowInv

(* A winner that was sent on stays in the next fixture, whichever requests run
   at once: a slot is filled when it is empty and not written again.        *)
THEOREM SlotsAreKept == Spec => SlotsStand
<1>1. ASSUME RowInv, [Next]_vars
      PROVE  \A f \in Fixtures : slot[f] # Null => slot'[f] = slot[f]
  <2>1. slot \in [Fixtures -> Entrants \cup {Null}]
    BY <1>1 DEF RowInv, TypeOK
  <2>2. UNCHANGED slot \/ \E h \in Handlers : FillAndPin(h)
    BY <1>1, ZenonT(60) DEF Next, Transaction, ReadConfig, RecomputeRead, RecomputeWrite,
       Score, AutoCheck, CompleteRead, CompleteWrite, Seed, FinishDivision, GenerateRead,
       GenerateFixtures, MarkRead, MarkInsert, MarkInsertTears, Crash,
       OrganiserCompletes, OrganiserGenerates, ReadStandings, vars, rows
  <2> QED
    BY <2>1, <2>2 DEF FillAndPin, FillSlot
<1> QED
  BY <1>1, RowInvInductive, PTL DEF Spec, SlotsStand

(* A seed list, a completed stage and a completed division are taken back by no
   request, however many run at once, but for one: a generator writing a stage it
   read pending before it got the lock.                                     *)
THEOREM AdvancementIsKept == Spec => AdvancementStands
<1>1. ProgressInv /\ RowInv /\ [Next]_vars =>
        [/\ \A s \in Stages :
              /\ stage[s].qualified # Null => stage'[s].qualified = stage[s].qualified
              /\ stage[s].status = "complete" =>
                   \/ stage'[s].status = "complete"
                   \/ \E h \in Handlers : /\ hook[h].pc = "build" /\ hook[h].target = s
                                          /\ hook[h].read.status = "pending"
                                          /\ GenerateFixtures(h)
         /\ division.status = "completed" => division'.status = "completed"]_vars
  BY StageAdvances, DivisionKept DEF RowInv
<1> QED
  BY <1>1, ProgressInvInductive, RowInvInductive, PTL DEF Spec, AdvancementStands

(***************************************************************************)
(* Every structural step once.                                              *)
(***************************************************************************)
Occ(log, type, s) == {i \in DOMAIN log : log[i] = [type |-> type, stage |-> s]}
DoneAt(log) == {i \in DOMAIN log : log[i].type = "division_completed"}
RoundsOf(table, s) == {RoundOf[f] : f \in Exist(table, s)}
Logs(type, s) == events' = Append(events, [type |-> type, stage |-> s])

(* A completed table stage has its snapshot, a seeded stage its seed list, a
   completed division its status: what makes the second attempt see it.     *)
SnapshotTaken ==
  \A s \in Stages :
    s < NStages /\ Recorded(events, "stage_completed", s) => snapshot[s] # Null
SeededStands ==
  \A s \in Stages :
    /\ Recorded(events, "stage_seeded", s) => stage[s].qualified # Null
    /\ Cardinality(Occ(events, "stage_seeded", s)) <= 1
DoneStands ==
  /\ DoneAt(events) # {} => division.status = "completed"
  /\ Cardinality(DoneAt(events)) <= 1

(* A generation leaves nothing to generate, a swiss round the next round.   *)
Generated(table, log, s) ==
  /\ Kind[s] # "swiss" =>
       /\ Recorded(log, "fixtures_generated", s) => InStage(s) \subseteq Exist(table, s)
       /\ Cardinality(Occ(log, "fixtures_generated", s)) <= 1
  /\ Kind[s] = "swiss" =>
       \A n \in RoundsOf(table, s) : n <= Cardinality(RoundsOf(table, s))
  /\ Cardinality(Occ(log, "fixtures_generated", s)) <= Cardinality(RoundsOf(table, s))

OnceInv ==
  /\ SnapshotTaken /\ SeededStands /\ DoneStands
  /\ \A s \in Stages : Generated(fixture, events, s)

LEMMA OccFinite ==
  ASSUME NEW log \in Seq(EventRecord), NEW type, NEW s
  PROVE  /\ IsFiniteSet(Occ(log, type, s)) /\ IsFiniteSet(DoneAt(log))
         /\ Cardinality(Occ(log, type, s)) \in Nat
         /\ Cardinality(DoneAt(log)) \in Nat
<1>1. DOMAIN log = 1..Len(log) /\ Len(log) \in Nat
  OBVIOUS
<1>2. IsFiniteSet(DOMAIN log)
  BY <1>1, FS_Interval
<1>3. Occ(log, type, s) \subseteq DOMAIN log /\ DoneAt(log) \subseteq DOMAIN log
  BY DEF Occ, DoneAt
<1> QED
  BY <1>2, <1>3, FS_Subset, FS_CardinalityType

LEMMA RoundsFinite ==
  ASSUME NEW table, NEW s
  PROVE  /\ IsFiniteSet(RoundsOf(table, s)) /\ Cardinality(RoundsOf(table, s)) \in Nat
         /\ RoundsOf(table, s) \subseteq Nat \ {0}
<1>1. Exist(table, s) \subseteq Fixtures
  BY DEF Exist, InStage
<1>2. IsFiniteSet(Exist(table, s))
  BY <1>1, FS_Subset, StageProgressAssumption
<1>3. RoundsOf(table, s) = {RoundOf[f] : f \in Exist(table, s)}
  BY DEF RoundsOf
<1>4. IsFiniteSet(RoundsOf(table, s))
  <2> DEFINE round == [f \in Exist(table, s) |-> RoundOf[f]]
  <2>1. round \in Surjection(Exist(table, s), RoundsOf(table, s))
    BY <1>3 DEF Surjection
  <2> HIDE DEF round
  <2> QED
    BY <1>2, <2>1, FS_Surjection
<1>5. RoundsOf(table, s) \subseteq Nat \ {0}
  BY <1>1, <1>3, StageProgressAssumption
<1> QED
  BY <1>4, <1>5, FS_CardinalityType

(* What one more event changes of what is on record.                        *)
LEMMA LogsEffect ==
  ASSUME events \in Seq(EventRecord), NEW t \in EventTypes, NEW r \in Stages, Logs(t, r)
  PROVE  /\ \A u, s : Recorded(events', u, s) <=>
              Recorded(events, u, s) \/ (u = t /\ s = r)
         /\ \A u, s : ~(u = t /\ s = r) => Occ(events', u, s) = Occ(events, u, s)
         /\ Occ(events', t, r) = Occ(events, t, r) \cup {Len(events) + 1}
         /\ t # "division_completed" => DoneAt(events') = DoneAt(events)
         /\ t = "division_completed" =>
              DoneAt(events') = DoneAt(events) \cup {Len(events) + 1}
<1> DEFINE e == [type |-> t, stage |-> r]
           n == Len(events) + 1
<1>1. e \in EventRecord /\ e.type = t /\ e.stage = r
  BY DEF EventRecord
<1>2. events' = Append(events, e)
  BY DEF Logs
<1>3. \A u, s : e = [type |-> u, stage |-> s] <=> u = t /\ s = r
  <2> SUFFICES ASSUME NEW u, NEW s PROVE e = [type |-> u, stage |-> s] <=> u = t /\ s = r
    OBVIOUS
  <2>1. /\ [type |-> u, stage |-> s].type = u
        /\ [type |-> u, stage |-> s].stage = s
    OBVIOUS
  <2> QED
    BY <1>1, <2>1
<1> HIDE DEF e
<1>4. /\ n \in Nat /\ n \notin DOMAIN events /\ DOMAIN events = 1..(n - 1)
      /\ DOMAIN events' = 1..n
      /\ \A i \in DOMAIN events : events'[i] = events[i]
      /\ events'[n] = e
  BY <1>1, <1>2
<1>5. DOMAIN events' = DOMAIN events \cup {n}
  BY <1>4
<1> HIDE DEF n
<1>6. ASSUME NEW u, NEW s
      PROVE  /\ u = t /\ s = r => Occ(events', u, s) = Occ(events, u, s) \cup {n}
             /\ ~(u = t /\ s = r) => Occ(events', u, s) = Occ(events, u, s)
  <2> DEFINE v == [type |-> u, stage |-> s]
  <2>1. e = v <=> u = t /\ s = r
    BY <1>3
  <2>2. /\ Occ(events, u, s) = {i \in DOMAIN events : events[i] = v}
        /\ Occ(events', u, s) = {i \in DOMAIN events' : events'[i] = v}
    BY DEF Occ
  <2> HIDE DEF v
  <2> QED
    BY <1>4, <1>5, <2>1, <2>2
<1>7. DoneAt(events') = DoneAt(events) \cup (IF t = "division_completed" THEN {n} ELSE {})
  BY <1>1, <1>4, <1>5 DEF DoneAt
<1>8. \A log, u, s : Recorded(log, u, s) <=> Occ(log, u, s) # {}
  BY DEF Recorded, Occ
<1>9. ASSUME NEW u, NEW s
      PROVE  Recorded(events', u, s) <=> Recorded(events, u, s) \/ (u = t /\ s = r)
  BY <1>6, <1>8
<1>10. n = Len(events) + 1
  BY DEF n
<1> QED
  BY <1>6, <1>7, <1>9, <1>10

(* Who writes an event, and what the row it goes with was like.             *)
LEMMA Writers ==
  ASSUME ProgressInv, [Next]_vars
  PROVE  \/ UNCHANGED events
         \/ \E h \in Handlers :
              /\ hook[h].stage \in Stages
              /\ \/ CompleteWrite(h) /\ Logs("stage_completed", hook[h].stage)
                 \/ Seed(h) /\ Logs("stage_seeded", hook[h].stage + 1)
                 \/ FinishDivision(h) /\ Logs("division_completed", hook[h].stage)
                 \/ /\ GenerateFixtures(h) /\ hook[h].target \in Stages
                    /\ Logs("fixtures_generated", hook[h].target)
                 \/ Logs("stage_auto_advanced", hook[h].stage) /\ hook[h].pc = "insert"
<1>1. ASSUME NEW h \in Handlers, hook[h].pc # "idle"
      PROVE  /\ hook[h].stage \in Stages
             /\ hook[h].pc = "build" => hook[h].target \in Stages
  BY <1>1 DEF ProgressInv, RequestInv, RequestOK
<1>2. ASSUME NEW h \in Handlers, CompleteWrite(h)
      PROVE  /\ hook[h].pc # "idle"
             /\ UNCHANGED events \/ Logs("stage_completed", hook[h].stage)
  BY <1>2 DEF CompleteWrite, structure, AppendDivisionEvent, Logs
<1>3. ASSUME NEW h \in Handlers, Seed(h)
      PROVE  /\ hook[h].pc # "idle"
             /\ UNCHANGED events \/ Logs("stage_seeded", hook[h].stage + 1)
  BY <1>3 DEF Seed, structure, AppendDivisionEvent, Logs
<1>4. ASSUME NEW h \in Handlers, FinishDivision(h)
      PROVE  /\ hook[h].pc # "idle"
             /\ UNCHANGED events \/ Logs("division_completed", hook[h].stage)
  BY <1>4 DEF FinishDivision, Logs
<1>5. ASSUME NEW h \in Handlers, GenerateFixtures(h)
      PROVE  /\ hook[h].pc = "build"
             /\ UNCHANGED events \/ Logs("fixtures_generated", hook[h].target)
  BY <1>5 DEF GenerateFixtures, AppendDivisionEvent, Logs
<1>6. ASSUME NEW h \in Handlers, MarkInsert(h) \/ \E g \in Handlers : MarkInsertTears(h, g)
      PROVE  /\ hook[h].pc = "insert"
             /\ UNCHANGED events \/ Logs("stage_auto_advanced", hook[h].stage)
  BY <1>6 DEF MarkInsert, MarkInsertTears, AppendDivisionEvent, Logs
<1>7. \/ UNCHANGED events
      \/ \E h \in Handlers :
           \/ CompleteWrite(h) \/ Seed(h) \/ FinishDivision(h) \/ GenerateFixtures(h)
           \/ MarkInsert(h) \/ \E g \in Handlers : MarkInsertTears(h, g)
  BY ZenonT(60) DEF Next, Transaction, ReadConfig, FillAndPin, RecomputeRead, RecomputeWrite,
             Score, AutoCheck, CompleteRead, GenerateRead, MarkRead, Crash, OrganiserCompletes,
             OrganiserGenerates, ReadStandings, vars, structure
<1> QED
  BY <1>1, <1>2, <1>3, <1>4, <1>5, <1>6, <1>7

(* The snapshot a completion took is replaced, never removed.               *)
LEMMA SnapshotKept ==
  ASSUME TypeOK, ReadsInv, ProgressInv, SnapshotTaken, [Next]_vars
  PROVE  SnapshotTaken'
<1>0. /\ snapshot \in [Stages -> Tables \cup {Null}] /\ Null \notin Tables
      /\ events \in Seq(EventRecord)
  BY StageProgressAssumption DEF TypeOK, ProgressInv, LogInv
<1>1. ASSUME NEW h \in Handlers, RecomputeWrite(h) \/ CompleteWrite(h)
      PROVE  TableFrom(hook[h].read.fixtures) \in Tables
  BY <1>1 DEF RecomputeWrite, CompleteWrite, ReadsInv, ReadsOf
<1>2. ASSUME NEW s \in Stages, snapshot[s] # Null PROVE snapshot'[s] # Null
  <2>1. \/ UNCHANGED snapshot
        \/ \E h \in Handlers : RecomputeWrite(h) \/ CompleteWrite(h)
    BY ZenonT(60) DEF Next, Transaction, ReadConfig, FillAndPin, RecomputeRead, Seed, Score,
           AutoCheck, CompleteRead, FinishDivision, GenerateFixtures, GenerateRead, MarkRead,
           MarkInsert, MarkInsertTears, Crash, OrganiserCompletes,
           OrganiserGenerates, ReadStandings, vars, structure
  <2>2. ASSUME NEW h \in Handlers, RecomputeWrite(h) \/ CompleteWrite(h)
        PROVE  \/ UNCHANGED snapshot
               \/ snapshot' = [snapshot EXCEPT ![hook[h].stage] =
                                 TableFrom(hook[h].read.fixtures)]
    BY <2>2 DEF RecomputeWrite, CompleteWrite, structure
  <2> QED
    BY <1>0, <1>1, <1>2, <2>1, <2>2
<1>3. ASSUME NEW s \in Stages, s < NStages,
             Recorded(events', "stage_completed", s), ~Recorded(events, "stage_completed", s)
      PROVE  snapshot'[s] # Null
  <2>1. events' # events
    BY <1>3
  <2>2. PICK h \in Handlers :
          /\ hook[h].stage \in Stages
          /\ \/ CompleteWrite(h) /\ Logs("stage_completed", hook[h].stage)
             \/ Seed(h) /\ Logs("stage_seeded", hook[h].stage + 1)
             \/ FinishDivision(h) /\ Logs("division_completed", hook[h].stage)
             \/ /\ GenerateFixtures(h) /\ hook[h].target \in Stages
                /\ Logs("fixtures_generated", hook[h].target)
             \/ Logs("stage_auto_advanced", hook[h].stage) /\ hook[h].pc = "insert"
    BY <2>1, Writers
  <2>3. Seed(h) /\ Logs("stage_seeded", hook[h].stage + 1) => hook[h].stage + 1 \in Stages
    BY <2>1, <2>2, StageProgressAssumption, SMTT(30) DEF Seed, Stages, structure
  <2>4. CompleteWrite(h) /\ hook[h].stage = s
    BY <1>0, <1>3, <2>2, <2>3, LogsEffect, SMTT(30) DEF EventTypes
  <2>5. snapshot' = [snapshot EXCEPT ![s] = TableFrom(hook[h].read.fixtures)]
    <3>1. IsTable(s)
      BY <1>3, StageProgressAssumption
    <3> QED
      BY <2>1, <2>4, <3>1 DEF CompleteWrite, structure
  <2> QED
    BY <1>0, <1>1, <2>4, <2>5
<1> QED
  BY <1>2, <1>3 DEF SnapshotTaken

(* Adding the first to none makes one.                                      *)
LEMMA FirstOne ==
  ASSUME NEW S, NEW n, S = {}
  PROVE  Cardinality(S \cup {n}) = 1
<1>1. S \cup {n} = {n}
  OBVIOUS
<1> QED
  BY <1>1, FS_Singleton

LEMMA SeededKept ==
  ASSUME TypeOK, ProgressInv, SnapshotTaken, SeededStands, [Next]_vars
  PROVE  SeededStands'
<1>0. events \in Seq(EventRecord)
  BY DEF ProgressInv, LogInv
<1> SUFFICES ASSUME NEW s \in Stages
             PROVE  /\ Recorded(events', "stage_seeded", s) => stage'[s].qualified # Null
                    /\ Cardinality(Occ(events', "stage_seeded", s)) <= 1
  BY DEF SeededStands
<1>1. stage[s].qualified # Null => stage'[s].qualified = stage[s].qualified
  BY StageAdvances
<1>2. CASE UNCHANGED events
  BY <1>1, <1>2 DEF SeededStands
<1>3. ASSUME NEW t \in EventTypes, NEW r \in Stages, Logs(t, r),
             ~(t = "stage_seeded" /\ r = s)
      PROVE  /\ Recorded(events', "stage_seeded", s) => stage'[s].qualified # Null
             /\ Cardinality(Occ(events', "stage_seeded", s)) <= 1
  <2>1. /\ Recorded(events', "stage_seeded", s) => Recorded(events, "stage_seeded", s)
        /\ Occ(events', "stage_seeded", s) = Occ(events, "stage_seeded", s)
    BY <1>0, <1>3, LogsEffect
  <2> QED
    BY <1>1, <2>1 DEF SeededStands
<1>4. ASSUME NEW h \in Handlers, hook[h].stage \in Stages, events' # events, Seed(h),
             Logs("stage_seeded", hook[h].stage + 1)
      PROVE  /\ Recorded(events', "stage_seeded", s) => stage'[s].qualified # Null
             /\ Cardinality(Occ(events', "stage_seeded", s)) <= 1
  <2> DEFINE q == hook[h].stage
  <2>1. /\ q < NStages /\ Unseeded(q + 1) /\ hook[h].pc = "seed"
        /\ stage' = [stage EXCEPT ![q + 1].qualified = snapshot[q]]
    BY <1>4 DEF Seed, structure
  <2>2. q + 1 \in Stages
    BY <1>4, <2>1, StageProgressAssumption, SMTT(30) DEF Stages
  <2>3. CASE s # q + 1
    BY <1>3, <1>4, <2>2, <2>3 DEF EventTypes
  <2>4. CASE s = q + 1
    <3>1. Recorded(events, "stage_completed", q)
      BY <1>4, <2>1 DEF ProgressInv, RequestInv, RequestOK
    <3>2. snapshot[q] # Null
      BY <1>4, <2>1, <3>1 DEF SnapshotTaken
    <3>3. stage'[s].qualified = snapshot[q]
      BY <2>1, <2>2, <2>4 DEF TypeOK
    <3>4. Occ(events, "stage_seeded", s) = {}
      BY <2>1, <2>4 DEF SeededStands, Unseeded, Recorded, Occ
    <3>5. Occ(events', "stage_seeded", s) =
            Occ(events, "stage_seeded", s) \cup {Len(events) + 1}
      BY <1>0, <1>4, <2>2, <2>4, LogsEffect DEF EventTypes
    <3>6. Cardinality(Occ(events', "stage_seeded", s)) = 1
      BY <3>4, <3>5, FirstOne
    <3> QED
      BY <3>2, <3>3, <3>6
  <2> QED
    BY <2>3, <2>4
<1>5. CASE events' # events
  BY <1>3, <1>4, <1>5, Writers DEF EventTypes
<1> QED
  BY <1>2, <1>5

LEMMA DoneKept ==
  ASSUME ProgressInv, DoneStands, [Next]_vars
  PROVE  DoneStands'
<1>0. events \in Seq(EventRecord)
  BY DEF ProgressInv, LogInv
<1>1. division.status = "completed" => division'.status = "completed"
  BY DivisionKept
<1>2. CASE UNCHANGED events
  BY <1>1, <1>2 DEF DoneStands
<1>3. ASSUME NEW t \in EventTypes, NEW r \in Stages, Logs(t, r), t # "division_completed"
      PROVE  DoneStands'
  BY <1>0, <1>1, <1>3, LogsEffect DEF DoneStands
<1>4. ASSUME NEW h \in Handlers, hook[h].stage \in Stages, events' # events,
             FinishDivision(h), Logs("division_completed", hook[h].stage)
      PROVE  DoneStands'
  <2>1. division.status # "completed" /\ division'.status = "completed"
    BY <1>4 DEF FinishDivision, DivisionFinished
  <2>2. DoneAt(events) = {}
    BY <2>1 DEF DoneStands
  <2>3. DoneAt(events') = DoneAt(events) \cup {Len(events) + 1}
    BY <1>0, <1>4, LogsEffect DEF EventTypes
  <2>4. Cardinality(DoneAt(events')) = 1
    BY <2>2, <2>3, FirstOne
  <2> QED
    BY <2>1, <2>4 DEF DoneStands
<1>5. ASSUME NEW h \in Handlers, hook[h].stage \in Stages, events' # events, Seed(h)
      PROVE  hook[h].stage + 1 \in Stages
  BY <1>5, StageProgressAssumption DEF Seed, structure, Stages
<1>6. CASE events' # events
  BY <1>3, <1>4, <1>5, <1>6, Writers DEF EventTypes
<1> QED
  BY <1>2, <1>6

LEMMA SameGenerated ==
  ASSUME NEW table, NEW later, NEW log, NEW more, NEW s, Generated(table, log, s),
         Exist(later, s) = Exist(table, s),
         Occ(more, "fixtures_generated", s) = Occ(log, "fixtures_generated", s)
  PROVE  Generated(later, more, s)
<1>1. Recorded(more, "fixtures_generated", s) <=> Recorded(log, "fixtures_generated", s)
  <2>1. /\ Recorded(log, "fixtures_generated", s) <=> Occ(log, "fixtures_generated", s) # {}
        /\ Recorded(more, "fixtures_generated", s) <=> Occ(more, "fixtures_generated", s) # {}
    BY DEF Recorded, Occ
  <2> QED
    BY <2>1
<1>2. RoundsOf(later, s) = RoundsOf(table, s)
  BY DEF RoundsOf
<1> QED
  BY <1>1, <1>2 DEF Generated

(* What a generation of stage s adds to it: all of it that was missing, or the
   next swiss round.                                                        *)
LEMMA StageGenerated ==
  ASSUME TypeOK, NEW s \in Stages, events \in Seq(EventRecord),
         Generated(fixture, events, s), ToGenerate(s) # {},
         Exist(fixture', s) = Exist(fixture, s) \cup ToGenerate(s),
         Logs("fixtures_generated", s)
  PROVE  Generated(fixture', events', s)
<1> DEFINE n == Len(events) + 1
           occ == Occ(events, "fixtures_generated", s)
           new == ToGenerate(s)
           R == RoundsOf(fixture, s)
<1>1. /\ Occ(events', "fixtures_generated", s) = occ \cup {n}
      /\ n \notin occ /\ IsFiniteSet(occ) /\ Cardinality(occ) \in Nat
  <2>1. n \notin DOMAIN events
    OBVIOUS
  <2> QED
    BY <2>1, LogsEffect, OccFinite DEF EventTypes, Occ
<1>2. Cardinality(occ \cup {n}) = Cardinality(occ) + 1
  BY <1>1, FS_AddElement
<1>3. /\ IsFiniteSet(R) /\ Cardinality(R) \in Nat /\ R \subseteq Nat \ {0}
      /\ Cardinality(RoundsOf(fixture', s)) \in Nat
      /\ IsFiniteSet(RoundsOf(fixture', s))
  BY RoundsFinite
<1>4. Existing(s) = Exist(fixture, s)
  BY DEF Existing, Exist
<1>5. CASE Kind[s] # "swiss"
  <2>1. new = InStage(s) \ Exist(fixture, s)
    BY <1>4, <1>5 DEF ToGenerate
  <2>2. occ = {}
    <3>1. ~Recorded(events, "fixtures_generated", s)
      BY <1>5, <2>1 DEF Generated
    <3> QED
      BY <3>1 DEF Recorded, Occ
  <2>3. Cardinality(occ \cup {n}) = 1
    BY <2>2, FirstOne
  <2>4. InStage(s) \subseteq Exist(fixture', s)
    BY <2>1
  <2>5. RoundsOf(fixture', s) # {}
    BY <2>1 DEF RoundsOf
  <2>6. Cardinality(RoundsOf(fixture', s)) >= 1
    BY <1>3, <2>5, FS_EmptySet
  <2>7. Cardinality(Occ(events', "fixtures_generated", s)) = 1
    BY <1>1, <2>3
  <2> HIDE DEF occ, new, R, n
  <2> QED
    BY <1>3, <1>5, <2>4, <2>6, <2>7 DEF Generated
<1>6. CASE Kind[s] = "swiss"
  <2> DEFINE next == 1 + Cardinality(R)
  <2>1. /\ \A f \in new : RoundOf[f] = next
        /\ \A m \in R : m <= Cardinality(R)
        /\ Cardinality(occ) <= Cardinality(R)
    BY <1>4, <1>6 DEF ToGenerate, RoundsOf, Generated
  <2>2. RoundsOf(fixture', s) = R \cup {next}
    <3>1. RoundsOf(fixture', s) = {RoundOf[f] : f \in Exist(fixture, s) \cup new}
      BY DEF RoundsOf
    <3>2. {RoundOf[f] : f \in Exist(fixture, s) \cup new}
            = R \cup {RoundOf[f] : f \in new}
      BY DEF RoundsOf
    <3>3. {RoundOf[f] : f \in new} = {next}
      BY <2>1
    <3> QED
      BY <3>1, <3>2, <3>3
  <2>3. next \notin R
    BY <1>3, <2>1
  <2>4. Cardinality(R \cup {next}) = Cardinality(R) + 1
    BY <1>3, <2>3, FS_AddElement
  <2> HIDE DEF R, occ
  <2>5. \A m \in R \cup {next} : m <= Cardinality(R) + 1
    BY <1>3, <2>1
  <2>6. Cardinality(occ) + 1 <= Cardinality(R) + 1
    BY <1>1, <1>3, <2>1
  <2> QED
    BY <1>1, <1>2, <1>6, <2>2, <2>4, <2>5, <2>6 DEF Generated
<1> QED
  BY <1>5, <1>6

LEMMA GeneratedKept ==
  ASSUME TypeOK, ProgressInv, NEW s \in Stages, Generated(fixture, events, s),
         [Next]_vars
  PROVE  Generated(fixture', events', s)
<1>0. /\ events \in Seq(EventRecord)
      /\ fixture \in [Fixtures -> [status : Statuses, outcome : Outcomes \cup {Null}]]
  BY DEF ProgressInv, LogInv, TypeOK, Statuses
<1>1. ASSUME NEW t \in EventTypes, NEW r \in Stages, Logs(t, r),
             ~(t = "fixtures_generated" /\ r = s),
             Exist(fixture', s) = Exist(fixture, s)
      PROVE  Generated(fixture', events', s)
  BY <1>0, <1>1, LogsEffect, SameGenerated
<1>2. ASSUME UNCHANGED events, Exist(fixture', s) = Exist(fixture, s)
      PROVE  Generated(fixture', events', s)
  BY <1>2, SameGenerated
<1>3. ASSUME NEW h \in Handlers, NEW f \in Fixtures, Score(h, f)
      PROVE  Generated(fixture', events', s)
  <2>1. PICK row \in CommitRows(f) : fixture' = [fixture EXCEPT ![f] = row]
    BY <1>3 DEF Score
  <2>2. row.status # "absent" /\ fixture[f].status # "absent"
    BY <1>3, CommitTyped DEF Score, Playable
  <2>3. \A g \in Fixtures : fixture'[g].status # "absent" <=> fixture[g].status # "absent"
    BY <1>0, <2>1, <2>2
  <2>4. Exist(fixture', s) = Exist(fixture, s)
    BY <2>3 DEF Exist, InStage
  <2> QED
    BY <1>2, <1>3, <2>4 DEF Score, structure
<1>4. ASSUME NEW h \in Handlers, GenerateFixtures(h)
      PROVE  Generated(fixture', events', s)
  <2> DEFINE r == hook[h].target
             new == ToGenerate(r)
  <2>1. r \in Stages
    BY <1>4 DEF GenerateFixtures, ProgressInv, RequestInv, RequestOK
  <2>2. CASE UNCHANGED <<fixture, events>>
    BY <1>2, <2>2
  <2>3. CASE /\ fixture' = [f \in Fixtures |->
                  IF f \in new THEN [status |-> "open", outcome |-> Null]
                  ELSE fixture[f]]
             /\ IF new # {} THEN Logs("fixtures_generated", r) ELSE UNCHANGED events
    <3>1. new \subseteq InStage(r)
      BY DEF ToGenerate
    <3>2. Exist(fixture', r) = Exist(fixture, r) \cup new
      <4>1. \A f \in Fixtures : f \in new => fixture'[f].status = "open"
        BY <2>3
      <4>2. \A f \in Fixtures : f \notin new => fixture'[f] = fixture[f]
        BY <2>3
      <4> HIDE DEF new
      <4> QED
        BY <3>1, <4>1, <4>2 DEF Exist, InStage
    <3>3. CASE r # s
      <4>1. Exist(fixture', s) = Exist(fixture, s)
        <5>1. \A f \in InStage(s) : f \in Fixtures /\ f \notin new
          BY <3>1, <3>3 DEF InStage
        <5>2. \A f \in InStage(s) : fixture'[f] = fixture[f]
          BY <2>3, <5>1
        <5> QED
          BY <5>2 DEF Exist
      <4> QED
        BY <1>1, <1>2, <2>1, <2>3, <3>3, <4>1 DEF EventTypes
    <3>4. CASE new = {}
      <4>1. \A f \in Fixtures : fixture'[f] = fixture[f]
        BY <2>3, <3>4
      <4>2. Exist(fixture', s) = Exist(fixture, s)
        BY <4>1 DEF Exist, InStage
      <4> QED
        BY <1>2, <2>3, <3>4, <4>2
    <3>5. CASE r = s /\ new # {}
      BY <1>0, <2>3, <3>2, <3>5, StageGenerated
    <3> QED
      BY <3>3, <3>4, <3>5
  <2> QED
    BY <1>4, <2>2, <2>3 DEF GenerateFixtures, AppendDivisionEvent, Logs
<1>5. CASE fixture' = fixture /\ ~\E h \in Handlers : GenerateFixtures(h)
  <2>1. Exist(fixture', s) = Exist(fixture, s)
    BY <1>5
  <2>2. ASSUME events' # events, NEW h \in Handlers, hook[h].stage \in Stages, Seed(h)
        PROVE  hook[h].stage + 1 \in Stages
    BY <2>2, StageProgressAssumption, SMTT(30) DEF Seed, structure, Stages
  <2> QED
    BY <1>1, <1>2, <1>5, <2>1, <2>2, Writers DEF EventTypes
<1>6. \/ fixture' = fixture
      \/ \E h \in Handlers : \/ GenerateFixtures(h)
                             \/ \E f \in Fixtures : Score(h, f)
  BY ZenonT(60) DEF Next, Transaction, ReadConfig, FillAndPin, RecomputeRead, RecomputeWrite,
         AutoCheck, CompleteRead, CompleteWrite, Seed, FinishDivision, GenerateRead, MarkRead,
         MarkInsert, MarkInsertTears, Crash, OrganiserCompletes, OrganiserGenerates,
         ReadStandings, vars, rows
<1> QED
  BY <1>3, <1>4, <1>5, <1>6

LEMMA OnceInvInductive == Spec => []OnceInv
<1>1. Init => OnceInv
  <2> SUFFICES ASSUME Init PROVE OnceInv
    OBVIOUS
  <2> DEFINE e == [type |-> "fixtures_generated", stage |-> 1]
  <2>1. events = <<e>> /\ DOMAIN events = {1} /\ events[1] = e
    BY DEF Init
  <2>2. \A t, s : [type |-> t, stage |-> s] = e <=> t = "fixtures_generated" /\ s = 1
    <3> SUFFICES ASSUME NEW t, NEW s
                 PROVE  [type |-> t, stage |-> s] = e <=> t = "fixtures_generated" /\ s = 1
      OBVIOUS
    <3>1. /\ [type |-> t, stage |-> s].type = t /\ [type |-> t, stage |-> s].stage = s
          /\ e.type = "fixtures_generated" /\ e.stage = 1
      OBVIOUS
    <3> QED
      BY <3>1
  <2>3. e.type = "fixtures_generated"
    OBVIOUS
  <2> HIDE DEF e
  <2>4. /\ \A t, s : ~(t = "fixtures_generated" /\ s = 1) =>
             Occ(events, t, s) = {} /\ ~Recorded(events, t, s)
        /\ Occ(events, "fixtures_generated", 1) = {1}
        /\ DoneAt(events) = {}
    BY <2>1, <2>2, <2>3 DEF Occ, Recorded, DoneAt
  <2>5. SnapshotTaken /\ SeededStands /\ DoneStands
    BY <2>4, FS_EmptySet DEF SnapshotTaken, SeededStands, DoneStands
  <2>6. ASSUME NEW f \in Fixtures
        PROVE  fixture[f].status # "absent"
                 <=> StageOf[f] = 1 /\ (Kind[1] = "swiss" => RoundOf[f] = 1)
    BY DEF Init
  <2>7. ASSUME NEW s \in Stages, s # 1 PROVE Generated(fixture, events, s)
    <3>1. Exist(fixture, s) = {}
      BY <2>6, <2>7 DEF Exist, InStage
    <3>2. RoundsOf(fixture, s) = {}
      BY <3>1 DEF RoundsOf
    <3>3. /\ Cardinality(Occ(events, "fixtures_generated", s)) = 0
          /\ Cardinality(RoundsOf(fixture, s)) = 0
          /\ ~Recorded(events, "fixtures_generated", s)
      BY <2>4, <2>7, <3>2, FS_EmptySet
    <3> QED
      BY <3>2, <3>3 DEF Generated
  <2>8. Generated(fixture, events, 1)
    <3>1. Cardinality(Occ(events, "fixtures_generated", 1)) = 1
      BY <2>4, FS_Singleton
    <3>2. /\ IsFiniteSet(RoundsOf(fixture, 1))
          /\ Cardinality(RoundsOf(fixture, 1)) \in Nat
      BY RoundsFinite
    <3>3. PICK f \in Fixtures : StageOf[f] = 1 /\ (Kind[1] = "swiss" => RoundOf[f] = 1)
      BY StageProgressAssumption
    <3>4. f \in Exist(fixture, 1)
      BY <2>6, <3>3 DEF Exist, InStage
    <3>5. RoundsOf(fixture, 1) # {}
      BY <3>4 DEF RoundsOf
    <3>6. Cardinality(RoundsOf(fixture, 1)) >= 1
      BY <3>2, <3>5, FS_EmptySet
    <3>7. Kind[1] # "swiss" => InStage(1) \subseteq Exist(fixture, 1)
      BY <2>6 DEF Exist, InStage
    <3>8. Kind[1] = "swiss" => \A n \in RoundsOf(fixture, 1) : n = 1
      BY <2>6 DEF RoundsOf, Exist, InStage
    <3> QED
      BY <3>1, <3>2, <3>6, <3>7, <3>8 DEF Generated
  <2> QED
    BY <2>5, <2>7, <2>8 DEF OnceInv
<1>2. ProgressInv /\ RowInv /\ OnceInv /\ [Next]_vars => OnceInv'
  <2> SUFFICES ASSUME ProgressInv, RowInv, OnceInv, [Next]_vars PROVE OnceInv'
    OBVIOUS
  <2>1. TypeOK /\ ReadsInv
    BY DEF RowInv
  <2>2. SnapshotTaken /\ SeededStands /\ DoneStands
    BY DEF OnceInv
  <2>3. SnapshotTaken' /\ SeededStands' /\ DoneStands'
    BY <2>1, <2>2, SnapshotKept, SeededKept, DoneKept
  <2>4. \A s \in Stages : Generated(fixture', events', s)
    BY <2>1, GeneratedKept DEF OnceInv
  <2> QED
    BY <2>3, <2>4 DEF OnceInv
<1> QED
  BY <1>1, <1>2, ProgressInvInductive, RowInvInductive, PTL DEF Spec

(* No race or re-run seeds a stage, generates it or a round of it, or completes
   the division a second time: each transaction's own guard, read under the
   division lock, already sees what the first one left.                     *)
THEOREM StructureHappensOnce == Spec => []StructureOnce
<1>1. ASSUME ProgressInv, OnceInv PROVE StructureOnce
  <2>1. \A t, s : Occurrences(t, s) = Occ(events, t, s)
    BY DEF Occurrences, Occ
  <2>2. {i \in DOMAIN events : events[i].type = "division_completed"} = DoneAt(events)
    BY DEF DoneAt
  <2>3. ASSUME NEW s \in Stages
        PROVE  Cardinality(Occ(events, "fixtures_generated", s)) <=
                 Cardinality({RoundOf[f] : f \in InStage(s)})
    <3>1. {RoundOf[f] : f \in InStage(s)}
            = RoundsOf([f \in Fixtures |-> [status |-> "open"]], s)
      BY DEF RoundsOf, Exist, InStage
    <3>2. IsFiniteSet({RoundOf[f] : f \in InStage(s)})
      BY <3>1, RoundsFinite
    <3>3. RoundsOf(fixture, s) \subseteq {RoundOf[f] : f \in InStage(s)}
      BY DEF RoundsOf, Exist
    <3>4. /\ Cardinality(RoundsOf(fixture, s)) <= Cardinality({RoundOf[f] : f \in InStage(s)})
          /\ Cardinality(RoundsOf(fixture, s)) \in Nat
          /\ Cardinality({RoundOf[f] : f \in InStage(s)}) \in Nat
      BY <3>2, <3>3, FS_Subset, FS_CardinalityType
    <3>5. /\ Cardinality(Occ(events, "fixtures_generated", s)) <= Cardinality(RoundsOf(fixture, s))
          /\ Cardinality(Occ(events, "fixtures_generated", s)) \in Nat
      BY <1>1, OccFinite DEF OnceInv, Generated, ProgressInv, LogInv
    <3> QED
      BY <3>4, <3>5
  <2> QED
    BY <1>1, <2>1, <2>2, <2>3
       DEF OnceInv, SeededStands, DoneStands, Generated, StructureOnce
<1> QED
  BY <1>1, ProgressInvInductive, OnceInvInductive, PTL
(***************************************************************************)
(* Tables and rank locks under one condition.  With several requests at a   *)
(* time both can fall behind the results: what follows says which overlaps  *)
(* it takes, all others being harmless.                                     *)
(***************************************************************************)
(* No result of a stage is committed between another request's reading of its
   inputs (recomputeStandings, completeStage) and the write of its table.   *)
NoResultBetween ==
  \A h \in Handlers : hook[h].pc \in {"snapshot", "complete"} =>
    \A f \in InStage(hook[h].stage) : fixture'[f].outcome = fixture[f].outcome

(* While onDecided is between a placement game's commit and its rank locks, that
   game gets no other result, and from the reading of stages.config on no other
   request writes rank locks of that stage.                                 *)
NoPinBetween ==
  \A h \in Handlers : hook[h].pc \in {"config", "fill"} /\ hook[h].fixture \in Placements =>
    /\ fixture'[hook[h].fixture].outcome = fixture[hook[h].fixture].outcome
    /\ hook[h].pc = "fill" /\ hook'[h] = hook[h] =>
         rankLocks'[hook[h].stage] = rankLocks[hook[h].stage]

Deciding == {"config", "fill"}
Recomputing == Deciding \cup {"recompute", "snapshot"}
Elsewhere == {"idle", "check", "load", "seed", "finish", "generate", "build", "mark",
              "insert"}

(* What the transactions of one request make of it.                         *)
LEMMA TransactionMoves ==
  ASSUME RequestInv, NEW h \in Handlers, Transaction(h)
  PROVE  /\ hook[h].pc # "idle" /\ UNCHANGED crashes
         /\ \A g \in Handlers \ {h} : hook'[g] = hook[g]
         /\ \/ /\ hook'[h].pc \in Elsewhere
               /\ hook[h].pc \in Recomputing =>
                    \/ RecomputeWrite(h)
                    \/ FillAndPin(h) /\ ~IsTable(hook[h].stage)
            \/ /\ hook'[h].stage = hook[h].stage
               /\ \/ /\ ReadConfig(h) /\ hook'[h].pc = "fill"
                     /\ hook'[h].fixture = hook[h].fixture
                     /\ hook'[h].out = hook[h].out
                     /\ hook'[h].read = rankLocks[hook[h].stage]
                  \/ /\ FillAndPin(h) /\ hook'[h].pc = "recompute"
                     /\ IsTable(hook[h].stage)
                  \/ /\ RecomputeRead(h) /\ hook'[h].pc = "snapshot"
                     /\ hook'[h].read = StageInputs(hook[h].stage)
                  \/ /\ CompleteRead(h) /\ hook'[h].pc = "complete"
                     /\ hook'[h].read = StageInputs(hook[h].stage)
<1>0. /\ DOMAIN hook[h] = {"pc", "fixture", "stage", "target", "out", "auto", "read"}
      /\ hook = [g \in Handlers |-> hook[g]]
  BY DEF RequestInv, RequestOK
<1>1. ASSUME NEW pc, Goto(h, pc)
      PROVE  /\ hook'[h].pc = pc /\ hook'[h].stage = hook[h].stage
             /\ \A g \in Handlers \ {h} : hook'[g] = hook[g]
  BY <1>0, <1>1 DEF Goto
<1>2. ASSUME Done(h)
      PROVE  /\ hook'[h].pc = "idle"
             /\ \A g \in Handlers \ {h} : hook'[g] = hook[g]
  BY <1>0, <1>2 DEF Done, Idle
<1>3. CompleteReturns(h) => /\ hook'[h].pc \in {"idle", "mark"}
                            /\ \A g \in Handlers \ {h} : hook'[g] = hook[g]
  BY <1>1, <1>2 DEF CompleteReturns
<1>4. StandingsDone(h) => /\ hook'[h].pc \in {"idle", "check"}
                          /\ \A g \in Handlers \ {h} : hook'[g] = hook[g]
  BY <1>1, <1>2 DEF StandingsDone
<1> USE DEF Deciding, Recomputing, Elsewhere
<1>5. CASE ReadConfig(h)
  BY <1>0, <1>5 DEF ReadConfig
<1>6. CASE FillAndPin(h)
  <2>1. /\ hook[h].pc = "fill" /\ UNCHANGED crashes
        /\ IF IsTable(hook[h].stage) THEN Goto(h, "recompute") ELSE StandingsDone(h)
    BY <1>6 DEF FillAndPin
  <2> QED
    BY <1>1, <1>4, <1>6, <2>1
<1>7. CASE RecomputeRead(h)
  BY <1>0, <1>7 DEF RecomputeRead
<1>8. CASE RecomputeWrite(h)
  <2>1. hook[h].pc = "snapshot" /\ UNCHANGED crashes /\ StandingsDone(h)
    BY <1>8 DEF RecomputeWrite
  <2> QED
    BY <1>4, <1>8, <2>1
<1>9. CASE AutoCheck(h)
  <2>1. hook[h].pc = "check" /\ UNCHANGED crashes
    BY <1>9 DEF AutoCheck
  <2>2. \/ Done(h)
        \/ hook' = [hook EXCEPT ![h].pc = "load", ![h].auto = TRUE]
    BY <1>9 DEF AutoCheck
  <2> QED
    BY <1>0, <1>2, <2>1, <2>2
<1>10. CASE CompleteRead(h)
  BY <1>0, <1>10 DEF CompleteRead
<1>11. CASE CompleteWrite(h)
  <2>1. hook[h].pc = "complete" /\ UNCHANGED crashes
    BY <1>11 DEF CompleteWrite
  <2>2. Goto(h, "seed") \/ CompleteReturns(h)
    BY <1>11 DEF CompleteWrite
  <2> QED
    BY <1>1, <1>3, <2>1, <2>2
<1>12. CASE Seed(h)
  <2>1. hook[h].pc = "seed" /\ UNCHANGED crashes
    BY <1>12 DEF Seed
  <2>2. \/ Goto(h, "finish")
        \/ hook' = [hook EXCEPT ![h].pc = "generate", ![h].target = hook[h].stage + 1]
    BY <1>12 DEF Seed
  <2> QED
    BY <1>0, <1>1, <2>1, <2>2
<1>13. CASE FinishDivision(h) \/ GenerateFixtures(h)
  <2>1. hook[h].pc \in {"finish", "build"} /\ UNCHANGED crashes /\ CompleteReturns(h)
    BY <1>13 DEF FinishDivision, GenerateFixtures
  <2> QED
    BY <1>3, <2>1
<1>14. CASE GenerateRead(h) \/ MarkRead(h)
  BY <1>0, <1>14 DEF GenerateRead, MarkRead
<1>15. CASE MarkInsert(h)
  <2>1. hook[h].pc = "insert" /\ UNCHANGED crashes /\ Done(h)
    BY <1>15 DEF MarkInsert
  <2> QED
    BY <1>2, <2>1
<1> QED
  BY <1>5, <1>6, <1>7, <1>8, <1>9, <1>10, <1>11, <1>12, <1>13, <1>14, <1>15
     DEF Transaction

(* A request that is anywhere else after a step.                            *)
Scores(h, f) ==
  /\ Score(h, f) /\ hook'[h].pc \in Deciding /\ hook'[h].stage = StageOf[f]
  /\ hook'[h].fixture = f /\ hook'[h].out = fixture'[f].outcome
  /\ hook'[h].pc = "fill" => f \notin Placements

LEMMA RequestMoves ==
  ASSUME TypeOK, RequestInv, [Next]_vars, NEW h \in Handlers, hook'[h] # hook[h]
  PROVE  \/ Transaction(h)
         \/ \E f \in Fixtures : Scores(h, f)
         \/ /\ hook'[h].pc \in Elsewhere \cup {"recompute"} /\ UNCHANGED rows
            /\ hook[h].pc \in Recomputing => crashes' = crashes + 1
<1>0. /\ DOMAIN hook[h] = {"pc", "fixture", "stage", "target", "out", "auto", "read"}
      /\ hook = [g \in Handlers |-> hook[g]]
      /\ \A g \in Handlers : DOMAIN hook[g] = {"pc", "fixture", "stage", "target", "out", "auto", "read"}
  BY DEF RequestInv, RequestOK
<1> USE DEF Deciding, Recomputing, Elsewhere
<1>1. PICK k \in Handlers :
        \/ Transaction(k) \/ Crash(k)
        \/ \E g \in Handlers : MarkInsertTears(k, g)
        \/ \E f \in Fixtures : Score(k, f)
        \/ \E s \in Stages : \/ OrganiserCompletes(k, s) \/ OrganiserGenerates(k, s)
                             \/ ReadStandings(k, s)
  BY DEF Next, vars
<1>2. CASE Transaction(k)
  BY <1>2, TransactionMoves
<1>3. CASE Crash(k)
  <2>1. h = k /\ hook'[h] = Idle
    BY <1>0, <1>3 DEF Crash, Done
  <2> QED
    BY <1>3, <2>1 DEF Crash, Idle
<1>4. CASE \E g \in Handlers : MarkInsertTears(k, g)
  <2>1. PICK g \in Handlers : MarkInsertTears(k, g)
    BY <1>4
  <2>2. /\ hook[k].pc = "insert" /\ k # g /\ UNCHANGED rows
        /\ hook[g].pc \in {"complete", "seed", "finish", "build"}
        /\ hook' = [hook EXCEPT ![k] = Idle,
                ![g] = IF @.pc = "build" /\ @.auto
                       THEN [@ EXCEPT !.pc = "mark", !.read = Null] ELSE Idle]
    BY <2>1 DEF MarkInsertTears, Appends
  <2>3. h \in {k, g} /\ hook'[h].pc \in {"idle", "mark"}
    BY <1>0, <2>2 DEF Idle
  <2> QED
    BY <2>2, <2>3
<1>5. CASE \E f \in Fixtures : Score(k, f)
  <2>0. PICK f \in Fixtures : Score(k, f)
    BY <1>5
  <2>1. PICK row \in CommitRows(f) :
          /\ fixture' = [fixture EXCEPT ![f] = row]
          /\ hook' = [hook EXCEPT ![k] =
            [Idle EXCEPT !.fixture = f, !.stage = StageOf[f], !.out = row.outcome,
                         !.pc = IF f \in Placements THEN "config" ELSE "fill"]]
    BY <2>0 DEF Score
  <2>2. h = k
    BY <1>0, <2>1
  <2>3. /\ hook'[h] = [Idle EXCEPT !.fixture = f, !.stage = StageOf[f], !.out = row.outcome,
                         !.pc = IF f \in Placements THEN "config" ELSE "fill"]
        /\ fixture'[f] = row
    BY <1>0, <2>1, <2>2 DEF TypeOK
  <2>4. Scores(h, f)
    BY <2>0, <2>2, <2>3 DEF Scores, Idle
  <2> QED
    BY <2>4
<1>6. CASE \E s \in Stages : \/ OrganiserCompletes(k, s) \/ OrganiserGenerates(k, s)
                             \/ ReadStandings(k, s)
  <2>1. PICK s \in Stages : \/ OrganiserCompletes(k, s) \/ OrganiserGenerates(k, s)
                            \/ ReadStandings(k, s)
    BY <1>6
  <2>2. UNCHANGED rows /\ hook[k].pc = "idle"
    BY <2>1 DEF OrganiserCompletes, OrganiserGenerates, ReadStandings, Begin
  <2>3. \/ hook' = [hook EXCEPT ![k] = [Idle EXCEPT !.pc = "load", !.stage = s]]
        \/ hook' = [hook EXCEPT ![k] = [Idle EXCEPT !.pc = "generate", !.stage = s, !.target = s]]
        \/ hook' = [hook EXCEPT ![k] = [Idle EXCEPT !.pc = "seed", !.stage = s - 1]]
        \/ hook' = [hook EXCEPT ![k] = [Idle EXCEPT !.pc = "recompute", !.stage = s]]
    BY <2>1 DEF OrganiserCompletes, OrganiserGenerates, ReadStandings, Begin
  <2>4. h = k
    BY <1>0, <2>3
  <2> QED
    BY <1>0, <2>2, <2>3, <2>4, ZenonT(60) DEF Idle
<1> QED
  BY <1>1, <1>2, <1>3, <1>4, <1>5, <1>6

(* A generation takes no row that is there already.                         *)
LEMMA GeneratesMissing ==
  ASSUME NEW s \in Stages, Generated(fixture, events, s)
  PROVE  ToGenerate(s) \subseteq InStage(s) \ Exist(fixture, s)
<1>1. Existing(s) = Exist(fixture, s) /\ ToGenerate(s) \subseteq InStage(s)
  BY DEF Existing, Exist, ToGenerate
<1>2. CASE Kind[s] # "swiss"
  BY <1>1, <1>2 DEF ToGenerate
<1>3. CASE Kind[s] = "swiss"
  <2> SUFFICES ASSUME NEW f \in ToGenerate(s), f \in Exist(fixture, s) PROVE FALSE
    BY <1>1
  <2>1. RoundOf[f] = 1 + Cardinality(RoundsOf(fixture, s))
    BY <1>1, <1>3 DEF ToGenerate, RoundsOf
  <2>2. RoundOf[f] <= Cardinality(RoundsOf(fixture, s))
    BY <1>3 DEF Generated, RoundsOf
  <2> QED
    BY <2>1, <2>2, RoundsFinite
<1> QED
  BY <1>2, <1>3

(* What a step makes of a row that no commit touches.                       *)
Untouched(f) ==
  \/ fixture'[f] = fixture[f]
  \/ /\ fixture[f].status # "absent" /\ fixture'[f].outcome = fixture[f].outcome
  \/ /\ fixture[f].status = "absent" /\ fixture'[f].outcome = Null

LEMMA RowsGrow ==
  ASSUME TypeOK, ProgressInv, OnceInv, [Next]_vars, NEW f \in Fixtures
  PROVE  \/ Untouched(f)
         \/ fixture[f].status # "absent" /\ \E h \in Handlers : Scores(h, f)
<1>0. fixture \in Rows
  BY DEF TypeOK, Rows, Statuses
<1>1. CASE \E h \in Handlers : \E g \in Fixtures : Score(h, g)
  <2>1. PICK h \in Handlers, g \in Fixtures : Score(h, g)
    BY <1>1
  <2>2. PICK row \in CommitRows(g) : fixture' = [fixture EXCEPT ![g] = row]
    BY <2>1 DEF Score
  <2>3. CASE f # g
    BY <1>0, <2>2, <2>3 DEF Rows, Untouched
  <2>4. CASE f = g
    <3>1. fixture[f].status # "absent" /\ hook[h].pc = "idle"
      BY <2>1, <2>4 DEF Score, Playable
    <3>2. hook'[h].pc \in Deciding
      BY <2>1, ZenonT(60) DEF Score, ProgressInv, RequestInv, RequestOK, Deciding, Idle
    <3>3. hook'[h] # hook[h] /\ hook'[h].pc \notin Elsewhere \cup {"recompute"}
      BY <3>1, <3>2 DEF Deciding, Elsewhere
    <3>4. ~Transaction(h)
      BY <3>1, TransactionMoves DEF ProgressInv
    <3>5. PICK k \in Fixtures : Scores(h, k)
      BY <3>3, <3>4, RequestMoves DEF ProgressInv
    <3>6. k = f
      <4>1. hook = [i \in Handlers |-> hook[i]]
        BY DEF ProgressInv, RequestInv
      <4>2. PICK out, pc : hook' = [hook EXCEPT ![h] =
              [Idle EXCEPT !.fixture = g, !.stage = StageOf[g], !.out = out, !.pc = pc]]
        BY <2>1 DEF Score
      <4>3. hook'[h].fixture = f
        BY <2>4, <4>1, <4>2 DEF Idle
      <4> QED
        BY <3>5, <4>3 DEF Scores
    <3> QED
      BY <3>1, <3>5, <3>6
  <2> QED
    BY <2>3, <2>4
<1>2. CASE \E h \in Handlers : GenerateFixtures(h)
  <2>1. PICK h \in Handlers : GenerateFixtures(h)
    BY <1>2
  <2>2. hook[h].target \in Stages
    BY <2>1 DEF GenerateFixtures, ProgressInv, RequestInv, RequestOK
  <2>3. ToGenerate(hook[h].target) \cap Exist(fixture, hook[h].target) = {}
    BY <2>2, GeneratesMissing DEF OnceInv
  <2>4. ToGenerate(hook[h].target) \subseteq InStage(hook[h].target)
    BY DEF ToGenerate
  <2>5. \/ UNCHANGED fixture
        \/ fixture'[f] = IF f \in ToGenerate(hook[h].target)
                         THEN [status |-> "open", outcome |-> Null] ELSE fixture[f]
    BY <2>1 DEF GenerateFixtures
  <2> QED
    BY <2>3, <2>4, <2>5 DEF Untouched, Exist
<1>3. CASE fixture' = fixture
  BY <1>3 DEF Untouched
<1>4. \/ fixture' = fixture
      \/ \E h \in Handlers : \/ GenerateFixtures(h)
                             \/ \E g \in Fixtures : Score(h, g)
  BY ZenonT(60) DEF Next, Transaction, ReadConfig, FillAndPin, RecomputeRead, RecomputeWrite,
         AutoCheck, CompleteRead, CompleteWrite, Seed, FinishDivision, GenerateRead, MarkRead,
         MarkInsert, MarkInsertTears, Crash, OrganiserCompletes, OrganiserGenerates,
         ReadStandings, vars, rows
<1> QED
  BY <1>1, <1>2, <1>3, <1>4

(* A table says of every row of its stage what the row says.                *)
CurrentIn(now, table, s) ==
  \A f \in Exist(now, s) :
    now[f].outcome = IF f \in DOMAIN table THEN table[f] ELSE Null

LEMMA CurrentStays ==
  ASSUME NEW table, NEW s, CurrentIn(fixture, table, s),
         DOMAIN table \subseteq Exist(fixture, s),
         \A f \in InStage(s) : Untouched(f)
  PROVE  CurrentIn(fixture', table, s)
<1> SUFFICES ASSUME NEW f \in InStage(s), fixture'[f].status # "absent"
             PROVE  fixture'[f].outcome = IF f \in DOMAIN table THEN table[f] ELSE Null
  BY DEF CurrentIn, Exist
<1>1. CASE fixture[f].status = "absent"
  BY <1>1 DEF Untouched, Exist
<1>2. CASE fixture[f].status # "absent"
  BY <1>2 DEF Untouched, Exist, CurrentIn
<1> QED
  BY <1>1, <1>2

(***************************************************************************)
(* The invariant: a snapshot is of rows that exist, a request about to write  *)
(* one still holds the current results, and the table of a table stage that *)
(* is behind has a request on its way to fold it again.                     *)
(***************************************************************************)
SnapsOfRows ==
  \A s \in Stages : snapshot[s] # Null => DOMAIN snapshot[s] \subseteq Exist(fixture, s)
ReadsCurrent ==
  \A h \in Handlers : hook[h].pc \in {"snapshot", "complete"} =>
    CurrentIn(fixture, TableFrom(hook[h].read.fixtures), hook[h].stage)
TableFollows(s) ==
  IsTable(s) /\ snapshot[s] # Null =>
    \/ CurrentIn(fixture, snapshot[s], s)
    \/ \E h \in Handlers : hook[h].stage = s /\ hook[h].pc \in Recomputing
TablesFollow == crashes = 0 => \A s \in Stages : TableFollows(s)

StandInv == crashes \in Nat /\ SnapsOfRows /\ ReadsCurrent /\ TablesFollow

LEMMA CrashesCount ==
  ASSUME crashes \in Nat, [Next]_vars
  PROVE  crashes' \in Nat /\ (crashes' = crashes \/ crashes' = crashes + 1)
<1>1. UNCHANGED crashes \/ crashes' = crashes + 1
  BY ZenonT(60) DEF Next, Transaction, ReadConfig, FillAndPin, RecomputeRead, RecomputeWrite,
         AutoCheck, CompleteRead, CompleteWrite, Seed, FinishDivision,
         GenerateFixtures, GenerateRead, MarkRead, MarkInsert, MarkInsertTears, Crash, Score,
         OrganiserCompletes, OrganiserGenerates, ReadStandings, vars
<1> QED
  BY <1>1

(* Who writes a table, and what.                                            *)
Folds(h) ==
  /\ hook[h].pc \in {"snapshot", "complete"} /\ hook[h].stage \in Stages
  /\ UNCHANGED rows
  /\ DOMAIN TableFrom(hook[h].read.fixtures) \subseteq Exist(fixture, hook[h].stage)
  /\ snapshot' = [snapshot EXCEPT ![hook[h].stage] = TableFrom(hook[h].read.fixtures)]

LEMMA WhoFolds ==
  ASSUME TypeOK, RequestInv, ReadsInv, [Next]_vars
  PROVE  UNCHANGED snapshot \/ \E h \in Handlers : Folds(h)
<1>1. \/ UNCHANGED snapshot
      \/ \E h \in Handlers : RecomputeWrite(h) \/ CompleteWrite(h)
  BY ZenonT(60) DEF Next, Transaction, ReadConfig, FillAndPin, RecomputeRead, Seed, Score,
         AutoCheck, CompleteRead, FinishDivision, GenerateFixtures, GenerateRead, MarkRead,
         MarkInsert, MarkInsertTears, Crash, OrganiserCompletes,
         OrganiserGenerates, ReadStandings, vars, structure
<1>2. ASSUME NEW h \in Handlers, hook[h].pc \in {"snapshot", "complete"}
      PROVE  /\ DOMAIN TableFrom(hook[h].read.fixtures) \subseteq Exist(fixture, hook[h].stage)
             /\ hook[h].stage \in Stages
  BY <1>2 DEF ReadsInv, ReadsOf, TableFrom, RequestInv, RequestOK
<1>3. ASSUME NEW h \in Handlers, RecomputeWrite(h) PROVE Folds(h)
  BY <1>2, <1>3 DEF RecomputeWrite, Folds
<1>4. ASSUME NEW h \in Handlers, CompleteWrite(h) PROVE UNCHANGED snapshot \/ Folds(h)
  BY <1>2, <1>4 DEF CompleteWrite, Folds, structure
<1> QED
  BY <1>1, <1>3, <1>4

(* A request that has just read holds the current results.                  *)
LEMMA ReadsAreCurrent ==
  ASSUME NEW s
  PROVE  CurrentIn(fixture, TableFrom(StageInputs(s).fixtures), s)
<1>1. StageInputs(s).fixtures = [f \in Exist(fixture, s) |-> fixture[f]]
  BY DEF StageInputs, Existing, Exist
<1> QED
  BY <1>1 DEF TableFrom, CurrentIn

LEMMA ReadsCurrentKept ==
  ASSUME TypeOK, ProgressInv, OnceInv, ReadsInv, ReadsCurrent, [Next]_vars,
         [NoResultBetween]_vars
  PROVE  ReadsCurrent'
<1> SUFFICES ASSUME NEW h \in Handlers, hook'[h].pc \in {"snapshot", "complete"}
             PROVE  CurrentIn(fixture', TableFrom(hook'[h].read.fixtures), hook'[h].stage)
  BY DEF ReadsCurrent
<1>1. CASE hook'[h] = hook[h]
  <2> DEFINE s == hook[h].stage
             table == TableFrom(hook[h].read.fixtures)
  <2>1. CurrentIn(fixture, table, s)
    BY <1>1 DEF ReadsCurrent
  <2>2. DOMAIN table \subseteq Exist(fixture, s)
    BY <1>1 DEF ReadsInv, ReadsOf, TableFrom
  <2>3. \A f \in InStage(s) : fixture'[f].outcome = fixture[f].outcome
    BY <1>1 DEF NoResultBetween, vars, rows
  <2>4. \A f \in InStage(s) : Untouched(f)
    BY <2>3, RowsGrow DEF Untouched, InStage
  <2> HIDE DEF table, s
  <2>5. CurrentIn(fixture', table, s)
    BY <2>1, <2>2, <2>4, CurrentStays
  <2> QED
    BY <1>1, <2>5 DEF table, s
<1>2. CASE hook'[h] # hook[h]
  <2>1. Transaction(h)
    BY <1>2, RequestMoves DEF ProgressInv, Elsewhere, Scores, Deciding
  <2>2. /\ hook'[h].stage = hook[h].stage /\ UNCHANGED fixture
        /\ hook'[h].read = StageInputs(hook[h].stage)
    <3>1. /\ hook'[h].stage = hook[h].stage
          /\ hook'[h].read = StageInputs(hook[h].stage)
          /\ RecomputeRead(h) \/ CompleteRead(h)
      BY <2>1, TransactionMoves DEF ProgressInv, Elsewhere
    <3> QED
      BY <3>1 DEF RecomputeRead, CompleteRead, rows
  <2>3. CurrentIn(fixture, TableFrom(StageInputs(hook[h].stage).fixtures), hook[h].stage)
    BY ReadsAreCurrent
  <2> QED
    BY <2>2, <2>3
<1> QED
  BY <1>1, <1>2

LEMMA SnapsKept ==
  ASSUME TypeOK, RequestInv, ReadsInv, SnapsOfRows, [Next]_vars
  PROVE  SnapsOfRows'
<1>1. RowsStay(fixture, fixture')
  BY RowsKept
<1>2. \A s : Exist(fixture, s) \subseteq Exist(fixture', s)
  BY <1>1 DEF RowsStay, Exist, InStage
<1>3. ASSUME NEW s \in Stages, snapshot'[s] # Null
      PROVE  DOMAIN snapshot'[s] \subseteq Exist(fixture', s)
  <2>1. CASE snapshot'[s] = snapshot[s]
    BY <1>2, <1>3, <2>1 DEF SnapsOfRows
  <2>2. CASE snapshot'[s] # snapshot[s]
    <3>1. PICK h \in Handlers : Folds(h)
      BY <2>2, WhoFolds
    <3>2. hook[h].stage = s /\ snapshot'[s] = TableFrom(hook[h].read.fixtures)
      BY <2>2, <3>1 DEF Folds, TypeOK
    <3> QED
      BY <1>2, <3>1, <3>2 DEF Folds
  <2> QED
    BY <2>1, <2>2
<1> QED
  BY <1>3 DEF SnapsOfRows

LEMMA TablesFollowKept ==
  ASSUME TypeOK, ProgressInv, OnceInv, ReadsInv, StandInv, [Next]_vars,
         [NoResultBetween]_vars
  PROVE  TablesFollow'
<1> SUFFICES ASSUME crashes' = 0, NEW s \in Stages, IsTable(s), snapshot'[s] # Null
             PROVE  \/ CurrentIn(fixture', snapshot'[s], s)
                    \/ \E h \in Handlers : hook'[h].stage = s /\ hook'[h].pc \in Recomputing
  BY DEF TablesFollow, TableFollows, IsTable
<1>0. crashes = 0 /\ RequestInv
  BY CrashesCount DEF StandInv, ProgressInv
<1>1. CASE snapshot'[s] # snapshot[s]
  <2>1. PICK h \in Handlers : Folds(h)
    BY <1>1, WhoFolds DEF StandInv, ProgressInv
  <2>2. hook[h].stage = s /\ snapshot'[s] = TableFrom(hook[h].read.fixtures)
    BY <1>1, <2>1 DEF Folds, TypeOK
  <2>3. CurrentIn(fixture, snapshot'[s], s) /\ fixture' = fixture
    BY <2>1, <2>2 DEF StandInv, ReadsCurrent, Folds, rows
  <2> QED
    BY <2>3
<1>2. CASE \E h \in Handlers, f \in Fixtures : Scores(h, f) /\ StageOf[f] = s
  BY <1>2 DEF Scores, Recomputing
<1>3. CASE /\ snapshot'[s] = snapshot[s]
           /\ ~\E h \in Handlers, f \in Fixtures : Scores(h, f) /\ StageOf[f] = s
  <2>1. \A f \in InStage(s) : Untouched(f)
    BY <1>3, RowsGrow DEF InStage
  <2>2. DOMAIN snapshot[s] \subseteq Exist(fixture, s)
    BY <1>3 DEF StandInv, SnapsOfRows
  <2>3. CASE CurrentIn(fixture, snapshot[s], s)
    BY <1>3, <2>1, <2>2, <2>3, CurrentStays
  <2>4. CASE \E h \in Handlers : hook[h].stage = s /\ hook[h].pc \in Recomputing
    <3>1. PICK h \in Handlers : hook[h].stage = s /\ hook[h].pc \in Recomputing
      BY <2>4
    <3>2. CASE hook'[h] = hook[h]
      BY <3>1, <3>2
    <3>3. CASE hook'[h] # hook[h]
      <4>1. Transaction(h)
        <5>1. hook[h].pc # "idle" /\ crashes' # crashes + 1
          BY <1>0, <3>1 DEF Recomputing, Deciding
        <5>2. \A f \in Fixtures : ~Scores(h, f)
          BY <5>1 DEF Scores, Score
        <5> QED
          BY <1>0, <3>1, <3>3, <5>1, <5>2, RequestMoves
      <4>2. CASE RecomputeWrite(h)
        <5>1. /\ snapshot' = [snapshot EXCEPT ![s] = TableFrom(hook[h].read.fixtures)]
              /\ hook[h].pc = "snapshot" /\ fixture' = fixture
          BY <3>1, <4>2 DEF RecomputeWrite, rows
        <5>2. CurrentIn(fixture, TableFrom(hook[h].read.fixtures), s)
          BY <3>1, <5>1 DEF StandInv, ReadsCurrent
        <5> QED
          BY <5>1, <5>2 DEF TypeOK
      <4>3. CASE ~RecomputeWrite(h)
        <5>1. hook'[h].stage = s /\ hook'[h].pc \in {"fill", "recompute", "snapshot"}
          <6>1. ~CompleteRead(h)
            BY <3>1 DEF CompleteRead, Recomputing, Deciding
          <6> QED
            BY <1>0, <3>1, <4>1, <4>3, <6>1, TransactionMoves
        <5> QED
          BY <5>1 DEF Recomputing, Deciding
      <4> QED
        BY <4>2, <4>3
    <3> QED
      BY <3>2, <3>3
  <2> QED
    BY <1>0, <1>3, <2>3, <2>4 DEF StandInv, TablesFollow, TableFollows
<1> QED
  BY <1>1, <1>2, <1>3

LEMMA StandInvInductive == Spec /\ [][NoResultBetween]_vars => []StandInv
<1>1. Init => StandInv
  BY DEF Init, StandInv, SnapsOfRows, ReadsCurrent, TablesFollow, TableFollows, Idle
<1>2. ASSUME ProgressInv, RowInv, OnceInv, StandInv, [Next]_vars, [NoResultBetween]_vars
      PROVE  StandInv'
  <2>1. TypeOK /\ ReadsInv /\ RequestInv
    BY <1>2 DEF RowInv, ProgressInv
  <2>2. crashes' \in Nat
    BY <1>2, CrashesCount DEF StandInv
  <2>3. ReadsCurrent' /\ TablesFollow'
    BY <1>2, <2>1, ReadsCurrentKept, TablesFollowKept DEF StandInv
  <2>4. SnapsOfRows'
    BY <1>2, <2>1, SnapsKept DEF StandInv
  <2> QED
    BY <2>2, <2>3, <2>4 DEF StandInv
<1> QED
  BY <1>1, <1>2, ProgressInvInductive, RowInvInductive, OnceInvInductive, PTL DEF Spec

(* With any number of requests at a time and any order of their other steps, the
   standings of a table stage are those of its results once every request has run
   to its end, as long as no result is committed between a request's reading of
   the stage's inputs and the write of its table (recomputeStandings,
   completeStageIfReady).  Other overlaps leave no table behind; a knockout's
   snapshot, which no result refreshes, is not spoken of.                   *)
THEOREM TablesCatchUp == Spec /\ [][NoResultBetween]_vars => []StandingsCatchUp
<1>1. ASSUME StandInv PROVE StandingsCatchUp
  <2> SUFFICES ASSUME Quiet, crashes = 0, NEW s \in Stages, IsTable(s),
                      snapshot[s] # Null, NEW f \in Existing(s)
               PROVE  fixture[f].outcome
                        = IF f \in DOMAIN snapshot[s] THEN snapshot[s][f] ELSE Null
    BY DEF StandingsCatchUp
  <2>1. CurrentIn(fixture, snapshot[s], s)
    BY <1>1 DEF StandInv, TablesFollow, TableFollows, Quiet, Recomputing, Deciding
  <2> QED
    BY <2>1 DEF CurrentIn, Exist, Existing
<1> QED
  BY <1>1, StandInvInductive, PTL

(* Requests served one at a time never meet that window: every table stage's
   standings are those of its results.                                      *)
THEOREM TablesCatchUpAlone ==
  ASSUME \A g, h \in Handlers : g = h
  PROVE  Spec => []StandingsCatchUp
<1>1. ASSUME TypeOK, ProgressInv, OnceInv, [Next]_vars PROVE [NoResultBetween]_vars
  <2> SUFFICES ASSUME NEW h \in Handlers, hook[h].pc \in {"snapshot", "complete"},
                      NEW f \in InStage(hook[h].stage)
               PROVE  fixture'[f].outcome = fixture[f].outcome
    BY DEF NoResultBetween
  <2>1. \A g \in Handlers, k \in Fixtures : ~Score(g, k)
    BY DEF Score
  <2>2. ~GenerateFixtures(h)
    BY DEF GenerateFixtures
  <2>3. fixture' = fixture
    BY <1>1, <2>1, <2>2, ZenonT(60)
       DEF Next, Transaction, ReadConfig, FillAndPin, RecomputeRead, RecomputeWrite,
         AutoCheck, CompleteRead, CompleteWrite, Seed, FinishDivision, GenerateRead, MarkRead,
         MarkInsert, MarkInsertTears, Crash, OrganiserCompletes, OrganiserGenerates,
         ReadStandings, vars, rows, GenerateFixtures
  <2> QED
    BY <2>3
<1>2. Spec => [][NoResultBetween]_vars
  BY <1>1, RowInvInductive, ProgressInvInductive, OnceInvInductive, PTL DEF Spec, RowInv
<1> QED
  BY <1>2, TablesCatchUp, PTL

(***************************************************************************)
(* Rank locks: a request between a placement game's commit and its locks    *)
(* still holds that game's outcome and the stage's locks as they are; only  *)
(* who is in a game wins or loses it; and the two of a won game without     *)
(* ranks have a request on its way to write them.                           *)
(***************************************************************************)
PinsHeld ==
  \A h \in Handlers : hook[h].pc \in Deciding /\ hook[h].fixture \in Placements =>
    /\ hook[h].stage = StageOf[hook[h].fixture]
    /\ hook[h].out = fixture[hook[h].fixture].outcome
    /\ hook[h].pc = "fill" => hook[h].read = rankLocks[hook[h].stage]
Won(f) == fixture[f].outcome # Null /\ fixture[f].outcome.kind = "win"
Winner(f) == fixture[f].outcome.winner
Loser(f) == fixture[f].outcome.loser
PlayersWin == \A f \in Fixtures : Won(f) => Winner(f) \in Sides(f) /\ Loser(f) \in Sides(f)
(* Entrant e of placement game f has the given rank, or one of another such game
   it is in.                                                                *)
Ranked(f, e, rank) ==
  \/ rankLocks[StageOf[f]][e] = rank
  \/ \E g \in Placements \ {f} :
       /\ StageOf[g] = StageOf[f] /\ e \in Sides(g)
       /\ rankLocks[StageOf[f]][e] \in {Place[g].winner, Place[g].loser}
PinFollows(f) ==
  Won(f) => \/ Ranked(f, Winner(f), Place[f].winner) /\ Ranked(f, Loser(f), Place[f].loser)
            \/ \E h \in Handlers : hook[h].fixture = f /\ hook[h].pc \in Deciding
PinsFollow == crashes = 0 => \A f \in Placements : PinFollows(f)

PinInv == crashes \in Nat /\ PinsHeld /\ PlayersWin /\ PinsFollow

LEMMA PinsHeldKept ==
  ASSUME TypeOK, RequestInv, PinsHeld, [Next]_vars, [NoPinBetween]_vars
  PROVE  PinsHeld'
<1> SUFFICES ASSUME NEW h \in Handlers, hook'[h].pc \in Deciding,
                    hook'[h].fixture \in Placements
             PROVE  /\ hook'[h].stage = StageOf[hook'[h].fixture]
                    /\ hook'[h].out = fixture'[hook'[h].fixture].outcome
                    /\ hook'[h].pc = "fill" => hook'[h].read = rankLocks'[hook'[h].stage]
  BY DEF PinsHeld, Deciding
<1>1. CASE hook'[h] = hook[h]
  <2>1. /\ fixture'[hook[h].fixture].outcome = fixture[hook[h].fixture].outcome
        /\ hook[h].pc = "fill" => rankLocks'[hook[h].stage] = rankLocks[hook[h].stage]
    BY <1>1 DEF NoPinBetween, vars, rows, Deciding
  <2> QED
    BY <1>1, <2>1 DEF PinsHeld
<1>2. CASE hook'[h] # hook[h] /\ Transaction(h)
  <2>1. /\ ReadConfig(h) /\ hook'[h].fixture = hook[h].fixture
        /\ hook'[h].stage = hook[h].stage
        /\ hook'[h].out = hook[h].out /\ hook'[h].read = rankLocks[hook[h].stage]
    BY <1>2, TransactionMoves DEF Elsewhere, Deciding
  <2>2. hook[h].pc \in Deciding /\ UNCHANGED rows
    BY <2>1 DEF ReadConfig, Deciding
  <2> QED
    BY <2>1, <2>2 DEF PinsHeld, rows
<1>3. CASE hook'[h] # hook[h] /\ ~Transaction(h)
  <2>1. PICK f \in Fixtures : Scores(h, f)
    BY <1>3, RequestMoves DEF Elsewhere, Deciding
  <2> QED
    BY <2>1 DEF Scores
<1> QED
  BY <1>1, <1>2, <1>3

(* A side that is known stays one of the game's two.                        *)
LEMMA SidesStay ==
  ASSUME TypeOK, [Next]_vars, NEW f \in Fixtures, NEW e \in Entrants, e \in Sides(f)
  PROVE  e \in Sides(f)'
<1>1. slot \in [Fixtures -> Entrants \cup {Null}] /\ e # Null
  BY StageProgressAssumption DEF TypeOK
<1>2. UNCHANGED slot \/ \E h \in Handlers : FillAndPin(h)
  BY ZenonT(60) DEF Next, Transaction, ReadConfig, RecomputeRead, RecomputeWrite,
     Score, AutoCheck, CompleteRead, CompleteWrite, Seed, FinishDivision, GenerateRead,
     GenerateFixtures, MarkRead, MarkInsert, MarkInsertTears, Crash,
     OrganiserCompletes, OrganiserGenerates, ReadStandings, vars, rows
<1>3. \A g \in Fixtures : slot[g] # Null => slot'[g] = slot[g]
  BY <1>1, <1>2 DEF FillAndPin, FillSlot
<1>4. Sides(f)' = Drawn[f] \cup {slot'[g] : g \in {g \in Fixtures : Feed[g] = f}}
  BY DEF Sides
<1> QED
  BY <1>1, <1>3, <1>4 DEF Sides

LEMMA WonTyped ==
  ASSUME TypeOK, NEW f \in Fixtures, Won(f)
  PROVE  Winner(f) \in Entrants /\ Loser(f) \in Entrants /\ Winner(f) # Loser(f)
<1>1. fixture[f].outcome \in Outcomes
  BY DEF TypeOK, Won
<1> QED
  BY <1>1, OutcomeSides DEF Won, Winner, Loser

(* A result is of the two in the game: one that is entered by the commit's check,
   one that stands because sides do.                                        *)
LEMMA PlayersWinKept ==
  ASSUME TypeOK, ProgressInv, OnceInv, PlayersWin, [Next]_vars
  PROVE  PlayersWin'
<1> SUFFICES ASSUME NEW f \in Fixtures, Won(f)'
             PROVE  Winner(f)' \in Sides(f)' /\ Loser(f)' \in Sides(f)'
  BY DEF PlayersWin
<1>1. CASE fixture'[f].outcome = fixture[f].outcome
  <2>1. Won(f) /\ Winner(f)' = Winner(f) /\ Loser(f)' = Loser(f)
    BY <1>1 DEF Won, Winner, Loser
  <2> QED
    BY <2>1, SidesStay, WonTyped DEF PlayersWin
<1>2. CASE fixture'[f].outcome # fixture[f].outcome
  <2>1. fixture \in Rows
    BY DEF TypeOK, Rows, Statuses
  <2>2. PICK h \in Handlers : Score(h, f)
    BY <1>2, RowsGrow DEF Untouched, Scores, Won
  <2>3. PICK row \in CommitRows(f) : fixture' = [fixture EXCEPT ![f] = row]
    BY <2>2 DEF Score
  <2>4. fixture'[f] = row /\ slot' = slot
    BY <2>1, <2>2, <2>3 DEF Rows, Score
  <2>5. PICK p \in Outcomes : p = row.outcome /\ {p.winner, p.loser} \subseteq Sides(f) \cup {Null}
    BY <1>2, <2>4 DEF CommitRows, Won
  <2>6. p.winner \in Sides(f) /\ p.loser \in Sides(f)
    BY <2>4, <2>5, OutcomeSides, StageProgressAssumption DEF Won
  <2> QED
    BY <2>4, <2>5, <2>6 DEF Sides, Winner, Loser
<1> QED
  BY <1>1, <1>2

(* onDecided's locks of a placement game, over locks that are as it read them:
   the two who played have the ranks it decides, all others what they had.  *)
LEMMA PinWritten ==
  ASSUME TypeOK, RequestInv, PinsHeld, NEW h \in Handlers, FillAndPin(h)
  PROVE  /\ UNCHANGED fixture
         /\ \/ /\ rankLocks' = rankLocks
               /\ hook[h].fixture \in Placements => ~Won(hook[h].fixture)
            \/ \E g \in Placements :
                 /\ g = hook[h].fixture /\ Won(g)
                 /\ rankLocks'[StageOf[g]][Winner(g)] = Place[g].winner
                 /\ rankLocks'[StageOf[g]][Loser(g)] = Place[g].loser
                 /\ \A s \in Stages, e \in Entrants :
                      s # StageOf[g] \/ e \notin {Winner(g), Loser(g)} =>
                        rankLocks'[s][e] = rankLocks[s][e]
<1> DEFINE g == hook[h].fixture
           o == hook[h].out
           s == hook[h].stage
<1>1. /\ UNCHANGED fixture /\ hook[h].pc \in Deciding /\ hook[h].pc = "fill"
      /\ rankLocks' = IF o # Null /\ o.kind = "win" /\ g \in Placements
                      THEN [rankLocks EXCEPT ![s] = PinRank(hook[h].read, g, o)]
                      ELSE rankLocks
  BY DEF FillAndPin, Deciding
<1>2. g \in Placements => /\ o = fixture[g].outcome /\ hook[h].read = rankLocks[s]
                          /\ s = StageOf[g] /\ g \in Fixtures /\ s \in Stages
  BY <1>1, StageProgressAssumption DEF PinsHeld
<1>3. rankLocks \in [Stages -> [Entrants -> Ranks \cup {Null}]]
  BY DEF TypeOK
<1>4. CASE g \in Placements /\ Won(g)
  <2>1. rankLocks' = [rankLocks EXCEPT ![s] = PinRank(rankLocks[s], g, o)]
    BY <1>1, <1>2, <1>4 DEF Won
  <2>2. Winner(g) \in Entrants /\ Loser(g) \in Entrants /\ Winner(g) # Loser(g)
    BY <1>2, <1>4, WonTyped
  <2>3. o.winner = Winner(g) /\ o.loser = Loser(g)
    BY <1>2, <1>4 DEF Winner, Loser
  <2> HIDE DEF g, o, s
  <2>4. /\ rankLocks'[s] = PinRank(rankLocks[s], g, o)
        /\ \A r \in Stages \ {s} : rankLocks'[r] = rankLocks[r]
    BY <1>2, <1>3, <1>4, <2>1
  <2>5. rankLocks[s] \in [Entrants -> Ranks \cup {Null}]
    BY <1>2, <1>3, <1>4
  <2>6. /\ PinRank(rankLocks[s], g, o)[Winner(g)] = Place[g].winner
        /\ PinRank(rankLocks[s], g, o)[Loser(g)] = Place[g].loser
        /\ \A e \in Entrants \ {Winner(g), Loser(g)} :
             PinRank(rankLocks[s], g, o)[e] = rankLocks[s][e]
    BY <2>2, <2>3, <2>5 DEF PinRank
  <2> QED
    BY <1>1, <1>2, <1>4, <2>4, <2>6 DEF g
<1>5. CASE ~(g \in Placements /\ Won(g))
  BY <1>1, <1>2, <1>5 DEF Won
<1> QED
  BY <1>4, <1>5

LEMMA LocksWritten ==
  ASSUME [Next]_vars
  PROVE  UNCHANGED rankLocks \/ \E h \in Handlers : FillAndPin(h)
BY ZenonT(60) DEF Next, Transaction, ReadConfig, RecomputeRead, RecomputeWrite,
   AutoCheck, CompleteRead, CompleteWrite, Seed, FinishDivision,
   GenerateFixtures, GenerateRead, MarkRead, MarkInsert, MarkInsertTears, Crash, Score,
   OrganiserCompletes, OrganiserGenerates, ReadStandings, vars, rows

(* One of the two of a won game keeps its rank of that game, unless another one
   it is in gives it a rank of its own.                                     *)
LEMMA RankedStays ==
  ASSUME TypeOK, RequestInv, PinsHeld, PlayersWin, [Next]_vars,
         NEW f \in Placements, Won(f), NEW e \in Entrants, NEW rank,
         \/ e = Winner(f) /\ rank = Place[f].winner
         \/ e = Loser(f) /\ rank = Place[f].loser,
         Ranked(f, e, rank)
  PROVE  Ranked(f, e, rank)'
<1>0. f \in Fixtures /\ StageOf[f] \in Stages /\ Placements \subseteq Fixtures
  BY StageProgressAssumption
<1>1. \A g \in Placements : e \in Sides(g) => e \in Sides(g)'
  BY <1>0, SidesStay
<1>2. CASE rankLocks'[StageOf[f]][e] = rankLocks[StageOf[f]][e]
  BY <1>1, <1>2 DEF Ranked
<1>3. CASE rankLocks'[StageOf[f]][e] # rankLocks[StageOf[f]][e]
  <2>1. PICK h \in Handlers : FillAndPin(h)
    BY <1>3, LocksWritten
  <2>2. PICK g \in Placements :
          /\ Won(g)
          /\ rankLocks'[StageOf[g]][Winner(g)] = Place[g].winner
          /\ rankLocks'[StageOf[g]][Loser(g)] = Place[g].loser
          /\ \A s \in Stages, x \in Entrants :
               s # StageOf[g] \/ x \notin {Winner(g), Loser(g)} =>
                 rankLocks'[s][x] = rankLocks[s][x]
    BY <1>3, <2>1, PinWritten
  <2>3. StageOf[g] = StageOf[f] /\ e \in {Winner(g), Loser(g)}
    BY <1>0, <1>3, <2>2
  <2>4. CASE g = f
    <3>1. rankLocks'[StageOf[f]][e] = rank
      BY <1>0, <2>2, <2>4, WonTyped
    <3> QED
      BY <3>1 DEF Ranked
  <2>5. CASE g # f
    <3>1. e \in Sides(g)'
      BY <1>0, <1>1, <2>2, <2>3 DEF PlayersWin
    <3>2. rankLocks'[StageOf[f]][e] \in {Place[g].winner, Place[g].loser}
      BY <2>2, <2>3
    <3> QED
      BY <2>3, <2>5, <3>1, <3>2 DEF Ranked
  <2> QED
    BY <2>4, <2>5
<1> QED
  BY <1>2, <1>3

LEMMA PinsFollowKept ==
  ASSUME TypeOK, ProgressInv, OnceInv, PinInv, [Next]_vars, [NoPinBetween]_vars
  PROVE  PinsFollow'
<1> SUFFICES ASSUME crashes' = 0, NEW f \in Placements, Won(f)'
             PROVE  \/ /\ Ranked(f, Winner(f), Place[f].winner)'
                       /\ Ranked(f, Loser(f), Place[f].loser)'
                    \/ \E h \in Handlers : hook'[h].fixture = f /\ hook'[h].pc \in Deciding
  BY DEF PinsFollow, PinFollows, Deciding
<1>0. crashes = 0 /\ RequestInv /\ PinsHeld /\ PlayersWin /\ f \in Fixtures
  BY CrashesCount, StageProgressAssumption DEF PinInv, ProgressInv
<1>1. CASE \E h \in Handlers : Scores(h, f)
  BY <1>1 DEF Scores
<1>2. CASE ~\E h \in Handlers : Scores(h, f)
  <2>1. Untouched(f)
    BY <1>0, <1>2, RowsGrow
  <2>2. fixture'[f].outcome = fixture[f].outcome /\ Won(f)
    BY <2>1 DEF Untouched, Won
  <2>3. Winner(f)' = Winner(f) /\ Loser(f)' = Loser(f)
    BY <2>2 DEF Winner, Loser
  <2>4. Winner(f) \in Entrants /\ Loser(f) \in Entrants
    BY <1>0, <2>2, WonTyped
  <2>5. CASE Ranked(f, Winner(f), Place[f].winner) /\ Ranked(f, Loser(f), Place[f].loser)
    <3>1. PICK w \in Entrants, l \in Entrants : w = Winner(f) /\ l = Loser(f)
      BY <2>4
    <3>2. Ranked(f, w, Place[f].winner)'
      BY <1>0, <2>2, <2>5, <3>1, RankedStays
    <3>3. Ranked(f, l, Place[f].loser)'
      BY <1>0, <2>2, <2>5, <3>1, RankedStays
    <3>4. w = Winner(f)' /\ l = Loser(f)'
      BY <2>3, <3>1
    <3> QED
      BY <3>2, <3>3, <3>4 DEF Ranked
  <2>6. CASE \E h \in Handlers : hook[h].fixture = f /\ hook[h].pc \in Deciding
    <3>1. PICK h \in Handlers : hook[h].fixture = f /\ hook[h].pc \in Deciding
      BY <2>6
    <3>2. CASE hook'[h] = hook[h]
      BY <3>1, <3>2
    <3>3. CASE hook'[h] # hook[h]
      <4>1. Transaction(h)
        <5>1. hook[h].pc \in Recomputing /\ crashes' # crashes + 1
          BY <1>0, <3>1 DEF Recomputing
        <5>2. \A k \in Fixtures : ~Scores(h, k)
          BY <3>1 DEF Scores, Score, Deciding
        <5> QED
          BY <1>0, <3>3, <5>1, <5>2, RequestMoves
      <4>2. CASE FillAndPin(h)
        <5>1. /\ rankLocks'[StageOf[f]][Winner(f)] = Place[f].winner
              /\ rankLocks'[StageOf[f]][Loser(f)] = Place[f].loser
          BY <1>0, <2>2, <3>1, <4>2, PinWritten
        <5> QED
          BY <2>3, <5>1 DEF Ranked
      <4>3. CASE ~FillAndPin(h)
        <5>1. ~RecomputeWrite(h) /\ ~RecomputeRead(h) /\ ~CompleteRead(h)
          BY <3>1 DEF RecomputeWrite, RecomputeRead, CompleteRead, Deciding
        <5>2. hook'[h].pc = "fill" /\ hook'[h].fixture = f
          BY <1>0, <3>1, <4>1, <4>3, <5>1, TransactionMoves DEF Recomputing
        <5> QED
          BY <5>2 DEF Deciding
      <4> QED
        BY <4>2, <4>3
    <3> QED
      BY <3>2, <3>3
  <2> QED
    BY <1>0, <2>2, <2>5, <2>6 DEF PinInv, PinsFollow, PinFollows
<1> QED
  BY <1>1, <1>2

LEMMA PinInvInductive == Spec /\ [][NoPinBetween]_vars => []PinInv
<1>1. Init => PinInv
  BY StageProgressAssumption
     DEF Init, PinInv, PinsHeld, PlayersWin, PinsFollow, PinFollows, Won, Idle, Deciding
<1>2. ASSUME ProgressInv, RowInv, OnceInv, PinInv, [Next]_vars, [NoPinBetween]_vars
      PROVE  PinInv'
  <2>1. TypeOK /\ RequestInv
    BY <1>2 DEF RowInv, ProgressInv
  <2>2. crashes' \in Nat
    BY <1>2, CrashesCount DEF PinInv
  <2>3. PinsHeld' /\ PlayersWin' /\ PinsFollow'
    BY <1>2, <2>1, PinsHeldKept, PlayersWinKept, PinsFollowKept DEF PinInv
  <2> QED
    BY <2>2, <2>3 DEF PinInv
<1> QED
  BY <1>1, <1>2, ProgressInvInductive, RowInvInductive, OnceInvInductive, PTL DEF Spec

(* With any number of requests at a time the winner and the loser of every won
   placement game have its ranks, or those of another placement game they are in,
   once every request has run to its end - as long as no other rank lock of the
   stage is written between onDecided's reading of stages.config and its own
   write, and the game is not decided anew before that write.               *)
THEOREM PinsCatchUp == Spec /\ [][NoPinBetween]_vars => []PlacementsPinned
<1>1. ASSUME PinInv PROVE PlacementsPinned
  <2> SUFFICES ASSUME Quiet, crashes = 0, NEW f \in Placements, Won(f)
               PROVE  /\ Ranked(f, Winner(f), Place[f].winner)
                      /\ Ranked(f, Loser(f), Place[f].loser)
    BY DEF PlacementsPinned, Won, Winner, Loser, Ranked
  <2> QED
    BY <1>1 DEF PinInv, PinsFollow, PinFollows, Quiet, Deciding
<1> QED
  BY <1>1, PinInvInductive, PTL

(* Requests served one at a time leave the two of every won placement game with
   its ranks or with those of another placement game they are in.           *)
THEOREM PinsCatchUpAlone ==
  ASSUME \A g, h \in Handlers : g = h
  PROVE  Spec => []PlacementsPinned
<1>1. ASSUME TypeOK, ProgressInv, OnceInv, [Next]_vars PROVE [NoPinBetween]_vars
  <2> SUFFICES ASSUME NEW h \in Handlers, hook[h].pc \in {"config", "fill"},
                      hook[h].fixture \in Placements
               PROVE  /\ fixture'[hook[h].fixture].outcome = fixture[hook[h].fixture].outcome
                      /\ hook[h].pc = "fill" /\ hook'[h] = hook[h] =>
                           rankLocks'[hook[h].stage] = rankLocks[hook[h].stage]
    BY DEF NoPinBetween
  <2>1. \A g \in Handlers, k \in Fixtures : ~Score(g, k)
    BY DEF Score
  <2>2. ~GenerateFixtures(h)
    BY DEF GenerateFixtures
  <2>3. fixture' = fixture
    BY <1>1, <2>1, <2>2, ZenonT(60)
       DEF Next, Transaction, ReadConfig, FillAndPin, RecomputeRead, RecomputeWrite,
         AutoCheck, CompleteRead, CompleteWrite, Seed, FinishDivision, GenerateRead, MarkRead,
         MarkInsert, MarkInsertTears, Crash, OrganiserCompletes, OrganiserGenerates,
         ReadStandings, vars, rows, GenerateFixtures
  <2>4. FillAndPin(h) => hook'[h] # hook[h]
    <3>1. FillAndPin(h) => hook[h].pc = "fill"
      BY DEF FillAndPin
    <3> QED
      BY <1>1, <3>1, TransactionMoves DEF ProgressInv, Transaction, Elsewhere,
         ReadConfig, RecomputeRead, CompleteRead
  <2>5. FillAndPin(h) \/ UNCHANGED rankLocks
    BY <1>1, LocksWritten
  <2> QED
    BY <2>3, <2>4, <2>5
<1>2. Spec => [][NoPinBetween]_vars
  BY <1>1, RowInvInductive, ProgressInvInductive, OnceInvInductive, PTL DEF Spec, RowInv
<1> QED
  BY <1>2, PinsCatchUp, PTL
=============================================================================
