--------------------------- MODULE StageProgress ---------------------------
(***************************************************************************)
(* A division's progression: what scoreEvent does after its ledger commit   *)
(* (usecases/scoring.ts onDecided, maybeAutoAdvance) and what organisers    *)
(* call by hand (usecases/stages.ts completeStage, generateStageFixtures)   *)
(* over standings snapshots, stage completion, seeding and generation       *)
(* (engine-db/competition.ts).  One action is one database transaction, or  *)
(* the part of it before or after the division advisory lock where the code *)
(* reads first and locks second.                                            *)
(*                                                                          *)
(* Ledger commits are those of ScoreLedger reduced to the fixtures row they *)
(* leave; a standings table is the results it was folded from.              *)
(***************************************************************************)
EXTENDS Naturals, Sequences, FiniteSets

CONSTANTS
  Null,
  Handlers,      \* requests the server runs at a time
  NStages,       \* the division's stages are 1..NStages in seq order
  Fixtures,
  StageOf,       \* fixture -> stage
  RoundOf,       \* fixture -> round_no
  Feed,          \* fixture -> the fixture its winner goes to, or Null
  Drawn,         \* fixture -> the entrants the generator puts in it
  Place,         \* stages.config.placements: fixture -> ranks of winner and loser
  Kind,          \* stage -> "league", "swiss" or "knockout"
  Rounds,        \* stage -> config.rounds of a swiss stage
  Outcomes,      \* outcomes scored: [kind, winner, loser] records, loser of a win
  AutoProgress,  \* divisions.auto_progress
  Watched,       \* bound: stages whose standings are asked for
  MaxScores,     \* bound: ledger commits that reach onDecided
  MaxCrashes     \* bound: requests that die between two transactions

Stages == 1..NStages
IsTable(s) == Kind[s] \in {"league", "swiss"}
Entrants == UNION {Drawn[f] : f \in Fixtures}
Placements == DOMAIN Place
Ranks == {Place[f].winner : f \in Placements} \cup {Place[f].loser : f \in Placements}
Tables == UNION {[F -> Outcomes \cup {Null}] : F \in SUBSET Fixtures}

(* A later stage qualifies from the one before it, which has to be a table; the
   first one has been generated.                                            *)
ASSUME StageProgressAssumption ==
  /\ NStages \in Nat \ {0} /\ MaxScores \in Nat /\ MaxCrashes \in Nat
  /\ StageOf \in [Fixtures -> Stages]
  /\ RoundOf \in [Fixtures -> Nat \ {0}] /\ Rounds \in [Stages -> Nat \ {0}]
  /\ Feed \in [Fixtures -> Fixtures \cup {Null}] /\ Null \notin Fixtures
  /\ Kind \in [Stages -> {"league", "swiss", "knockout"}]
  /\ \A s \in Stages : s < NStages => IsTable(s)
  /\ \A f \in Fixtures : Feed[f] # Null => StageOf[Feed[f]] = StageOf[f]
  /\ Placements \subseteq Fixtures /\ AutoProgress \in BOOLEAN
  /\ Null \notin Entrants /\ Null \notin Ranks
  /\ Outcomes \subseteq [kind : {"win", "award", "no_result"},
                        winner : Entrants \cup {Null}, loser : Entrants \cup {Null}]
  /\ \A o \in Outcomes : /\ o.kind \in {"win", "award"} => o.winner # Null
                         /\ o.kind = "win" => o.loser \notin {Null, o.winner}
  /\ Null \notin Outcomes /\ Null \notin Tables /\ IsFiniteSet(Fixtures)
  /\ \E f \in Fixtures : StageOf[f] = 1 /\ (Kind[1] = "swiss" => RoundOf[f] = 1)

VARIABLES
  fixture,   \* fixtures rows: status ("absent" before generation), outcome
  slot,      \* fixture -> the winner its feed wrote into the next fixture
  rankLocks, \* config.rank_overrides: stage -> entrant -> its rank, or Null
  stage,     \* stages rows: status, qualified (config.qualified)
  snapshot,  \* standings_snapshots: stage -> Null or a table
  division,  \* divisions row: status, seq
  events,    \* division_events in seq order: [type, stage]
  hook,      \* handler -> where its request is, and what it holds
  scores, crashes

rows == <<fixture, slot, rankLocks>>
structure == <<stage, snapshot, division, events>>
vars == <<rows, structure, hook, scores, crashes>>

Idle == [pc |-> "idle", fixture |-> Null, stage |-> Null, target |-> Null,
         out |-> Null, auto |-> FALSE, read |-> Null]

(* A fixture's two sides: drawn, or the winners its feeders sent.             *)
Sides(f) == Drawn[f] \cup {slot[g] : g \in {g \in Fixtures : Feed[g] = f}}

InStage(s) == {f \in Fixtures : StageOf[f] = s}
Existing(s) == {f \in InStage(s) : fixture[f].status # "absent"}

StatusOf(o) == CASE o = Null -> "open"
                 [] o # Null /\ o.kind = "win" -> "decided"
                 [] o # Null /\ o.kind = "award" -> "forfeited"
                 [] o # Null /\ o.kind = "no_result" -> "abandoned"

Settled(status) == status \in {"decided", "finalized", "forfeited", "abandoned"}

(* What one pass of loadStageInputs hands on.                               *)
StageInputs(s) == [status |-> stage[s].status, seq |-> division.seq,
                   fixtures |-> [f \in Existing(s) |-> fixture[f]]]

(* Faulty: the rows themselves kept as the table.                           *)
TableOfRows(inputs) == inputs

TableFrom(inputs) == [f \in DOMAIN inputs |-> inputs[f].outcome]

(* Faulty: a swiss stage judged on the rounds paired so far.                *)
RoundsPairedSettled(s, inputs) ==
  /\ DOMAIN inputs # {}
  /\ \A f \in DOMAIN inputs :
       (IsTable(s) \/ Feed[f] = Null) => Settled(inputs[f].status)

(* isTableStageComplete, isBracketStageComplete.                            *)
StageReady(s, inputs) ==
  /\ DOMAIN inputs # {}
  /\ CASE Kind[s] = "league" ->
            \A f \in DOMAIN inputs : Settled(inputs[f].status)
       [] Kind[s] = "swiss" ->
            \A r \in 1..Rounds[s] :
              LET inRound == {f \in DOMAIN inputs : RoundOf[f] = r}
              IN  inRound # {} /\ \A f \in inRound : Settled(inputs[f].status)
       [] Kind[s] = "knockout" ->
            \A f \in DOMAIN inputs : Feed[f] = Null => Settled(inputs[f].status)

(* The fixtures the generator adds now: all of them, or a swiss round.      *)
ToGenerate(s) ==
  LET next == 1 + Cardinality({RoundOf[f] : f \in Existing(s)})
  IN  IF Kind[s] # "swiss" THEN InStage(s) \ Existing(s)
      ELSE {f \in InStage(s) : RoundOf[f] = next}

(* swissGen refuses while a fixture is undecided; an abandoned one is.      *)
GeneratorRefuses(s) ==
  /\ Kind[s] = "swiss" /\ ToGenerate(s) # {}
  /\ \E f \in Existing(s) : fixture[f].status \in {"open", "abandoned"}

(* Rows of division_events get max(seq) + 1 and move the division watermark. *)
(* Faulty: the watermark counted from the row read before the lock.         *)
WatermarkFromRead(h, type, s) ==
  /\ events' = Append(events, [type |-> type, stage |-> s])
  /\ division' = [division EXCEPT
       !.seq = IF hook[h].pc = "complete" THEN hook[h].read.seq + 1 ELSE @ + 1]

AppendDivisionEvent(h, type, s) ==
  /\ events' = Append(events, [type |-> type, stage |-> s])
  /\ division' = [division EXCEPT !.seq = Len(events) + 1]

Goto(h, pc) == hook' = [hook EXCEPT ![h].pc = pc, ![h].read = Null]
Done(h) == hook' = [hook EXCEPT ![h] = Idle]
(* completeStage returned: a hook goes on to record the auto-advance.       *)
CompleteReturns(h) == IF hook[h].auto THEN Goto(h, "mark") ELSE Done(h)
(* The standings are refreshed: maybeAutoAdvance unless the decision went.  *)
StandingsDone(h) == IF hook[h].out # Null THEN Goto(h, "check") ELSE Done(h)

Init ==
  /\ fixture = [f \in Fixtures |->
       [status |-> IF StageOf[f] = 1 /\ (Kind[1] = "swiss" => RoundOf[f] = 1)
                   THEN "open" ELSE "absent", outcome |-> Null]]
  /\ slot = [f \in Fixtures |-> Null]
  /\ rankLocks = [s \in Stages |-> [e \in Entrants |-> Null]]
  /\ stage = [s \in Stages |->
       [status |-> IF s = 1 THEN "active" ELSE "pending", qualified |-> Null]]
  /\ snapshot = [s \in Stages |-> Null]
  /\ division = [status |-> "active", seq |-> 1]
  /\ events = <<[type |-> "fixtures_generated", stage |-> 1]>>
  /\ hook = [h \in Handlers |-> Idle]
  /\ scores = 0 /\ crashes = 0

(***************************************************************************)
(* Scoring: the ledger commit, then onDecided.                              *)
(***************************************************************************)
Playable(f) ==
  /\ fixture[f].status \notin {"absent", "finalized"}
  /\ \A g \in Fixtures : Feed[g] = f => slot[g] # Null

(* The rows a commit that reaches onDecided can leave: a result, or with one
   entered its undo, a note or finalize.                                    *)
CommitRows(f) ==
  LET o == fixture[f].outcome
      scored == {p \in Outcomes : {p.winner, p.loser} \subseteq Sides(f) \cup {Null}}
  IN  IF o = Null THEN {[status |-> StatusOf(p), outcome |-> p] : p \in scored}
      ELSE {[status |-> "open", outcome |-> Null], fixture[f],
            [status |-> "finalized", outcome |-> o]}

Score(h, f) ==
  /\ hook[h].pc = "idle" /\ scores < MaxScores /\ Playable(f)
  /\ \E row \in CommitRows(f) :
       /\ fixture' = [fixture EXCEPT ![f] = row]
       /\ hook' = [hook EXCEPT ![h] =
            [Idle EXCEPT !.fixture = f, !.stage = StageOf[f], !.out = row.outcome,
                         !.pc = IF f \in Placements THEN "config" ELSE "fill"]]
  /\ scores' = scores + 1
  /\ UNCHANGED <<slot, rankLocks, structure, crashes>>

(* onDecided's first statement: stages.config, not locked.                  *)
ReadConfig(h) ==
  /\ hook[h].pc = "config"
  /\ hook' = [hook EXCEPT ![h].pc = "fill",
                          ![h].read = rankLocks[hook[h].stage]]
  /\ UNCHANGED <<rows, structure, scores, crashes>>

(* Faulty: a slot already filled is rewritten.                              *)
FillOver(f, winner) == slot' = [slot EXCEPT ![f] = winner]

FillSlot(f, winner) == slot' = [slot EXCEPT ![f] = IF @ = Null THEN winner ELSE @]

(* Faulty: the locks rebuilt from this game alone.                          *)
PinOnly(read, f, o) ==
  [e \in Entrants |-> CASE e = o.winner -> Place[f].winner
                        [] e = o.loser -> Place[f].loser
                        [] OTHER -> Null]

(* The earlier locks of the two who played are filtered out and replaced.   *)
PinRank(read, f, o) ==
  [read EXCEPT ![o.winner] = Place[f].winner, ![o.loser] = Place[f].loser]

(* The rest of onDecided's transaction: the winner's slot in the next
   fixture, a placement game's rank locks.                                  *)
FillAndPin(h) ==
  LET f == hook[h].fixture
      o == hook[h].out
  IN  /\ hook[h].pc = "fill"
      /\ IF o # Null /\ o.kind \in {"win", "award"} /\ Feed[f] # Null
         THEN FillSlot(f, o.winner) ELSE UNCHANGED slot
      /\ rankLocks' = IF o # Null /\ o.kind = "win" /\ f \in Placements
                      THEN [rankLocks EXCEPT ![hook[h].stage] =
                              PinRank(hook[h].read, f, o)]
                      ELSE rankLocks
      /\ IF IsTable(hook[h].stage) THEN Goto(h, "recompute") ELSE StandingsDone(h)
      /\ UNCHANGED <<fixture, structure, scores, crashes>>

(* recomputeStandings: the inputs are read before the division lock.        *)
RecomputeRead(h) ==
  /\ hook[h].pc = "recompute"
  /\ hook' = [hook EXCEPT ![h].pc = "snapshot",
                          ![h].read = StageInputs(hook[h].stage)]
  /\ UNCHANGED <<rows, structure, scores, crashes>>

(* Faulty: a snapshot already there is kept, as getStandings would read it. *)
SnapshotOnce(h) ==
  LET s == hook[h].stage
  IN  /\ hook[h].pc = "snapshot"
      /\ snapshot' = [snapshot EXCEPT ![s] =
           IF @ = Null THEN TableFrom(hook[h].read.fixtures) ELSE @]
      /\ StandingsDone(h)
      /\ UNCHANGED <<rows, stage, division, events, scores, crashes>>

RecomputeWrite(h) ==
  /\ hook[h].pc = "snapshot"
  /\ snapshot' = [snapshot EXCEPT ![hook[h].stage] = TableFrom(hook[h].read.fixtures)]
  /\ StandingsDone(h)
  /\ UNCHANGED <<rows, stage, division, events, scores, crashes>>

(* maybeAutoAdvance: its own reading of "just finished".                    *)
AutoCheck(h) ==
  LET s == hook[h].stage
  IN  /\ hook[h].pc = "check"
      /\ IF /\ AutoProgress /\ stage[s].status # "complete"
            /\ \A f \in Existing(s) : fixture[f].status \in {"decided", "forfeited"}
         THEN hook' = [hook EXCEPT ![h].pc = "load", ![h].auto = TRUE]
         ELSE Done(h)
      /\ UNCHANGED <<rows, structure, scores, crashes>>

(***************************************************************************)
(* completeStage: complete, seed the next stage, generate it - or end the   *)
(* division.                                                                *)
(***************************************************************************)
CompleteRead(h) ==
  /\ hook[h].pc = "load"
  /\ hook' = [hook EXCEPT ![h].pc = "complete",
                          ![h].read = StageInputs(hook[h].stage)]
  /\ UNCHANGED <<rows, structure, scores, crashes>>

(* Under the lock, over the inputs read before it.                          *)
CompleteWrite(h) ==
  LET s == hook[h].stage
      inputs == hook[h].read
  IN  /\ hook[h].pc = "complete"
      /\ \/ /\ inputs.status = "complete"
            /\ Goto(h, "seed")
            /\ UNCHANGED structure
         \/ /\ inputs.status # "complete" /\ ~StageReady(s, inputs.fixtures)
            /\ CompleteReturns(h)
            /\ UNCHANGED structure
         \/ /\ inputs.status # "complete" /\ StageReady(s, inputs.fixtures)
            /\ snapshot' = IF IsTable(s)
                           THEN [snapshot EXCEPT ![s] = TableFrom(inputs.fixtures)]
                           ELSE snapshot
            /\ stage' = [stage EXCEPT ![s].status = "complete"]
            /\ AppendDivisionEvent(h, "stage_completed", s)
            /\ Goto(h, "seed")
      /\ UNCHANGED <<rows, scores, crashes>>

Unseeded(s) == stage[s].qualified = Null

(* seedNextStage under the lock, from the snapshot as it is now.            *)
Seed(h) ==
  LET s == hook[h].stage
  IN  /\ hook[h].pc = "seed"
      /\ \/ /\ s = NStages
            /\ Goto(h, "finish")
            /\ UNCHANGED structure
         \/ /\ s < NStages /\ ~Unseeded(s + 1)
            /\ hook' = [hook EXCEPT ![h].pc = "generate", ![h].target = s + 1]
            /\ UNCHANGED structure
         \/ /\ s < NStages /\ Unseeded(s + 1)
            /\ stage' = [stage EXCEPT ![s + 1].qualified = snapshot[s]]
            /\ AppendDivisionEvent(h, "stage_seeded", s + 1)
            /\ hook' = [hook EXCEPT ![h].pc = "generate", ![h].target = s + 1]
            /\ UNCHANGED snapshot
      /\ UNCHANGED <<rows, scores, crashes>>

(* Faulty: a completed division completed again.                            *)
FinishedAgain == \A s \in Stages : stage[s].status = "complete"

DivisionFinished ==
  /\ \A s \in Stages : stage[s].status = "complete"
  /\ division.status # "completed"

FinishDivision(h) ==
  /\ hook[h].pc = "finish"
  /\ IF DivisionFinished
     THEN /\ events' = Append(events, [type |-> "division_completed",
                                       stage |-> hook[h].stage])
          /\ division' = [status |-> "completed", seq |-> Len(events) + 1]
     ELSE UNCHANGED <<division, events>>
  /\ CompleteReturns(h)
  /\ UNCHANGED <<rows, stage, snapshot, scores, crashes>>

(* generateStageFixtures reads the stage row before it takes the lock.       *)
GenerateRead(h) ==
  /\ hook[h].pc = "generate"
  /\ hook' = [hook EXCEPT ![h].pc = "build",
                          ![h].read = [status |-> stage[hook[h].target].status]]
  /\ UNCHANGED <<rows, structure, scores, crashes>>

(* Faulty: every generation makes its stage active.                         *)
Reactivated(read, status) == "active"

(* Judged on the row read before the lock.                                  *)
Activated(read, status) == IF read.status = "pending" THEN "active" ELSE status

(* Under the lock.  It may trip on what is not modelled (a paywall, too few
   active entrants): then nothing is written.                               *)
GenerateFixtures(h) ==
  LET s == hook[h].target
      new == ToGenerate(s)
  IN  /\ hook[h].pc = "build"
      /\ \/ UNCHANGED <<fixture, stage, division, events>>
         \/ /\ ~GeneratorRefuses(s)
            /\ fixture' = [f \in Fixtures |->
                 IF f \in new THEN [status |-> "open", outcome |-> Null]
                 ELSE fixture[f]]
            /\ stage' = [stage EXCEPT ![s].status = Activated(hook[h].read, @)]
            /\ IF new # {} THEN AppendDivisionEvent(h, "fixtures_generated", s)
               ELSE UNCHANGED <<division, events>>
      /\ CompleteReturns(h)
      /\ UNCHANGED <<slot, rankLocks, snapshot, scores, crashes>>

(* stage_auto_advanced: max(seq) read and inserted without the lock, so an
   event committed in between makes the insert violate unique(division, seq)
   and the hook swallow it.                                                 *)
MarkRead(h) ==
  /\ hook[h].pc = "mark"
  /\ hook' = [hook EXCEPT ![h].pc = "insert", ![h].read = [seq |-> Len(events)]]
  /\ UNCHANGED <<rows, structure, scores, crashes>>

MarkInsert(h) ==
  /\ hook[h].pc = "insert"
  /\ IF hook[h].read.seq = Len(events)
     THEN AppendDivisionEvent(h, "stage_auto_advanced", hook[h].stage)
     ELSE UNCHANGED <<division, events>>
  /\ Done(h)
  /\ UNCHANGED <<rows, stage, snapshot, scores, crashes>>

(* Whether g's locked transaction is about to insert into division_events.  *)
Appends(g) ==
  LET q == hook[g]
  IN  CASE q.pc = "complete" -> /\ q.read.status # "complete"
                                /\ StageReady(q.stage, q.read.fixtures)
        [] q.pc = "seed" -> q.stage < NStages /\ Unseeded(q.stage + 1)
        [] q.pc = "finish" -> DivisionFinished
        [] q.pc = "build" -> ToGenerate(q.target) # {} /\ ~GeneratorRefuses(q.target)
        [] OTHER -> FALSE

(* The unlocked insert gets in between g's max(seq) and g's insert: the unique
   constraint rolls g's whole transaction back.  completeStage survives that
   only in its best-effort generation.                                      *)
MarkInsertTears(h, g) ==
  /\ h # g /\ hook[h].pc = "insert" /\ hook[h].read.seq = Len(events)
  /\ Appends(g)
  /\ AppendDivisionEvent(h, "stage_auto_advanced", hook[h].stage)
  /\ hook' = [hook EXCEPT ![h] = Idle,
                ![g] = IF @.pc = "build" /\ @.auto
                       THEN [@ EXCEPT !.pc = "mark", !.read = Null] ELSE Idle]
  /\ UNCHANGED <<rows, stage, snapshot, scores, crashes>>

(***************************************************************************)
(* Organisers, and requests that die.                                       *)
(***************************************************************************)
Begin(h, request) == hook[h].pc = "idle" /\ hook' = [hook EXCEPT ![h] = request]

(* Faulty: a completed stage cannot be completed again.                     *)
CompletesOpenStage(h, s) ==
  /\ stage[s].status # "complete"
  /\ Begin(h, [Idle EXCEPT !.pc = "load", !.stage = s])
  /\ UNCHANGED <<rows, structure, scores, crashes>>

OrganiserCompletes(h, s) ==
  /\ Begin(h, [Idle EXCEPT !.pc = "load", !.stage = s])
  /\ UNCHANGED <<rows, structure, scores, crashes>>

(* Faulty: a stage generated by hand without asking for its seeding.        *)
GenerateUnseeded(h, s) ==
  /\ Begin(h, [Idle EXCEPT !.pc = "generate", !.stage = s, !.target = s])
  /\ UNCHANGED <<rows, structure, scores, crashes>>

(* generateStageFixtures by hand, with its check of the previous stage.     *)
OrganiserGenerates(h, s) ==
  /\ \/ /\ s = 1 \/ ~Unseeded(s)
        /\ Begin(h, [Idle EXCEPT !.pc = "generate", !.stage = s, !.target = s])
     \/ /\ s > 1 /\ Unseeded(s) /\ stage[s - 1].status = "complete"
        /\ Begin(h, [Idle EXCEPT !.pc = "seed", !.stage = s - 1])
  /\ UNCHANGED <<rows, structure, scores, crashes>>

(* getStandings folds the table when there is none yet, of any kind of stage. *)
ReadStandings(h, s) ==
  /\ s \in Watched /\ snapshot[s] = Null
  /\ Begin(h, [Idle EXCEPT !.pc = "recompute", !.stage = s])
  /\ UNCHANGED <<rows, structure, scores, crashes>>

Crash(h) ==
  /\ hook[h].pc # "idle" /\ crashes < MaxCrashes
  /\ crashes' = crashes + 1
  /\ Done(h)
  /\ UNCHANGED <<rows, structure, scores>>

Transaction(h) ==
  \/ ReadConfig(h) \/ FillAndPin(h) \/ RecomputeRead(h) \/ RecomputeWrite(h)
  \/ AutoCheck(h) \/ CompleteRead(h) \/ CompleteWrite(h) \/ Seed(h)
  \/ FinishDivision(h) \/ GenerateRead(h) \/ GenerateFixtures(h) \/ MarkRead(h)
  \/ MarkInsert(h)

Next ==
  \E h \in Handlers :
    \/ Transaction(h) \/ Crash(h)
    \/ \E g \in Handlers : MarkInsertTears(h, g)
    \/ \E f \in Fixtures : Score(h, f)
    \/ \E s \in Stages : \/ OrganiserCompletes(h, s) \/ OrganiserGenerates(h, s)
                         \/ ReadStandings(h, s)

Spec == Init /\ [][Next]_vars

(* Requests the server accepted run on unless they crash, and an organiser who
   keeps pressing Complete gets through while a handler keeps coming free.
   Nobody is obliged to score.                                              *)
FairSpec ==
  /\ Spec
  /\ \A h \in Handlers : WF_vars(Transaction(h))
  /\ \A s \in Stages : SF_vars(\E h \in Handlers : OrganiserCompletes(h, s))

(***************************************************************************)
(* Properties.                                                              *)
(***************************************************************************)
EventTypes == {"fixtures_generated", "stage_completed", "stage_seeded",
               "division_completed", "stage_auto_advanced"}

(* Types of the rows and of a request's program counter.                    *)
TypeOK ==
  /\ fixture \in [Fixtures ->
       [status : {"absent", "open", "decided", "finalized", "forfeited", "abandoned"},
        outcome : Outcomes \cup {Null}]]
  /\ slot \in [Fixtures -> Entrants \cup {Null}]
  /\ rankLocks \in [Stages -> [Entrants -> Ranks \cup {Null}]]
  /\ stage \in [Stages -> [status : {"pending", "active", "complete"},
                           qualified : Tables \cup {Null}]]
  /\ snapshot \in [Stages -> Tables \cup {Null}]
  /\ division \in [status : {"active", "completed"}, seq : Nat]
  /\ events \in Seq([type : EventTypes, stage : Stages])
  /\ \A h \in Handlers :
       hook[h].pc \in {"idle", "config", "fill", "recompute", "snapshot", "check",
                       "load", "complete", "seed", "finish", "generate", "build",
                       "mark", "insert"}

Occurrences(type, s) ==
  {i \in DOMAIN events : events[i] = [type |-> type, stage |-> s]}
Quiet == \A h \in Handlers : hook[h].pc = "idle"

(* divisions.seq, what undo and the schedule editors compare against, is always
   the seq of the last division_event, although some writers append under the
   division lock, one does not, and completion starts from a row read before
   the lock (completeStageIfReady, maybeAutoAdvance).                       *)
WatermarkIsTip == division.seq = Len(events)

(* However many requests complete and generate a division at once, every stage
   is seeded once, a stage's fixtures (a swiss stage's rounds) are generated
   once each, and the division is completed once.                           *)
StructureOnce ==
  /\ \A s \in Stages :
       /\ Cardinality(Occurrences("stage_seeded", s)) <= 1
       /\ Cardinality(Occurrences("fixtures_generated", s)) <=
            Cardinality({RoundOf[f] : f \in InStage(s)})
       /\ Kind[s] # "swiss" => Cardinality(Occurrences("fixtures_generated", s)) <= 1
  /\ Cardinality({i \in DOMAIN events : events[i].type = "division_completed"}) <= 1

(* The division ledger only ever says: the previous stage completed, then this
   one seeded, then this one generated, and the division completed after all
   its stages - whoever crashed or raced in between, by button or by hook
   (completeStage, generateStageFixtures).                                  *)
StructureInOrder ==
  \A i \in DOMAIN events :
    LET s == events[i].stage
        Before(type, r) == \E j \in Occurrences(type, r) : j < i
    IN  CASE events[i].type = "stage_seeded" -> Before("stage_completed", s - 1)
          [] events[i].type = "fixtures_generated" -> s > 1 => Before("stage_seeded", s)
          [] events[i].type = "division_completed" ->
               \A r \in Stages : Before("stage_completed", r)
          [] OTHER -> TRUE

(* A seed list, a completed stage and a completed division stand, with one
   exception: a generator that read the stage while it was pending, and gets the
   lock when it has been generated, played and completed, sets it back to active
   (generateStageFixtures, seedNextStage).                                  *)
AdvancementStands ==
  [][/\ \A s \in Stages :
          /\ stage[s].qualified # Null => stage'[s].qualified = stage[s].qualified
          /\ stage[s].status = "complete" =>
               \/ stage'[s].status = "complete"
               \/ \E h \in Handlers : /\ hook[h].pc = "build" /\ hook[h].target = s
                                      /\ hook[h].read.status = "pending"
                                      /\ GenerateFixtures(h)
     /\ division.status = "completed" => division'.status = "completed"]_vars

(* A winner sent on to the next fixture stays there, whatever is undone or
   decided otherwise later: both sides of a fixture stand (fillSlot).       *)
SlotsStand == [][\A f \in Fixtures : slot[f] # Null => slot'[f] = slot[f]]_vars

(* A swiss stage completes only after its configured number of rounds was
   paired, also when every round so far is decided (isTableStageComplete).  *)
CompletionCoversRounds ==
  \A s \in Stages : stage[s].status = "complete" /\ Kind[s] = "swiss" =>
    \A r \in 1..Rounds[s] : \E f \in Existing(s) : RoundOf[f] = r

(* "Standings, progression and public dashboards update on every entry": once
   every request has run to its end, a table stage's standings are those of its
   results.  Not so a knockout's: a reader stores them and no result refreshes
   them (getStandings, onDecided).                                          *)
StandingsCatchUp ==
  Quiet /\ crashes = 0 =>
    \A s \in Stages : IsTable(s) /\ snapshot[s] # Null =>
      \A f \in Existing(s) :
        fixture[f].outcome = IF f \in DOMAIN snapshot[s] THEN snapshot[s][f] ELSE Null

(* A next stage "can never seed from a half-finished pool set".             *)
SeededFromFinishedStage ==
  \A s \in Stages : stage[s].qualified # Null =>
    \A f \in DOMAIN stage[s].qualified : stage[s].qualified[f] # Null

(* "The decided fixture writes rank locks": with every request at its end, who
   won and who lost a placement game hold the ranks it decides - or one decided
   by another placement game they are in, which replaces what they held.    *)
PlacementsPinned ==
  Quiet /\ crashes = 0 =>
    \A f \in Placements :
      LET o == fixture[f].outcome
          rank == rankLocks[StageOf[f]]
          Elsewhere(e) == \E g \in Placements \ {f} :
                            /\ StageOf[g] = StageOf[f] /\ e \in Sides(g)
                            /\ rank[e] \in {Place[g].winner, Place[g].loser}
      IN  o # Null /\ o.kind = "win" =>
            /\ rank[o.winner] = Place[f].winner \/ Elsewhere(o.winner)
            /\ rank[o.loser] = Place[f].loser \/ Elsewhere(o.loser)

(* A stage that stays ready is eventually complete and the next one seeded, and
   when all do the division is completed, whatever crashed on the way, if an
   organiser keeps completing: the idempotent re-run picks up a completion that
   died before its seeding (completeStage).                                 *)
ReadyStagesProgress ==
  LET Ready(s) == StageReady(s, [f \in Existing(s) |-> fixture[f]])
  IN  /\ \A s \in Stages :
           <>[]Ready(s) => <>(/\ stage[s].status = "complete"
                              /\ s < NStages => ~Unseeded(s + 1))
      /\ (\A s \in Stages : <>[]Ready(s)) => <>(division.status = "completed")
=============================================================================
