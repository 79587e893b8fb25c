------------------------- MODULE FixtureLedgerProofs ------------------------
(***************************************************************************)
(* Proofs about FixtureLedger: what appendEvent, rebuildState and the       *)
(* re-snapshot hatch keep true of one fixture, for every menu of events,    *)
(* every set of configs and every bound.  The fold is opaque: nothing here  *)
(* depends on what a sport module computes, only on who folds what under    *)
(* which config.                                                            *)
(***************************************************************************)
EXTENDS FixtureLedger, Induction, TLAPS

(* One step of the ledger, by kind: the case split every proof below uses.  *)
LEMMA LedgerStepCases ==
  ASSUME [LedgerNext]_ledgerVars
  PROVE  \/ \E k \in Keys, by \in DeviceLinks \cup {Null} : AppendEvent(k, by)
         \/ EditConfig
         \/ RebuildState
         \/ ResnapshotFixtureConfig
         \/ UNCHANGED ledgerVars
BY DEF LedgerNext

LEMMA StepIsNext == [LedgerStep]_ledgerVars => [LedgerNext]_ledgerVars
BY DEF LedgerStep

(* The rows always have their types and seq numbers the ledger from 1 with
   no gap: the max(seq) + 1 that appendEvent assigns under the lock.        *)
THEOREM LedgerTypeCorrect == LedgerSpec => []LedgerTypeOK
<1>1. LedgerInit => LedgerTypeOK
  BY DEF LedgerInit, LedgerTypeOK
<1>2. LedgerTypeOK /\ [LedgerNext]_ledgerVars => LedgerTypeOK'
  <2> SUFFICES ASSUME LedgerTypeOK, [LedgerNext]_ledgerVars
               PROVE  LedgerTypeOK'
    OBVIOUS
  <2>1. ASSUME NEW k \in Keys, NEW by \in DeviceLinks \cup {Null},
               AppendEvent(k, by)
        PROVE  LedgerTypeOK'
    <3>1. PICK m \in Menu : \E target \in EventTargets(m.type) :
            /\ Validates(ResolveFixtureCfg, NewEvent(m, target, k, by))
            /\ RecordEvent(ResolveFixtureCfg, NewEvent(m, target, k, by))
      BY <2>1 DEF AppendEvent
    <3>2. PICK target \in EventTargets(m.type) :
            /\ Validates(ResolveFixtureCfg, NewEvent(m, target, k, by))
            /\ RecordEvent(ResolveFixtureCfg, NewEvent(m, target, k, by))
      BY <3>1
    <3> DEFINE event == NewEvent(m, target, k, by)
    <3>3. Len(ledger) \in Nat
      BY DEF LedgerTypeOK
    <3>4. target \in Nat \cup {Null}
      BY <3>3 DEF EventTargets
    <3>5. event \in EventOf /\ event.seq = Len(ledger) + 1
      BY <3>3, <3>4 DEF EventOf, NewEvent
    <3>6. ledger' = Append(ledger, event)
      BY <3>2 DEF RecordEvent
    <3>7. /\ ledger' \in Seq(EventOf)
          /\ \A i \in DOMAIN ledger' : ledger'[i].seq = i
      BY <3>3, <3>5, <3>6 DEF LedgerTypeOK
    <3>8. ResolveFixtureCfg \in Cfgs
      BY DEF ResolveFixtureCfg, LedgerTypeOK
    <3>9. /\ fixture' = [status |-> fixture'.status, outcome |-> fixture'.outcome,
                         snapshot |-> fixture'.snapshot]
          /\ fixture'.snapshot \in Cfgs \cup {Null}
      BY <3>2, <3>8 DEF RecordEvent, LedgerTypeOK
    <3> QED
      BY <2>1, <3>7, <3>9 DEF AppendEvent, LedgerTypeOK
  <2>2. CASE EditConfig
    BY <2>2 DEF EditConfig, LedgerTypeOK
  <2>3. CASE RebuildState
    BY <2>3 DEF RebuildState, LedgerTypeOK
  <2>4. CASE ResnapshotFixtureConfig
    BY <2>4 DEF ResnapshotFixtureConfig, LedgerTypeOK
  <2>5. CASE UNCHANGED ledgerVars
    BY <2>5 DEF ledgerVars, LedgerTypeOK
  <2> QED
    BY <2>1, <2>2, <2>3, <2>4, <2>5, LedgerStepCases
<1> QED
  BY <1>1, <1>2, StepIsNext, PTL DEF LedgerSpec

(* The inductive invariant behind every statement about the cached result:
   a fixture with history has a frozen config, its ledger folds under that
   config, and the cached rows are that fold.                              *)
Folded ==
  ledger # <<>> =>
    LET state == FoldMatch(fixture.snapshot, ledger)
    IN  /\ fixture.snapshot # Null
        /\ state # Refused
        /\ matchState = [lastSeq |-> Len(ledger), state |-> state]
        /\ fixture.outcome = state.outcome

Unscored ==
  ledger = <<>> =>
    fixture.snapshot = Null /\ matchState = Null /\ fixture.outcome = Null

CacheInv == LedgerTypeOK /\ Folded /\ Unscored

LEMMA CacheInvInductive == LedgerSpec => []CacheInv
<1>1. LedgerInit => Folded /\ Unscored
  BY DEF LedgerInit, Folded, Unscored
<1>2. ASSUME CacheInv, [LedgerNext]_ledgerVars
      PROVE  Folded' /\ Unscored'
  <2> USE <1>2, FixtureLedgerAssumption DEF CacheInv
  <2>1. ASSUME NEW k \in Keys, NEW by \in DeviceLinks \cup {Null},
               AppendEvent(k, by)
        PROVE  Folded' /\ Unscored'
    <3>1. PICK m \in Menu : \E target \in EventTargets(m.type) :
            /\ Validates(ResolveFixtureCfg, NewEvent(m, target, k, by))
            /\ RecordEvent(ResolveFixtureCfg, NewEvent(m, target, k, by))
      BY <2>1 DEF AppendEvent
    <3>2. PICK target \in EventTargets(m.type) :
            /\ Validates(ResolveFixtureCfg, NewEvent(m, target, k, by))
            /\ RecordEvent(ResolveFixtureCfg, NewEvent(m, target, k, by))
      BY <3>1
    <3> DEFINE event == NewEvent(m, target, k, by)
               state == FoldMatch(ResolveFixtureCfg, Append(ledger, event))
    <3>3. /\ state # Refused
          /\ ledger' = Append(ledger, event)
          /\ matchState' = [lastSeq |-> event.seq, state |-> state]
      BY <3>2 DEF Validates, RecordEvent
    <3>4. ledger' # <<>> /\ Len(ledger') = Len(ledger) + 1
      BY <3>3 DEF LedgerTypeOK
    <3>5. fixture'.snapshot = ResolveFixtureCfg
      <4>1. CASE ledger = <<>>
        BY <3>2, <4>1 DEF RecordEvent, ResolveFixtureCfg, Unscored, FreezesCfg,
           LedgerTypeOK
      <4>2. CASE ledger # <<>>
        BY <3>2, <4>2 DEF RecordEvent, ResolveFixtureCfg, Folded, FreezesCfg,
           LedgerTypeOK
      <4> QED BY <4>1, <4>2
    <3>6. fixture'.outcome = state.outcome
      BY <3>2 DEF RecordEvent, RowMoves, LedgerTypeOK
    <3>7. ResolveFixtureCfg # Null
      BY DEF ResolveFixtureCfg, LedgerTypeOK
    <3>8. event.seq = Len(ledger')
      BY <3>4 DEF NewEvent
    <3> HIDE DEF state, event
    <3>9. FoldMatch(fixture'.snapshot, ledger') = state
      BY <3>3, <3>5 DEF state
    <3> QED
      BY <3>3, <3>4, <3>5, <3>6, <3>7, <3>8, <3>9 DEF Folded, Unscored
  <2>2. CASE EditConfig
    BY <2>2 DEF EditConfig, Folded, Unscored
  <2>3. CASE RebuildState
    <3>1. ledger # <<>> /\ ledger' = ledger
      BY <2>3 DEF RebuildState
    <3>2. ResolveFixtureCfg = fixture.snapshot
      BY <3>1 DEF Folded, ResolveFixtureCfg
    <3>3. fixture' = fixture /\ matchState' = matchState
      BY <2>3, <3>1, <3>2 DEF RebuildState, Folded, LedgerTypeOK
    <3> QED
      BY <3>1, <3>3 DEF Folded, Unscored
  <2>4. CASE ResnapshotFixtureConfig
    <3>1. ledger # <<>> /\ ledger' = ledger
      BY <2>4 DEF ResnapshotFixtureConfig, Unscored
    <3>2. divisionCfg # Null
      BY DEF LedgerTypeOK
    <3> QED
      BY <2>4, <3>1, <3>2 DEF ResnapshotFixtureConfig, Folded, Unscored
  <2>5. CASE UNCHANGED ledgerVars
    BY <2>5 DEF ledgerVars, Folded, Unscored
  <2> QED
    BY <2>1, <2>2, <2>3, <2>4, <2>5, LedgerStepCases
<1> QED
  BY <1>1, <1>2, StepIsNext, LedgerTypeCorrect, PTL DEF LedgerSpec, CacheInv

(* match_states and fixtures.outcome are the fold of the ledger, always.    *)
THEOREM CacheCorrect == LedgerSpec => []CacheIsFold
<1>1. CacheInv => CacheIsFold
  BY DEF CacheInv, CacheIsFold, Folded, Unscored, ResolveFixtureCfg
<1> QED
  BY <1>1, CacheInvInductive, PTL

(* No config edit and no re-snapshot ever makes a recorded ledger unreadable. *)
THEOREM ReplayCorrect == LedgerSpec => []LedgerReplays
<1>1. CacheInv => LedgerReplays
  BY DEF CacheInv, LedgerReplays, Folded, ResolveFixtureCfg
<1> QED
  BY <1>1, CacheInvInductive, PTL

(* Nothing about a finalized fixture ever changes again.                    *)
THEOREM FinalizedStays == LedgerSpec => FinalizedIsFinal
<1>1. CacheInv /\ [LedgerNext]_ledgerVars =>
        [fixture.status = "finalized" => UNCHANGED <<fixture, ledger>>]_ledgerVars
  <2> SUFFICES ASSUME CacheInv, [LedgerNext]_ledgerVars,
                      fixture.status = "finalized"
               PROVE  UNCHANGED <<fixture, ledger>>
    OBVIOUS
  <2>1. "finalized" \in Locked
    BY DEF Locked
  <2>2. ASSUME NEW k \in Keys, NEW by \in DeviceLinks \cup {Null},
               AppendEvent(k, by)
        PROVE  FALSE
    BY <2>1, <2>2 DEF AppendEvent
  <2>3. CASE EditConfig
    BY <2>3 DEF EditConfig
  <2>4. CASE RebuildState
    BY <2>4 DEF RebuildState, CacheInv, Folded, ResolveFixtureCfg, LedgerTypeOK
  <2>5. CASE ResnapshotFixtureConfig
    BY <2>1, <2>5 DEF ResnapshotFixtureConfig
  <2>6. CASE UNCHANGED ledgerVars
    BY <2>6 DEF ledgerVars
  <2> QED
    BY <2>2, <2>3, <2>4, <2>5, <2>6, LedgerStepCases
<1> QED
  BY <1>1, StepIsNext, CacheInvInductive, PTL DEF LedgerSpec, FinalizedIsFinal
(***************************************************************************)
(* The fold itself, for a ledger of any length.  It is a recursion over the *)
(* sets of places, which takes out the last place first.                    *)
(***************************************************************************)
LEMMA PlacesAre ==
  ASSUME NEW N \in Nat, NEW S \in SUBSET (1..N)
  PROVE  \A n \in S : n \in Nat /\ n # 0 /\ n <= N
<1>1. S \subseteq 1..N
  OBVIOUS
<1> QED
  BY <1>1

LEMMA LastPlace ==
  ASSUME NEW N \in Nat, NEW S \in SUBSET (1..N), S # {}
  PROVE  /\ Max(S) \in S
         /\ \A n \in S : n <= Max(S)
<1>1. \A n \in S : n \in Nat /\ n <= N
  BY PlacesAre
<1>2. PICK m \in S : \A n \in S : n <= m
  BY <1>1, GreatestNatural
<1>3. \A n \in S : m >= n
  BY <1>1, <1>2
<1>4. Max(S) \in S /\ \A n \in S : Max(S) >= n
  BY <1>3 DEF Max
<1> QED
  BY <1>1, <1>4

(* What the recursion asks of a function on the sets in D.                  *)
Folding(g, cfg, events, D) ==
  g = [s \in D |-> IF s = {} THEN FoldInit
                   ELSE FoldStep(cfg, g[s \ {Max(s)}], events[Max(s)])]

LEMMA FoldingExists ==
  ASSUME NEW cfg, NEW events, NEW N \in Nat
  PROVE  \E g : Folding(g, cfg, events, SUBSET (1..N))
<1> DEFINE G == {n \in Nat : \E g : Folding(g, cfg, events, SUBSET (1..n))}
<1>1. 0 \in G
  <2>1. \A s \in SUBSET (1..0) : s = {}
    OBVIOUS
  <2>2. Folding([s \in SUBSET (1..0) |-> FoldInit], cfg, events, SUBSET (1..0))
    BY <2>1 DEF Folding
  <2> QED
    BY <2>2
<1>2. ASSUME NEW n \in 0..(N - 1), n \in G
      PROVE  n + 1 \in G
  <2>1. PICK g : Folding(g, cfg, events, SUBSET (1..n))
    BY <1>2
  <2> DEFINE D == SUBSET (1..n)
             E == SUBSET (1..(n + 1))
             h == [s \in E |-> IF s = {} THEN FoldInit
                               ELSE FoldStep(cfg, g[s \ {Max(s)}], events[Max(s)])]
  <2>2. ASSUME NEW s \in E, s # {}
        PROVE  s \ {Max(s)} \in D
    <3>1. n + 1 \in Nat /\ s \in SUBSET (1..(n + 1))
      BY <1>2
    <3>2. Max(s) \in s /\ \A k \in s : k <= Max(s)
      BY <2>2, <3>1, LastPlace
    <3>3. \A k \in s : k \in Nat /\ k # 0 /\ k <= n + 1
      BY <3>1, PlacesAre
    <3>4. ASSUME NEW k \in s, k # Max(s) PROVE k \in 1..n
      <4>1. k \in Nat /\ k # 0 /\ k <= Max(s) /\ Max(s) \in Nat /\ Max(s) <= n + 1
        BY <3>2, <3>3
      <4>2. n \in Nat
        BY <1>2
      <4> QED
        BY <3>4, <4>1, <4>2
    <3> QED
      BY <3>4
  <2>3. \A s \in D : s \in E
    BY <1>2
  <2>4. \A s \in D : g[s] = h[s]
    <3> HIDE DEF E
    <3> QED
      BY <2>1, <2>3 DEF Folding
  <2>5. \A s \in E : h[s] = IF s = {} THEN FoldInit
                            ELSE FoldStep(cfg, h[s \ {Max(s)}], events[Max(s)])
    <3> HIDE DEF E, D
    <3> QED BY <2>2, <2>4
  <2>6. Folding(h, cfg, events, E)
    <3> HIDE DEF E
    <3> QED BY <2>5 DEF Folding
  <2> HIDE DEF h
  <2> QED
    BY <1>2, <2>6
<1>3. \A n \in 0..N : n \in G
  <2> HIDE DEF G
  <2> QED BY <1>1, <1>2, UpTo
<1>4. N \in 0..N
  OBVIOUS
<1> QED
  BY <1>3, <1>4

LEMMA FoldUnfolds ==
  ASSUME NEW cfg, NEW events, NEW N \in Nat, NEW S \in SUBSET (1..N)
  PROVE  \E g : Folding(g, cfg, events, SUBSET S) /\ FoldOver(cfg, events, S) = g[S]
<1> DEFINE iter[s \in SUBSET S] ==
      IF s = {} THEN FoldInit
      ELSE FoldStep(cfg, iter[s \ {Max(s)}], events[Max(s)])
<1>1. FoldOver(cfg, events, S) = iter[S]
  BY DEF FoldOver, MapThenFoldSet
<1>2. PICK g : Folding(g, cfg, events, SUBSET (1..N))
  BY FoldingExists
<1> DEFINE h == [s \in SUBSET S |-> g[s]]
<1>3. h = [s \in SUBSET S |-> IF s = {} THEN FoldInit
                              ELSE FoldStep(cfg, h[s \ {Max(s)}], events[Max(s)])]
  BY <1>2 DEF Folding
<1>4. \E f : f = [s \in SUBSET S |->
                    IF s = {} THEN FoldInit
                    ELSE FoldStep(cfg, f[s \ {Max(s)}], events[Max(s)])]
  <2> HIDE DEF h
  <2> QED BY <1>3
<1>5. iter = [s \in SUBSET S |->
                IF s = {} THEN FoldInit
                ELSE FoldStep(cfg, iter[s \ {Max(s)}], events[Max(s)])]
  BY <1>4
<1>6. Folding(iter, cfg, events, SUBSET S)
  BY <1>5 DEF Folding
<1> QED
  BY <1>1, <1>6

LEMMA PlacesFinite ==
  ASSUME NEW N \in Nat, NEW S \in SUBSET (1..N)
  PROVE  IsFiniteSet(S)
<1>1. IsFiniteSet(1..N)
  BY FS_Interval
<1>2. S \subseteq 1..N
  OBVIOUS
<1> QED
  BY <1>1, <1>2, FS_Subset

(* Streams that agree on the places folded have the same fold.              *)
Agree(events, more, S) == \A n \in S : events[n] = more[n]
Folds(g, cfg, events, S) == Folding(g, cfg, events, SUBSET S)
Places(S) == \E N \in Nat : S \in SUBSET (1..N)
Of(T, S) == T \subseteq S

LEMMA FoldingSame ==
  ASSUME NEW cfg, NEW events, NEW more, NEW S, NEW T, Places(S), Of(T, S),
         Agree(events, more, T), NEW g, NEW h,
         Folds(g, cfg, events, S), Folds(h, cfg, more, T)
  PROVE  g[T] = h[T]
<1>0. PICK N \in Nat : S \in SUBSET (1..N) /\ T \in SUBSET S
  BY DEF Places, Of
<1> DEFINE G == {s \in SUBSET T : g[s] = h[s]}
<1>1. ASSUME NEW s \in SUBSET T, \A U \in SUBSET s : U # s => U \in G
      PROVE  s \in G
  <2>1. CASE s = {}
    BY <2>1 DEF Folding, Folds
  <2>2. CASE s # {}
    <3>1. Max(s) \in s
      BY <1>0, <2>2, LastPlace
    <3>2. s \ {Max(s)} \in G
      BY <1>0, <1>1, <3>1
    <3>3. events[Max(s)] = more[Max(s)]
      BY <3>1 DEF Agree
    <3>4. /\ g[s] = FoldStep(cfg, g[s \ {Max(s)}], events[Max(s)])
          /\ h[s] = FoldStep(cfg, h[s \ {Max(s)}], more[Max(s)])
      BY <1>0, <2>2 DEF Folding, Folds
    <3> QED
      BY <3>2, <3>3, <3>4
  <2> QED
    BY <2>1, <2>2
<1>2. IsFiniteSet(T)
  BY <1>0, PlacesFinite
<1>3. \A s \in SUBSET T : s \in G
  <2> HIDE DEF G
  <2> QED BY <1>1, <1>2, SubsetInduction
<1> QED
  BY <1>3

LEMMA FoldSame ==
  ASSUME NEW cfg, NEW events, NEW more, NEW N \in Nat, NEW S \in SUBSET (1..N),
         Agree(events, more, S)
  PROVE  FoldOver(cfg, events, S) = FoldOver(cfg, more, S)
<1>1. PICK g : Folding(g, cfg, events, SUBSET S) /\ FoldOver(cfg, events, S) = g[S]
  BY FoldUnfolds
<1>2. PICK h : Folding(h, cfg, more, SUBSET S) /\ FoldOver(cfg, more, S) = h[S]
  BY FoldUnfolds
<1>3. Places(S) /\ Of(S, S) /\ Folds(g, cfg, events, S) /\ Folds(h, cfg, more, S)
  BY <1>1, <1>2 DEF Places, Folds, Of
<1>4. g[S] = h[S]
  BY <1>3, FoldingSame
<1> QED
  BY <1>1, <1>2, <1>4

LEMMA FoldNone == \A cfg, events : FoldOver(cfg, events, {}) = FoldInit
<1> TAKE cfg, events
<1>1. {} \in SUBSET (1..0) /\ 0 \in Nat
  OBVIOUS
<1>2. PICK g : Folding(g, cfg, events, SUBSET {}) /\ FoldOver(cfg, events, {}) = g[{}]
  BY <1>1, FoldUnfolds
<1> QED
  BY <1>2 DEF Folding

(* The recursion equation.                                                  *)
LEMMA FoldLast ==
  ASSUME NEW cfg, NEW events, NEW N \in Nat, NEW S \in SUBSET (1..N), S # {}
  PROVE  FoldOver(cfg, events, S)
           = FoldStep(cfg, FoldOver(cfg, events, S \ {Max(S)}), events[Max(S)])
<1> DEFINE T == S \ {Max(S)}
<1>1. PICK g : Folding(g, cfg, events, SUBSET S) /\ FoldOver(cfg, events, S) = g[S]
  BY FoldUnfolds
<1>2. T \in SUBSET (1..N) /\ T \in SUBSET S /\ T \in SUBSET T
  OBVIOUS
<1>3. PICK h : Folding(h, cfg, events, SUBSET T) /\ FoldOver(cfg, events, T) = h[T]
  <2> HIDE DEF T
  <2> QED BY <1>2, FoldUnfolds
<1>4. g[T] = h[T]
  <2>1. Agree(events, events, T) /\ Of(T, S)
    BY DEF Agree, Of
  <2>2. Places(S) /\ Folds(g, cfg, events, S) /\ Folds(h, cfg, events, T)
    BY <1>1, <1>3 DEF Places, Folds
  <2> HIDE DEF T
  <2> QED
    BY <2>1, <2>2, FoldingSame
<1>5. g[S] = FoldStep(cfg, g[T], events[Max(S)])
  BY <1>1 DEF Folding
<1> HIDE DEF T
<1> QED
  BY <1>1, <1>3, <1>4, <1>5 DEF T

(* One more event behind those folded so far.                               *)
LEMMA FoldNext ==
  ASSUME NEW cfg, NEW events, NEW N \in Nat, NEW S \in SUBSET (1..N)
  PROVE  FoldOver(cfg, events, S \cup {N + 1})
           = FoldStep(cfg, FoldOver(cfg, events, S), events[N + 1])
<1> DEFINE T == S \cup {N + 1}
<1>1. N + 1 \in Nat /\ T \in SUBSET (1..(N + 1)) /\ T # {}
  OBVIOUS
<1>2. Max(T) = N + 1
  <2>1. Max(T) \in T /\ \A n \in T : n <= Max(T)
    <3> HIDE DEF T
    <3> QED BY <1>1, LastPlace
  <2>2. Max(T) \in 1..(N + 1) /\ N + 1 <= Max(T)
    BY <1>1, <2>1
  <2> HIDE DEF T
  <2> QED
    BY <2>2
<1>3. T \ {N + 1} = S
  <2>1. N + 1 \notin 1..N
    OBVIOUS
  <2> QED
    BY <2>1
<1>4. FoldOver(cfg, events, T)
        = FoldStep(cfg, FoldOver(cfg, events, T \ {Max(T)}), events[Max(T)])
  <2> HIDE DEF T
  <2> QED BY <1>1, FoldLast
<1> HIDE DEF T
<1> QED
  BY <1>2, <1>3, <1>4 DEF T

(***************************************************************************)
(* What one event does to a state that is not refused.                      *)
(***************************************************************************)
CardOK(event) ==
  event.type = "generic.result" => event.payload.winner \in Sides \cup {Null}

StateOK(cfg, s) ==
  /\ s = [phase |-> s.phase, score |-> s.score, outcome |-> s.outcome,
          running |-> s.running]
  /\ s.phase \in {"pre", "live", "done", "final"}
  /\ s.outcome \in Outcomes \cup {Null}
  /\ s.outcome # Null <=> OverYet(s)
  /\ s.outcome = Draw => cfg.allowDraws

(* How a result came about.                                                 *)
Played(o) == o = Draw \/ \E side \in Sides : o = Win(side)
Awarded(o) == \E side \in Sides : o = Award(side)

LEMMA OutcomesAre ==
  /\ Null \notin Outcomes /\ Draw \in Outcomes /\ NoResult \in Outcomes
  /\ \A side \in Sides : /\ Win(side) \in Outcomes /\ Award(side) \in Outcomes
                         /\ Played(Win(side)) /\ Awarded(Award(side))
                         /\ Win(side) # Draw /\ Award(side) # Draw
  /\ Played(Draw) /\ NoResult # Draw
  /\ \A o : Played(o) => o.kind \in {"win", "draw"} /\ o \in Outcomes
  /\ \A o : Awarded(o) => o.kind = "award" /\ o \in Outcomes
<1>1. Null \notin Outcomes
  BY FixtureLedgerAssumption
<1>2. /\ \A side \in Sides : Win(side).kind = "win" /\ Award(side).kind = "award"
      /\ Draw.kind = "draw" /\ NoResult.kind = "no_result"
  BY DEF Win, Award, Draw, NoResult
<1> QED
  BY <1>1, <1>2 DEF Outcomes, Played, Awarded

LEMMA ResultOK ==
  ASSUME NEW cfg, NEW s, StateOK(cfg, s), NEW card, card.winner \in Sides \cup {Null},
         ApplyResult(cfg, s, card) # Refused
  PROVE  LET next == ApplyResult(cfg, s, card)
         IN  StateOK(cfg, next) /\ s.outcome = Null /\ Played(next.outcome)
<1> DEFINE winner == CardWinner(cfg, s, card)
           o == IF winner = Null THEN Draw ELSE Win(winner)
           next == [s EXCEPT !.phase = "done", !.score = CardScore(s, card), !.outcome = o]
<1>1. /\ ~OverYet(s) /\ CardAccepted(cfg, s, card)
      /\ ApplyResult(cfg, s, card) = next
  BY DEF ApplyResult
<1>2. winner \in Sides \cup {Null}
  BY DEF CardWinner, Leader, Sides
<1>3. winner = Null => cfg.allowDraws
  BY <1>1 DEF CardAccepted
<1>4. o \in Outcomes /\ Played(o) /\ (o = Draw => cfg.allowDraws)
  <2> HIDE DEF winner
  <2> QED BY <1>2, <1>3, OutcomesAre
<1>5. /\ next = [phase |-> "done", score |-> CardScore(s, card), outcome |-> o,
                 running |-> s.running]
      /\ s.outcome = Null
  <2> HIDE DEF o
  <2> QED BY <1>1 DEF StateOK
<1> HIDE DEF o
<1>6. /\ next.phase = "done" /\ next.outcome = o
      /\ next = [phase |-> next.phase, score |-> next.score, outcome |-> next.outcome,
                 running |-> next.running]
  <2> HIDE DEF next
  <2> QED BY <1>5
<1> HIDE DEF next
<1> QED
  BY <1>1, <1>4, <1>5, <1>6, OutcomesAre DEF StateOK, OverYet

LEMMA ApplyOK ==
  ASSUME NEW cfg, NEW s, StateOK(cfg, s), NEW event, CardOK(event),
         Apply(cfg, s, event) # Refused
  PROVE  LET next == Apply(cfg, s, event)
         IN  /\ StateOK(cfg, next)
             /\ s.outcome # Null => next.outcome = s.outcome
             /\ s.phase = "final" => next.phase = "final"
             /\ event.type = "core.finalize" => next.phase = "final"
             /\ event.type = "core.abandon" => next.outcome = NoResult
             /\ event.type = "core.forfeit" => Awarded(next.outcome)
             /\ \/ next.outcome = s.outcome \/ Played(next.outcome)
                \/ event.type \in {"core.abandon", "core.forfeit"}
             /\ event.type \in {"core.note", "core.award"} => next = s
             /\ event.type = "core.finalize" => s.outcome # Null
<1>0. /\ s = [phase |-> s.phase, score |-> s.score, outcome |-> s.outcome,
              running |-> s.running]
      /\ s.phase \in {"pre", "live", "done", "final"}
      /\ s.outcome # Null <=> OverYet(s)
  BY DEF StateOK
<1>1. CASE event.type = "generic.result"
  <2>1. Apply(cfg, s, event) = ApplyResult(cfg, s, event.payload)
    BY <1>1 DEF Apply
  <2>2. event.payload.winner \in Sides \cup {Null}
    BY <1>1 DEF CardOK
  <2>3. StateOK(cfg, Apply(cfg, s, event)) /\ s.outcome = Null /\ Played(Apply(cfg, s, event).outcome)
    BY <2>1, <2>2, ResultOK
  <2> QED
    BY <1>0, <1>1, <2>3 DEF OverYet
<1>2. CASE event.type = "core.start"
  <2>1. s.phase = "pre" /\ Apply(cfg, s, event) = [s EXCEPT !.phase = "live"]
    BY <1>2 DEF Apply
  <2>2. Apply(cfg, s, event) = [phase |-> "live", score |-> s.score, outcome |-> s.outcome,
                                running |-> s.running]
    BY <1>0, <2>1
  <2> QED
    BY <1>0, <1>2, <2>1, <2>2 DEF StateOK, OverYet
<1>3. CASE event.type = "generic.score"
  <2>1. ~OverYet(s) /\ \E r : Apply(cfg, s, event) = [s EXCEPT !.running = r]
    BY <1>3 DEF Apply, ApplyScore
  <2>2. PICK r : Apply(cfg, s, event) = [s EXCEPT !.running = r]
    BY <2>1
  <2>3. Apply(cfg, s, event) = [phase |-> s.phase, score |-> s.score, outcome |-> s.outcome,
                                running |-> r]
    BY <1>0, <2>2
  <2> QED
    BY <1>0, <1>3, <2>1, <2>3 DEF StateOK, OverYet
<1>4. CASE event.type \in {"core.forfeit", "core.abandon"}
  <2> DEFINE o == IF event.type = "core.forfeit" THEN Award(Opponent(event.payload.by))
                  ELSE NoResult
  <2>1. ~OverYet(s) /\ Apply(cfg, s, event) = [s EXCEPT !.phase = "done", !.outcome = o]
    BY <1>4 DEF Apply
  <2>2. Opponent(event.payload.by) \in Sides
    BY DEF Opponent, Sides
  <2>3. /\ o \in Outcomes /\ o # Draw /\ o # Null
        /\ event.type = "core.forfeit" => Awarded(o)
        /\ event.type = "core.abandon" => o = NoResult
    BY <1>4, <2>2, OutcomesAre
  <2> HIDE DEF o
  <2>4. Apply(cfg, s, event) = [phase |-> "done", score |-> s.score, outcome |-> o,
                                running |-> s.running]
    BY <1>0, <2>1
  <2> DEFINE next == Apply(cfg, s, event)
  <2>5. /\ next.phase = "done" /\ next.outcome = o
        /\ next = [phase |-> next.phase, score |-> next.score,
                   outcome |-> next.outcome, running |-> next.running]
    <3> HIDE DEF next
    <3> QED BY <2>4 DEF next
  <2> HIDE DEF next
  <2>6. StateOK(cfg, next)
    BY <2>3, <2>5 DEF StateOK, OverYet
  <2>7. s.outcome = Null /\ s.phase # "final"
    BY <1>0, <2>1 DEF OverYet
  <2> QED
    BY <1>4, <2>3, <2>5, <2>6, <2>7 DEF next
<1>5. CASE event.type = "core.finalize"
  <2>1. s.phase = "done" /\ Apply(cfg, s, event) = [s EXCEPT !.phase = "final"]
    BY <1>5 DEF Apply
  <2>2. Apply(cfg, s, event) = [phase |-> "final", score |-> s.score, outcome |-> s.outcome,
                                running |-> s.running]
    BY <1>0, <2>1
  <2> QED
    BY <1>0, <1>5, <2>1, <2>2 DEF StateOK, OverYet
<1>6. CASE event.type \in {"core.note", "core.award"}
  <2>1. Apply(cfg, s, event) = s
    BY <1>6 DEF Apply
  <2> QED
    BY <1>6, <2>1
<1> QED
  BY <1>1, <1>2, <1>3, <1>4, <1>5, <1>6 DEF Apply

(***************************************************************************)
(* What one event does to the fold, and what holds after any of them.       *)
(***************************************************************************)
AccOK(cfg, acc) ==
  /\ acc = [state |-> acc.state, decided |-> acc.decided, stopped |-> acc.stopped]
  /\ StateOK(cfg, acc.state)
  /\ acc.decided <=> acc.state.outcome # Null

EndsStoppage == {"core.resume", "core.abandon", "core.forfeit"}

LEMMA RefusedIsNot ==
  ASSUME NEW cfg, NEW s, StateOK(cfg, s)
  PROVE  s # Refused
BY DEF StateOK, Refused

LEMMA StepOK ==
  ASSUME NEW cfg, NEW acc, AccOK(cfg, acc), NEW event, CardOK(event),
         FoldStep(cfg, acc, event).state # Refused
  PROVE  LET next == FoldStep(cfg, acc, event)
         IN  /\ AccOK(cfg, next)
             /\ acc.state.outcome # Null => next.state.outcome = acc.state.outcome
             /\ acc.state.phase = "final" => next.state.phase = "final"
             /\ event.type = "core.finalize" => next.state.phase = "final"
             /\ event.type = "core.abandon" => next.state.outcome = NoResult
             /\ event.type = "core.forfeit" => Awarded(next.state.outcome)
             /\ \/ next.state.outcome = acc.state.outcome \/ Played(next.state.outcome)
                \/ event.type \in {"core.abandon", "core.forfeit"}
             /\ event.type = "core.suspend" => next.stopped
             /\ acc.stopped /\ event.type \notin EndsStoppage => next.stopped
             /\ acc.stopped => event.type \in DuringStoppage
             /\ event.type = "core.note" => next.state = acc.state
<1>0. /\ acc = [state |-> acc.state, decided |-> acc.decided, stopped |-> acc.stopped]
      /\ StateOK(cfg, acc.state) /\ acc.state # Refused
      /\ acc.decided <=> acc.state.outcome # Null
  BY RefusedIsNot DEF AccOK
<1>1. ~Barred(acc, event)
  <2>1. ASSUME Barred(acc, event) PROVE FALSE
    <3>1. FoldStep(cfg, acc, event) = [acc EXCEPT !.state = Refused]
      BY <1>0, <2>1 DEF FoldStep
    <3> QED
      BY <1>0, <3>1
  <2> QED
    BY <2>1
<1>2. acc.stopped => event.type \in DuringStoppage
  BY <1>1 DEF Barred
<1>3. CASE event.type = "core.suspend"
  <2>1. FoldStep(cfg, acc, event) = [acc EXCEPT !.stopped = TRUE]
    BY <1>0, <1>1, <1>3 DEF FoldStep
  <2>2. FoldStep(cfg, acc, event)
          = [state |-> acc.state, decided |-> acc.decided, stopped |-> TRUE]
    BY <1>0, <2>1
  <2> QED
    BY <1>0, <1>2, <1>3, <2>2 DEF AccOK, EndsStoppage
<1>4. CASE event.type = "core.resume"
  <2>1. FoldStep(cfg, acc, event) = [acc EXCEPT !.stopped = FALSE]
    BY <1>0, <1>1, <1>4 DEF FoldStep
  <2>2. FoldStep(cfg, acc, event)
          = [state |-> acc.state, decided |-> acc.decided, stopped |-> FALSE]
    BY <1>0, <2>1
  <2> QED
    BY <1>0, <1>2, <1>4, <2>2 DEF AccOK, EndsStoppage
<1>5. CASE event.type \notin {"core.suspend", "core.resume"}
  <2> DEFINE s == Apply(cfg, acc.state, event)
  <2>1. FoldStep(cfg, acc, event) = ApplyToModule(cfg, acc, event)
    BY <1>0, <1>1, <1>5 DEF FoldStep
  <2>2. s # Refused
    <3>1. ASSUME s = Refused PROVE FALSE
      <4>1. FoldStep(cfg, acc, event) = [acc EXCEPT !.state = Refused]
        BY <2>1, <3>1 DEF ApplyToModule
      <4> QED
        BY <1>0, <4>1
    <3> QED
      BY <3>1
  <2>3. FoldStep(cfg, acc, event)
          = [state   |-> s,
             decided |-> acc.decided \/ s.outcome # Null,
             stopped |-> acc.stopped /\ (acc.decided \/ s.outcome = Null)]
    BY <2>1, <2>2 DEF ApplyToModule
  <2>4. /\ StateOK(cfg, s)
        /\ acc.state.outcome # Null => s.outcome = acc.state.outcome
        /\ acc.state.phase = "final" => s.phase = "final"
        /\ event.type = "core.finalize" => s.phase = "final"
        /\ event.type = "core.abandon" => s.outcome = NoResult
        /\ event.type = "core.forfeit" => Awarded(s.outcome)
        /\ \/ s.outcome = acc.state.outcome \/ Played(s.outcome)
           \/ event.type \in {"core.abandon", "core.forfeit"}
        /\ event.type \in {"core.note", "core.award"} => s = acc.state
        /\ event.type = "core.finalize" => acc.state.outcome # Null
    BY <1>0, <2>2, ApplyOK
  <2> HIDE DEF s
  <2>5. acc.stopped /\ event.type \notin EndsStoppage
          => event.type \in {"core.note", "core.award", "core.finalize"}
    BY <1>2 DEF DuringStoppage, EndsStoppage
  <2>6. acc.stopped /\ event.type \notin EndsStoppage => acc.decided \/ s.outcome = Null
    BY <1>0, <2>4, <2>5
  <2> DEFINE next == FoldStep(cfg, acc, event)
  <2>7. /\ next.state = s /\ next.decided = (acc.decided \/ s.outcome # Null)
        /\ next.stopped = (acc.stopped /\ (acc.decided \/ s.outcome = Null))
        /\ next = [state |-> next.state, decided |-> next.decided, stopped |-> next.stopped]
    <3> HIDE DEF next
    <3> QED BY <2>3 DEF next
  <2> HIDE DEF next
  <2>8. AccOK(cfg, next)
    BY <1>0, <2>4, <2>7 DEF AccOK
  <2>9. event.type # "core.suspend"
    BY <1>5
  <2> QED
    BY <1>2, <2>4, <2>6, <2>7, <2>8, <2>9 DEF next
<1> QED
  BY <1>3, <1>4, <1>5

(* An active suspension that nothing has ended, and what is recorded under one. *)
Suspended(events, T) ==
  \E i \in T : /\ events[i].type = "core.suspend"
               /\ \A n \in T : i < n => events[n].type \notin EndsStoppage
RecordsNothing(events, T) ==
  \A i, j \in T :
    /\ i < j /\ events[i].type = "core.suspend"
    /\ \A n \in T : i < n /\ n < j => events[n].type \notin EndsStoppage
    => events[j].type \in DuringStoppage

HasType(events, T, type) == \E i \in T : events[i].type = type

FoldOK(cfg, events, T) ==
  LET acc == FoldOver(cfg, events, T)
  IN  acc.state # Refused =>
        /\ AccOK(cfg, acc)
        /\ HasType(events, T, "core.abandon") => acc.state.outcome = NoResult
        /\ HasType(events, T, "core.forfeit") => Awarded(acc.state.outcome)
        /\ HasType(events, T, "core.finalize") =>
             acc.state.phase = "final" /\ acc.state.outcome # Null
        /\ \/ acc.state.outcome = Null \/ Played(acc.state.outcome)
           \/ HasType(events, T, "core.abandon") \/ HasType(events, T, "core.forfeit")
        /\ Suspended(events, T) => acc.stopped
        /\ RecordsNothing(events, T)

LEMMA InitOK == \A cfg : AccOK(cfg, FoldInit) /\ FoldInit.state.outcome = Null
                         /\ FoldInit.state = InitState
<1> TAKE cfg
<1>1. Null # Draw
  BY OutcomesAre
<1> QED
  BY <1>1 DEF AccOK, FoldInit, InitState, StateOK, OverYet

LEMMA RefusedStays ==
  ASSUME NEW cfg, NEW acc, NEW event, FoldStep(cfg, acc, event).state # Refused
  PROVE  acc.state # Refused
BY DEF FoldStep

LEMMA FoldKeeps ==
  ASSUME NEW cfg, NEW events, NEW N \in Nat, NEW S \in SUBSET (1..N),
         \A i \in S : CardOK(events[i])
  PROVE  FoldOK(cfg, events, S)
<1> DEFINE G == {T \in SUBSET S : FoldOK(cfg, events, T)}
<1>1. ASSUME NEW T \in SUBSET S, \A U \in SUBSET T : U # T => U \in G
      PROVE  T \in G
  <2>1. CASE T = {}
    <3>1. FoldOver(cfg, events, T) = FoldInit
      BY <2>1, FoldNone
    <3> QED
      BY <2>1, <3>1, InitOK DEF FoldOK, HasType, Suspended, RecordsNothing
  <2>2. CASE T # {}
    <3> DEFINE m == Max(T)
               U == T \ {m}
               acc == FoldOver(cfg, events, U)
               next == FoldOver(cfg, events, T)
    <3>1. T \in SUBSET (1..N)
      OBVIOUS
    <3>2. m \in T /\ \A n \in T : n <= m
      BY <2>2, <3>1, LastPlace
    <3>3. \A n \in T : n \in Nat
      BY <3>1, PlacesAre
    <3>4. U \in G /\ T = U \cup {m} /\ m \notin U /\ CardOK(events[m])
      BY <1>1, <3>2
    <3>5. \A n \in U : n < m
      <4> SUFFICES ASSUME NEW n \in U PROVE n < m
        OBVIOUS
      <4>1. n \in Nat /\ m \in Nat /\ n <= m /\ n # m
        BY <3>2, <3>3
      <4> HIDE DEF U, m
      <4> QED BY <4>1
    <3>6. next = FoldStep(cfg, acc, events[m])
      BY <2>2, <3>1, FoldLast
    <3> SUFFICES ASSUME next.state # Refused PROVE FoldOK(cfg, events, T)
      BY DEF FoldOK
    <3>7. FoldOK(cfg, events, U) /\ acc.state # Refused
      <4> HIDE DEF next, acc, U, m
      <4> QED BY <3>4, <3>6, RefusedStays
    <3>8. /\ AccOK(cfg, acc)
          /\ HasType(events, U, "core.abandon") => acc.state.outcome = NoResult
          /\ HasType(events, U, "core.forfeit") => Awarded(acc.state.outcome)
          /\ HasType(events, U, "core.finalize") =>
               acc.state.phase = "final" /\ acc.state.outcome # Null
          /\ \/ acc.state.outcome = Null \/ Played(acc.state.outcome)
             \/ HasType(events, U, "core.abandon") \/ HasType(events, U, "core.forfeit")
          /\ Suspended(events, U) => acc.stopped
          /\ RecordsNothing(events, U)
      BY <3>7 DEF FoldOK
    <3> HIDE DEF next, acc, U, m
    <3>9. /\ AccOK(cfg, next)
          /\ acc.state.outcome # Null => next.state.outcome = acc.state.outcome
          /\ acc.state.phase = "final" => next.state.phase = "final"
          /\ events[m].type = "core.finalize" => next.state.phase = "final"
          /\ events[m].type = "core.abandon" => next.state.outcome = NoResult
          /\ events[m].type = "core.forfeit" => Awarded(next.state.outcome)
          /\ \/ next.state.outcome = acc.state.outcome \/ Played(next.state.outcome)
             \/ events[m].type \in {"core.abandon", "core.forfeit"}
          /\ events[m].type = "core.suspend" => next.stopped
          /\ acc.stopped /\ events[m].type \notin EndsStoppage => next.stopped
          /\ acc.stopped => events[m].type \in DuringStoppage
      BY <3>4, <3>6, <3>8, StepOK
    <3>10. \A type : HasType(events, T, type)
                       <=> HasType(events, U, type) \/ events[m].type = type
      BY <3>4 DEF HasType
    <3>11. /\ HasType(events, T, "core.abandon") => next.state.outcome = NoResult
           /\ HasType(events, T, "core.forfeit") => Awarded(next.state.outcome)
           /\ \/ next.state.outcome = Null \/ Played(next.state.outcome)
              \/ HasType(events, T, "core.abandon") \/ HasType(events, T, "core.forfeit")
      BY <3>8, <3>9, <3>10, OutcomesAre
    <3>12. HasType(events, T, "core.finalize") =>
             next.state.phase = "final" /\ next.state.outcome # Null
      <4>1. next.state.phase = "final" => next.state.outcome # Null
        BY <3>9 DEF AccOK, StateOK, OverYet
      <4> QED
        BY <3>8, <3>9, <3>10, <4>1
    <3>13. Suspended(events, T) => next.stopped
      <4> SUFFICES ASSUME NEW i \in T, events[i].type = "core.suspend",
                          \A n \in T : i < n => events[n].type \notin EndsStoppage
                   PROVE  next.stopped
        BY DEF Suspended
      <4>1. CASE i = m
        BY <3>9, <4>1
      <4>2. CASE i # m
        <5>1. i \in U /\ i < m
          BY <3>4, <3>5, <4>2
        <5>2. Suspended(events, U)
          BY <3>4, <5>1 DEF Suspended
        <5> QED
          BY <3>4, <3>8, <3>9, <5>1, <5>2
      <4> QED
        BY <4>1, <4>2
    <3>14. RecordsNothing(events, T)
      <4> SUFFICES ASSUME NEW i \in T, NEW j \in T, i < j, events[i].type = "core.suspend",
                          \A n \in T : i < n /\ n < j => events[n].type \notin EndsStoppage
                   PROVE  events[j].type \in DuringStoppage
        BY DEF RecordsNothing
      <4>1. i # m /\ i \in U
        BY <3>2, <3>3, <3>4
      <4>2. CASE j = m
        <5>1. \A n \in U : i < n => events[n].type \notin EndsStoppage
          BY <3>4, <3>5, <4>2
        <5>2. Suspended(events, U)
          BY <4>1, <5>1 DEF Suspended
        <5> QED
          BY <3>8, <3>9, <4>2, <5>2
      <4>3. CASE j # m
        BY <3>4, <3>8, <4>1, <4>3 DEF RecordsNothing
      <4> QED
        BY <4>2, <4>3
    <3> QED
      BY <3>9, <3>11, <3>12, <3>13, <3>14 DEF FoldOK, next
  <2> QED
    BY <2>1, <2>2
<1>2. IsFiniteSet(S) /\ S \in SUBSET S
  BY PlacesFinite
<1>3. \A T \in SUBSET S : T \in G
  <2> HIDE DEF G
  <2> QED BY <1>1, <1>2, SubsetInduction
<1> QED
  BY <1>2, <1>3

(* Two configs that both read a ledger read the same in it: an edit can make
   it unreadable, never make it say something else.                         *)
LEMMA ApplySame ==
  ASSUME NEW c, NEW d, NEW s, NEW event,
         Apply(c, s, event) # Refused, Apply(d, s, event) # Refused
  PROVE  Apply(c, s, event) = Apply(d, s, event)
<1>1. CASE event.type = "generic.result"
  <2> DEFINE card == event.payload
  <2>1. /\ Apply(c, s, event) = ApplyResult(c, s, card)
        /\ Apply(d, s, event) = ApplyResult(d, s, card)
    BY <1>1 DEF Apply
  <2>2. CardAccepted(c, s, card) /\ CardAccepted(d, s, card) /\ ~OverYet(s)
    BY <2>1 DEF ApplyResult
  <2>3. CardWinner(c, s, card) = CardWinner(d, s, card)
    BY <2>2 DEF CardAccepted, CardWinner
  <2> QED
    BY <2>1, <2>2, <2>3 DEF ApplyResult
<1>2. CASE event.type # "generic.result"
  BY <1>2 DEF Apply
<1> QED
  BY <1>1, <1>2

LEMMA StepSame ==
  ASSUME NEW c, NEW d, NEW acc, AccOK(c, acc), NEW event,
         FoldStep(c, acc, event).state # Refused, FoldStep(d, acc, event).state # Refused
  PROVE  FoldStep(c, acc, event) = FoldStep(d, acc, event)
<1>0. /\ acc.state # Refused
      /\ acc = [state |-> acc.state, decided |-> acc.decided, stopped |-> acc.stopped]
  BY RefusedStays DEF AccOK
<1>1. CASE Barred(acc, event) \/ event.type \in {"core.suspend", "core.resume"}
  BY <1>0, <1>1 DEF FoldStep
<1>2. CASE ~(Barred(acc, event) \/ event.type \in {"core.suspend", "core.resume"})
  <2>1. /\ FoldStep(c, acc, event) = ApplyToModule(c, acc, event)
        /\ FoldStep(d, acc, event) = ApplyToModule(d, acc, event)
    BY <1>0, <1>2 DEF FoldStep
  <2>2. [acc EXCEPT !.state = Refused].state = Refused
    BY <1>0
  <2>3. Apply(c, acc.state, event) # Refused /\ Apply(d, acc.state, event) # Refused
    BY <2>1, <2>2 DEF ApplyToModule
  <2> QED
    BY <2>1, <2>3, ApplySame DEF ApplyToModule
<1> QED
  BY <1>1, <1>2

CardsAt(events, S) == \A i \in S : CardOK(events[i])
Reads(cfg, events, S) == FoldOver(cfg, events, S).state # Refused

LEMMA FoldConfigFree ==
  ASSUME NEW c, NEW d, NEW events, NEW N \in Nat, NEW S \in SUBSET (1..N),
         CardsAt(events, S), Reads(c, events, S), Reads(d, events, S)
  PROVE  FoldOver(c, events, S) = FoldOver(d, events, S)
<1>0. \A i \in S : CardOK(events[i])
  BY DEF CardsAt
<1> DEFINE Read(T) == FoldOver(c, events, T).state # Refused
                      /\ FoldOver(d, events, T).state # Refused
           G == {T \in SUBSET S : Read(T) => FoldOver(c, events, T) = FoldOver(d, events, T)}
<1>1. ASSUME NEW T \in SUBSET S, \A U \in SUBSET T : U # T => U \in G
      PROVE  T \in G
  <2>1. CASE T = {}
    BY <2>1, FoldNone
  <2>2. CASE T # {}
    <3> DEFINE m == Max(T)
               U == T \ {m}
    <3>1. T \in SUBSET (1..N) /\ U \in SUBSET (1..N) /\ \A i \in U : CardOK(events[i])
      BY <1>0
    <3>2. m \in T
      BY <2>2, <3>1, LastPlace
    <3>3. /\ FoldOver(c, events, T) = FoldStep(c, FoldOver(c, events, U), events[m])
          /\ FoldOver(d, events, T) = FoldStep(d, FoldOver(d, events, U), events[m])
      BY <2>2, <3>1, FoldLast
    <3>4. U \in G
      BY <1>1, <3>2
    <3>5. FoldOK(c, events, U)
      <4> HIDE DEF U
      <4> QED BY <3>1, FoldKeeps
    <3> HIDE DEF m, U
    <3> SUFFICES ASSUME Read(T) PROVE FoldOver(c, events, T) = FoldOver(d, events, T)
      OBVIOUS
    <3>6. Read(U)
      BY <3>3, RefusedStays
    <3>7. AccOK(c, FoldOver(c, events, U)) /\ FoldOver(c, events, U) = FoldOver(d, events, U)
      BY <3>4, <3>5, <3>6 DEF FoldOK
    <3> QED
      BY <3>3, <3>7, StepSame
  <2> QED
    BY <2>1, <2>2
<1>2. IsFiniteSet(S) /\ S \in SUBSET S /\ Read(S)
  BY PlacesFinite DEF Reads
<1>3. \A T \in SUBSET S : T \in G
  <2> HIDE DEF G
  <2> QED BY <1>1, <1>2, SubsetInduction
<1> QED
  BY <1>2, <1>3

(***************************************************************************)
(* One more event in the ledger.                                            *)
(***************************************************************************)
Numbered(events) == \A i \in DOMAIN events : events[i].seq = i
CardsOK(events) == \A i \in DOMAIN events : CardOK(events[i])

LEMMA AppendIs ==
  ASSUME NEW R, NEW events \in Seq(R), NEW e
  PROVE  /\ Append(events, e) \in Seq(R \cup {e})
         /\ Append(events, e) # <<>> /\ Len(events) \in Nat
         /\ Len(Append(events, e)) = Len(events) + 1
         /\ DOMAIN events = 1..Len(events)
         /\ DOMAIN Append(events, e) = 1..(Len(events) + 1)
         /\ \A i \in 1..Len(events) : Append(events, e)[i] = events[i]
         /\ Append(events, e)[Len(events) + 1] = e
<1>1. events \in Seq(R \cup {e}) /\ e \in R \cup {e}
  OBVIOUS
<1> QED
  BY <1>1

(* The places that survive are places of the ledger; a ledger that reads has
   every void resolved, and the facts of its fold.                          *)
LEMMA LedgerFolds ==
  ASSUME NEW R, NEW events \in Seq(R), NEW cfg, CardsOK(events),
         FoldMatch(cfg, events) # Refused
  PROVE  /\ VoidsResolve(events)
         /\ Len(events) \in Nat /\ ResolveVoids(events) \in SUBSET (1..Len(events))
         /\ \A i \in ResolveVoids(events) : CardOK(events[i])
         /\ FoldMatch(cfg, events) = FoldOver(cfg, events, ResolveVoids(events)).state
         /\ FoldOK(cfg, events, ResolveVoids(events))
<1>1. VoidsResolve(events)
  BY DEF FoldMatch, FoldWithStoppage, FoldInit
<1>2. Len(events) \in Nat /\ ResolveVoids(events) \in SUBSET (1..Len(events))
  BY DEF ResolveVoids
<1>3. \A i \in ResolveVoids(events) : CardOK(events[i])
  BY DEF ResolveVoids, CardsOK
<1>4. FoldOK(cfg, events, ResolveVoids(events))
  BY <1>2, <1>3, FoldKeeps
<1> QED
  BY <1>1, <1>2, <1>3, <1>4 DEF FoldMatch, FoldWithStoppage

LEMMA Survivors ==
  ASSUME NEW R, NEW events \in Seq(R), NEW e, Numbered(events),
         e.type # "core.void", e.seq = Len(events) + 1
  PROVE  /\ VoidsResolve(Append(events, e)) <=> VoidsResolve(events)
         /\ VoidsResolve(events) =>
              ResolveVoids(Append(events, e)) = ResolveVoids(events) \cup {Len(events) + 1}
<1> DEFINE more == Append(events, e)
           N == Len(events)
<1>1. /\ N \in Nat /\ DOMAIN events = 1..N /\ DOMAIN more = 1..(N + 1)
      /\ \A i \in 1..N : more[i] = events[i]
      /\ more[N + 1] = e
  BY AppendIs
<1> HIDE DEF more, N
<1>2. \A i \in 1..N : i \in 1..(N + 1)
  BY <1>1
<1>3. \A i \in 1..(N + 1) : i = N + 1 \/ i \in 1..N
  BY <1>1
<1>4. VoidsResolve(more) <=> VoidsResolve(events)
  <2>1. ASSUME NEW i \in 1..N, NEW j \in 1..(i - 1) PROVE j \in 1..N
    BY <1>1
  <2> QED
    BY <1>1, <1>2, <1>3, <2>1 DEF VoidsResolve
<1>5. Voided(more) = Voided(events)
  BY <1>1, <1>2, <1>3 DEF Voided
<1>6. ASSUME VoidsResolve(events)
      PROVE  ResolveVoids(more) = ResolveVoids(events) \cup {N + 1}
  <2>1. N + 1 \notin Voided(events)
    <3>1. ASSUME NEW i \in 1..N, events[i].type = "core.void", events[i].voids = N + 1
          PROVE  FALSE
      <4>1. N + 1 \in 1..(i - 1)
        BY <1>1, <1>6, <3>1 DEF VoidsResolve
      <4> QED
        BY <1>1, <4>1
    <3> QED
      BY <1>1, <3>1 DEF Voided
  <2>2. more[N + 1].type # "core.void" /\ more[N + 1].seq = N + 1
    BY <1>1 DEF N
  <2>3. N + 1 \in DOMAIN more
    BY <1>1
  <2> QED
    BY <1>1, <1>2, <1>3, <1>5, <2>1, <2>2, <2>3 DEF ResolveVoids
<1> QED
  BY <1>4, <1>6 DEF more, N

(* An event that cancels nothing is one more iteration of the fold loop.    *)
LEMMA AppendFolds ==
  ASSUME NEW R, NEW events \in Seq(R), NEW e, NEW cfg, Numbered(events),
         e.type # "core.void", e.seq = Len(events) + 1, VoidsResolve(events)
  PROVE  FoldMatch(cfg, Append(events, e))
           = FoldStep(cfg, FoldOver(cfg, events, ResolveVoids(events)), e).state
<1> DEFINE more == Append(events, e)
           N == Len(events)
           S == ResolveVoids(events)
<1>1. N \in Nat /\ more[N + 1] = e /\ \A i \in 1..N : more[i] = events[i]
  BY AppendIs
<1>2. S \in SUBSET (1..N)
  BY DEF ResolveVoids
<1>3. VoidsResolve(more) /\ ResolveVoids(more) = S \cup {N + 1}
  BY Survivors
<1>4. FoldMatch(cfg, more) = FoldOver(cfg, more, S \cup {N + 1}).state
  BY <1>3 DEF FoldMatch, FoldWithStoppage
<1> HIDE DEF more, N, S
<1>5. FoldOver(cfg, more, S \cup {N + 1}) = FoldStep(cfg, FoldOver(cfg, more, S), more[N + 1])
  BY <1>1, <1>2, FoldNext
<1>6. Agree(events, more, S)
  BY <1>1, <1>2 DEF Agree
<1>7. FoldOver(cfg, more, S) = FoldOver(cfg, events, S)
  BY <1>1, <1>2, <1>6, FoldSame
<1> QED
  BY <1>1, <1>4, <1>5, <1>7 DEF more, S

(***************************************************************************)
(* The ledger and the rules of the fold.                                    *)
(***************************************************************************)
(* What appendEvent committed, read back from the row it wrote.             *)
Committed(event) ==
  LET state == FoldMatch(fixture'.snapshot, ledger')
  IN  /\ event.seq = Len(ledger) + 1 /\ CardOK(event)
      /\ ledger' = Append(ledger, event)
      /\ fixture'.snapshot = ResolveFixtureCfg
      /\ state # Refused
      /\ state.outcome = Draw => SupportsDraws(fixture'.snapshot, StageKind)
      /\ fixture'.outcome = state.outcome
      /\ fixture'.status = NextStatus(event.type, state.outcome, ActiveTypes(ledger'))

LEMMA AppendRecords ==
  ASSUME CacheInv, NEW k \in Keys, NEW by \in DeviceLinks \cup {Null},
         AppendEvent(k, by)
  PROVE  \E event : Committed(event)
<1> USE FixtureLedgerAssumption DEF CacheInv
<1>1. PICK m \in Menu : \E target \in EventTargets(m.type) :
        /\ Validates(ResolveFixtureCfg, NewEvent(m, target, k, by))
        /\ RecordEvent(ResolveFixtureCfg, NewEvent(m, target, k, by))
  BY DEF AppendEvent
<1>2. PICK target \in EventTargets(m.type) :
        /\ Validates(ResolveFixtureCfg, NewEvent(m, target, k, by))
        /\ RecordEvent(ResolveFixtureCfg, NewEvent(m, target, k, by))
  BY <1>1
<1> DEFINE event == NewEvent(m, target, k, by)
           state == FoldMatch(ResolveFixtureCfg, Append(ledger, event))
<1>3. event.seq = Len(ledger) + 1 /\ CardOK(event)
  BY DEF NewEvent, CardOK
<1>4. /\ state # Refused
      /\ state.outcome = Draw => SupportsDraws(ResolveFixtureCfg, StageKind)
      /\ ledger' = Append(ledger, event)
  BY <1>2 DEF Validates, RecordEvent
<1>5. fixture'.snapshot = ResolveFixtureCfg
  <2>1. CASE ledger = <<>>
    BY <1>2, <2>1 DEF RecordEvent, ResolveFixtureCfg, Unscored, FreezesCfg, LedgerTypeOK
  <2>2. CASE ledger # <<>>
    BY <1>2, <2>2 DEF RecordEvent, ResolveFixtureCfg, Folded, FreezesCfg, LedgerTypeOK
  <2> QED BY <2>1, <2>2
<1>6. /\ fixture'.outcome = state.outcome
      /\ fixture'.status = NextStatus(event.type, state.outcome,
                                      ActiveTypes(Append(ledger, event)))
  BY <1>2 DEF RecordEvent, RowMoves, LedgerTypeOK
<1> HIDE DEF state, event
<1>7. FoldMatch(fixture'.snapshot, ledger') = state
  BY <1>4, <1>5 DEF state
<1> QED
  BY <1>3, <1>4, <1>5, <1>6, <1>7 DEF Committed

LEMMA LedgerCardsInductive == LedgerSpec => []CardsOK(ledger)
<1>1. LedgerInit => CardsOK(ledger)
  BY DEF LedgerInit, CardsOK
<1>2. CacheInv /\ CardsOK(ledger) /\ [LedgerNext]_ledgerVars => CardsOK(ledger)'
  <2> SUFFICES ASSUME CacheInv, CardsOK(ledger), [LedgerNext]_ledgerVars
               PROVE  CardsOK(ledger')
    BY DEF CardsOK, CardOK
  <2>1. ASSUME NEW k \in Keys, NEW by \in DeviceLinks \cup {Null},
               AppendEvent(k, by)
        PROVE  CardsOK(ledger')
    <3>1. PICK event : Committed(event)
      BY <2>1, AppendRecords
    <3>2. ledger \in Seq(EventOf) /\ ledger' = Append(ledger, event) /\ CardOK(event)
      BY <3>1 DEF Committed, CacheInv, LedgerTypeOK
    <3>3. /\ Len(ledger) \in Nat /\ DOMAIN ledger = 1..Len(ledger)
          /\ DOMAIN ledger' = 1..(Len(ledger) + 1)
          /\ \A i \in 1..Len(ledger) : ledger'[i] = ledger[i]
          /\ ledger'[Len(ledger) + 1] = event
      BY <3>2, AppendIs
    <3>4. \A i \in DOMAIN ledger' : i \in DOMAIN ledger \/ i = Len(ledger) + 1
      BY <3>3
    <3> QED
      BY <3>2, <3>3, <3>4 DEF CardsOK
  <2>2. CASE ledger' = ledger
    BY <2>2
  <2> QED
    BY <2>1, <2>2, LedgerStepCases DEF EditConfig, RebuildState, ResnapshotFixtureConfig,
       ledgerVars
<1> QED
  BY <1>1, <1>2, StepIsNext, CacheInvInductive, PTL DEF LedgerSpec

(* The fold facts about a ledger that has events, under its frozen config.  *)
LEMMA LedgerReads ==
  ASSUME CacheInv, CardsOK(ledger), ledger # <<>>
  PROVE  LET acc == FoldOver(fixture.snapshot, ledger, ResolveVoids(ledger))
         IN  /\ VoidsResolve(ledger)
             /\ Len(ledger) \in Nat /\ ResolveVoids(ledger) \in SUBSET (1..Len(ledger))
             /\ ResolveFixtureCfg = fixture.snapshot
             /\ FoldMatch(fixture.snapshot, ledger) = acc.state
             /\ acc.state # Refused /\ fixture.outcome = acc.state.outcome
             /\ FoldOK(fixture.snapshot, ledger, ResolveVoids(ledger))
             /\ AccOK(fixture.snapshot, acc)
<1>1. /\ ledger \in Seq(EventOf) /\ fixture.snapshot # Null
      /\ FoldMatch(fixture.snapshot, ledger) # Refused
      /\ fixture.outcome = FoldMatch(fixture.snapshot, ledger).outcome
  BY DEF CacheInv, LedgerTypeOK, Folded
<1>2. /\ VoidsResolve(ledger)
      /\ Len(ledger) \in Nat /\ ResolveVoids(ledger) \in SUBSET (1..Len(ledger))
      /\ FoldMatch(fixture.snapshot, ledger)
           = FoldOver(fixture.snapshot, ledger, ResolveVoids(ledger)).state
      /\ FoldOK(fixture.snapshot, ledger, ResolveVoids(ledger))
  BY <1>1, LedgerFolds
<1> QED
  BY <1>1, <1>2 DEF FoldOK, ResolveFixtureCfg

(* Nothing but annotations and the end of the stoppage is recorded between a
   surviving suspension and the resume that follows it.                     *)
THEOREM StoppageCorrect == LedgerSpec => []StoppageRecordsNothing
<1>1. CacheInv /\ CardsOK(ledger) => StoppageRecordsNothing
  <2> SUFFICES ASSUME CacheInv, CardsOK(ledger)
               PROVE  StoppageRecordsNothing
    OBVIOUS
  <2> DEFINE S == ResolveVoids(ledger)
  <2>1. CASE ledger = <<>>
    BY <2>1 DEF StoppageRecordsNothing, ResolveVoids
  <2>2. CASE ledger # <<>>
    <3>1. S \in SUBSET (1..Len(ledger)) /\ Len(ledger) \in Nat /\ RecordsNothing(ledger, S)
      BY <2>2, LedgerReads DEF FoldOK
    <3>2. \A n \in S : n \in Nat
      BY <3>1
    <3> HIDE DEF S
    <3> SUFFICES ASSUME NEW i \in S, NEW j \in S, i < j, ledger[i].type = "core.suspend",
                        \A n \in S \cap (i + 1)..(j - 1) :
                          ledger[n].type \notin {"core.resume", "core.abandon", "core.forfeit"}
                 PROVE  ledger[j].type \in DuringStoppage
      BY DEF StoppageRecordsNothing, S
    <3>3. ASSUME NEW n \in S, i < n, n < j PROVE n \in (i + 1)..(j - 1)
      BY <3>2, <3>3
    <3> QED
      BY <3>1, <3>3 DEF RecordsNothing, EndsStoppage
  <2> QED
    BY <2>1, <2>2
<1> QED
  BY <1>1, CacheInvInductive, LedgerCardsInductive, PTL

(* The status row: what it says is read off the surviving events.           *)
StatusInv ==
  IF fixture.status = "finalized"
  THEN ledger # <<>> /\ "core.finalize" \in ActiveTypes(ledger)
  ELSE fixture.status = StatusFromFold(fixture.outcome, ActiveTypes(ledger))

LEMMA StatusInvInductive == LedgerSpec => []StatusInv
<1>1. LedgerInit => StatusInv
  BY DEF LedgerInit, StatusInv, StatusFromFold, ActiveTypes, ResolveVoids
<1>2. CacheInv /\ StatusInv /\ [LedgerNext]_ledgerVars => StatusInv'
  <2> SUFFICES ASSUME CacheInv, StatusInv, [LedgerNext]_ledgerVars
               PROVE  StatusInv'
    OBVIOUS
  <2>1. ASSUME NEW k \in Keys, NEW by \in DeviceLinks \cup {Null},
               AppendEvent(k, by)
        PROVE  StatusInv'
    <3>1. PICK event : Committed(event)
      BY <2>1, AppendRecords
    <3> DEFINE more == Append(ledger, event)
    <3>2. /\ ledger' = more /\ event.seq = Len(ledger) + 1
          /\ fixture'.status = NextStatus(event.type, fixture'.outcome, ActiveTypes(more))
          /\ FoldMatch(fixture'.snapshot, more) # Refused
      BY <3>1 DEF Committed
    <3>3. ledger \in Seq(EventOf) /\ Numbered(ledger) /\ more # <<>>
      BY AppendIs DEF CacheInv, LedgerTypeOK, Numbered
    <3>4. VoidsResolve(more)
      BY <3>2 DEF FoldMatch, FoldWithStoppage, FoldInit
    <3>5. CASE event.type = "core.finalize"
      <4>1. event.type # "core.void"
        BY <3>5
      <4>2. Len(ledger) + 1 \in ResolveVoids(more) /\ more[Len(ledger) + 1] = event
        BY <3>2, <3>3, <3>4, <4>1, Survivors, AppendIs
      <4> HIDE DEF more
      <4>3. "core.finalize" \in ActiveTypes(more)
        BY <3>5, <4>2 DEF ActiveTypes
      <4> QED
        BY <3>2, <3>3, <3>5, <4>3 DEF StatusInv, NextStatus
    <3>6. CASE event.type # "core.finalize"
      <4> HIDE DEF more
      <4> QED
        BY <3>2, <3>6 DEF StatusInv, NextStatus, StatusFromFold
    <3> QED
      BY <3>5, <3>6
  <2>2. CASE EditConfig
    BY <2>2 DEF EditConfig, StatusInv
  <2>3. CASE RebuildState
    <3>1. fixture' = fixture /\ ledger' = ledger
      BY <2>3 DEF RebuildState, CacheInv, Folded, ResolveFixtureCfg, LedgerTypeOK
    <3> QED
      BY <3>1 DEF StatusInv
  <2>4. CASE ResnapshotFixtureConfig
    BY <2>4 DEF ResnapshotFixtureConfig, StatusInv, StatusFromFold
  <2>5. CASE UNCHANGED ledgerVars
    BY <2>5 DEF ledgerVars, StatusInv
  <2> QED
    BY <2>1, <2>2, <2>3, <2>4, <2>5, LedgerStepCases
<1> QED
  BY <1>1, <1>2, StepIsNext, CacheInvInductive, PTL DEF LedgerSpec

(* fixtures.status says what the surviving events say, whatever was undone,
   rebuilt or re-frozen in between.                                         *)
THEOREM StatusCorrect == LedgerSpec => []StatusFollowsLedger
<1>1. CacheInv /\ CardsOK(ledger) /\ StatusInv => StatusFollowsLedger
  <2> SUFFICES ASSUME CacheInv, CardsOK(ledger), StatusInv
               PROVE  StatusFollowsLedger
    OBVIOUS
  <2> DEFINE active == ActiveTypes(ledger)
  <2>1. CASE ledger = <<>>
    <3>1. active = {} /\ fixture.outcome = Null
      BY <2>1 DEF ActiveTypes, ResolveVoids, CacheInv, Unscored
    <3>2. fixture.status = "scheduled"
      BY <2>1, <3>1 DEF StatusInv, StatusFromFold
    <3> QED
      BY <3>1, <3>2 DEF StatusFollowsLedger
  <2>2. CASE ledger # <<>>
    <3>1. \A type : HasType(ledger, ResolveVoids(ledger), type) <=> type \in active
      BY DEF HasType, ActiveTypes
    <3> HIDE DEF active
    <3> DEFINE o == fixture.outcome
    <3>2. /\ "core.abandon" \in active => o = NoResult
          /\ "core.forfeit" \in active => Awarded(o)
          /\ "core.finalize" \in active => o # Null
          /\ o = Null \/ Played(o) \/ "core.abandon" \in active \/ "core.forfeit" \in active
      BY <2>2, <3>1, LedgerReads DEF FoldOK
    <3>3. /\ Played(o) => o.kind \in {"win", "draw"}
          /\ Awarded(o) => o.kind = "award"
      BY OutcomesAre
    <3> HIDE DEF o
    <3>4. IF fixture.status = "finalized" THEN "core.finalize" \in active
          ELSE fixture.status = StatusFromFold(o, active)
      BY DEF StatusInv, active, o
    <3>5. CASE fixture.status = "finalized"
      BY <3>2, <3>4, <3>5 DEF StatusFollowsLedger, active, o
    <3>6. CASE fixture.status # "finalized" /\ "core.abandon" \in active
      <4>1. fixture.status = "abandoned"
        BY <3>4, <3>6 DEF StatusFromFold
      <4> QED
        BY <3>2, <3>6, <4>1 DEF StatusFollowsLedger, o
    <3>7. CASE fixture.status # "finalized" /\ "core.abandon" \notin active /\ o # Null
      <4>1. fixture.status = IF "core.forfeit" \in active THEN "forfeited" ELSE "decided"
        BY <3>4, <3>7 DEF StatusFromFold
      <4> QED
        BY <3>2, <3>3, <3>7, <4>1 DEF StatusFollowsLedger, o
    <3>8. CASE fixture.status # "finalized" /\ "core.abandon" \notin active /\ o = Null
      <4>1. fixture.status = IF "core.start" \in active THEN "in_play" ELSE "scheduled"
        BY <3>4, <3>8 DEF StatusFromFold
      <4> QED
        BY <3>8, <4>1 DEF StatusFollowsLedger, active, o
    <3> QED
      BY <3>5, <3>6, <3>7, <3>8
  <2> QED
    BY <2>1, <2>2
<1> QED
  BY <1>1, CacheInvInductive, LedgerCardsInductive, StatusInvInductive, PTL

(* Two configs of the generic sport that both read a ledger read it alike: its
   config says what is accepted, never who has won.                         *)
LEMMA ReadsSame ==
  ASSUME NEW R, NEW events \in Seq(R), NEW c, NEW d, CardsOK(events),
         FoldMatch(c, events) # Refused, FoldMatch(d, events) # Refused
  PROVE  FoldMatch(c, events) = FoldMatch(d, events)
<1> DEFINE S == ResolveVoids(events)
           N == Len(events)
<1>1. /\ N \in Nat /\ S \in SUBSET (1..N)
      /\ \A i \in S : CardOK(events[i])
      /\ FoldMatch(c, events) = FoldOver(c, events, S).state
      /\ FoldMatch(d, events) = FoldOver(d, events, S).state
  BY LedgerFolds
<1> HIDE DEF S, N
<1>2. FoldOver(c, events, S) = FoldOver(d, events, S)
  <2>1. CardsAt(events, S) /\ Reads(c, events, S) /\ Reads(d, events, S)
    BY <1>1 DEF CardsAt, Reads
  <2>2. N \in Nat /\ S \in SUBSET (1..N)
    BY <1>1
  <2> QED
    BY <2>1, <2>2, FoldConfigFree, ZenonT(60)
<1> QED
  BY <1>1, <1>2

(* So a re-freeze leaves the generic sport's state, result and status: a draw on
   record stays one the frozen config absorbs (DrawInv, NobodyLockedOut).   *)
LEMMA RefreezeReadsSame ==
  ASSUME CacheInv, CardsOK(ledger), StatusInv, ResnapshotFixtureConfig
  PROVE  /\ ledger' = ledger /\ ledger # <<>> /\ fixture.outcome = fixture'.outcome
         /\ matchState' = matchState
         /\ fixture' = [fixture EXCEPT !.snapshot = divisionCfg]
         /\ fixture.outcome = Draw => divisionCfg.allowDraws
<1> DEFINE S == ResolveVoids(ledger)
           old == FoldOver(fixture.snapshot, ledger, S)
           new == FoldOver(divisionCfg, ledger, S)
<1>1. /\ ledger # <<>> /\ ledger' = ledger /\ fixture.status \notin Locked
      /\ FoldMatch(divisionCfg, ledger) # Refused
      /\ matchState' = [lastSeq |-> Len(ledger), state |-> FoldMatch(divisionCfg, ledger)]
      /\ fixture' = [status   |-> StatusFromFold(FoldMatch(divisionCfg, ledger).outcome,
                                                 ActiveTypes(ledger)),
                     outcome  |-> FoldMatch(divisionCfg, ledger).outcome,
                     snapshot |-> divisionCfg]
  BY DEF ResnapshotFixtureConfig, CacheInv, Unscored
<1>2. /\ VoidsResolve(ledger) /\ Len(ledger) \in Nat /\ S \in SUBSET (1..Len(ledger))
      /\ FoldMatch(fixture.snapshot, ledger) = old.state
      /\ old.state # Refused /\ fixture.outcome = old.state.outcome
  BY <1>1, LedgerReads
<1>3. /\ FoldMatch(divisionCfg, ledger) = new.state /\ FoldOK(divisionCfg, ledger, S)
      /\ \A i \in S : CardOK(ledger[i])
  BY <1>1, LedgerFolds DEF CacheInv, LedgerTypeOK
<1>4. /\ matchState = [lastSeq |-> Len(ledger), state |-> old.state]
      /\ fixture = [status |-> fixture.status, outcome |-> fixture.outcome,
                    snapshot |-> fixture.snapshot]
  BY <1>1, <1>2 DEF CacheInv, Folded, LedgerTypeOK
<1> HIDE DEF S
<1>5. old.state = new.state
  BY <1>1, <1>2, <1>3, ReadsSame DEF CacheInv, LedgerTypeOK
<1>6. new.state.outcome = Draw => divisionCfg.allowDraws
  BY <1>1, <1>3 DEF FoldOK, AccOK, StateOK
<1> HIDE DEF old, new
<1>7. fixture.status = StatusFromFold(old.state.outcome, ActiveTypes(ledger))
  BY <1>1, <1>2 DEF StatusInv, Locked
<1> QED
  BY <1>1, <1>2, <1>3, <1>4, <1>5, <1>6, <1>7

(* An event that cancels nothing leaves a result entered before it.         *)
LEMMA AppendKeepsResult ==
  ASSUME CacheInv, CardsOK(ledger), NEW event, Committed(event),
         event.type # "core.void", fixture.outcome # Null
  PROVE  fixture'.outcome = fixture.outcome
<1> DEFINE acc == FoldOver(fixture.snapshot, ledger, ResolveVoids(ledger))
<1>1. ledger # <<>>
  BY DEF CacheInv, Unscored
<1>2. /\ VoidsResolve(ledger) /\ ResolveFixtureCfg = fixture.snapshot
      /\ fixture.outcome = acc.state.outcome /\ AccOK(fixture.snapshot, acc)
  BY <1>1, LedgerReads
<1>3. /\ event.seq = Len(ledger) + 1 /\ CardOK(event)
      /\ ledger' = Append(ledger, event) /\ fixture'.snapshot = fixture.snapshot
      /\ FoldMatch(fixture.snapshot, ledger') # Refused
      /\ fixture'.outcome = FoldMatch(fixture.snapshot, ledger').outcome
  BY <1>2 DEF Committed
<1>4. ledger \in Seq(EventOf) /\ Numbered(ledger)
  BY DEF CacheInv, LedgerTypeOK, Numbered
<1>5. FoldMatch(fixture.snapshot, Append(ledger, event))
        = FoldStep(fixture.snapshot, acc, event).state
  BY <1>2, <1>3, <1>4, AppendFolds
<1> HIDE DEF acc
<1>6. FoldStep(fixture.snapshot, acc, event).state.outcome = acc.state.outcome
  BY <1>2, <1>3, <1>5, StepOK
<1> QED
  BY <1>2, <1>3, <1>5, <1>6

(* A result once entered changes only by an undo, or where staff re-freeze the
   config: of the re-freeze nothing is claimed, as what a config makes of a
   decided ledger is the sport's to say.                                    *)
THEOREM ResultsStand == LedgerSpec => ResultStands
<1>1. CacheInv /\ CardsOK(ledger) /\ [LedgerNext]_ledgerVars =>
        [/\ ledger' # ledger => SubSeq(ledger', 1, Len(ledger)) = ledger
                                /\ Len(ledger') = Len(ledger) + 1
         /\ fixture.outcome # Null /\ fixture'.outcome # fixture.outcome =>
              \/ ledger' # ledger /\ ledger'[Len(ledger')].type = "core.void"
              \/ ResnapshotFixtureConfig]_ledgerVars
  <2> SUFFICES ASSUME CacheInv, CardsOK(ledger), [LedgerNext]_ledgerVars
               PROVE  /\ ledger' # ledger => SubSeq(ledger', 1, Len(ledger)) = ledger
                                             /\ Len(ledger') = Len(ledger) + 1
                      /\ fixture.outcome # Null /\ fixture'.outcome # fixture.outcome =>
                           \/ ledger' # ledger /\ ledger'[Len(ledger')].type = "core.void"
                           \/ ResnapshotFixtureConfig
    OBVIOUS
  <2>1. ASSUME NEW k \in Keys, NEW by \in DeviceLinks \cup {Null},
               AppendEvent(k, by)
        PROVE  /\ SubSeq(ledger', 1, Len(ledger)) = ledger
               /\ Len(ledger') = Len(ledger) + 1
               /\ fixture.outcome # Null /\ fixture'.outcome # fixture.outcome =>
                    ledger'[Len(ledger')].type = "core.void"
    <3>1. PICK event : Committed(event)
      BY <2>1, AppendRecords
    <3>2. ledger' = Append(ledger, event) /\ ledger \in Seq(EventOf)
      BY <3>1 DEF Committed, CacheInv, LedgerTypeOK
    <3>3. /\ Len(ledger') = Len(ledger) + 1 /\ Len(ledger) \in Nat
          /\ ledger'[Len(ledger')] = event
          /\ \A i \in 1..Len(ledger) : ledger'[i] = ledger[i]
          /\ ledger' \in Seq(EventOf \cup {event})
      BY <3>2, AppendIs
    <3>4. SubSeq(ledger', 1, Len(ledger)) = ledger
      BY <3>2, <3>3
    <3> QED
      BY <3>1, <3>3, <3>4, AppendKeepsResult
  <2>2. CASE EditConfig
    BY <2>2 DEF EditConfig
  <2>3. CASE RebuildState
    BY <2>3 DEF RebuildState, CacheInv, Folded, ResolveFixtureCfg, LedgerTypeOK
  <2>4. CASE ResnapshotFixtureConfig
    BY <2>4 DEF ResnapshotFixtureConfig
  <2>5. CASE UNCHANGED ledgerVars
    BY <2>5 DEF ledgerVars
  <2>6. CASE UNCHANGED <<ledger, fixture>>
    BY <2>6
  <2> QED
    BY <2>1, <2>2, <2>3, <2>4, <2>5, LedgerStepCases
<1> QED
  BY <1>1, StepIsNext, CacheInvInductive, LedgerCardsInductive, PTL
     DEF LedgerSpec, ResultStands

(* A draw on record is one the frozen config and the stage format absorb.   *)
DrawInv ==
  ledger # <<>> /\ fixture.outcome = Draw => SupportsDraws(fixture.snapshot, StageKind)

LEMMA DrawInvInductive == LedgerSpec => []DrawInv
<1>1. LedgerInit => DrawInv
  BY DEF LedgerInit, DrawInv
<1>2. CacheInv /\ CardsOK(ledger) /\ StatusInv /\ DrawInv /\ [LedgerNext]_ledgerVars
        => DrawInv'
  <2> SUFFICES ASSUME CacheInv, CardsOK(ledger), StatusInv, DrawInv, [LedgerNext]_ledgerVars
               PROVE  DrawInv'
    OBVIOUS
  <2>1. ASSUME NEW k \in Keys, NEW by \in DeviceLinks \cup {Null},
               AppendEvent(k, by)
        PROVE  DrawInv'
    BY <2>1, AppendRecords DEF Committed, DrawInv
  <2>2. CASE EditConfig
    BY <2>2 DEF EditConfig, DrawInv
  <2>3. CASE RebuildState
    <3>1. fixture' = fixture /\ ledger' = ledger
      BY <2>3 DEF RebuildState, CacheInv, Folded, ResolveFixtureCfg, LedgerTypeOK
    <3> QED
      BY <3>1 DEF DrawInv
  <2>4. CASE ResnapshotFixtureConfig
    <3>1. fixture'.snapshot = divisionCfg
      BY <2>4 DEF ResnapshotFixtureConfig
    <3> QED
      BY <2>4, <3>1, RefreezeReadsSame DEF DrawInv, SupportsDraws
  <2>5. CASE UNCHANGED ledgerVars
    BY <2>5 DEF ledgerVars, DrawInv
  <2> QED
    BY <2>1, <2>2, <2>3, <2>4, <2>5, LedgerStepCases
<1> QED
  BY <1>1, <1>2, StepIsNext, CacheInvInductive, LedgerCardsInductive, StatusInvInductive,
     PTL DEF LedgerSpec

(* A note is never refused and changes nothing.                             *)
LEMMA NoteKeeps ==
  ASSUME NEW cfg, NEW acc, AccOK(cfg, acc), NEW event, event.type = "core.note"
  PROVE  FoldStep(cfg, acc, event).state = acc.state
<1>1. StateOK(cfg, acc.state) /\ acc.state # Refused
  BY RefusedIsNot DEF AccOK
<1>2. ~Barred(acc, event)
  BY DEF Barred, PostDecision, DuringStoppage
<1>3. Apply(cfg, acc.state, event) = acc.state
  BY DEF Apply
<1>4. FoldStep(cfg, acc, event) = ApplyToModule(cfg, acc, event)
  BY <1>1, <1>2 DEF FoldStep
<1> QED
  BY <1>1, <1>3, <1>4 DEF ApplyToModule

(* Whatever organisers edit and staff re-freeze, a fixture that is not locked
   still takes an event.                                                    *)
THEOREM NobodyLockedOut == LedgerSpec => []NotLockedOut
<1>1. CacheInv /\ CardsOK(ledger) /\ DrawInv => NotLockedOut
  <2> SUFFICES ASSUME CacheInv, CardsOK(ledger), DrawInv
               PROVE  NotLockedOut
    OBVIOUS
  <2> DEFINE note == [seq |-> Len(ledger) + 1, type |-> "core.note", payload |-> Null,
                      voids |-> Null, key |-> Null, by |-> Null]
             cfg == ResolveFixtureCfg
             acc == FoldOver(cfg, ledger, ResolveVoids(ledger))
  <2>1. /\ note.type = "core.note" /\ note.type # "core.void"
        /\ note.seq = Len(ledger) + 1
    OBVIOUS
  <2>2. ledger \in Seq(EventOf) /\ Numbered(ledger)
    BY DEF CacheInv, LedgerTypeOK, Numbered
  <2>3. /\ VoidsResolve(ledger) /\ AccOK(cfg, acc)
        /\ acc.state.outcome = Draw => SupportsDraws(cfg, StageKind)
    <3>1. CASE ledger = <<>>
      <4>1. ResolveVoids(ledger) = {} /\ VoidsResolve(ledger)
        BY <3>1 DEF ResolveVoids, VoidsResolve
      <4>2. acc = FoldInit
        BY <4>1, FoldNone
      <4> QED
        BY <4>1, <4>2, InitOK, OutcomesAre
    <3>2. CASE ledger # <<>>
      BY <3>2, LedgerReads DEF DrawInv
    <3> QED
      BY <3>1, <3>2
  <2> HIDE DEF note, cfg
  <2>4. FoldMatch(cfg, Append(ledger, note)) = FoldStep(cfg, acc, note).state
    BY <2>1, <2>2, <2>3, AppendFolds
  <2> HIDE DEF acc
  <2>5. FoldStep(cfg, acc, note).state = acc.state /\ acc.state # Refused
    BY <2>1, <2>3, NoteKeeps, RefusedIsNot DEF AccOK
  <2>6. Validates(cfg, note)
    BY <2>3, <2>4, <2>5 DEF Validates
  <2> QED
    BY <2>6 DEF NotLockedOut, note, cfg
<1> QED
  BY <1>1, CacheInvInductive, LedgerCardsInductive, DrawInvInductive, PTL
=============================================================================
