-------------------------- MODULE ScoreLedgerProofs -------------------------
(***************************************************************************)
(* Proofs about ScoreLedger: scoreEvent writes each client action at most   *)
(* once, undoes each event at most once and never answers with a false      *)
(* acceptance, for any number of concurrent handlers, clients and retries.  *)
(***************************************************************************)
EXTENDS ScoreLedger, FixtureLedgerProofs

(* expected_seq was a real tip when the request was made.                   *)
TipsSeen == \A k \in Keys : sent[k] # Null => sent[k].expected <= Len(ledger)

(* An event stands where the request that recorded it said it would.        *)
EventsWhereExpected ==
  \A i \in DOMAIN ledger :
    /\ sent[ledger[i].key] # Null
    /\ sent[ledger[i].key].expected + 1 = i

Recorded(k, n) == n \in DOMAIN ledger /\ ledger[n].key = k

(* A handler about to remember an answer, a cached answer and a given answer
   all name an event their own request recorded.                           *)
AcceptancesRecorded ==
  /\ \A h \in Handlers : handler[h].pc = "remember" =>
       Recorded(handler[h].key, Request(h).expected + 1)
  /\ \A k \in Keys : cache[k] # Null /\ cache[k].kind = "ok" =>
       Recorded(k, cache[k].seq)
  /\ AnswersTruthful

(* A checked undo is still unmade as long as its expected_seq can match: the
   answer of assertUndoTarget cannot go stale before the append refuses.    *)
CheckedUndoHolds ==
  \A h \in Handlers :
    /\ handler[h].pc = "append"
    /\ Request(h).type = "core.void"
    /\ Request(h).expected = Len(ledger)
    => Request(h).voids \notin Voided(ledger)

Steps ==
  \/ \E k \in Keys : Send(k)
  \/ \E h \in Handlers, k \in Keys : Receive(h, k)
  \/ \E h \in Handlers : AssertEntitled(h)
  \/ \E h \in Handlers : AssertUndoTarget(h)
  \/ \E h \in Handlers : AppendAccepted(h)
  \/ \E h \in Handlers : AppendRefused(h)
  \/ \E h \in Handlers : Remember(h)
  \/ \E h \in Handlers : Crash(h)
  \/ StartDivision \/ Administer \/ UNCHANGED vars

LEMMA StepCases == [Next]_vars => Steps
BY DEF Next, Step, Steps

(* Only an accepted append changes the ledger; only Send changes a request. *)
LEMMA LedgerUnchanged ==
  ASSUME [Next]_vars, ~\E h \in Handlers : AppendAccepted(h)
  PROVE  ledger' = ledger
BY StepCases DEF Steps, Send, Receive, AssertEntitled, AssertUndoTarget,
   AppendRefused, Remember, Crash, StartDivision, Administer, EditConfig,
   RebuildState, ResnapshotFixtureConfig, ledgerVars, vars

LEMMA SentUnchanged ==
  ASSUME [Next]_vars, ~\E k \in Keys : Send(k)
  PROVE  sent' = sent
BY StepCases DEF Steps, Receive, AssertEntitled, AssertUndoTarget,
   AppendAccepted, AppendRefused, Remember, Crash, StartDivision, Administer,
   vars

(***************************************************************************)
(* Types.                                                                   *)
(***************************************************************************)
LEMMA CandidateTyped ==
  ASSUME TypeOK, NEW k \in Keys, sent[k] # Null
  PROVE  /\ Candidate(k) \in EventOf
         /\ Candidate(k).seq = sent[k].expected + 1
         /\ Candidate(k).key = k
BY DEF TypeOK, RequestOf, Candidate, EventOf

HandlersTyped ==
  /\ handler \in [Handlers -> [pc : Pcs, key : Keys \cup {Null}]]
  /\ \A h \in Handlers : handler[h].pc # "idle" =>
       handler[h].key \in Keys /\ sent[handler[h].key] # Null

LEMMA GotoTyped ==
  ASSUME TypeOK, NEW h \in Handlers, NEW pc \in Pcs, handler[h].pc # "idle",
         Goto(h, pc), sent' = sent
  PROVE  HandlersTyped'
BY DEF TypeOK, Goto, HandlersTyped

LEMMA AnswerTyped ==
  ASSUME TypeOK, NEW h \in Handlers, NEW k \in Keys, NEW a \in AnswerOf,
         Answer(h, k, a), sent' = sent
  PROVE  HandlersTyped' /\ answers' \in [Keys -> SUBSET AnswerOf]
<1>1. HandlersTyped'
  BY DEF TypeOK, Answer, HandlersTyped, Idle, Pcs
<1>2. answers' \in [Keys -> SUBSET AnswerOf]
  BY DEF TypeOK, Answer
<1> QED
  BY <1>1, <1>2

LEMMA RefusalsTyped == Conflict \in AnswerOf /\ Rejected \in AnswerOf
BY DEF AnswerOf

(* Requests, handlers, cached and given answers keep their types, over the
   typed rows of the ledger.                                               *)
THEOREM TypeCorrect == Spec => []TypeOK
<1>1. Init => TypeOK
  <2> SUFFICES ASSUME Init PROVE TypeOK
    OBVIOUS
  <2>1. LedgerTypeOK
    BY DEF Init, LedgerInit, LedgerTypeOK
  <2>2. /\ handler \in [Handlers -> [pc : Pcs, key : Keys \cup {Null}]]
        /\ \A h \in Handlers : handler[h].pc = "idle"
    BY DEF Init, Idle, Pcs
  <2>3. answers \in [Keys -> SUBSET AnswerOf]
    BY DEF Init
  <2> QED
    BY <2>1, <2>2, <2>3 DEF Init, TypeOK
<1>2. ASSUME TypeOK, [Next]_vars PROVE TypeOK'
  <2> USE <1>2
  <2>1. ASSUME NEW k \in Keys, Send(k) PROVE TypeOK'
    <3>1. PICK actor \in Actors, m \in Menu, expected \in 0..Len(ledger) :
            \E target \in EventTargets(m.type) :
              sent' = [sent EXCEPT ![k] =
                [type |-> m.type, payload |-> m.payload, actor |-> actor,
                 expected |-> expected, voids |-> target]]
      BY <2>1 DEF Send
    <3>2. PICK target \in EventTargets(m.type) :
              sent' = [sent EXCEPT ![k] =
                [type |-> m.type, payload |-> m.payload, actor |-> actor,
                 expected |-> expected, voids |-> target]]
      BY <3>1
    <3>3. Len(ledger) \in Nat
      BY DEF TypeOK, LedgerTypeOK
    <3>4. target \in (Nat \ {0}) \cup {Null} /\ expected \in Nat
      BY <3>3 DEF EventTargets
    <3>5. [type |-> m.type, payload |-> m.payload, actor |-> actor,
           expected |-> expected, voids |-> target] \in RequestOf
      BY <3>4 DEF RequestOf
    <3>6. sent' \in [Keys -> RequestOf \cup {Null}]
      BY <3>2, <3>5 DEF TypeOK
    <3>7. \A q \in Keys : sent[q] # Null => sent'[q] = sent[q]
      BY <2>1, <3>2 DEF Send, TypeOK
    <3> QED
      BY <2>1, <3>6, <3>7 DEF Send, TypeOK, LedgerTypeOK, ledgerVars
  <2>2. ASSUME NEW h \in Handlers, NEW k \in Keys, Receive(h, k) PROVE TypeOK'
    <3>1. CASE cache[k] # Null /\ Answer(h, k, cache[k])
      <4>1. cache[k] \in AnswerOf
        BY <3>1 DEF TypeOK
      <4> QED
        BY <2>2, <3>1, <4>1, AnswerTyped DEF Receive, TypeOK, LedgerTypeOK,
           ledgerVars, HandlersTyped
    <3>2. CASE /\ handler' = [handler EXCEPT ![h] = [pc |-> "entitle", key |-> k]]
               /\ UNCHANGED answers
      <4>1. handler' \in [Handlers -> [pc : Pcs, key : Keys \cup {Null}]]
        BY <3>2 DEF TypeOK, Pcs
      <4>2. \A g \in Handlers : handler'[g].pc # "idle" =>
              handler'[g].key \in Keys /\ sent[handler'[g].key] # Null
        BY <2>2, <3>2 DEF Receive, TypeOK
      <4> QED
        BY <2>2, <3>2, <4>1, <4>2 DEF Receive, TypeOK, LedgerTypeOK, ledgerVars
    <3> QED
      BY <2>2, <3>1, <3>2 DEF Receive
  <2>3. ASSUME NEW h \in Handlers, AssertEntitled(h) PROVE TypeOK'
    <3>1. handler[h].pc # "idle" /\ handler[h].key \in Keys
      BY <2>3 DEF AssertEntitled, TypeOK
    <3>2. HandlersTyped' /\ answers' \in [Keys -> SUBSET AnswerOf]
      <4>1. CASE Entitled(Request(h))
        <5> DEFINE next == IF Request(h).type = "core.void" THEN "undo" ELSE "append"
        <5>1. next \in Pcs
          BY DEF Pcs
        <5>2. Goto(h, next) /\ answers' = answers /\ sent' = sent
          BY <2>3, <4>1 DEF AssertEntitled
        <5> HIDE DEF next
        <5> QED
          BY <3>1, <5>1, <5>2, GotoTyped DEF TypeOK
      <4>2. CASE ~Entitled(Request(h))
        BY <2>3, <3>1, <4>2, AnswerTyped, RefusalsTyped DEF AssertEntitled
      <4> QED BY <4>1, <4>2
    <3> QED
      BY <2>3, <3>2 DEF AssertEntitled, TypeOK, LedgerTypeOK, ledgerVars,
         HandlersTyped
  <2>4. ASSUME NEW h \in Handlers, AssertUndoTarget(h) PROVE TypeOK'
    <3>1. handler[h].pc # "idle" /\ handler[h].key \in Keys
      BY <2>4 DEF AssertUndoTarget, TypeOK
    <3>2. HandlersTyped' /\ answers' \in [Keys -> SUBSET AnswerOf]
      <4>1. CASE Goto(h, "append") /\ UNCHANGED answers
        BY <2>4, <3>1, <4>1, GotoTyped DEF AssertUndoTarget, Pcs, TypeOK
      <4>2. CASE Answer(h, handler[h].key, Rejected)
        BY <2>4, <3>1, <4>2, AnswerTyped, RefusalsTyped DEF AssertUndoTarget
      <4> QED BY <2>4, <4>1, <4>2 DEF AssertUndoTarget
    <3> QED
      BY <2>4, <3>2 DEF AssertUndoTarget, TypeOK, LedgerTypeOK, ledgerVars,
         HandlersTyped
  <2>5. ASSUME NEW h \in Handlers, AppendAccepted(h) PROVE TypeOK'
    <3> DEFINE k == handler[h].key
    <3>1. k \in Keys /\ sent[k] # Null
      BY <2>5 DEF AppendAccepted, TypeOK
    <3>2. /\ Candidate(k) \in EventOf
          /\ Candidate(k).seq = Len(ledger) + 1
      BY <2>5, <3>1, CandidateTyped DEF AppendAccepted, Appendable, SeqMatches
    <3>3. ledger' = Append(ledger, Candidate(k))
      BY <2>5 DEF AppendAccepted, RecordEvent
    <3>4. ledger' \in Seq(EventOf) /\ \A i \in DOMAIN ledger' : ledger'[i].seq = i
      BY <3>2, <3>3 DEF TypeOK, LedgerTypeOK
    <3>5. ResolveFixtureCfg \in Cfgs
      BY DEF ResolveFixtureCfg, TypeOK, LedgerTypeOK
    <3>6. /\ fixture' = [status |-> fixture'.status,
                         outcome |-> fixture'.outcome,
                         snapshot |-> fixture'.snapshot]
          /\ fixture'.snapshot \in Cfgs \cup {Null}
      BY <2>5, <3>5 DEF AppendAccepted, RecordEvent, TypeOK, LedgerTypeOK
    <3>7. LedgerTypeOK'
      BY <2>5, <3>4, <3>6 DEF AppendAccepted, TypeOK, LedgerTypeOK
    <3> QED
      BY <2>5, <3>7 DEF AppendAccepted, Goto, TypeOK, Pcs
  <2>6. ASSUME NEW h \in Handlers, AppendRefused(h) PROVE TypeOK'
    BY <2>6 DEF AppendRefused, Answer, TypeOK, LedgerTypeOK, ledgerVars, Idle,
       Pcs, AnswerOf
  <2>7. ASSUME NEW h \in Handlers, Remember(h) PROVE TypeOK'
    <3> DEFINE k == handler[h].key
    <3>1. k \in Keys /\ sent[k] \in RequestOf
      BY <2>7 DEF Remember, TypeOK
    <3>2. Accepted(sent[k].expected + 1) \in AnswerOf
      BY <3>1 DEF Accepted, AnswerOf, RequestOf
    <3> QED
      BY <2>7, <3>1, <3>2 DEF Remember, Answer, TypeOK, LedgerTypeOK,
         ledgerVars, Idle, Pcs
  <2>8. ASSUME NEW h \in Handlers, Crash(h) PROVE TypeOK'
    BY <2>8 DEF Crash, TypeOK, LedgerTypeOK, ledgerVars, Idle, Pcs
  <2>9. CASE StartDivision
    BY <2>9 DEF StartDivision, TypeOK, LedgerTypeOK, ledgerVars
  <2>10. CASE Administer
    BY <2>10 DEF Administer, EditConfig, RebuildState, ResnapshotFixtureConfig,
       TypeOK, LedgerTypeOK
  <2>11. CASE UNCHANGED vars
    BY <2>11 DEF vars, TypeOK, LedgerTypeOK, ledgerVars
  <2> QED
    BY <2>1, <2>2, <2>3, <2>4, <2>5, <2>6, <2>7, <2>8, <2>9, <2>10, <2>11,
       StepCases DEF Steps
<1> QED
  BY <1>1, <1>2, PTL DEF Spec

(***************************************************************************)
(* What an accepted append and a new request do.                            *)
(***************************************************************************)
LEMMA AppendEffect ==
  ASSUME TypeOK, NEW h \in Handlers, AppendAccepted(h)
  PROVE  LET k == handler[h].key
         IN  /\ k \in Keys /\ sent[k] # Null /\ sent' = sent
             /\ sent[k].expected = Len(ledger)
             /\ ledger' = Append(ledger, Candidate(k))
             /\ Candidate(k).key = k
             /\ Candidate(k).type = sent[k].type
             /\ Candidate(k).voids = sent[k].voids
             /\ Len(ledger) \in Nat
             /\ Len(ledger') = Len(ledger) + 1
             /\ DOMAIN ledger' = 1..(Len(ledger) + 1)
             /\ \A i \in DOMAIN ledger : ledger'[i] = ledger[i]
             /\ ledger'[Len(ledger) + 1] = Candidate(k)
<1> DEFINE k == handler[h].key
<1>1. k \in Keys /\ sent[k] # Null /\ sent' = sent
  BY DEF AppendAccepted, TypeOK
<1>2. sent[k].expected = Len(ledger) /\ ledger' = Append(ledger, Candidate(k))
  BY DEF AppendAccepted, Appendable, SeqMatches, RecordEvent
<1>3. Candidate(k) \in EventOf
  BY <1>1, CandidateTyped
<1>4. /\ Candidate(k).key = k
      /\ Candidate(k).type = sent[k].type
      /\ Candidate(k).voids = sent[k].voids
  BY DEF Candidate
<1>5. ledger \in Seq(EventOf)
  BY DEF TypeOK, LedgerTypeOK
<1> HIDE DEF k
<1>6. /\ Len(ledger) \in Nat
      /\ Len(ledger') = Len(ledger) + 1
      /\ DOMAIN ledger' = 1..(Len(ledger) + 1)
      /\ \A i \in DOMAIN ledger : ledger'[i] = ledger[i]
      /\ ledger'[Len(ledger) + 1] = Candidate(k)
  BY <1>2, <1>3, <1>5
<1> QED
  BY <1>1, <1>2, <1>4, <1>6 DEF k

LEMMA SendEffect ==
  ASSUME TypeOK, NEW k \in Keys, Send(k)
  PROVE  /\ UNCHANGED <<ledger, handler, cache, answers>>
         /\ Len(ledger) \in Nat
         /\ \A q \in Keys : sent[q] # Null => sent'[q] = sent[q]
         /\ \A q \in Keys : sent'[q] # sent[q] => sent'[q].expected \in 0..Len(ledger)
<1>1. PICK actor \in Actors, m \in Menu, expected \in 0..Len(ledger) :
        \E target \in EventTargets(m.type) :
          sent' = [sent EXCEPT ![k] =
            [type |-> m.type, payload |-> m.payload, actor |-> actor,
             expected |-> expected, voids |-> target]]
  BY DEF Send
<1>2. PICK target \in EventTargets(m.type) :
          sent' = [sent EXCEPT ![k] =
            [type |-> m.type, payload |-> m.payload, actor |-> actor,
             expected |-> expected, voids |-> target]]
  BY <1>1
<1>3. Len(ledger) \in Nat
  BY DEF TypeOK, LedgerTypeOK
<1> QED
  BY <1>2, <1>3 DEF Send, TypeOK, ledgerVars

(***************************************************************************)
(* Exactly-once writes.                                                     *)
(***************************************************************************)
PlaceInv == TypeOK /\ TipsSeen /\ EventsWhereExpected

LEMMA PlaceInvInductive == Spec => []PlaceInv
<1>1. Init => TipsSeen /\ EventsWhereExpected
  BY DEF Init, LedgerInit, TipsSeen, EventsWhereExpected
<1>2. ASSUME PlaceInv, [Next]_vars
      PROVE  TipsSeen' /\ EventsWhereExpected'
  <2> USE <1>2 DEF PlaceInv
  <2>1. ASSUME NEW k \in Keys, Send(k)
        PROVE  TipsSeen' /\ EventsWhereExpected'
    <3>1. \A i \in DOMAIN ledger : ledger[i].key \in Keys
      <4>1. ledger \in Seq(EventOf)
        BY DEF TypeOK, LedgerTypeOK
      <4>2. \A i \in DOMAIN ledger : ledger[i] \in EventOf
        BY <4>1
      <4> QED BY <4>2 DEF EventOf
    <3>2. /\ ledger' = ledger /\ Len(ledger) \in Nat
          /\ \A q \in Keys : sent[q] # Null => sent'[q] = sent[q]
          /\ \A q \in Keys :
               sent'[q] # sent[q] => sent'[q].expected \in 0..Len(ledger)
      BY <2>1, SendEffect
    <3>3. TipsSeen'
      BY <3>2 DEF TipsSeen
    <3>4. EventsWhereExpected'
      BY <3>1, <3>2 DEF EventsWhereExpected
    <3> QED BY <3>3, <3>4
  <2>2. ASSUME NEW h \in Handlers, AppendAccepted(h)
        PROVE  TipsSeen' /\ EventsWhereExpected'
    <3>1. TipsSeen'
      <4>1. \A k \in Keys : sent[k] # Null => sent[k].expected \in Nat
        BY DEF TypeOK, RequestOf
      <4> QED
        BY <2>2, <4>1, AppendEffect DEF TipsSeen
    <3>2. EventsWhereExpected'
      BY <2>2, AppendEffect DEF EventsWhereExpected
    <3> QED BY <3>1, <3>2
  <2>3. CASE ledger' = ledger /\ sent' = sent
    BY <2>3 DEF TipsSeen, EventsWhereExpected
  <2> QED
    BY <2>1, <2>2, <2>3, LedgerUnchanged, SentUnchanged
<1> QED
  BY <1>1, <1>2, TypeCorrect, PTL DEF Spec, PlaceInv

(* However often a client action is retried it is written at most once: two
   events of one request would have to stand in one place.                 *)
THEOREM WritesAtMostOnce == Spec => []NoDoubleWrite
<1>1. PlaceInv => NoDoubleWrite
  <2> SUFFICES ASSUME PlaceInv, NEW i \in DOMAIN ledger, NEW j \in DOMAIN ledger,
                      ledger[i].key = ledger[j].key
               PROVE  i = j
    BY DEF NoDoubleWrite
  <2> QED
    BY DEF PlaceInv, EventsWhereExpected
<1> QED
  BY <1>1, PlaceInvInductive, PTL

(***************************************************************************)
(* At-most-once undo.                                                       *)
(***************************************************************************)
UndoInv == PlaceInv /\ CheckedUndoHolds /\ NoDoubleVoid

LEMMA UndoInvInductive == Spec => []UndoInv
<1>1. Init => CheckedUndoHolds /\ NoDoubleVoid
  BY DEF Init, LedgerInit, Idle, CheckedUndoHolds, NoDoubleVoid
<1>2. ASSUME UndoInv, [Next]_vars
      PROVE  CheckedUndoHolds' /\ NoDoubleVoid'
  <2> USE <1>2 DEF UndoInv, PlaceInv
  <2>1. ASSUME NEW h \in Handlers, AppendAccepted(h)
        PROVE  CheckedUndoHolds' /\ NoDoubleVoid'
    <3> DEFINE k == handler[h].key
    <3>1. CheckedUndoHolds'
      <4> SUFFICES ASSUME NEW g \in Handlers, handler'[g].pc = "append",
                          sent'[handler'[g].key].expected = Len(ledger')
                   PROVE  FALSE
        BY DEF CheckedUndoHolds, Request
      <4>1. g # h /\ handler'[g] = handler[g]
        BY <2>1 DEF AppendAccepted, Goto, TypeOK
      <4>2. handler[g].key \in Keys /\ sent[handler[g].key] # Null
        BY <4>1 DEF TypeOK
      <4>3. sent[handler[g].key].expected \in Nat
        BY <4>2 DEF TypeOK, RequestOf
      <4> QED
        BY <2>1, <4>1, <4>2, <4>3, AppendEffect DEF TipsSeen
    <3>2. sent[k].type = "core.void" => sent[k].voids \notin Voided(ledger)
      BY <2>1, AppendEffect DEF CheckedUndoHolds, Request, AppendAccepted
    <3>3. NoDoubleVoid'
      BY <2>1, <3>2, AppendEffect DEF NoDoubleVoid, Voided
    <3> QED BY <3>1, <3>3
  <2>2. ASSUME ledger' = ledger
        PROVE  NoDoubleVoid'
    BY <2>2 DEF NoDoubleVoid
  <2>3. ASSUME NEW h \in Handlers, AssertUndoTarget(h)
        PROVE  CheckedUndoHolds'
    <3>1. ledger' = ledger /\ sent' = sent
      BY <2>3 DEF AssertUndoTarget, ledgerVars
    <3>2. \A g \in Handlers \ {h} : handler'[g] = handler[g]
      BY <2>3 DEF AssertUndoTarget, Goto, Answer, TypeOK
    <3>3. handler'[h].pc = "append" =>
            /\ handler'[h].key = handler[h].key
            /\ Request(h).voids \notin Voided(ledger)
      BY <2>3 DEF AssertUndoTarget, Goto, Answer, TypeOK, Idle
    <3> QED
      BY <3>1, <3>2, <3>3 DEF CheckedUndoHolds, Request, Voided
  <2>4. ASSUME NEW h \in Handlers, AssertEntitled(h)
        PROVE  CheckedUndoHolds'
    <3>1. ledger' = ledger /\ sent' = sent
      BY <2>4 DEF AssertEntitled, ledgerVars
    <3>2. \A g \in Handlers \ {h} : handler'[g] = handler[g]
      BY <2>4 DEF AssertEntitled, Goto, Answer, TypeOK
    <3>3. handler'[h].pc = "append" =>
            /\ handler'[h].key = handler[h].key
            /\ Request(h).type # "core.void"
      BY <2>4 DEF AssertEntitled, Goto, Answer, TypeOK, Idle
    <3> QED
      BY <3>1, <3>2, <3>3 DEF CheckedUndoHolds, Request, Voided
  <2>5. ASSUME NEW h \in Handlers, ledger' = ledger, sent' = sent,
               \A g \in Handlers \ {h} : handler'[g] = handler[g],
               handler'[h].pc # "append"
        PROVE  CheckedUndoHolds'
    BY <2>5 DEF CheckedUndoHolds, Request, Voided
  <2>6. ASSUME NEW h \in Handlers, NEW k \in Keys, Receive(h, k)
        PROVE  CheckedUndoHolds'
    BY <2>5, <2>6 DEF Receive, Answer, Idle, TypeOK, ledgerVars
  <2>7. ASSUME NEW h \in Handlers, AppendRefused(h) \/ Remember(h) \/ Crash(h)
        PROVE  CheckedUndoHolds'
    BY <2>5, <2>7 DEF AppendRefused, Remember, Crash, Answer, Idle, TypeOK,
       ledgerVars
  <2>8. ASSUME NEW k \in Keys, Send(k)
        PROVE  CheckedUndoHolds'
    <3>1. \A h \in Handlers : handler[h].pc = "append" =>
            sent'[handler[h].key] = sent[handler[h].key]
      BY <2>8, SendEffect DEF TypeOK
    <3> QED
      BY <2>8, <3>1, SendEffect DEF CheckedUndoHolds, Request, Voided
  <2>9. ASSUME StartDivision \/ Administer \/ UNCHANGED vars
        PROVE  CheckedUndoHolds'
    <3>1. ledger' = ledger /\ sent' = sent /\ handler' = handler
      BY <2>9 DEF StartDivision, Administer, EditConfig, RebuildState,
         ResnapshotFixtureConfig, vars, ledgerVars
    <3> QED
      BY <3>1 DEF CheckedUndoHolds, Request, Voided
  <2>10. CASE \E h \in Handlers : AppendAccepted(h)
    BY <2>1, <2>10
  <2>11. CASE ~\E h \in Handlers : AppendAccepted(h)
    BY <2>2, <2>3, <2>4, <2>6, <2>7, <2>8, <2>9, <2>11, LedgerUnchanged,
       StepCases DEF Steps
  <2> QED BY <2>10, <2>11
<1> QED
  BY <1>1, <1>2, PlaceInvInductive, PTL DEF Spec, UndoInv

(* No event is undone twice, although the check and the append are two
   transactions: the seq check makes a stale check harmless.               *)
THEOREM UndoesAtMostOnce == Spec => []NoDoubleVoid
BY UndoInvInductive, PTL DEF UndoInv

(***************************************************************************)
(* Truthful answers.                                                        *)
(***************************************************************************)
TruthInv == PlaceInv /\ AcceptancesRecorded

LEMMA TruthInvInductive == Spec => []TruthInv
<1>1. Init => AcceptancesRecorded
  BY DEF Init, Idle, AcceptancesRecorded, AnswersTruthful
<1>2. ASSUME TruthInv, [Next]_vars PROVE AcceptancesRecorded'
  <2> USE <1>2 DEF TruthInv, PlaceInv
  <2>1. \A k \in Keys, n \in Nat : Recorded(k, n) => Recorded(k, n)'
    <3>1. CASE \E h \in Handlers : AppendAccepted(h)
      BY <3>1, AppendEffect DEF Recorded
    <3>2. CASE ledger' = ledger
      BY <3>2 DEF Recorded
    <3> QED BY <3>1, <3>2, LedgerUnchanged
  <2>2. ASSUME NEW h \in Handlers, AppendAccepted(h) PROVE AcceptancesRecorded'
    <3> DEFINE k == handler[h].key
    <3>1. \A g \in Handlers \ {h} : handler'[g] = handler[g]
      BY <2>2 DEF AppendAccepted, Goto, TypeOK
    <3>2. handler'[h].key = k
      BY <2>2 DEF AppendAccepted, Goto, TypeOK
    <3>3. /\ sent[k].expected + 1 \in DOMAIN ledger'
          /\ ledger'[sent[k].expected + 1].key = k
      BY <2>2, AppendEffect
    <3>4. \A n : \A q \in Keys : Recorded(q, n) => Recorded(q, n)'
      BY <2>2, AppendEffect DEF Recorded
    <3>5. UNCHANGED <<cache, answers, sent>>
      BY <2>2 DEF AppendAccepted
    <3> QED
      BY <3>1, <3>2, <3>3, <3>4, <3>5, SMTT(30)
      DEF AcceptancesRecorded, AnswersTruthful, Recorded, Request, TypeOK
  <2>3. ASSUME ledger' = ledger, sent' = sent, cache' = cache,
               NEW h \in Handlers,
               \A g \in Handlers \ {h} : handler'[g] = handler[g],
               handler'[h].pc # "remember",
               AnswersTruthful'
        PROVE  AcceptancesRecorded'
    BY <2>3 DEF AcceptancesRecorded, Recorded, Request
  <2>4. ASSUME NEW h \in Handlers, NEW k \in Keys, NEW a,
               ledger' = ledger, Answer(h, k, a),
               a.kind = "ok" => Recorded(k, a.seq)
        PROVE  /\ AnswersTruthful'
               /\ \A g \in Handlers \ {h} : handler'[g] = handler[g]
               /\ handler'[h] = Idle
    <3>1. answers' = [answers EXCEPT ![k] = @ \cup {a}]
      BY <2>4 DEF Answer
    <3>2. \A q \in Keys : answers'[q] \subseteq answers[q] \cup {b \in {a} : q = k}
      BY <3>1 DEF TypeOK
    <3>3. AnswersTruthful'
      BY <2>4, <3>2 DEF AcceptancesRecorded, AnswersTruthful, Recorded
    <3> QED
      BY <2>4, <3>3 DEF Answer, TypeOK
  <2>5. ASSUME NEW h \in Handlers, NEW k \in Keys, Receive(h, k)
        PROVE  AcceptancesRecorded'
    <3>1. UNCHANGED <<ledger, sent, cache>>
      BY <2>5 DEF Receive, ledgerVars
    <3>2. CASE cache[k] # Null /\ Answer(h, k, cache[k])
      <4>1. cache[k].kind = "ok" => Recorded(k, cache[k].seq)
        BY <3>2 DEF AcceptancesRecorded
      <4> QED
        BY <2>3, <2>4, <3>1, <3>2, <4>1 DEF Idle
    <3>3. CASE /\ handler' = [handler EXCEPT ![h] = [pc |-> "entitle", key |-> k]]
               /\ UNCHANGED answers
      <4>1. AnswersTruthful'
        BY <3>1, <3>3 DEF AcceptancesRecorded, AnswersTruthful
      <4>2. /\ \A g \in Handlers \ {h} : handler'[g] = handler[g]
            /\ handler'[h].pc = "entitle"
        BY <3>3 DEF TypeOK
      <4> QED
        BY <2>3, <3>1, <4>1, <4>2
    <3> QED BY <2>5, <3>2, <3>3 DEF Receive
  <2>6. ASSUME NEW h \in Handlers, UNCHANGED <<ledger, sent, cache>>,
               handler[h].key \in Keys,
               NEW a \in {Rejected, Conflict}, Answer(h, handler[h].key, a)
        PROVE  AcceptancesRecorded'
    <3>1. a.kind # "ok"
      BY DEF Rejected, Conflict
    <3> QED
      BY <2>3, <2>4, <2>6, <3>1 DEF Idle
  <2>7. ASSUME NEW h \in Handlers, UNCHANGED <<ledger, sent, cache, answers>>,
               \A g \in Handlers \ {h} : handler'[g] = handler[g],
               handler'[h].pc # "remember"
        PROVE  AcceptancesRecorded'
    <3>1. AnswersTruthful'
      BY <2>7 DEF AcceptancesRecorded, AnswersTruthful
    <3> QED
      BY <2>3, <2>7, <3>1
  <2>8. ASSUME NEW h \in Handlers, AssertEntitled(h) \/ AssertUndoTarget(h)
        PROVE  AcceptancesRecorded'
    <3>1. UNCHANGED <<ledger, sent, cache>> /\ handler[h].key \in Keys
      BY <2>8 DEF AssertEntitled, AssertUndoTarget, ledgerVars, TypeOK
    <3>2. \/ Answer(h, handler[h].key, Rejected)
          \/ answers' = answers /\ \E pc \in {"undo", "append"} : Goto(h, pc)
      BY <2>8 DEF AssertEntitled, AssertUndoTarget
    <3>3. CASE answers' = answers /\ \E pc \in {"undo", "append"} : Goto(h, pc)
      <4>1. /\ \A g \in Handlers \ {h} : handler'[g] = handler[g]
            /\ handler'[h].pc # "remember"
        BY <3>3 DEF Goto, TypeOK
      <4> QED
        BY <2>7, <3>1, <3>3, <4>1
    <3> QED
      BY <2>6, <3>1, <3>2, <3>3
  <2>9. ASSUME NEW h \in Handlers, AppendRefused(h)
        PROVE  AcceptancesRecorded'
    <3>1. UNCHANGED <<ledger, sent, cache>> /\ handler[h].key \in Keys
      BY <2>9 DEF AppendRefused, ledgerVars, TypeOK
    <3> QED
      BY <2>6, <2>9, <3>1 DEF AppendRefused
  <2>10. ASSUME NEW h \in Handlers, Remember(h)
        PROVE  AcceptancesRecorded'
    <3> DEFINE k == handler[h].key
               a == Accepted(sent[k].expected + 1)
    <3>1. UNCHANGED <<ledger, sent>> /\ k \in Keys
      BY <2>10 DEF Remember, ledgerVars, TypeOK
    <3>2. Recorded(k, a.seq)
      BY <2>10 DEF Remember, AcceptancesRecorded, Accepted, Request
    <3>3. Answer(h, k, a) /\ cache' \in {cache, [cache EXCEPT ![k] = a]}
      BY <2>10 DEF Remember
    <3>4. \A q \in Keys : cache'[q] = cache[q] \/ (q = k /\ cache'[q] = a)
      BY <3>3 DEF TypeOK
    <3> HIDE DEF k, a
    <3>5. /\ AnswersTruthful'
          /\ \A g \in Handlers \ {h} : handler'[g] = handler[g]
          /\ handler'[h].pc # "remember"
      BY <2>4, <3>1, <3>2, <3>3 DEF Idle
    <3> QED
      BY <3>1, <3>2, <3>4, <3>5 DEF AcceptancesRecorded, Recorded, Request
  <2>11. ASSUME NEW h \in Handlers, Crash(h)
        PROVE  AcceptancesRecorded'
    <3>1. /\ UNCHANGED <<ledger, sent, cache, answers>>
          /\ \A g \in Handlers \ {h} : handler'[g] = handler[g]
          /\ handler'[h].pc # "remember"
      BY <2>11 DEF Crash, Idle, ledgerVars, TypeOK
    <3> QED
      BY <2>7, <3>1
  <2>12. ASSUME NEW k \in Keys, Send(k)
        PROVE  AcceptancesRecorded'
    <3>1. \A h \in Handlers : handler[h].pc = "remember" =>
            sent'[handler[h].key] = sent[handler[h].key]
      BY <2>12, SendEffect DEF TypeOK
    <3> QED
      BY <2>12, <3>1, SendEffect
      DEF AcceptancesRecorded, AnswersTruthful, Recorded, Request
  <2>13. ASSUME StartDivision \/ Administer \/ UNCHANGED vars
        PROVE  AcceptancesRecorded'
    <3>1. UNCHANGED <<ledger, sent, handler, cache, answers>>
      BY <2>13 DEF StartDivision, Administer, EditConfig, RebuildState,
         ResnapshotFixtureConfig, vars, ledgerVars
    <3> QED
      BY <3>1 DEF AcceptancesRecorded, AnswersTruthful, Recorded, Request
  <2> QED
    BY <2>2, <2>5, <2>8, <2>9, <2>10, <2>11, <2>12, <2>13, StepCases DEF Steps
<1> QED
  BY <1>1, <1>2, PlaceInvInductive, PTL DEF Spec, TruthInv

(* No client is ever told an event was recorded that was not, however answers
   are cached, forgotten and replayed.                                      *)
THEOREM AcceptancesTrue == Spec => []AnswersTruthful
BY TruthInvInductive, PTL DEF TruthInv, AcceptancesRecorded

(***************************************************************************)
(* Refinement: interleaved, retried, crashing requests are to the ledger    *)
(* nothing but atomic appends.                                              *)
(***************************************************************************)

(* A request asks for something on the menu, at a target it could name.     *)
RequestsOnMenu ==
  \A k \in Keys : sent[k] # Null =>
    \E m \in Menu : /\ m.type = sent[k].type
                    /\ m.payload = sent[k].payload
                    /\ sent[k].voids \in EventTargets(m.type)

LEMMA RequestsStayOnMenu == Spec => [](TypeOK /\ RequestsOnMenu)
<1>1. Init => RequestsOnMenu
  BY DEF Init, RequestsOnMenu
<1>2. ASSUME TypeOK, RequestsOnMenu, [Next]_vars PROVE RequestsOnMenu'
  <2> USE <1>2
  <2>1. ASSUME NEW k \in Keys, Send(k) PROVE RequestsOnMenu'
    <3>1. PICK actor \in Actors, m \in Menu, expected \in 0..Len(ledger) :
            \E target \in EventTargets(m.type) :
              sent' = [sent EXCEPT ![k] =
                [type |-> m.type, payload |-> m.payload, actor |-> actor,
                 expected |-> expected, voids |-> target]]
      BY <2>1 DEF Send
    <3>2. PICK target \in EventTargets(m.type) :
              sent' = [sent EXCEPT ![k] =
                [type |-> m.type, payload |-> m.payload, actor |-> actor,
                 expected |-> expected, voids |-> target]]
      BY <3>1
    <3>3. ledger' = ledger
      BY <2>1 DEF Send, ledgerVars
    <3>4. \A q \in Keys \ {k} : sent'[q] = sent[q]
      BY <3>2 DEF TypeOK
    <3>5. /\ sent'[k].type = m.type
          /\ sent'[k].payload = m.payload
          /\ sent'[k].voids = target
      BY <3>2 DEF TypeOK
    <3> QED
      BY <3>3, <3>4, <3>5 DEF RequestsOnMenu, EventTargets
  <2>2. ASSUME NEW h \in Handlers, AppendAccepted(h) PROVE RequestsOnMenu'
    <3>1. \A type : EventTargets(type) \subseteq EventTargets(type)'
      BY <2>2, AppendEffect DEF EventTargets
    <3> QED
      BY <2>2, <3>1, AppendEffect DEF RequestsOnMenu
  <2>3. CASE ledger' = ledger /\ sent' = sent
    BY <2>3 DEF RequestsOnMenu, EventTargets
  <2> QED
    BY <2>1, <2>2, <2>3, LedgerUnchanged, SentUnchanged
<1> QED
  BY <1>1, <1>2, TypeCorrect, PTL DEF Spec

(* Every behaviour of the requests is a behaviour of the atomic ledger, so
   every property of LedgerSpec holds of the whole of scoreEvent.           *)
THEOREM RequestsImplementLedger == Spec => LedgerSpec
<1>1. Init => LedgerInit
  BY DEF Init
<1>2. ASSUME TypeOK, RequestsOnMenu, [Next]_vars
      PROVE  [LedgerNext]_ledgerVars
  <2> USE <1>2
  <2>1. ASSUME NEW h \in Handlers, AppendAccepted(h) PROVE LedgerNext
    <3> DEFINE k == handler[h].key
               r == sent[k]
               by == IF r.actor \in DeviceLinks THEN r.actor ELSE Null
    <3>1. k \in Keys /\ r # Null /\ r.expected = Len(ledger)
      BY <2>1, AppendEffect
    <3>2. PICK m \in Menu : /\ m.type = r.type
                            /\ m.payload = r.payload
                            /\ r.voids \in EventTargets(m.type)
      BY <3>1 DEF RequestsOnMenu
    <3>3. Candidate(k) = NewEvent(m, r.voids, k, by)
      BY <3>1, <3>2 DEF Candidate, NewEvent
    <3>4. by \in DeviceLinks \cup {Null}
      OBVIOUS
    <3>5. /\ fixture.status \notin Locked
          /\ Validates(ResolveFixtureCfg, Candidate(k))
          /\ RecordEvent(ResolveFixtureCfg, Candidate(k))
          /\ UNCHANGED <<divisionCfg, edits>>
      BY <2>1 DEF AppendAccepted, Appendable
    <3> HIDE DEF k, r, by
    <3>6. AppendEvent(k, by)
      BY <3>2, <3>3, <3>5 DEF AppendEvent
    <3> QED
      BY <3>1, <3>4, <3>6 DEF LedgerNext
  <2>2. CASE Administer
    BY <2>2 DEF Administer, LedgerNext
  <2>3. CASE ~Administer /\ ~\E h \in Handlers : AppendAccepted(h)
    BY <2>3, StepCases DEF Steps, Send, Receive, AssertEntitled,
       AssertUndoTarget, AppendRefused, Remember, Crash, StartDivision, vars
  <2> QED
    BY <2>1, <2>2, <2>3
<1>3. [LedgerNext]_ledgerVars => [LedgerStep]_ledgerVars
  BY DEF LedgerStep
<1> QED
  BY <1>1, <1>2, <1>3, RequestsStayOnMenu, PTL DEF Spec, LedgerSpec

(* Hence whatever requests race, retry, crash or are answered late, the
   fixture they score keeps what its ledger promises.                       *)
THEOREM ScoringKeepsFixture ==
  Spec => /\ []CacheIsFold /\ []LedgerReplays /\ []StatusFollowsLedger
          /\ []NotLockedOut /\ []StoppageRecordsNothing
          /\ FinalizedIsFinal
BY RequestsImplementLedger, CacheCorrect, ReplayCorrect, StatusCorrect,
   NobodyLockedOut, StoppageCorrect, FinalizedStays, PTL

(***************************************************************************)
(* Device links.                                                            *)
(***************************************************************************)
(* What assertEntitledToScore established of a request, in terms of the
   ledger: as the ledger only grows, it cannot go stale.                    *)
LinkEntitled(r, log) ==
  r.actor \in DeviceLinks =>
    /\ r.type # "core.finalize"
    /\ r.type = "core.void" =>
         r.voids \in DOMAIN log /\ log[r.voids].by = r.actor

CheckedLinks ==
  \A h \in Handlers :
    handler[h].pc \in {"undo", "append"} => LinkEntitled(Request(h), ledger)

(* A link's recorded undo names an earlier event of that link.              *)
LinksUndoOwn ==
  \A i \in DOMAIN ledger :
    ledger[i].by # Null =>
      /\ ledger[i].type # "core.finalize"
      /\ ledger[i].type = "core.void" =>
           /\ ledger[i].voids \in DOMAIN ledger
           /\ ledger[ledger[i].voids].by = ledger[i].by

LinkInv == TypeOK /\ RequestsOnMenu /\ CheckedLinks /\ LinksUndoOwn

LEMMA LinkInvInductive == Spec => []LinkInv
<1>1. Init => CheckedLinks /\ LinksUndoOwn
  BY DEF Init, LedgerInit, Idle, CheckedLinks, LinksUndoOwn
<1>2. ASSUME LinkInv, [Next]_vars
      PROVE  CheckedLinks' /\ LinksUndoOwn'
  <2> USE <1>2 DEF LinkInv
  <2>1. ASSUME NEW h \in Handlers, AppendAccepted(h)
        PROVE  CheckedLinks' /\ LinksUndoOwn'
    <3> DEFINE k == handler[h].key
               e == Candidate(k)
    <3>1. LinkEntitled(sent[k], ledger)
      BY <2>1 DEF AppendAccepted, CheckedLinks, Request
    <3>2. e.by # Null => sent[k].actor \in DeviceLinks /\ e.by = sent[k].actor
      BY DEF Candidate
    <3>3. LinksUndoOwn'
      BY <2>1, <3>1, <3>2, AppendEffect DEF LinksUndoOwn, LinkEntitled
    <3>4. ASSUME NEW r, LinkEntitled(r, ledger) PROVE LinkEntitled(r, ledger')
      BY <2>1, <3>4, AppendEffect DEF LinkEntitled
    <3>5. \A g \in Handlers : handler'[g].pc \in {"undo", "append"} =>
            handler'[g] = handler[g] /\ sent' = sent
      BY <2>1 DEF AppendAccepted, Goto, TypeOK
    <3> QED
      BY <3>3, <3>4, <3>5 DEF CheckedLinks, Request
  <2>2. ASSUME ledger' = ledger PROVE LinksUndoOwn'
    BY <2>2 DEF LinksUndoOwn
  <2>3. ASSUME NEW h \in Handlers, ledger' = ledger, sent' = sent,
               \A g \in Handlers \ {h} : handler'[g] = handler[g],
               handler'[h].pc \in {"undo", "append"} =>
                 LinkEntitled(Request(h)', ledger)
        PROVE  CheckedLinks'
    BY <2>3 DEF CheckedLinks, Request
  <2>4. ASSUME NEW h \in Handlers, AssertEntitled(h)
        PROVE  CheckedLinks'
    <3> DEFINE r == Request(h)
    <3>1. /\ ledger' = ledger /\ sent' = sent
          /\ \A g \in Handlers \ {h} : handler'[g] = handler[g]
      BY <2>4 DEF AssertEntitled, Goto, Answer, TypeOK, ledgerVars
    <3>2. handler'[h].pc \in {"undo", "append"} =>
            Entitled(r) /\ handler'[h].key = handler[h].key
      BY <2>4 DEF AssertEntitled, Goto, Answer, TypeOK, Idle
    <3>3. r.type = "core.void" => r.voids \in 1..Len(ledger)
      BY <2>4 DEF AssertEntitled, Request, RequestsOnMenu, EventTargets, TypeOK
    <3>4. DOMAIN ledger = 1..Len(ledger)
      BY DEF TypeOK, LedgerTypeOK
    <3>5. Entitled(r) => LinkEntitled(r, ledger)
      BY <3>3, <3>4 DEF Entitled, LinkEntitled
    <3> QED
      BY <2>3, <3>1, <3>2, <3>5 DEF Request
  <2>5. ASSUME NEW h \in Handlers, AssertUndoTarget(h)
        PROVE  CheckedLinks'
    <3>1. /\ ledger' = ledger /\ sent' = sent
          /\ \A g \in Handlers \ {h} : handler'[g] = handler[g]
      BY <2>5 DEF AssertUndoTarget, Goto, Answer, TypeOK, ledgerVars
    <3>2. handler'[h].pc \in {"undo", "append"} =>
            handler'[h].key = handler[h].key /\ handler[h].pc = "undo"
      BY <2>5 DEF AssertUndoTarget, Goto, Answer, TypeOK, Idle
    <3> QED
      BY <2>3, <3>1, <3>2 DEF Request, CheckedLinks
  <2>6. ASSUME NEW h \in Handlers, NEW k \in Keys, Receive(h, k)
        PROVE  CheckedLinks'
    BY <2>3, <2>6 DEF Receive, Answer, Idle, TypeOK, ledgerVars
  <2>7. ASSUME NEW h \in Handlers, AppendRefused(h) \/ Remember(h) \/ Crash(h)
        PROVE  CheckedLinks'
    BY <2>3, <2>7 DEF AppendRefused, Remember, Crash, Answer, Idle, TypeOK,
       ledgerVars
  <2>8. ASSUME NEW k \in Keys, Send(k)
        PROVE  CheckedLinks'
    <3>1. \A h \in Handlers : handler[h].pc \in {"undo", "append"} =>
            sent'[handler[h].key] = sent[handler[h].key]
      BY <2>8, SendEffect DEF TypeOK
    <3> QED
      BY <2>8, <3>1, SendEffect DEF CheckedLinks, Request
  <2>9. ASSUME StartDivision \/ Administer \/ UNCHANGED vars
        PROVE  CheckedLinks'
    <3>1. ledger' = ledger /\ sent' = sent /\ handler' = handler
      BY <2>9 DEF StartDivision, Administer, EditConfig, RebuildState,
         ResnapshotFixtureConfig, vars, ledgerVars
    <3> QED
      BY <3>1 DEF CheckedLinks, Request
  <2>10. CASE \E h \in Handlers : AppendAccepted(h)
    BY <2>1, <2>10
  <2>11. CASE ~\E h \in Handlers : AppendAccepted(h)
    BY <2>2, <2>4, <2>5, <2>6, <2>7, <2>8, <2>9, <2>11, LedgerUnchanged,
       StepCases DEF Steps
  <2> QED BY <2>10, <2>11
<1> QED
  BY <1>1, <1>2, TypeCorrect, RequestsStayOnMenu, PTL DEF Spec, LinkInv

(* A device link finalizes nothing and undoes nobody else's event: the check
   reads before the lock, and nothing it read can change.                   *)
THEOREM LinksAreConfined == Spec => []DeviceLinksConfined
<1>1. LinkInv => DeviceLinksConfined
  BY DEF LinkInv, LinksUndoOwn, DeviceLinksConfined
<1> QED
  BY <1>1, LinkInvInductive, PTL
=============================================================================
