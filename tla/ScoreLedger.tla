---------------------------- MODULE ScoreLedger -----------------------------
(***************************************************************************)
(* The requests that write a fixture's ledger: scoreEvent and its checks    *)
(* (apps/web/src/server/usecases/scoring.ts) around the append transaction  *)
(* of FixtureLedger.                                                        *)
(*                                                                          *)
(* A handler is one server-side execution of a request.  scoreEvent is not  *)
(* one transaction: the idempotency lookup, the entitlement read and the    *)
(* undo-target read each happen before, and the idempotency write after,    *)
(* the append transaction, which alone holds the fixture's advisory lock.   *)
(* Those are the steps of a handler here, and handlers interleave.          *)
(***************************************************************************)
EXTENDS FixtureLedger

CONSTANTS
  Handlers,          \* concurrent executions of scoreEvent
  Actors,            \* who records: organisers, scorers, device links
  AssignedScorers,   \* the actors that score through an assignment
  ScorerCanFinalize  \* divisions.scorer_can_finalize

ASSUME ScoreLedgerAssumption ==
  /\ DeviceLinks \cup AssignedScorers \subseteq Actors
  /\ ScorerCanFinalize \in BOOLEAN

VARIABLES
  started,      \* division status is past setup/scheduled
  sent,         \* the request body a client sends under each key, or Null
  cache,        \* Redis: the cached answer per key, or Null
  handler,      \* each handler's place in scoreEvent: [pc, key]
  answers       \* history: the answers given under each key

vars == <<ledgerVars, started, sent, cache, handler, answers>>

Idle == [pc |-> "idle", key |-> Null]
Accepted(n) == [kind |-> "ok", seq |-> n]
Conflict == [kind |-> "conflict"]
Rejected == [kind |-> "rejected"]

Request(h) == sent[handler[h].key]

Init ==
  /\ LedgerInit
  /\ started = FALSE
  /\ sent = [k \in Keys |-> Null]
  /\ cache = [k \in Keys |-> Null]
  /\ handler = [h \in Handlers |-> Idle]
  /\ answers = [k \in Keys |-> {}]

(***************************************************************************)
(* Clients.  A pad fixes the body of an action, its expected_seq included,  *)
(* once, and repeats exactly that body under the same key until answered.   *)
(* expected_seq is a ledger tip the client has seen.                        *)
(***************************************************************************)
Send(k) ==
  /\ sent[k] = Null
  /\ \E actor \in Actors, m \in Menu, expected \in 0..Len(ledger) :
       \E target \in EventTargets(m.type) :
         sent' = [sent EXCEPT ![k] =
                    [type |-> m.type, payload |-> m.payload, actor |-> actor,
                     expected |-> expected, voids |-> target]]
  /\ UNCHANGED <<ledgerVars, started, cache, handler, answers>>

(***************************************************************************)
(* scoreEvent, step by step.                                                *)
(***************************************************************************)
Goto(h, pc) == handler' = [handler EXCEPT ![h].pc = pc]

Answer(h, k, a) == /\ handler' = [handler EXCEPT ![h] = Idle]
                   /\ answers' = [answers EXCEPT ![k] = @ \cup {a}]

(* Idempotency lookup; Redis fails open and answers expire after a day, so a
   stored answer may be missed.                                            *)
Receive(h, k) ==
  /\ handler[h].pc = "idle"
  /\ sent[k] # Null
  /\ \/ cache[k] # Null /\ Answer(h, k, cache[k])
     \/ /\ handler' = [handler EXCEPT ![h] = [pc |-> "entitle", key |-> k]]
        /\ UNCHANGED answers
  /\ UNCHANGED <<ledgerVars, started, sent, cache>>

(* Faulty: a link may undo anyone's event.                                  *)
EntitledToAnyUndo(r) ==
  /\ started
  /\ r.actor \in DeviceLinks =>
       r.type # "core.finalize" /\ fixture.status # "finalized"

(* assertEntitledToScore: the capability rules, read outside the lock.      *)
Entitled(r) ==
  /\ started
  /\ r.actor \in DeviceLinks =>
       /\ r.type # "core.finalize"
       /\ r.type = "core.void" =>
            fixture.status # "finalized" /\ ledger[r.voids].by = r.actor
  /\ r.actor \in AssignedScorers =>
       /\ r.type = "core.finalize" => ScorerCanFinalize
       /\ r.type = "core.void" => fixture.status # "finalized"

AssertEntitled(h) ==
  /\ handler[h].pc = "entitle"
  /\ IF Entitled(Request(h))
     THEN /\ Goto(h, IF Request(h).type = "core.void" THEN "undo" ELSE "append")
          /\ UNCHANGED answers
     ELSE Answer(h, handler[h].key, Rejected)
  /\ UNCHANGED <<ledgerVars, started, sent, cache>>

(* Faulty: the target only has to exist.                                    *)
AssertUndoTargetExists(h) ==
  /\ handler[h].pc = "undo"
  /\ Goto(h, "append")
  /\ UNCHANGED <<ledgerVars, started, sent, cache, answers>>

(* assertUndoTarget: exists, not already undone, not itself an undo.        *)
AssertUndoTarget(h) ==
  /\ handler[h].pc = "undo"
  /\ LET target == Request(h).voids
     IN  IF target \notin Voided(ledger) /\ ledger[target].type # "core.void"
         THEN Goto(h, "append") /\ UNCHANGED answers
         ELSE Answer(h, handler[h].key, Rejected)
  /\ UNCHANGED <<ledgerVars, started, sent, cache>>

(* Faulty: the event takes the seq the client last saw.                     *)
CandidateAtTip(k) ==
  [seq |-> sent[k].expected, type |-> sent[k].type, payload |-> sent[k].payload,
   voids |-> sent[k].voids, key |-> k, by |-> Null]

Candidate(k) ==
  LET r == sent[k]
  IN  [seq |-> r.expected + 1, type |-> r.type, payload |-> r.payload,
       voids |-> r.voids, key |-> k,
       by |-> IF r.actor \in DeviceLinks THEN r.actor ELSE Null]

(* Faulty: a stale expected_seq is tolerated.                               *)
SeqNotAhead(r) == r.expected <= Len(ledger)

SeqMatches(r) == r.expected = Len(ledger)

Appendable(k) ==
  /\ fixture.status \notin Locked
  /\ SeqMatches(sent[k])
  /\ Validates(ResolveFixtureCfg, Candidate(k))

AppendAccepted(h) ==
  /\ handler[h].pc = "append"
  /\ Appendable(handler[h].key)
  /\ RecordEvent(ResolveFixtureCfg, Candidate(handler[h].key))
  /\ Goto(h, "remember")
  /\ UNCHANGED <<divisionCfg, edits, started, sent, cache, answers>>

AppendRefused(h) ==
  /\ handler[h].pc = "append"
  /\ ~Appendable(handler[h].key)
  /\ Answer(h, handler[h].key,
            IF fixture.status \notin Locked /\ ~SeqMatches(Request(h))
            THEN Conflict ELSE Rejected)
  /\ UNCHANGED <<ledgerVars, started, sent, cache>>

(* Faulty: the answer re-reads the tip after the commit.                    *)
RememberTip(h) ==
  /\ handler[h].pc = "remember"
  /\ LET k == handler[h].key
     IN  /\ Answer(h, k, Accepted(Len(ledger)))
         /\ cache' \in {cache, [cache EXCEPT ![k] = Accepted(Len(ledger))]}
  /\ UNCHANGED <<ledgerVars, started, sent>>

(* The committed answer is cached, last of all, and cacheSet may fail.      *)
Remember(h) ==
  /\ handler[h].pc = "remember"
  /\ LET k == handler[h].key
         a == Accepted(sent[k].expected + 1)
     IN  /\ Answer(h, k, a)
         /\ cache' \in {cache, [cache EXCEPT ![k] = a]}
  /\ UNCHANGED <<ledgerVars, started, sent>>

(* The process dies, or the connection drops, anywhere in scoreEvent.       *)
Crash(h) ==
  /\ handler[h].pc # "idle"
  /\ handler' = [handler EXCEPT ![h] = Idle]
  /\ UNCHANGED <<ledgerVars, started, sent, answers, cache>>

StartDivision ==
  /\ ~started
  /\ started' = TRUE
  /\ UNCHANGED <<ledgerVars, sent, cache, handler, answers>>

(* The organisers' and staff's transactions of FixtureLedger.              *)
Administer ==
  /\ EditConfig \/ RebuildState \/ ResnapshotFixtureConfig
  /\ UNCHANGED <<started, sent, cache, handler, answers>>

Step(h) == \/ \E k \in Keys : Receive(h, k)
           \/ AssertEntitled(h) \/ AssertUndoTarget(h)
           \/ AppendAccepted(h) \/ AppendRefused(h) \/ Remember(h) \/ Crash(h)

Next == \/ \E k \in Keys : Send(k)
        \/ \E h \in Handlers : Step(h)
        \/ StartDivision \/ Administer

Spec == Init /\ [][Next]_vars

(***************************************************************************)
(* Properties.                                                              *)
(***************************************************************************)
RequestOf == [type : {m.type : m \in Menu}, payload : {m.payload : m \in Menu},
              actor : Actors, expected : Nat, voids : (Nat \ {0}) \cup {Null}]
AnswerOf == {Conflict, Rejected} \cup [kind : {"ok"}, seq : Nat \ {0}]
Pcs == {"idle", "entitle", "undo", "append", "remember"}

(* Types of the requests and the handlers, over the ledger's; a handler that
   is not idle works on a key whose request was sent.                      *)
TypeOK ==
  /\ LedgerTypeOK
  /\ started \in BOOLEAN
  /\ sent \in [Keys -> RequestOf \cup {Null}]
  /\ cache \in [Keys -> AnswerOf \cup {Null}]
  /\ handler \in [Handlers -> [pc : Pcs, key : Keys \cup {Null}]]
  /\ \A h \in Handlers : handler[h].pc # "idle" =>
       handler[h].key \in Keys /\ sent[handler[h].key] # Null
  /\ answers \in [Keys -> SUBSET AnswerOf]

(* No client action is recorded twice, however often it is retried, across
   crashes, lost answers and a Redis that forgets: expected_seq, not the
   idempotency cache, is what makes scoreEvent exactly-once.                *)
NoDoubleWrite ==
  \A i, j \in DOMAIN ledger : ledger[i].key = ledger[j].key => i = j

(* No event is undone twice although assertUndoTarget reads the target in a
   transaction of its own, before the append takes the fixture lock.        *)
NoDoubleVoid ==
  \A i, j \in DOMAIN ledger :
    /\ ledger[i].type = "core.void" /\ ledger[j].type = "core.void"
    /\ ledger[i].voids = ledger[j].voids
    => i = j

(* An acceptance is never false: an answer, fresh or replayed from the cache,
   names the very event the request recorded.                               *)
AnswersTruthful ==
  \A k \in Keys : \A a \in answers[k] :
    a.kind = "ok" => /\ a.seq \in DOMAIN ledger
                     /\ ledger[a.seq].key = k

(* A device link undoes only events recorded through that same link and never
   finalizes (assertEntitledToScore), though it reads before the lock.      *)
DeviceLinksConfined ==
  \A i \in DOMAIN ledger :
    ledger[i].by # Null =>
      /\ ledger[i].type # "core.finalize"
      /\ ledger[i].type = "core.void" =>
           ledger[ledger[i].voids].by = ledger[i].by
=============================================================================
