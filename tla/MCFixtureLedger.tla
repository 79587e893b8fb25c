--------------------------- MODULE MCFixtureLedger --------------------------
(* An instance of FixtureLedger for TLC: every kind of event, three configs,
   ledgers of at most MaxEvents events.                                    *)
EXTENDS FixtureLedger, TLC

CONSTANT MaxEvents   \* bound on the ledger's length

Card(winner, p1, p2, isDraw) ==
  [winner |-> winner, p1 |-> p1, p2 |-> p2, isDraw |-> isDraw]
Plain(type) == [type |-> type, payload |-> Null]
Result(card) == [type |-> "generic.result", payload |-> card]
Forfeit(side) == [type |-> "core.forfeit", payload |-> [by |-> side]]
Tally(side, n) == [type |-> "generic.score",
                   payload |-> [by |-> side, points |-> n]]

WinLoss(draws) == [resultMode |-> "win_loss", allowDraws |-> draws]
ByScore(draws) == [resultMode |-> "score", allowDraws |-> draws]

RulesMenu == {Plain("core.start"), Plain("core.void"), Plain("core.finalize"),
              Plain("core.suspend"), Plain("core.resume"),
              Plain("core.abandon"), Forfeit("home"), Tally("home", 1),
              Result(Card("home", Null, Null, Null)),
              Result(Card(Null, Null, Null, TRUE)),
              Result(Card(Null, 1, 1, Null))}
RulesCfgs == {WinLoss(TRUE), WinLoss(FALSE), ByScore(TRUE)}

(* A full ledger takes no event, so TLC need not fold the longer ones.      *)
BoundedNext ==
  \/ Len(ledger) < MaxEvents /\ LedgerNext
  \/ Len(ledger) = MaxEvents /\ (EditConfig \/ RebuildState \/ ResnapshotFixtureConfig)
BoundedSpec == LedgerInit /\ [][BoundedNext]_ledgerVars
=============================================================================
