--------------------------- MODULE MCScoreLedger ----------------------------
(* An instance of ScoreLedger for TLC: three requests of a scorer and a
   device link, undos, abandonments and finalizations.                      *)
EXTENDS ScoreLedger, TLC

RequestMenu == {[type |-> t, payload |-> Null] :
                  t \in {"core.void", "core.abandon", "core.finalize"}}

OneCfg == {[resultMode |-> "win_loss", allowDraws |-> FALSE]}

Symmetry == Permutations(Keys) \cup Permutations(Handlers)
=============================================================================
