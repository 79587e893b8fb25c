--------------------------- MODULE MCStageProgress --------------------------
(* Two-stage divisions small enough for TLC.                                *)
EXTENDS StageProgress, TLC

CONSTANTS f1, f2, f3

HandlerSymmetry == Permutations(Handlers)

Win(w, l) == [kind |-> "win", winner |-> w, loser |-> l]
Award(w) == [kind |-> "award", winner |-> w, loser |-> Null]
NoResult == [kind |-> "no_result", winner |-> Null, loser |-> Null]

NoFeed == [f \in Fixtures |-> Null]
NoPlaces == <<>>

(* f1 and f2 are the first stage, f3 the final it qualifies for: a league, or
   two swiss rounds of one game.  Two entrants meet throughout, "a" wins.   *)
TwoThenFinal == [f \in Fixtures |-> IF f = f3 THEN 2 ELSE 1]
SecondRound == [f \in Fixtures |-> IF f = f2 THEN 2 ELSE 1]
OneRound == [f \in Fixtures |-> 1]
TwoRounds == <<2, 2>>
LeagueKind == <<"league", "knockout">>
SwissKind == <<"swiss", "knockout">>
Same == [f \in Fixtures |-> {"a", "b"}]
Won == {Win("a", "b")}

(* f1 is the first stage; the second is a stepladder: f2's winner meets "c" in
   the final f3, and both pin ranks.                                        *)
OneThenBracket == [f \in Fixtures |-> IF f = f1 THEN 1 ELSE 2]
BracketFeed == [f \in Fixtures |-> IF f = f2 THEN f3 ELSE Null]
Stepladder == [f \in Fixtures |-> IF f = f3 THEN {"c"} ELSE {"a", "b"}]
LadderPlaces == f2 :> [winner |-> 2, loser |-> 3] @@ f3 :> [winner |-> 1, loser |-> 2]
AnyOutcome == {Win("a", "b"), Win("b", "a"), Win("a", "c"), Win("c", "a"),
               Award("b"), NoResult}
=============================================================================
