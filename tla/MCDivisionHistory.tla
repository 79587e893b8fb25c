------------------------- MODULE MCDivisionHistory -------------------------
(* A stage of two pairings, one of them in the pool that can be emptied.    *)
EXTENDS DivisionHistory, TLC

CONSTANTS h1, h2, p1, p2

(* The second organiser only moves and undoes, between whatever the first
   does, and only fixtures of the pool are scored.                          *)
BoundedNext ==
  /\ Next
  /\ job'[h2].op \in {"idle", "move", "undo"} /\ job'[h1].op # "move"
  /\ \A f \in Ids : f[1] \notin Pool => fixture'[f].status = "scheduled"
BoundedSpec == Init /\ [][BoundedNext]_vars
=============================================================================
