---------------------------- MODULE MCRegistrations ---------------------------
(* Divisions of one or two spots small enough for TLC.                      *)
EXTENDS Registrations, TLC

HandlerSymmetry == Permutations(Handlers)

(* Either the organiser keeps out of it, or one checkout session is minted. *)
OneSession ==
  \E r \in Registrants : sessions[r] <= 1 /\ \A q \in Registrants \ {r} : sessions[q] = 0
BoundedNext == Next /\ (acts' > 0 => OneSession')
BoundedSpec == Init /\ [][BoundedNext]_vars
=============================================================================
