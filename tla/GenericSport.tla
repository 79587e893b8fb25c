---------------------------- MODULE GenericSport ----------------------------
(***************************************************************************)
(* The `generic` sport module (packages/engine/src/sports/generic): the    *)
(* pure state machine a fixture of an unmodelled sport is folded through.   *)
(* A fold that throws is the state Refused.  Entrants are the two sides.    *)
(***************************************************************************)
EXTENDS Integers

CONSTANT Null      \* an absent optional field, an undecided outcome

Sides == {"home", "away"}
Opponent(side) == IF side = "home" THEN "away" ELSE "home"

Refused == [phase |-> "refused"]

Win(side)   == [kind |-> "win", winner |-> side]
Draw        == [kind |-> "draw"]
NoResult    == [kind |-> "no_result"]
Award(side) == [kind |-> "award", winner |-> side]
Outcomes    == {Win(s) : s \in Sides} \cup {Award(s) : s \in Sides}
               \cup {Draw, NoResult}

InitState == [phase |-> "pre", score |-> Null, outcome |-> Null,
              running |-> Null]

OverYet(s) == s.phase \notin {"pre", "live"}

(***************************************************************************)
(* Result cards: [winner, p1, p2, isDraw], each Null when not given.        *)
(***************************************************************************)
Leader(score) == IF score.home > score.away THEN "home"
                 ELSE IF score.away > score.home THEN "away" ELSE Null

CardScore(s, card) == IF card.p1 # Null
                      THEN [home |-> card.p1, away |-> card.p2]
                      ELSE s.running

CardWinner(cfg, s, card) ==
  IF cfg.resultMode = "score" THEN Leader(CardScore(s, card))
  ELSE IF card.isDraw = TRUE THEN Null ELSE card.winner

CardAccepted(cfg, s, card) ==
  LET score  == CardScore(s, card)
      winner == CardWinner(cfg, s, card)
  IN  /\ (card.p1 = Null) <=> (card.p2 = Null)
      /\ cfg.resultMode = "score" => score # Null
      /\ cfg.resultMode = "win_loss" =>
           ((card.isDraw = TRUE) # (card.winner # Null))
      /\ winner = Null => cfg.allowDraws
      /\ card.winner # Null => card.winner = winner
      /\ card.isDraw # Null => (card.isDraw = (winner = Null))
      /\ score # Null => Leader(score) = winner

ApplyResult(cfg, s, card) ==
  IF OverYet(s) \/ ~CardAccepted(cfg, s, card) THEN Refused
  ELSE LET winner == CardWinner(cfg, s, card)
       IN  [s EXCEPT !.phase = "done",
                     !.score = CardScore(s, card),
                     !.outcome = IF winner = Null THEN Draw ELSE Win(winner)]

(* One scoring action: points may be negative, a side never goes below 0.  *)
ApplyScore(s, tally) ==
  LET base == IF s.running = Null THEN [home |-> 0, away |-> 0] ELSE s.running
      next == base[tally.by] + tally.points
  IN  IF OverYet(s) \/ next < 0 THEN Refused
      ELSE [s EXCEPT !.running = [base EXCEPT ![tally.by] = next]]

Apply(cfg, s, event) ==
  CASE event.type = "core.start" ->
         IF s.phase # "pre" THEN Refused ELSE [s EXCEPT !.phase = "live"]
    [] event.type = "generic.result" -> ApplyResult(cfg, s, event.payload)
    [] event.type = "generic.score" -> ApplyScore(s, event.payload)
    [] event.type = "core.forfeit" ->
         IF OverYet(s) THEN Refused
         ELSE [s EXCEPT !.phase = "done",
                        !.outcome = Award(Opponent(event.payload.by))]
    [] event.type = "core.abandon" ->
         IF OverYet(s) THEN Refused
         ELSE [s EXCEPT !.phase = "done", !.outcome = NoResult]
    [] event.type = "core.finalize" ->
         IF s.phase # "done" THEN Refused ELSE [s EXCEPT !.phase = "final"]
    [] event.type \in {"core.note", "core.award"} -> s
    [] OTHER -> Refused

(* Draws only where the stage format can absorb them.                      *)
SupportsDraws(cfg, stageKind) ==
  cfg.allowDraws /\ stageKind \notin {"knockout", "double_elim", "stepladder"}
=============================================================================
