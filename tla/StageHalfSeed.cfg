SPECIFICATION Spec
CONSTANTS
  Null = Null
  f1 = f1
  f2 = f2
  f3 = f3
  Handlers = {h1, h2}
  NStages = 2
  Fixtures = {f1, f2, f3}
  StageOf <- TwoThenFinal
  RoundOf <- OneRound
  Feed <- NoFeed
  Drawn <- Same
  Place <- NoPlaces
  Kind <- LeagueKind
  Rounds <- TwoRounds
  Outcomes <- Won
  AutoProgress = TRUE
  Watched = {1}
  MaxScores = 3
  MaxCrashes = 0
SYMMETRY HandlerSymmetry
INVARIANT SeededFromFinishedStage
