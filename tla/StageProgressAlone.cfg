SPECIFICATION Spec
CONSTANTS
  Null = Null
  f1 = f1
  f2 = f2
  f3 = f3
  Handlers = {h1}
  NStages = 2
  Fixtures = {f1, f2, f3}
  StageOf <- OneThenBracket
  RoundOf <- OneRound
  Feed <- BracketFeed
  Drawn <- Stepladder
  Place <- LadderPlaces
  Kind <- LeagueKind
  Rounds <- TwoRounds
  Outcomes <- AnyOutcome
  AutoProgress = TRUE
  Watched = {1, 2}
  MaxScores = 5
  MaxCrashes = 0
INVARIANT StandingsCatchUp
INVARIANT PlacementsPinned
PROPERTY SlotsStand
