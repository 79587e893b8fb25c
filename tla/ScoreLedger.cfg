SPECIFICATION Spec
CONSTANTS
  Null = Null
  Keys = {k1, k2, k3}
  Handlers = {h1, h2}
  DeviceLinks = {link}
  Actors = {scorer, link}
  AssignedScorers = {scorer}
  ScorerCanFinalize = TRUE
  Menu <- RequestMenu
  Cfgs <- OneCfg
  StageKind = "league"
  MaxEdits = 0
SYMMETRY Symmetry
INVARIANTS
  TypeOK
  NoDoubleWrite
  NoDoubleVoid
  AnswersTruthful
  DeviceLinksConfined
PROPERTY
  LedgerSpec
CHECK_DEADLOCK FALSE
