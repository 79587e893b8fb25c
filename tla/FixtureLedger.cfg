SPECIFICATION BoundedSpec
CONSTANTS
  Null = Null
  Keys = {k1}
  DeviceLinks = {}
  Menu <- RulesMenu
  Cfgs <- RulesCfgs
  StageKind = "league"
  MaxEvents = 5
  MaxEdits = 2
INVARIANTS
  LedgerReplays
  CacheIsFold
  StatusFollowsLedger
  NotLockedOut
  StoppageRecordsNothing
PROPERTIES
  FinalizedIsFinal
  ResultStands
CHECK_DEADLOCK FALSE
