\* One match recorded, a replay at every instant, one job over it.
SPECIFICATION Spec
CONSTANTS
  Provider = "apifootball"
  SignalKind = "totalShots"
  Programme <- ShortMatch
  Scorers = {"home"}
  StatTypes = {"on target", "off target"}
  LiveAnswers <- Live
  PrematchAnswers <- Prematch
  HalfTimeAt = 2
  FullTimeAt = 4
  Config <- Rules
  ImportTimes = {10}
  MaxFailures = 1
  PauseFor = 2
  MaxSyncs = 2
  MaxAnswers = 2
  MaxImports = 1
  Base <- Flat
  Requests <- SlowBets
  MinCoverage = 95
  MaxFolds = 3
  Grace = 1
  MaxJobs = 1
INVARIANTS MarketsAreWhole
PROPERTIES NoLookAhead EndedOnce
CHECK_DEADLOCK FALSE
