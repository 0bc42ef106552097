\* A tick of the scheduler and one that overtakes it, reads, restarts.
SPECIFICATION FairFeed
CONSTANTS
  t1 = t1 t2 = t2
  Ticks = {t1, t2}
  Requests = {}
  Parts <- OnePart
  Kinds = {"summary"}
  RetryMax = 0
  MaxFailures = 1
  PauseTime = 1
  CacheTtl = 1
  StaleAfter = 0
  MaxAge = 4
  SyncTime = 1
  ReadTime = 0
  Scorers = {}
  Scores = {0}
  KickOff = "1H"
  Course <- Endless
INVARIANTS AnswersAreFresh
PROPERTIES PausesEnd
CHECK_DEADLOCK FALSE
