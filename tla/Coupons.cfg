\* One match, syncs over HTTP, the cron, the purge and a restart.
SPECIFICATION FairSpec
CONSTANTS
  r1 = r1 cron = cron
  Ticks = {}
  Requests = {r1}
  Cron = cron
  Parts <- NoParts
  Kinds = {}
  RetryMax = 1
  MaxFailures = 1
  PauseTime = 0
  CacheTtl = 0
  StaleAfter = 1
  PurgeAfter = 2
  MaxAge = 4
  SyncTime = 1
  ReadTime = 0
  EvalTime = 1
  MaxCrashes = 1
  Scorers = {"home"}
  Scores = {0, 1}
  KickOff = "1H"
  Course <- Regular
  Bets <- OneBet
INVARIANTS CouponsAreTrue
PROPERTIES SuggestedInPlay CouponsEnd
CHECK_DEADLOCK FALSE
