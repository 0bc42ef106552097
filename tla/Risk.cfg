\* Two transactions under a policy, over midnight.
CONSTANTS
    a1 = a1
    a2 = a2
    k1 = k1
    k2 = k2
    k3 = k3
    w1 = w1
    w2 = w2
    c1 = c1
    NoAccount = NoAccount
    NoKey = NoKey
    Accounts = {a1, a2}
    Keys = {k1, k2, k3}
    Writers = {w1, w2}
    Checkers = {c1}
    Cents = {1, 2}
    MaxEntries = 4
    Payouts = {0, 2}
    MaxStakePerBet = 1
    MaxDailyStake = 1
    MaxDailyLoss = 1
    MaxOpenExposure = 1
    LastDay = 1
SYMMETRY Interchangeable
SPECIFICATION RiskSpec
INVARIANTS JournalReplays AnswersAreTrue UndisturbedChecksPass DailyStakeHolds ExposureHolds NoBetAfterLoss
CHECK_DEADLOCK FALSE
