\* One order, two instances, a crash.
SPECIFICATION FairSpec
CONSTANTS
    o1 = o1
    o2 = o2
    i1 = i1
    i2 = i2
    Orders = {o1}
    Account = Account
    Instances = {i1, i2}
    Late = 1
    MaxCrashes = 1
INVARIANTS GapsAreReported QuietRunsAgree
PROPERTIES WatchedOrStopped
CHECK_DEADLOCK FALSE
