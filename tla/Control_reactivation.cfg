\* A stop of a control that is already stopped does not outdate a view of it.
SPECIFICATION FairSpec
CONSTANTS
    alice = alice
    e1 = e1
    Admins = {alice}
    Executors = {e1}
    FirstRows <- SeededOnly
    Recorded <- FirstGates
    MaxChanges = 2
    MaxPolicies = 1
PROPERTIES
    ReactivatedAfterLooking
CHECK_DEADLOCK FALSE
