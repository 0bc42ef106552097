\* Two administrators, and two executors that keep coming.
SPECIFICATION FairSpec
CONSTANTS
    alice = alice
    bob = bob
    e1 = e1
    e2 = e2
    Admins = {alice, bob}
    Executors = {e1, e2}
    FirstRows <- AllRows
    Recorded <- SandboxGates
    MaxChanges = 3
    MaxPolicies = 1
INVARIANTS
    PermitsAreCurrent
    GatesProven
    VersionsIdentifyRows
    AuditIsComplete
PROPERTIES
    RaisedKnowingly
    StopsGetThrough
    KeepsSwitch
CHECK_DEADLOCK FALSE
