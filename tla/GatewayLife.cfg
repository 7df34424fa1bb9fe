\* Every way to launch, and each sort of traffic on its own.
CONSTANTS
    Environments <- MCEnvironments
    LaunchFaults = {"stage", "runtime", "cleanup", "store", "bind", "kill"}
    Requests = {"w1", "w2", "w3", "w4", "w5", "w6", "w7", "w8", "w9", "w10", "c1", "c2", "c3", "c4", "r1", "r2", "r3", "s1"}
    Kind <- MCKind
    Loads <- MCLoads
    Scenarios <- MCScenarios
    Burst = 1
    Rate = 1
    TTL = 2
    MaxNow = 3
    Recorders = {"t1", "t2"}
    ServeFaults = {"dedup", "host", "hangup"}
SPECIFICATION FairSpec
INVARIANTS BucketAccounts DuplicateWasTaken ReadinessHonest ScrapeSkewBounded CiHeadWasCurrent StageIsRemoved IsolationAsAsked
PROPERTIES ShutdownEnds
CHECK_DEADLOCK FALSE
