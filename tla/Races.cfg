\* One package on one platform, two workers: heartbeat, reaper, retry and completion race.
CONSTANTS
    w1 = w1
    w2 = w2
    p1 = p1
    p2 = p2
    x86 = x86
    arm = arm
    Null = Null
    Workers = {w1, w2}
    Pkgs = {p1}
    Platforms = {x86}
    Arches <- AllArches
    Affinity <- NoAffinity
    Priority <- EqualPriority
    Concurrency <- OneAtATime
    LeaseTtl = 1
    SpillDelay = 1
    LivenessTimeout = 1
    TouchThrottle = 9
    MaxAttempts = 1
    BuildAge <- AgeTwo
    Pausable = {}
    Revocable = {}
    Reapprovable = {}
    Deletable = {}
    Dependent = {}
    Diligent = {}
    Requesters = {"User"}
    MaxBuilds = 3
    MaxRequests = 1
    MaxInFlight = 2
    MaxRestarts = 1
    MaxTime = 2
SYMMETRY WorkerSymmetry
SPECIFICATION Spec
INVARIANTS TypeOK LeaseExactlyWhileActive RetryBudgetRespected
PROPERTIES SettledIsFinal ReapedOnlyWhenExpired LifecycleSpec
