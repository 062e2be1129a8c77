\* The worker is revoked, and approved again, while its build runs; the server may die.
CONSTANTS
    w1 = w1
    w2 = w2
    p1 = p1
    p2 = p2
    x86 = x86
    arm = arm
    Null = Null
    Workers = {w1}
    Pkgs = {p1}
    Platforms = {x86}
    Arches <- AllArches
    Affinity <- NoAffinity
    Priority <- EqualPriority
    Concurrency <- OneAtATime
    LeaseTtl = 1
    SpillDelay = 1
    LivenessTimeout = 1
    TouchThrottle = 9
    MaxAttempts = 1
    BuildAge <- AgeTwo
    Pausable = {}
    Revocable = {w1}
    Reapprovable = {w1}
    Deletable = {}
    Dependent = {}
    Diligent = {}
    Requesters = {"User"}
    MaxBuilds = 2
    MaxRequests = 1
    MaxInFlight = 2
    MaxRestarts = 1
    MaxTime = 3
SPECIFICATION LiveSpec
PROPERTIES RevokedBuildEnds OverdueBuildEnds
