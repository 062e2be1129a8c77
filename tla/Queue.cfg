\* Two platforms of a package with dependencies, builds held, promoted, demoted, cancelled and deleted.
CONSTANTS
    w1 = w1
    w2 = w2
    p1 = p1
    p2 = p2
    x86 = x86
    arm = arm
    Null = Null
    Workers = {w1, w2}
    Pkgs = {p1}
    Platforms = {x86, arm}
    Arches <- AllArches
    Affinity <- NoAffinity
    Priority <- EqualPriority
    Concurrency <- TwoAtATime
    LeaseTtl = 1
    SpillDelay = 1
    LivenessTimeout = 1
    TouchThrottle = 9
    MaxAttempts = 1
    BuildAge <- AgeTwo
    Pausable = {}
    Revocable = {}
    Reapprovable = {}
    Deletable = {p1}
    Dependent = {p1}
    Diligent = {}
    Requesters = {"User"}
    MaxBuilds = 3
    MaxRequests = 2
    MaxInFlight = 1
    MaxRestarts = 0
    MaxTime = 1
SYMMETRY WorkerSymmetry
SPECIFICATION Spec
INVARIANTS StatusFollowsBuilds OneInProgress
