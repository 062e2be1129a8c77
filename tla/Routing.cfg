\* A preferred worker that reserves a package, and one that keeps asking for work.
CONSTANTS
    w1 = w1
    w2 = w2
    p1 = p1
    p2 = p2
    x86 = x86
    arm = arm
    Null = Null
    Workers = {w1, w2}
    Pkgs = {p1, p2}
    Platforms = {x86}
    Arches <- AllArches
    Affinity <- FirstReserves
    Priority <- FirstPreferred
    Concurrency <- OneAtATime
    LeaseTtl = 3
    SpillDelay = 1
    LivenessTimeout = 0
    TouchThrottle = 1
    MaxAttempts = 0
    BuildAge <- AgeTwo
    Pausable = {w1}
    Revocable = {}
    Reapprovable = {}
    Deletable = {}
    Dependent = {}
    Diligent = {w2}
    Requesters = {"User"}
    MaxBuilds = 2
    MaxRequests = 2
    MaxInFlight = 1
    MaxRestarts = 0
    MaxTime = 2
SPECIFICATION PollingSpec
INVARIANTS ExplainedMeansUnclaimable
PROPERTIES QueuedBuildIsTaken
