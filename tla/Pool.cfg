\* Two builds and a build-once, from an empty pool; a command that fails or a death.
CONSTANTS
    Null = Null
    Worker = Worker
    b1 = b1
    b2 = b2
    once = once
    Builds = {b1, b2}
    OneShot = {once}
    KeepFor = 1
    Interval = 1
    MaxTime = 1
    MaxFaults = 1
SYMMETRY BuildSymmetry
SPECIFICATION Spec
INVARIANTS TypeOK 
PROPERTIES  KeptForItsTime
CHECK_DEADLOCK FALSE
