\* Two builds of one worker on a pool without a base.
CONSTANTS
    Null = Null
    Worker = Worker
    b1 = b1
    b2 = b2
    once = once
    Builds = {b1, b2}
    OneShot = {}
    KeepFor = 1
    Interval = 1
    MaxTime = 0
    MaxFaults = 0
SPECIFICATION Spec
PROPERTIES WholeBasesOnly
CHECK_DEADLOCK FALSE
