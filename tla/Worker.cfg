\* One build, two places after a change, lost answers, a cancel, a restart.
CONSTANTS
    b1 = b1
    b2 = b2
    Unset = Unset
    Builds = {b1}
    Settings = {2}
    Own = 1
    LeaseTtl = 1
    Attempts = 2
    MaxEvents = 1
    Cancelable = {b1}
SPECIFICATION LiveSpec
INVARIANTS TypeOK EveryPlaceIsHeld
PROPERTIES FreePlaceWakesLoop LostBuildsStop HeldBuildsAreRun 
