\* One build, and heartbeats that do not get through.
CONSTANTS
    b1 = b1
    b2 = b2
    Unset = Unset
    Builds = {b1}
    Settings = {2}
    Own = 1
    LeaseTtl = 1
    Attempts = 2
    MaxEvents = 2
    Cancelable = {b1}
SPECIFICATION Spec
PROPERTIES SelfAbortIsRetried
