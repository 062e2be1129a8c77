\* Two requests at a time on a library and an application that need each other.
CONSTANTS
    app = app
    lib = lib
    alt = alt
    t1 = t1
    t2 = t2
    Tasks = {t1, t2}
    Names = {app, lib, alt}
    Releases <- Cycle
    Patch <- Both
    Provides <- Answers
    Installed = {app}
    Requestable = {app, lib, alt}
    Kinds = {"Add", "Update", "Edit", "Replace", "Remove"}
    MaxRequests = 2
    MaxRestarts = 1
SYMMETRY TaskSymmetry
SPECIFICATION Spec
INVARIANTS TypeOK 
PROPERTIES NeededIsKept 
CHECK_DEADLOCK FALSE
