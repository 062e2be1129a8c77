\* Two versions of a package published, removed and swept, with a failure and a crash anywhere.
CONSTANTS
    b1 = b1
    b2 = b2
    b3 = b3
    p1 = p1
    p2 = p2
    n1 = n1
    n2 = n2
    d1 = d1
    d2 = d2
    x86 = x86
    Null = Null
    Builds = {b1, b2}
    Pkgs = {p1}
    Platforms = {x86}
    Names = {n1, n2}
    Dirs = {d1, d2}
    NamePlatform <- OnePlatform
    EntryDir <- OwnDirs
    Grace = 1
    PkgOf <- Package
    PlatformOf <- AllX86
    Produces <- NewVersion
    Publishable = {b1, b2}
    DependsOn <- NoDependencies
    CommitAttempts = 2
    Deletable = {b2}
    Removable = {p1}
    MaxFaults = 1
    MaxResumeFaults = 0
    MaxCrashes = 1
    MaxTime = 2
SPECIFICATION Spec
INVARIANTS TypeOK KeptInStep ListedFilesExist
PROPERTIES SuccessfulIsServed SweptAfterGrace CatalogueSpec
