\* Two packages publish one file, the one may take it over from the other, with a failing call and two crashes: everything settles.
CONSTANTS
    b1 = b1
    b2 = b2
    b3 = b3
    p1 = p1
    p2 = p2
    n1 = n1
    n2 = n2
    d1 = d1
    d2 = d2
    x86 = x86
    Null = Null
    Builds = {b1, b3}
    Pkgs = {p1, p2}
    Platforms = {x86}
    Names = {n1, n2}
    Dirs = {d1, d2}
    NamePlatform <- OnePlatform
    EntryDir <- OwnDirs
    Grace = 1
    PkgOf <- Package
    PlatformOf <- AllX86
    Produces <- NewVersion
    Publishable = {b1, b3}
    DependsOn <- FirstNeedsSecond
    CommitAttempts = 2
    Deletable = {}
    Removable = {p1}
    MaxFaults = 1
    MaxResumeFaults = 0
    MaxCrashes = 2
    MaxTime = 0
SPECIFICATION LiveSpec
INVARIANTS OwnersExist
PROPERTIES PublishingSettles DependentsPromoted
