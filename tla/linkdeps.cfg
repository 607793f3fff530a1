SPECIFICATION LDFairSpec
CONSTANTS
    N = 4
    NoPackage = 0
    Worlds <- MCWorlds
INVARIANTS
    LinkIsComplete
    FingerprintsAgree
    TargetsAreLoaded
    RejectionIsDue
PROPERTIES
    WeavingEnds
CHECK_DEADLOCK FALSE
