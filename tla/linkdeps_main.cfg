SPECIFICATION LDSpec
CONSTANTS
    N = 4
    NoPackage = 0
    Worlds <- LinkingMain
INVARIANTS
    AllTargetsAreLoaded
CHECK_DEADLOCK FALSE
