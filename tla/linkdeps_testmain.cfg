SPECIFICATION LDSpec
CONSTANTS
    N = 4
    NoPackage = 0
    Worlds <- WeavingTestMain
INVARIANTS
    AllFingerprintsAgree
CHECK_DEADLOCK FALSE
