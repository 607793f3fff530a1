CONSTANTS
    a = a
    b = b
    c = c
    d = d
    Packages = {a, b}
    NoPackage = NoPackage
    MaxDepth = 4
    Worlds <- Blocked
SPECIFICATION RFairSpec
PROPERTY CyclesAreDetected
CHECK_DEADLOCK FALSE
