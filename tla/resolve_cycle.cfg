CONSTANTS
    a = a
    b = b
    c = c
    d = d
    Packages = {a, b, c, d}
    NoPackage = NoPackage
    MaxDepth = 4
    Worlds <- Branches
SPECIFICATION RSpec
INVARIANT GraphIsAcyclic
CHECK_DEADLOCK FALSE
