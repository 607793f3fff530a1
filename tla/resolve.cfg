CONSTANTS
    a = a
    b = b
    c = c
    d = d
    Packages = {a, b, c, d}
    NoPackage = NoPackage
    MaxDepth = 4
    Worlds <- MCWorlds
SPECIFICATION RFairSpec
INVARIANTS
    GraphIsExact
    NoFalseCycle
    CompiledIsComplete
PROPERTIES
    BuildEnds
CHECK_DEADLOCK FALSE
