CONSTANTS
    Clients = {c1, c2, c3}
SPECIFICATION JFairSpec
INVARIANTS
    IdleIsTimed
PROPERTIES
    ClientsKeepServerUp
    IdleServerStops
CHECK_DEADLOCK FALSE
