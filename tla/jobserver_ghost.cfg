CONSTANTS
    Clients = {c1, c2}
SPECIFICATION JFairSpec
PROPERTY InactiveServerStops
CHECK_DEADLOCK FALSE
