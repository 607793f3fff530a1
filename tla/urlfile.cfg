CONSTANTS
    Procs = {p1, p2}
    Blank = Blank
SPECIFICATION UFairSpec
INVARIANTS
    OneServerPerFile
PROPERTIES
    ClientsEnd
CHECK_DEADLOCK FALSE
