CONSTANTS
    Procs = {p1, p2}
    Blank = Blank
SPECIFICATION UFairSpec
PROPERTY OwnFileOnly
CHECK_DEADLOCK FALSE
