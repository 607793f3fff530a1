CONSTANTS
    Callers = {c1, c2, c3}
    Keys = {k1}
    Labels = {archive, asmhdr}
    Content = {f}
    Absent = Absent
    NoCaller = NoCaller
    NoKey = NoKey
    BadToken = BadToken
    Cancellable = TRUE
SPECIFICATION Spec
SYMMETRY Symmetry
INVARIANTS
    OneTokenPerKey
    AllOrNothing
    ReuseAgrees
    NoSpuriousCancel
PROPERTIES
    PublishedIsFinal
    ImplementsBuildOnce
CHECK_DEADLOCK FALSE
