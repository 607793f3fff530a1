CONSTANTS
    p1 = p1
    p2 = p2
    p3 = p3
    pkg = pkg
    asmhdr = asmhdr
    Archive = archive
    Callers = {p1, p2, p3}
    Keys = {pkg}
    Labels = {archive, asmhdr}
    Content <- MCContent
    Absent = Absent
    NoCaller = NoCaller
    NoKey = NoKey
    BadToken = BadToken
    Cancellable = FALSE
    KeyOf <- SameKey
    Outputs <- MixedOutputs
    Tracked = {p1, p2}
SPECIFICATION TFairSpec
INVARIANTS
    CompiledOnce
    SameArtifacts
    SuccessIsComplete
    OwnerSuccessIsPublished
    FailureIsShared
PROPERTIES
    ProcessesExit
CHECK_DEADLOCK FALSE
