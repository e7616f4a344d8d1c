SPECIFICATION TimersSpec
CONSTANTS
    t1 = t1
    t2 = t2
    Descriptors <- OneDescriptor
    Objects = {t1, t2}
    Providers <- NoProviders
    OriginalIds = {}
    Joins = {}
    Preallocate = FALSE
    Ghosts = TRUE
    NestedLoops = FALSE
    MaxId = 3
    MaxQueue = 2
    NullTimer <- Uncontrolled
    NoImplicitArcs = {}
SYMMETRY TimerSymmetry
INVARIANT
    NoLostTimer
CHECK_DEADLOCK FALSE
