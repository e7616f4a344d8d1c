SPECIFICATION TimersSpec
CONSTANTS
    t1 = t1
    t2 = t2
    Descriptors <- OneDescriptor
    Objects = {t1, t2}
    Providers <- NoProviders
    OriginalIds = {}
    Joins = {}
    Preallocate = FALSE
    Ghosts = FALSE
    NestedLoops = TRUE
    MaxId = 3
    MaxQueue = 2
    NullTimer <- Uncontrolled
    NoImplicitArcs = {t2}
INVARIANT
    RegistryConsistent
CHECK_DEADLOCK FALSE
