SPECIFICATION RegisterSpec
CONSTANTS
    o1 = o1
    j1 = j1
    Descriptors <- RecordDescriptors
    Objects = {o1}
    Providers <- NoProviders
    OriginalIds = {}
    Joins = {j1}
    Preallocate = FALSE
    Ghosts = TRUE
    NestedLoops = FALSE
    MaxId = 5
    MaxQueue = 1
INVARIANTS
    NoCrash
    UserActionsOrdered
PROPERTY
    JoinsOrdered
CHECK_DEADLOCK FALSE
