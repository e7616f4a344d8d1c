SPECIFICATION TimersSpec
CONSTANTS
    t1 = t1
    t2 = t2
    Descriptors <- ReplayDescriptors
    Objects = {t1, t2}
    Providers <- RefusingProviders
    OriginalIds = {1}
    Joins = {}
    Preallocate = TRUE
    Ghosts = FALSE
    NestedLoops = FALSE
    MaxId = 4
    MaxQueue = 2
    NullTimer <- Uncontrolled
    NoImplicitArcs = {}
SYMMETRY TimerSymmetry
INVARIANTS
    HistoryIsTranslation
    StoppedTimersStaySilent
    NoLostTimer
PROPERTIES
    StaysDefined
    FiredAfterStarter
CHECK_DEADLOCK FALSE
