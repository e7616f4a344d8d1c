SPECIFICATION Spec
CONSTANTS
    Frames = {main, child, ad}
    Main = main
    NoFrame = NoFrame
    ExploredLimit = 3
    FailureLimit = 2
    MaxUnsigned = 5
    MaxLoads = 4
    MaxEvents = 4
INVARIANT
    CountReturns
PROPERTY
    SessionEnds
CHECK_DEADLOCK FALSE
