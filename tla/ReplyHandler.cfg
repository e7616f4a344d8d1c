SPECIFICATION Spec
CONSTANTS
    MaxRedirections = 3
    SniffSize = 2
    MaxBytes = 3
    MaxDefers = 3
    AbortsUnstarted = FALSE
    LateErrors = FALSE
INVARIANTS
    CallbacksInOrder
    AssertionsHold
PROPERTIES
    NoByteLost
    LoadEnds
CHECK_DEADLOCK FALSE
