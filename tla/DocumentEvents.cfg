SPECIFICATION Spec
CONSTANTS
    Nodes = {n1}
    MaxEvents = 3
    MaxSuspends = 1
INVARIANT
    TriggeredByItsSource
CHECK_DEADLOCK FALSE
