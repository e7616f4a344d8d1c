SPECIFICATION Spec
CONSTANTS
    MaxCalls = 60
    Pages <- LatePages
    LateScripts = TRUE
    MaxSuspends = 0
PROPERTY
    LoadEventFires
CHECK_DEADLOCK FALSE
