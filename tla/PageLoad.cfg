SPECIFICATION Spec
CONSTANTS
    MaxCalls = 60
    Pages <- AllPages
    LateScripts = FALSE
    MaxSuspends = 1
INVARIANTS
    YieldingChangesNothing
    AssertionsHold
    ScriptsSeeStyles
PROPERTIES
    CompleteMeansDone
    InputOrdered
    ScriptsOrdered
    LoadEventOrdered
    LoadEventFires
CHECK_DEADLOCK FALSE
