SPECIFICATION Spec
CONSTANTS
    u1 = u1
    u2 = u2
    Urls = {u1, u2}
    Score <- Alike
    MaxReplies = 2
    MaxSignals = 2
    MaxActions = 3
    MaxSteps = 3
    MaxStrict = 1
    MaxFree = 2
SYMMETRY UrlSymmetry
INVARIANTS
    StrictReplayRepeats
    StrictReplayGoesOn
    ReplayCanBeReplayed
    OneReaderPerReply
    RepliesAreOrdered
CHECK_DEADLOCK FALSE
