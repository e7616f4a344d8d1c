SPECIFICATION FairSpec
CONSTANTS
    Schedules <- MCSchedules
    Names <- MCNames
    OriginalIds = {2, 3, 4, 5}
    UrlScore <- SmallScore
    UINT_MAX = 9
    FirstId = 2
    MaxWaiting = 1
    MaxId = 5
INVARIANTS
    ControlInv
    EachLineOnce
    StrictUntilRelaxed
    VerdictStands
    IdsFollowHistory
    StrictTimersFollowParent
PROPERTIES
    NothingStartsAfterDone
    KeepsPromise
    ReplayEnds
CHECK_DEADLOCK FALSE
