SPECIFICATION SearchSpec
CONSTANTS
    Urls <- MCUrls
    Parents = {0, 3, 4}
    UINT_MAX = 255
    MaxSeen = 2
INVARIANTS
    PathDecides
    SameParentPreferred
CHECK_DEADLOCK FALSE
