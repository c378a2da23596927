CONSTANTS
    p1 = p1  p2 = p2
    Deployment = {1, 2}
    Poll = {p1, p2}
    Cap <- OldAndNew
    Needs <- NeedContainers
    Staged = {2}
    Defect <- FirstIsDefect
    ClaimTimeout = 2
    LostThreshold = 2
    CancelTimeout = 1
    FirstSeq = 1
    LastSeq = 3
    Split = {1, 2}
    MaxLogEvents = 2
    MaxClaims = 2
SPECIFICATION RemoteSpec
SYMMETRY SamePolls
INVARIANTS
    ExecutesOnce
    OutcomeBacked
    LogHolds
    AcknowledgedPublished
PROPERTIES
    OutcomeStays
CHECK_DEADLOCK FALSE
