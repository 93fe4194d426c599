SPECIFICATION FairSpec
CONSTANTS
    None = None
    Requests = {r1}
    Windows = {w1}
    Durations = {1, 2}
    Caps = {0, 1}
    Margin = 1
    MaxGap = 3
    MinGap = 1
    MaxPass = 0
    MaxBackoff = 2
    AgeBound = 3
    Disturbances <- Everything
INVARIANTS
    TypeOK
    AnsweredInTime
    HeldByARequest
    HoldsAreHonoured
    VerdictInv
PROPERTIES
    GoesBackToSleep
    EveryoneIsAnswered
    StatusSettles
    KeepsLease
