SPECIFICATION FairSpec
CONSTANTS
    Period = 12
    Schedules <- DeclaredPairs
    Margin = 2
    MaxGap = 5
    MinGap = 1
    MaxPass = 1
    MaxBackoff = 3
    None = None
INVARIANTS
    TypeOK
    NeverForgotten
    DriftIsLookedFor
    PhaseIsTimely
    ReadsTheSchedule
    NextIsTheFlip
PROPERTIES
    KeepsFollowing
