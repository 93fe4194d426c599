SPECIFICATION FairSpec
CONSTANTS
    None = None
    Commands = {c1, c2}
    Channels = {mapped, unmapped}
    Mapped = {mapped}
    Durations = {1}
    Caps = {0, 1}
    VerdictTimeout = 1
    WaitBound = 7
    CallTime = 1
    AgeBound = 1
    Lag = 1
INVARIANTS
    TypeOK
    SaidIsWasRuled
    RefusalsLeaveNothing
    AwaitedInTime
    AcknowledgedInTurn
PROPERTIES
    EveryoneHearsBack
