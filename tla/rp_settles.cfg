SPECIFICATION FairSpec
CHECK_DEADLOCK FALSE
CONSTANTS
    None = None
    Windows = {w1}
    Specs <- EditedSpecs
    Deployments = {d1}
    Nodes <- OneWorker
    Daemons = {}
    Pods = {p1}
    Budgets = {b1}
    MaxDisturbances = 3
INVARIANTS
    TypeOK
    SeriesMirrorStatus
    NoGhostSeries
    ReportInv
PROPERTIES
    ChangesAreAnnounced
    ReportsSettle
    NewsEnds
