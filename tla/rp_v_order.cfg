SPECIFICATION Spec
CHECK_DEADLOCK FALSE
CONSTANTS
    None = None
    Windows = {w1}
    Specs <- WarningOnly
    Deployments = {d1, d2}
    Nodes <- OneWorker
    Daemons = {}
    Pods = {}
    Budgets = {}
    MaxDisturbances = 2
PROPERTIES
    OneEventPerAnswer
