SPECIFICATION Spec
CONSTANTS
    None = None
    Deployments = {d1}
    Windows = {w1, w2}
    Sizes = {2, 3}
    Specs <- DisagreeingSpecs
    MaxLag = 2
    PromptCache = TRUE
    Disturbances <- Overlapping
INVARIANTS
    TypeOK
    NeverStranded
    AnnotationsTogether
    SavedIsAPersonsCount
    RecordInv
PROPERTIES
    MidnightScaleWins
    KeepsCustody
    HoldsTillMorning
VIEW ButStatus
