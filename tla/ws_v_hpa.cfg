SPECIFICATION FairSpec
CONSTANTS
    None = None
    Deployments = {d1}
    Windows = {w1}
    Sizes = {2}
    Specs <- DefaultSpecs
    MaxLag = 1
    PromptCache = TRUE
    Disturbances <- HPAOnly
PROPERTIES
    RestoredWhenAwake
