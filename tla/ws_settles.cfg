SPECIFICATION FairSpec
CONSTANTS
    None = None
    Deployments = {d1}
    Windows = {w1}
    Sizes = {2, 3}
    Specs <- EditedSpecs
    MaxLag = 1
    PromptCache = TRUE
    Disturbances <- AllButStrip
PROPERTIES
    Converges
    PassesSettle
