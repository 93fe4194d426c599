SPECIFICATION Spec
CONSTANTS
    None = None
    Deployments = {d1}
    Windows = {w1}
    Sizes = {2, 3}
    Specs <- DefaultSpecs
    MaxLag = 3
    PromptCache = FALSE
    Disturbances <- PeopleOnly
INVARIANTS
    NeverStranded
