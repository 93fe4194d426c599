SPECIFICATION Spec
CONSTANTS
    Period = 10
    Schedules <- NightlyAndWeekdays
    Margin = 1
    MaxGap = 1
    MinGap = 1
    MaxPass = 0
    MaxBackoff = 1
    None = None
INVARIANTS
    ReadsAnyPair
