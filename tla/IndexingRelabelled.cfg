SPECIFICATION Spec
CONSTANTS
    Texts = {t1, t2}
    Paths = {p1, p2}
    NoText = NoText
    MaxEdits = 1
    MaxMoves = 1
    MaxDeletes = 0
    MaxFaults = 0
    MaxCrashes = 0
    MaxVersion = 2
    MaxJobs = 3
    MaxAttempts = 2
CHECK_DEADLOCK FALSE
INVARIANT QueryableIsCurrent
