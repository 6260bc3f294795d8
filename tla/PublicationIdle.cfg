SPECIFICATION LexSpec
CONSTANTS
    Changes = {c1, c2}
    Immediate = {c1}
    WriteQueueSize = 2
    Slow = {}
    MaxStarts = 1
INVARIANT NothingWaitsUnpublished
CHECK_DEADLOCK FALSE
