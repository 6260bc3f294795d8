CONSTANTS
    a = a
    b = b
    a1 = a1
    a2 = a2
    b1 = b1
    Users <- TwoUsers
    Turns <- ThreeTurns
    UserOf <- TheirOwner
    Nobody = Nobody
    MaxActive = 2
    MaxActivePerUser = 1
    MaxQueued = 3
    MaxQueuedPerUser = 2
    Capacity = 1
SPECIFICATION Spec
CHECK_DEADLOCK FALSE
INVARIANT CancelledLeavesNothing
