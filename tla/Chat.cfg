CONSTANTS
    a = a
    b = b
    a1 = a1
    a2 = a2
    b1 = b1
    Users <- TwoUsers
    Turns <- ThreeTurns
    UserOf <- TheirOwner
    Nobody = Nobody
    MaxActive = 2
    MaxActivePerUser = 1
    MaxQueued = 3
    MaxQueuedPerUser = 2
    Capacity = 1
    MaxItems = 2
    MaxTokens = 4
    MaxStages = 2
    MaxWire = 1
    Asks = {t1, t2, t3}
    Stale = 3
    TurnLimit = 2
    CanFail = TRUE
SPECIFICATION AssistantSpec
INVARIANTS Types RingsAreExact NoPlaceIsLost NobodyPassesTwice OutcomeIsTrue StreamIsSound IndexerYields
PROPERTIES EveryTurnEnds StreamEnds IndexerGoesOn
CHECK_DEADLOCK FALSE
