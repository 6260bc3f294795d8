SPECIFICATION AnsweringSpec
CONSTANTS
    Requests = {r1, r2}
    MaxVersion = 2
    MaxGeneration = 3
    Large = {TRUE, FALSE}
    CanFail = TRUE
    Chunks = {1, 2, 3}
    Variants = 2
    Rankings <- MCRankings
    RankConstant = 60
    Scale = 3782
    TopK = 2
    MaxPool = 2
    Sources = {a, b}
    Pools <- MCPools
    MinSelected = 2
    MaxSelected = 3
    FallbackTopN = 3
    TokenBudget = 5
    TargetMin = 3
    TargetMax = 4
    MaxPerSource = 1
SYMMETRY Symmetry
INVARIANTS PoolIsFair EvidenceIsSound
PROPERTIES LexicalIsFrozen OnlyForward
