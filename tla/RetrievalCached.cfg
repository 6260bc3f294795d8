SPECIFICATION RetrievalSpec
CONSTANTS
    Chunks = {1, 2, 3}
    Variants = 2
    Rankings <- MCRankings
    RankConstant = 60
    Scale = 3782
    TopK = 2
    MaxPool = 2
INVARIANT CacheIsTransparent
