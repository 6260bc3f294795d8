SPECIFICATION IndexerSpec
CONSTANTS
    Texts = {t1, t2}
    Paths = {p1, p2}
    NoText = NoText
    MaxEdits = 1
    MaxMoves = 1
    MaxDeletes = 1
    MaxFaults = 1
    MaxCrashes = 1
    MaxVersion = 2
    MaxJobs = 3
    MaxAttempts = 2
    Changes = {c1, c2}
    Immediate = {c1}
    WriteQueueSize = 2
    Slow = {c1, c2}
    MaxStarts = 2
    First = f1
    Places = {f1, f2}
    Contents = {x, y}
    Uploaded = {x}
    NoFile = NoFile
    Removers = {d}
    Quota = 1
    MaxVersions = 6
    MaxOutside = 1
    MaxMishaps = 1
CHECK_DEADLOCK FALSE
INVARIANT Types
INVARIANT PointsAreOwn
INVARIANT RestIsSettled
INVARIANT PublishedIsStored
INVARIANT NoOrphans
INVARIANT RestIsPublished
INVARIANT QuotaIsKept
PROPERTY ComesToRest
PROPERTY NothingIsTakenBack
PROPERTY ChangesArePublished
PROPERTY FilesSettle
