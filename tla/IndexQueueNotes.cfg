SPECIFICATION Spec
CONSTANTS
  d1 = d1  n1 = n1  v1 = v1  v2 = v2  r1 = r1  r2 = r2
  jd1 = jd1  jd2 = jd2  jn1 = jn1  jn2 = jn2  jc = jc
  w1 = w1  w2 = w2
  Jobs = {jn1, jn2}
  Workers = {w1, w2}
  Documents = {}
  Notes = {n1}
  Versions = {r1, r2}
  NoWorker = NoWorker
  NoTarget = NoTarget
  NotOpen = NotOpen
  AssetOf <- MCAssetOf
  VersionOf <- MCVersionOf
  MaxAttempts = 2
  LeaseTicks = 1
  Backoff = 1
  MaxWait = 2
  NoteDelay = 1
INVARIANTS Ownership AttemptsLeft
PROPERTIES OverIsOver ImplementsLifecycle
CHECK_DEADLOCK FALSE
SYMMETRY MCSymmetry
