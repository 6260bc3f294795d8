------------------------ MODULE DocumentIndexing_proofs ------------------------
(***************************************************************************)
(* What DocumentIndexing promises, for any number of versions, jobs,       *)
(* moves, failures and crashes.                                            *)
(*                                                                         *)
(* The steps of the indexer are of two kinds, and most of the invariant is *)
(* proved once for each: a job goes on (WorkKeeps), or it is let go of     *)
(* (EndKeeps).  Each action then says what it does to the rows and the     *)
(* points.                                                                 *)
(***************************************************************************)
EXTENDS DocumentIndexing, TLAPS

Chunked == {"extracted", "embedded", "submitted", "replaced"}

\* A job that somebody works on is held, and no row is missing for it.
Hands ==
    /\ Len(job) \in 0..MaxJobs
    /\ \A j \in Jobs : work[j].stage # "idle" => j \in DOMAIN job /\ job[j].status = "held"

\* A job that waits to be claimed may still be.
Tries == \A j \in DOMAIN job : job[j].status = "queued" => job[j].attempts < MaxAttempts

\* The writer thread has each job once, and has begun on the first at most.
Order ==
    /\ \A i, k \in DOMAIN writes : writes[i] = writes[k] => i = k
    /\ \A i \in DOMAIN writes :
         \/ work[writes[i]].stage = "submitted"
         \/ i = 1 /\ work[writes[i]].stage \in {"replaced", "cleared", "applied"}

\* What is prepared for a job was in the file of its version while that was current.
Prepared ==
    \A j \in DOMAIN job :
        /\ job[j].version \in 1..Len(version)
        /\ work[j].stage \in Chunked => work[j].text \in version[job[j].version].contents
        /\ work[j].stage \in Chunked \ {"extracted"} => work[j].vector \in Texts

\* Only a move makes a refresh.
Unmoved ==
    spent.moves = 0 =>
        /\ \A j \in DOMAIN job : job[j].operation # "refresh_metadata"
        /\ \A j \in Jobs : work[j].plan # "refresh_metadata"
        /\ \A v \in DOMAIN version : version[v].path = document.path

PointsKnown == \A p \in Paths : points[p] # NoPoint => points[p].version \in 1..Len(version)

\* A job that is for the current version or may yet fail, complete or be taken up again.
Answers(j) ==
    /\ job[j].status \in {"queued", "held"}
    /\ job[j].version = document.current \/ work[j].stage \notin Chunked

\* While the document is neither published nor given up, a job answers for it, and when
\* a job that is out of date is about to say "indexing" once more, one that waits.
Answered ==
    /\ version = <<>> => document.status = "pending"
    /\ document.status \in {"pending", "indexing"} /\ version # <<>> =>
            \E j \in DOMAIN job : Answers(j)
    /\ \A j \in DOMAIN job :
         work[j].stage \in {"extracted", "embedded"} /\ job[j].version # document.current
                                                     /\ ~Deleted =>
            \E i \in DOMAIN job : job[i].status = "queued" /\ job[i].version = document.current

\* Without moves and deletions a version has one job, and what it has done is there.
Simple == spent.deletes + spent.moves = 0
OneJobEach ==
    Simple =>
        /\ ~Deleted
        /\ \A j \in DOMAIN job : job[j].operation = "upsert_version"
        /\ \A j \in Jobs : /\ work[j].stage # "idle" => work[j].plan = "upsert_version"
                           /\ work[j].stage \notin {"direct", "cleared"}
        /\ \A i, j \in DOMAIN job : job[i].version = job[j].version => i = j
        /\ version # <<>> => \E j \in DOMAIN job : job[j].version = document.current

Settled ==
    Simple => \A j \in DOMAIN job : job[j].version = document.current =>
        /\ job[j].status # "superseded"
        /\ work[j].stage = "replaced" => points[document.path].version = document.current
        /\ job[j].status = "completed" \/ work[j].stage = "applied" =>
                rows.version = document.current /\ points[document.path].version = document.current

Base == TypeOK /\ Hands /\ Tries /\ Order /\ Prepared /\ Unmoved

DInv == Base /\ PointsKnown /\ PointsAreOwn /\ Answered /\ OneJobEach /\ Settled

-------------------------------------------------------------------------------
\* What the three tables of jobs are, job by job.

LEMMA SpentBounds ==
  /\ MaxEdits \in Nat /\ MaxMoves \in Nat /\ MaxDeletes \in Nat
  /\ MaxFaults \in Nat /\ MaxCrashes \in Nat
  BY IndexingAssumption

LEMMA Facts ==
  ASSUME TypeOK, Hands
  PROVE  /\ Len(job) \in Nat /\ DOMAIN job = 1..Len(job) /\ DOMAIN job \subseteq Jobs
         /\ \A j \in DOMAIN job : job[j] \in JobRow
         /\ \A j \in Jobs : work[j] \in Progress
         /\ Len(version) \in Nat /\ DOMAIN version = 1..Len(version)
         /\ \A v \in DOMAIN version : version[v] \in VersionRow
         /\ Len(writes) \in Nat /\ DOMAIN writes = 1..Len(writes)
         /\ \A i \in DOMAIN writes : writes[i] \in Jobs
         /\ document \in Documents /\ document.current = Len(version)
<1>1. /\ Len(job) \in Nat /\ DOMAIN job = 1..Len(job)
      /\ \A j \in DOMAIN job : job[j] \in JobRow
  BY DEF TypeOK
<1>2. DOMAIN job \subseteq Jobs
  BY <1>1, IndexingAssumption DEF Hands, Jobs
<1>3. \A j \in Jobs : work[j] \in Progress
  BY DEF TypeOK
<1>4. /\ Len(version) \in Nat /\ DOMAIN version = 1..Len(version)
      /\ \A v \in DOMAIN version : version[v] \in VersionRow
  BY DEF TypeOK
<1>5. /\ Len(writes) \in Nat /\ DOMAIN writes = 1..Len(writes)
      /\ \A i \in DOMAIN writes : writes[i] \in Jobs
  BY DEF TypeOK
<1> QED BY <1>1, <1>2, <1>3, <1>4, <1>5 DEF TypeOK

LEMMA JobMoves ==
  ASSUME TypeOK, NEW j \in DOMAIN job, NEW r \in JobRow, job' = [job EXCEPT ![j] = r]
  PROVE  /\ job' \in Seq(JobRow) /\ Len(job') = Len(job) /\ DOMAIN job' = DOMAIN job
         /\ job'[j] = r
         /\ \A i \in DOMAIN job : i # j => job'[i] = job[i]
  BY DEF TypeOK

LEMMA StatusMoves ==
  ASSUME TypeOK, NEW j \in DOMAIN job,
         NEW s \in {"queued", "held", "completed", "failed", "superseded"},
         job' = [job EXCEPT ![j].status = s]
  PROVE  /\ job' \in Seq(JobRow) /\ Len(job') = Len(job) /\ DOMAIN job' = DOMAIN job
         /\ job'[j].status = s /\ job'[j].version = job[j].version
         /\ job'[j].operation = job[j].operation /\ job'[j].attempts = job[j].attempts
         /\ \A i \in DOMAIN job : i # j => job'[i] = job[i]
<1> DEFINE r == [job[j] EXCEPT !.status = s]
<1>1. r \in JobRow /\ r.status = s /\ r.version = job[j].version
      /\ r.operation = job[j].operation /\ r.attempts = job[j].attempts
  <2>1. job[j] \in JobRow
    BY DEF TypeOK
  <2> QED BY <2>1 DEF JobRow
<1>2. job' = [job EXCEPT ![j] = r]
  BY DEF TypeOK
<1> HIDE DEF r
<1> QED BY <1>1, <1>2, JobMoves

LEMMA WorkMoves ==
  ASSUME TypeOK, NEW j \in Jobs, NEW r \in Progress, work' = [work EXCEPT ![j] = r]
  PROVE  /\ work' \in [Jobs -> Progress] /\ work'[j] = r
         /\ \A i \in Jobs : i # j => work'[i] = work[i]
  BY DEF TypeOK

\* The status of the document changes, and at most to say that it is published.
LEMMA DocumentMoves ==
  ASSUME TypeOK
  PROVE  /\ \A s \in {"pending", "indexing", "failed"} :
               /\ Marked(s) \in Documents
               /\ Marked(s).current = document.current /\ Marked(s).path = document.path
               /\ Marked(s).indexed = document.indexed
               /\ Marked(s).status = IF Deleted THEN "deleted" ELSE s
         /\ Completed \in Documents
         /\ Completed.current = document.current /\ Completed.path = document.path
         /\ Completed.status = IF Deleted THEN "deleted" ELSE "indexed"
  BY DEF TypeOK, Documents, Marked, Completed, Deleted

LEMMA ReleaseTells ==
  ASSUME TypeOK, Hands, Order, NEW j \in DOMAIN job, Release(j), OnWriter(j) => j = Head(writes)
  PROVE  /\ work' \in [Jobs -> Progress] /\ work'[j] = Idle
         /\ \A i \in Jobs : i # j => work'[i] = work[i]
         /\ writes' \in Seq(Jobs)
         /\ \A i \in DOMAIN writes' : writes'[i] # j
         /\ \/ writes' = writes
            \/ /\ Len(writes') = Len(writes) - 1
               /\ \A i \in DOMAIN writes' : i + 1 \in DOMAIN writes /\ writes'[i] = writes[i + 1]
<1>1. j \in Jobs
  BY Facts
<1>2. Idle \in Progress
  BY DEF Idle, Progress
<1>3. /\ work' \in [Jobs -> Progress] /\ work'[j] = Idle
      /\ \A i \in Jobs : i # j => work'[i] = work[i]
  BY <1>1, <1>2, WorkMoves DEF Release
<1>4. CASE writes # <<>> /\ j = Head(writes)
  <2>1. /\ writes' = Tail(writes) /\ writes \in Seq(Jobs) /\ Len(writes) \in Nat \ {0}
        /\ j = writes[1]
    BY <1>4 DEF Release, TypeOK
  <2>2. /\ writes' \in Seq(Jobs) /\ Len(writes') = Len(writes) - 1
        /\ DOMAIN writes' = 1..Len(writes')
        /\ \A i \in DOMAIN writes' : i + 1 \in DOMAIN writes /\ writes'[i] = writes[i + 1] /\ i + 1 # 1
    BY <2>1
  <2>3. \A i \in DOMAIN writes' : writes'[i] # j
    BY <2>1, <2>2 DEF Order
  <2> QED BY <1>3, <2>2, <2>3
<1>5. CASE ~(writes # <<>> /\ j = Head(writes))
  <2>1. writes' = writes /\ writes \in Seq(Jobs)
    BY <1>5 DEF Release, TypeOK
  <2>2. \A i \in DOMAIN writes : writes # <<>>
    BY <2>1
  <2> QED BY <1>3, <1>5, <2>1, <2>2 DEF OnWriter
<1> QED BY <1>4, <1>5

-------------------------------------------------------------------------------
\* A job goes on: the steps of the indexer that do not let go of it.

LEMMA Appended ==
  ASSUME NEW S, NEW s \in Seq(S), NEW e \in S
  PROVE  /\ Append(s, e) \in Seq(S) /\ Len(Append(s, e)) = Len(s) + 1
         /\ DOMAIN Append(s, e) = 1..(Len(s) + 1) /\ Append(s, e)[Len(s) + 1] = e
         /\ \A i \in 1..Len(s) : Append(s, e)[i] = s[i]
         /\ Append(s, e) # <<>>
  OBVIOUS

LEMMA WorkKeeps ==
  ASSUME DInv, NEW j \in DOMAIN job, NEW r \in Progress,
         work[j].stage # "idle", r.stage # "idle", r.plan = work[j].plan,
         r.stage \in Chunked => r.text \in version[job[j].version].contents,
         r.stage \in Chunked \ {"extracted"} => r.vector \in Texts,
         work' = [work EXCEPT ![j] = r],
         UNCHANGED <<version, job, spent>>,
         rows' \in Row, points' \in [Paths -> Point],
         \/ /\ UNCHANGED writes
            /\ OnWriter(j) => j = Head(writes) /\ r.stage \in {"replaced", "cleared", "applied"}
         \/ /\ writes' = Append(writes, j) /\ ~OnWriter(j)
            /\ r.stage = "submitted",
         document' \in {document, Marked("indexing"), Completed},
         r.stage \in Chunked /\ job[j].version # document.current => work[j].stage \in Chunked,
         r.stage \in {"extracted", "embedded"} /\ job[j].version # document.current =>
            work[j].stage \in {"extracted", "embedded"},
         document' = Marked("indexing") /\ document' # document =>
            work[j].stage \in {"extracted", "embedded"} \/ job[j].version = document.current,
         Simple => r.stage \notin {"direct", "cleared"}
  PROVE  Base' /\ Answered' /\ OneJobEach'
<1>1. /\ TypeOK /\ Hands /\ Order /\ Prepared /\ Unmoved /\ Tries
  BY DEF DInv, Base
<1>2. /\ j \in Jobs /\ DOMAIN job \subseteq Jobs /\ job[j].status = "held"
      /\ Len(writes) \in Nat /\ DOMAIN writes = 1..Len(writes) /\ writes \in Seq(Jobs)
  BY <1>1, Facts DEF TypeOK, Hands
<1>3. /\ work' \in [Jobs -> Progress] /\ work'[j] = r
      /\ \A i \in Jobs : i # j => work'[i] = work[i]
  BY <1>1, <1>2, WorkMoves
<1>4. /\ document' \in Documents /\ document'.current = document.current
      /\ document'.path = document.path
      /\ Deleted' <=> Deleted
      /\ document'.status \in {"pending", "indexing"} =>
            document' = Marked("indexing") \/ document' = document
  <2>1. "indexing" \in {"pending", "indexing", "failed"}
    OBVIOUS
  <2>2. document \in Documents
    BY <1>1 DEF TypeOK
  <2> QED BY <1>1, <2>1, <2>2, DocumentMoves DEF Deleted
<1>5. writes' \in Seq(Jobs) /\ TypeOK'
  <2>1. writes' \in Seq(Jobs)
    BY <1>2
  <2> QED BY <1>1, <1>3, <1>4, <2>1 DEF TypeOK
<1>6. Hands'
  BY <1>1, <1>2, <1>3 DEF Hands
<1>7. Order'
  <2>1. CASE UNCHANGED writes
    <3>1. \A i \in DOMAIN writes : writes[i] = j =>
              OnWriter(j) /\ j = writes[1] /\ r.stage \in {"replaced", "cleared", "applied"} /\ i = 1
      <4> SUFFICES ASSUME NEW i \in DOMAIN writes, writes[i] = j
                   PROVE  OnWriter(j) /\ j = writes[1] /\ i = 1 /\ r.stage \in {"replaced", "cleared", "applied"}
        OBVIOUS
      <4>1. OnWriter(j)
        BY DEF OnWriter
      <4>2. j = writes[1] /\ r.stage \in {"replaced", "cleared", "applied"} /\ 1 \in DOMAIN writes
        BY <1>2, <2>1, <4>1
      <4> QED BY <1>1, <4>1, <4>2 DEF Order
    <3> QED BY <1>1, <1>2, <1>3, <2>1, <3>1, Facts DEF Order
  <2>2. CASE writes' = Append(writes, j) /\ ~OnWriter(j) /\ r.stage = "submitted"
    <3>1. /\ DOMAIN writes' = 1..(Len(writes) + 1) /\ writes'[Len(writes) + 1] = j
          /\ \A i \in DOMAIN writes : writes'[i] = writes[i] /\ writes[i] # j
      <4>1. \A i \in DOMAIN writes : writes[i] # j
        BY <2>2 DEF OnWriter
      <4> DEFINE w == Append(writes, j)
      <4>2. /\ DOMAIN w = 1..(Len(writes) + 1) /\ w[Len(writes) + 1] = j
            /\ \A i \in DOMAIN writes : w[i] = writes[i]
        BY <1>2, Appended
      <4>3. writes' = w
        BY <2>2
      <4> HIDE DEF w
      <4> QED BY <4>1, <4>2, <4>3
    <3>2. \A i \in DOMAIN writes' : i = Len(writes) + 1 \/ i \in DOMAIN writes
      BY <1>2, <3>1
    <3>3. \A i \in DOMAIN writes : work'[writes'[i]] = work[writes[i]]
      BY <1>1, <1>3, <3>1, Facts
    <3>4. \A i, k \in DOMAIN writes' : writes'[i] = writes'[k] => i = k
      BY <1>1, <3>1, <3>2 DEF Order
    <3>5. ASSUME NEW i \in DOMAIN writes
          PROVE  \/ work'[writes'[i]].stage = "submitted"
                 \/ i = 1 /\ work'[writes'[i]].stage \in {"replaced", "cleared", "applied"}
      BY <1>1, <3>3 DEF Order
    <3>6. work'[writes'[Len(writes) + 1]].stage = "submitted"
      BY <1>3, <2>2, <3>1
    <3> QED BY <3>2, <3>4, <3>5, <3>6 DEF Order
  <2> QED BY <2>1, <2>2
<1>8. Prepared'
  BY <1>1, <1>2, <1>3 DEF Prepared, Chunked
<1>9. Unmoved'
  BY <1>1, <1>2, <1>3, <1>4 DEF Unmoved
<1>10. Answered'
  <2>1. Answered
    BY DEF DInv
  <2>2. ASSUME NEW i \in DOMAIN job, Answers(i)
        PROVE  Answers(i)'
    BY <1>2, <1>3, <1>4, <2>2 DEF Answers
  <2>3. job[j].version = document.current => Answers(j)'
    BY <1>2, <1>3, <1>4 DEF Answers
  <2>4. ASSUME work[j].stage \in {"extracted", "embedded"}, job[j].version # document.current, ~Deleted
        PROVE  \E i \in DOMAIN job : Answers(i)'
    <3>1. PICK i \in DOMAIN job : job[i].status = "queued" /\ job[i].version = document.current
      BY <2>1, <2>4 DEF Answered
    <3>2. Answers(i)
      BY <3>1 DEF Answers
    <3> QED BY <2>2, <3>2
  <2>5. ASSUME document' = Marked("indexing"), document' # document, document'.status \in {"pending", "indexing"}
        PROVE  \E i \in DOMAIN job' : Answers(i)'
    <3>1. ~Deleted
      BY <1>4, <2>5 DEF Deleted
    <3> QED BY <2>3, <2>4, <2>5, <3>1
  <2>6. ASSUME document' = document, document'.status \in {"pending", "indexing"}, version # <<>>
        PROVE  \E i \in DOMAIN job' : Answers(i)'
    BY <2>1, <2>2, <2>6 DEF Answered
  <2>7. version # <<>>
    BY <1>1, Facts DEF Prepared
  <2>8. ASSUME NEW i \in DOMAIN job', work'[i].stage \in {"extracted", "embedded"},
               job'[i].version # document'.current, ~Deleted'
        PROVE  \E k \in DOMAIN job' : job'[k].status = "queued" /\ job'[k].version = document'.current
    BY <1>2, <1>3, <1>4, <2>1, <2>8 DEF Answered
  <2> QED BY <1>4, <2>5, <2>6, <2>7, <2>8 DEF Answered
<1>11. OneJobEach'
  <2>1. OneJobEach /\ (Simple' <=> Simple)
    BY DEF DInv, Simple
  <2> QED BY <1>2, <1>3, <1>4, <2>1 DEF OneJobEach
<1>12. Tries'
  BY <1>1 DEF Tries
<1> QED BY <1>5, <1>6, <1>7, <1>8, <1>9, <1>10, <1>11, <1>12 DEF Base

-------------------------------------------------------------------------------
\* A job is let go of, in whatever way.

Ends(j, s) ==
    \/ s = "queued" /\ document' = Marked("pending") /\ job[j].attempts < MaxAttempts
    \/ s = "failed" /\ document' = Marked("failed")
    \/ s = "completed" /\ document' = Completed
    \/ s = "superseded" /\ document' = document /\ ~Current(j)
                        /\ work[j].stage \in {"submitted", "replaced"}

LEMMA EndKeeps ==
  ASSUME DInv, NEW j \in DOMAIN job, job[j].status = "held",
         NEW s \in {"queued", "failed", "completed", "superseded"},
         job' = [job EXCEPT ![j].status = s],
         Release(j), OnWriter(j) => j = Head(writes), Ends(j, s),
         version' = version, rows' \in Row, points' \in [Paths -> Point], spent' \in Spent,
         spent'.moves = spent.moves, spent'.deletes = spent.deletes
  PROVE  Base' /\ Answered' /\ OneJobEach'
<1>1. /\ TypeOK /\ Hands /\ Order /\ Prepared /\ Unmoved /\ Tries
  BY DEF DInv, Base
<1>2. /\ j \in Jobs /\ DOMAIN job \subseteq Jobs /\ Len(job) \in 0..MaxJobs
      /\ Len(writes) \in Nat /\ DOMAIN writes = 1..Len(writes)
  BY <1>1, Facts DEF Hands
<1>3. /\ work' \in [Jobs -> Progress] /\ work'[j].stage = "idle" /\ work'[j].plan = "none"
      /\ \A i \in Jobs : i # j => work'[i] = work[i]
      /\ writes' \in Seq(Jobs)
      /\ \A i \in DOMAIN writes' : writes'[i] # j
      /\ \/ writes' = writes
         \/ /\ Len(writes') = Len(writes) - 1
            /\ \A i \in DOMAIN writes' : i + 1 \in DOMAIN writes /\ writes'[i] = writes[i + 1]
  BY <1>1, ReleaseTells DEF Idle
<1>4. /\ job' \in Seq(JobRow) /\ Len(job') = Len(job) /\ DOMAIN job' = DOMAIN job
      /\ job'[j].status = s /\ job'[j].attempts = job[j].attempts
      /\ \A i \in DOMAIN job : /\ job'[i].version = job[i].version
                               /\ job'[i].operation = job[i].operation
                               /\ i # j => job'[i] = job[i]
  BY <1>1, StatusMoves
<1>5. /\ document' \in Documents /\ document'.current = document.current
      /\ document'.path = document.path
      /\ Deleted' <=> Deleted
      /\ document'.status \in {"pending", "indexing"} => s \in {"queued", "superseded"}
  <2>1. "pending" \in {"pending", "indexing", "failed"} /\ "failed" \in {"pending", "indexing", "failed"}
    OBVIOUS
  <2>2. document \in Documents
    BY <1>1 DEF TypeOK
  <2> QED BY <1>1, <2>1, <2>2, DocumentMoves DEF Deleted, Ends
<1>6. TypeOK'
  BY <1>1, <1>3, <1>4, <1>5 DEF TypeOK
<1>7. Hands'
  BY <1>1, <1>2, <1>3, <1>4 DEF Hands
<1>8. Order'
  <2>1. DOMAIN writes' = 1..Len(writes') /\ Len(writes') \in Nat
    BY <1>3
  <2>2. \A i \in DOMAIN writes' : writes'[i] \in Jobs
    BY <1>3
  <2>3. CASE writes' = writes
    BY <1>1, <1>3, <2>2, <2>3 DEF Order
  <2>4. CASE /\ Len(writes') = Len(writes) - 1
             /\ \A i \in DOMAIN writes' : i + 1 \in DOMAIN writes /\ writes'[i] = writes[i + 1]
    <3>1. \A i \in DOMAIN writes' : i \in Nat \ {0} /\ i + 1 # 1
      BY <2>1
    <3>2. \A i \in DOMAIN writes' : work'[writes'[i]].stage = "submitted"
      BY <1>1, <1>3, <2>2, <2>4, <3>1 DEF Order
    <3>3. \A i, k \in DOMAIN writes' : writes'[i] = writes'[k] => i + 1 = k + 1
      BY <1>1, <2>4 DEF Order
    <3>4. \A i, k \in DOMAIN writes' : writes'[i] = writes'[k] => i = k
      BY <3>1, <3>3
    <3> QED BY <3>2, <3>4 DEF Order
  <2> QED BY <1>3, <2>3, <2>4
<1>9. Prepared'
  <2> SUFFICES ASSUME NEW i \in DOMAIN job
               PROVE  /\ job'[i].version \in 1..Len(version)
                      /\ work'[i].stage \in Chunked => work'[i].text \in version[job'[i].version].contents
                      /\ work'[i].stage \in Chunked \ {"extracted"} => work'[i].vector \in Texts
    BY <1>4 DEF Prepared
  <2>1. job'[i].version = job[i].version /\ i \in Jobs
    BY <1>2, <1>4
  <2>2. CASE i = j
    BY <1>1, <1>3, <2>1, <2>2 DEF Prepared, Chunked
  <2>3. CASE i # j
    BY <1>1, <1>3, <2>1, <2>3 DEF Prepared
  <2> QED BY <2>2, <2>3
<1>10. Unmoved'
  <2> SUFFICES ASSUME spent.moves = 0
               PROVE  /\ \A i \in DOMAIN job : job'[i].operation # "refresh_metadata"
                      /\ \A i \in Jobs : work'[i].plan # "refresh_metadata"
                      /\ \A v \in DOMAIN version : version[v].path = document.path
    BY <1>4, <1>5 DEF Unmoved
  <2>1. \A i \in Jobs : work'[i].plan # "refresh_metadata"
    BY <1>1, <1>3 DEF Unmoved
  <2> QED BY <1>1, <1>4, <2>1 DEF Unmoved
<1>11. Answered'
  <2>1. Answered
    BY DEF DInv
  <2>2. ASSUME NEW i \in DOMAIN job, Answers(i), i # j
        PROVE  Answers(i)'
    BY <1>2, <1>3, <1>4, <1>5, <2>2 DEF Answers
  <2>3. s = "queued" => Answers(j)'
    BY <1>3, <1>4 DEF Answers, Chunked
  <2>4. version # <<>>
    BY <1>1, Facts DEF Prepared
  <2>5. ASSUME s = "superseded", document'.status \in {"pending", "indexing"}
        PROVE  \E i \in DOMAIN job' : Answers(i)'
    <3>1. document' = document /\ ~Answers(j)
      BY <2>5 DEF Ends, Current, Deleted, Answers, Chunked
    <3> QED BY <1>4, <2>1, <2>2, <2>4, <2>5, <3>1 DEF Answered
  <2>6. ASSUME NEW i \in DOMAIN job', work'[i].stage \in {"extracted", "embedded"},
               job'[i].version # document'.current, ~Deleted'
        PROVE  \E k \in DOMAIN job' : job'[k].status = "queued" /\ job'[k].version = document'.current
    <3>1. i \in DOMAIN job /\ i # j /\ work'[i] = work[i] /\ job'[i] = job[i]
      BY <1>2, <1>3, <1>4, <2>6
    <3>2. PICK k \in DOMAIN job : job[k].status = "queued" /\ job[k].version = document.current
      BY <1>5, <2>1, <2>6, <3>1 DEF Answered
    <3> QED BY <1>4, <1>5, <3>2
  <2> QED BY <1>4, <1>5, <2>3, <2>4, <2>5, <2>6 DEF Answered
<1>12. OneJobEach'
  <2>1. OneJobEach /\ (Simple' <=> Simple)
    BY DEF DInv, Simple
  <2>2. \A i \in Jobs : i = j \/ work'[i] = work[i]
    BY <1>3
  <2>3. Simple => \A i \in Jobs : /\ work'[i].stage # "idle" => work'[i].plan = "upsert_version"
                                  /\ work'[i].stage \notin {"direct", "cleared"}
    BY <1>3, <2>1, <2>2 DEF OneJobEach
  <2> QED BY <1>4, <1>5, <2>1, <2>3 DEF OneJobEach
<1>13. Tries'
  BY <1>1, <1>4 DEF Tries, Ends
<1> QED BY <1>6, <1>7, <1>8, <1>9, <1>10, <1>11, <1>12, <1>13 DEF Base

-------------------------------------------------------------------------------
\* The points and what is said of them.

LEMMA PointsKeep ==
  ASSUME DInv, TypeOK', Len(version) <= Len(version'),
         \A v \in DOMAIN version : version'[v] = version[v],
         spent'.moves = 0 => spent.moves = 0,
         \A p \in Paths :
            \/ points'[p] \in {points[p], NoPoint}
            \/ /\ points[p] # NoPoint /\ spent.moves # 0
               /\ points'[p].version \in 1..Len(version)
            \/ /\ points'[p].version \in 1..Len(version)
               /\ points'[p].text \in version[points'[p].version].contents
  PROVE  PointsKnown' /\ PointsAreOwn'
<1>1. TypeOK /\ PointsKnown /\ PointsAreOwn
  BY DEF DInv, Base
<1>2. Len(version) \in Nat /\ Len(version') \in Nat /\ DOMAIN version = 1..Len(version)
  BY <1>1 DEF TypeOK
<1>3. PointsKnown'
  BY <1>1, <1>2 DEF PointsKnown
<1>4. PointsAreOwn'
  BY <1>1, <1>2 DEF PointsKnown, PointsAreOwn
<1> QED BY <1>3, <1>4

\* A step of one job, and what the job of the current version has done.
LEMMA DoneKeeps ==
  ASSUME DInv, NEW j \in DOMAIN job,
         DOMAIN job' = DOMAIN job,
         \A i \in DOMAIN job : job'[i].version = job[i].version,
         \A i \in DOMAIN job : i # j => job'[i] = job[i] /\ work'[i].stage = work[i].stage,
         document'.current = document.current, document'.path = document.path,
         spent'.moves = spent.moves, spent'.deletes = spent.deletes,
         Simple /\ job[j].version # document.current =>
            /\ rows' = rows
            /\ points[document.path].version = document.current =>
                    points'[document.path].version = document.current,
         Simple /\ job[j].version = document.current =>
            /\ job'[j].status # "superseded"
            /\ work'[j].stage = "replaced" => points'[document.path].version = document.current
            /\ job'[j].status = "completed" \/ work'[j].stage = "applied" =>
                    rows'.version = document.current /\ points'[document.path].version = document.current
  PROVE  Settled'
<1> SUFFICES ASSUME Simple', NEW i \in DOMAIN job, job[i].version = document.current
             PROVE  /\ job'[i].status # "superseded"
                    /\ work'[i].stage = "replaced" => points'[document.path].version = document.current
                    /\ job'[i].status = "completed" \/ work'[i].stage = "applied" =>
                            rows'.version = document.current /\ points'[document.path].version = document.current
  BY DEF Settled
<1>1. Simple /\ OneJobEach /\ Settled
  BY DEF DInv, Simple
<1>2. CASE i = j
  BY <1>1, <1>2
<1>3. CASE i # j
  <2>1. job[j].version # document.current
    BY <1>1, <1>3 DEF OneJobEach
  <2> QED BY <1>1, <1>3, <2>1 DEF Settled
<1> QED BY <1>2, <1>3

-------------------------------------------------------------------------------
\* What the synchronizer does.

LEMMA SameLength ==
  ASSUME NEW S, NEW n \in Nat, NEW s \in [1..n -> S]
  PROVE  s \in Seq(S) /\ Len(s) = n
  OBVIOUS

\* What add_indexing_job leaves behind.
Added(v, op) ==
    /\ job' \in Seq(JobRow) /\ Len(job') \in 0..MaxJobs /\ DOMAIN job \subseteq DOMAIN job'
    /\ \A i \in DOMAIN job : /\ job'[i].status = job[i].status
                             /\ job'[i].version = job[i].version
                             /\ job'[i].operation \in {job[i].operation, op}
                             /\ job'[i].attempts = job[i].attempts
    /\ \/ /\ DOMAIN job' = DOMAIN job
          /\ \E i \in ActiveJobs : job[i].version = v
       \/ /\ DOMAIN job' = DOMAIN job \union {Len(job) + 1} /\ Len(job) + 1 \notin DOMAIN job
          /\ \A i \in ActiveJobs : job[i].version # v
          /\ job'[Len(job) + 1] = NewJob(v, op)

LEMMA AddJobTells ==
  ASSUME TypeOK, Hands, NEW v \in 1..MaxVersion,
         NEW op \in {"upsert_version", "refresh_metadata", "delete_asset"}, AddJob(v, op)
  PROVE  Added(v, op)
<1>1. Len(job) \in Nat /\ Len(job) \in 0..MaxJobs /\ DOMAIN job = 1..Len(job) /\ job \in Seq(JobRow)
      /\ \A i \in DOMAIN job : job[i] \in JobRow
  BY Facts DEF Hands, TypeOK
<1> DEFINE same == {i \in ActiveJobs : job[i].version = v}
<1>2. CASE same = {}
  <2>1. Len(job) < MaxJobs /\ job' = Append(job, NewJob(v, op))
    BY <1>2 DEF AddJob
  <2>2. NewJob(v, op) \in JobRow
    BY IndexingAssumption DEF NewJob, JobRow
  <2> DEFINE w == Append(job, NewJob(v, op))
  <2>3. /\ w \in Seq(JobRow) /\ Len(w) = Len(job) + 1 /\ DOMAIN w = 1..(Len(job) + 1)
        /\ w[Len(job) + 1] = NewJob(v, op) /\ \A i \in 1..Len(job) : w[i] = job[i]
    BY <1>1, <2>2, Appended
  <2>4. job' = w
    BY <2>1
  <2> HIDE DEF w
  <2>5. Len(job') \in 0..MaxJobs
    BY <1>1, <2>1, <2>3, <2>4, IndexingAssumption
  <2>6. DOMAIN job' = DOMAIN job \union {Len(job) + 1} /\ Len(job) + 1 \notin DOMAIN job
    BY <1>1, <2>3, <2>4
  <2>7. \A i \in DOMAIN job : job'[i] = job[i]
    BY <1>1, <2>3, <2>4
  <2>8. job'[Len(job) + 1] = NewJob(v, op) /\ job' \in Seq(JobRow)
    BY <2>3, <2>4
  <2> QED BY <1>2, <2>5, <2>6, <2>7, <2>8 DEF Added
<1>3. CASE same # {}
  <2>1. /\ DOMAIN job' = DOMAIN job /\ job' = [i \in DOMAIN job |-> job'[i]]
        /\ \A i \in DOMAIN job : job'[i] = job[i] \/ (op = "delete_asset" /\ job'[i] = [job[i] EXCEPT !.operation = op])
    BY <1>3 DEF AddJob
  <2>2. ASSUME NEW i \in DOMAIN job
        PROVE  /\ job'[i] \in JobRow /\ job'[i].status = job[i].status
               /\ job'[i].version = job[i].version
               /\ job'[i].operation \in {job[i].operation, op}
               /\ job'[i].attempts = job[i].attempts
    <3>1. job[i] \in JobRow
      BY <1>1
    <3> QED BY <2>1, <3>1 DEF JobRow
  <2>3. job' \in Seq(JobRow) /\ Len(job') = Len(job)
    <3>1. job' \in [1..Len(job) -> JobRow]
      BY <1>1, <2>1, <2>2
    <3> QED BY <1>1, <3>1, SameLength
  <2>4. PICK i \in ActiveJobs : job[i].version = v
    BY <1>3
  <2> QED BY <1>1, <2>1, <2>2, <2>3, <2>4 DEF Added
<1> QED BY <1>2, <1>3

\* A step of the corpus: the indexer's tables are left alone, and jobs are only added.
LEMMA CorpusKeeps ==
  ASSUME DInv, UNCHANGED <<rows, points, work, writes>>,
         job' \in Seq(JobRow), Len(job') \in 0..MaxJobs, DOMAIN job \subseteq DOMAIN job',
         \A i \in DOMAIN job : /\ job'[i].status = job[i].status
                               /\ job'[i].version = job[i].version
                               /\ job'[i].attempts = job[i].attempts,
         \A i \in DOMAIN job' : \/ i \in DOMAIN job
                                \/ job'[i].version \in 1..Len(version') /\ job'[i].attempts = 0,
         version' \in Seq(VersionRow), Len(version) <= Len(version'),
         \A v \in DOMAIN version : version'[v] = version[v],
         document' \in Documents, document'.current = Len(version'), spent' \in Spent,
         spent'.moves = 0 => spent.moves = 0
  PROVE  TypeOK' /\ Hands' /\ Tries' /\ Order' /\ Prepared' /\ PointsKnown' /\ PointsAreOwn'
<1>1. /\ TypeOK /\ Hands /\ Order /\ Prepared /\ Tries
  BY DEF DInv, Base
<1>2. TypeOK'
  BY <1>1 DEF TypeOK
<1>3. Hands'
  BY <1>1 DEF Hands
<1>4. Order'
  BY <1>1 DEF Order
<1>5. Prepared'
  <2>1. Len(version) \in Nat /\ Len(version') \in Nat /\ DOMAIN version = 1..Len(version)
    BY <1>1 DEF TypeOK
  <2>2. DOMAIN job' \subseteq Jobs /\ DOMAIN job \subseteq Jobs
    BY <1>1, <1>2, <1>3, Facts, IndexingAssumption DEF Jobs
  <2>3. ASSUME NEW i \in DOMAIN job', i \notin DOMAIN job
        PROVE  work[i].stage = "idle"
    BY <1>1, <2>2, <2>3 DEF Hands
  <2>4. ASSUME NEW i \in DOMAIN job
        PROVE  /\ job'[i].version \in 1..Len(version')
               /\ version'[job'[i].version] = version[job[i].version]
    BY <1>1, <2>1, <2>4 DEF Prepared
  <2> QED BY <1>1, <2>2, <2>3, <2>4 DEF Prepared, Chunked
<1>6. PointsKnown' /\ PointsAreOwn'
  BY <1>2, PointsKeep
<1>7. Tries'
  BY <1>1, IndexingAssumption DEF Tries
<1> QED BY <1>2, <1>3, <1>4, <1>5, <1>6, <1>7

LEMMA ModifyKeeps == ASSUME DInv, NEW t \in Texts, Modify(t) PROVE DInv'
<1>0. PICK v : v = Len(version) + 1
  OBVIOUS
<1>1. /\ TypeOK /\ Hands /\ Prepared /\ Unmoved /\ PointsKnown /\ Answered /\ OneJobEach
  BY DEF DInv, Base
<1> DEFINE row == [text |-> t, path |-> document.path, contents |-> {t}]
<1>2. /\ version' = Append(version, row)
      /\ document' = [document EXCEPT !.current = Len(version'), !.status = "pending", !.indexed = FALSE]
      /\ AddJob(Len(version'), "upsert_version")
      /\ UNCHANGED <<rows, points, work, writes, spent>>
      /\ Len(version) < MaxVersion
  BY DEF Modify
<1>3. /\ Len(version) \in Nat /\ DOMAIN version = 1..Len(version) /\ document.current = Len(version)
      /\ version \in Seq(VersionRow) /\ document \in Documents /\ document.path \in Paths
  BY <1>1 DEF TypeOK, Documents
<1>4. row \in VersionRow /\ row.path = document.path
  BY <1>3 DEF VersionRow
<1> HIDE DEF row
<1>5. /\ version' \in Seq(VersionRow) /\ Len(version') = v /\ DOMAIN version' = 1..v
      /\ version'[v] = row /\ \A i \in DOMAIN version : version'[i] = version[i]
      /\ version' # <<>>
  <2> DEFINE w == Append(version, row)
  <2>1. /\ w \in Seq(VersionRow) /\ Len(w) = v /\ DOMAIN w = 1..v
        /\ w[v] = row /\ \A i \in DOMAIN version : w[i] = version[i]
        /\ w # <<>>
    BY <1>0, <1>3, <1>4, Appended
  <2>2. version' = w
    BY <1>2
  <2> HIDE DEF w
  <2> QED BY <2>1, <2>2
<1>6. v \in 1..MaxVersion
  BY <1>0, <1>2, <1>3, IndexingAssumption
<1>7. /\ document' \in Documents /\ document'.current = v /\ document'.path = document.path
      /\ document'.status = "pending"
  <2>1. Len(version') \in 0..MaxVersion /\ Len(version') = v
    BY <1>5, <1>6
  <2> QED BY <1>2, <1>3, <2>1 DEF Documents
<1>8. /\ \A i \in DOMAIN job : job[i].version \in 1..Len(version) /\ job[i].version # v
      /\ DOMAIN job \subseteq Jobs
  BY <1>0, <1>1, <1>3, Facts DEF Prepared
<1>9. /\ job' \in Seq(JobRow) /\ Len(job') \in 0..MaxJobs
      /\ \A i \in DOMAIN job : /\ job'[i].status = job[i].status /\ job'[i].version = job[i].version
                               /\ job'[i].attempts = job[i].attempts
                               /\ job'[i].operation \in {job[i].operation, "upsert_version"}
      /\ DOMAIN job' = DOMAIN job \union {Len(job) + 1} /\ Len(job) + 1 \notin DOMAIN job
      /\ job'[Len(job) + 1] = NewJob(v, "upsert_version")
  <2>1. "upsert_version" \in {"upsert_version", "refresh_metadata", "delete_asset"}
        /\ AddJob(v, "upsert_version") /\ "upsert_version" # "delete_asset"
    BY <1>2, <1>5
  <2>2. ~ \E i \in ActiveJobs : job[i].version = v
    BY <1>8 DEF ActiveJobs
  <2>3. Added(v, "upsert_version")
    BY <1>1, <1>6, <2>1, AddJobTells
  <2> QED BY <2>1, <2>2, <2>3 DEF Added
<1>17. PICK new : new = Len(job) + 1
  OBVIOUS
<1>10. /\ job'[new].version = v /\ job'[new].operation = "upsert_version"
       /\ job'[new].status = "queued" /\ new \in DOMAIN job'
       /\ job'[new].attempts = 0
  BY <1>9, <1>17 DEF NewJob
<1>11. /\ new \in Jobs
       /\ work[new].stage = "idle"
  <2>1. DOMAIN job' = 1..Len(job')
    BY <1>9
  <2>2. new \in Jobs
    BY <1>9, <1>10, <2>1, IndexingAssumption DEF Jobs
  <2> QED BY <1>1, <1>9, <1>17, <2>2 DEF Hands
<1>12. TypeOK' /\ Hands' /\ Tries' /\ Order' /\ Prepared' /\ PointsKnown' /\ PointsAreOwn'
  <2>1. \A i \in DOMAIN job' : i \in DOMAIN job \/ (job'[i].version \in 1..Len(version') /\ job'[i].attempts = 0)
    BY <1>3, <1>0, <1>5, <1>9, <1>10, <1>17
  <2>2. Len(version) <= Len(version')
    BY <1>0, <1>3, <1>5
  <2>3. spent' \in Spent /\ spent' = spent
    BY <1>1, <1>2 DEF TypeOK
  <2> QED BY <1>2, <1>5, <1>7, <1>9, <2>1, <2>2, <2>3, CorpusKeeps
<1>13. Unmoved'
  <2>1. \A i \in DOMAIN job' : \/ i = new
                               \/ i \in DOMAIN job /\ job'[i].operation \in {job[i].operation, "upsert_version"}
    BY <1>9, <1>17
  <2>2. \A i \in DOMAIN version' : i = v \/ (i \in DOMAIN version /\ version'[i] = version[i])
    BY <1>0, <1>3, <1>5
  <2> QED BY <1>1, <1>2, <1>4, <1>5, <1>7, <1>10, <2>1, <2>2 DEF Unmoved
<1>14. Answered'
  <2>1. job'[new].status = "queued" /\ job'[new].version = document'.current /\ new \in DOMAIN job'
    BY <1>7, <1>10
  <2>2. Answers(new)'
    BY <2>1 DEF Answers
  <2>3. version' # <<>>
    BY <1>5
  <2> QED BY <2>1, <2>2, <2>3 DEF Answered
<1>15. OneJobEach'
  <2>1. Simple' <=> Simple
    BY <1>2 DEF Simple
  <2>2. \A i \in DOMAIN job' : \/ i = new
                               \/ /\ i \in DOMAIN job
                                  /\ job'[i].version = job[i].version /\ job'[i].version # v
                                  /\ job'[i].operation \in {job[i].operation, "upsert_version"}
    BY <1>8, <1>9, <1>17
  <2>3. ~Deleted'
    BY <1>7 DEF Deleted
  <2> QED BY <1>1, <1>2, <1>7, <1>10, <2>1, <2>2, <2>3 DEF OneJobEach
<1>16. Settled'
  <2>1. \A i \in DOMAIN job' : i = new \/ job'[i].version # document'.current
    BY <1>7, <1>8, <1>9, <1>17
  <2>2. work'[new].stage = "idle"
    BY <1>2, <1>11
  <2> QED BY <1>10, <2>1, <2>2 DEF Settled
<1> QED BY <1>12, <1>13, <1>14, <1>15, <1>16 DEF DInv, Base

LEMMA MoveKeeps == ASSUME DInv, NEW p \in Paths, Move(p) PROVE DInv'
<1>1. /\ TypeOK /\ Hands /\ Prepared /\ PointsKnown /\ Answered
  BY DEF DInv, Base
<1>0. PICK v : v = document.current
  OBVIOUS
<1>2. /\ document' = [document EXCEPT !.path = p, !.status = "pending", !.indexed = FALSE]
      /\ AddJob(v, "refresh_metadata")
      /\ spent' = [spent EXCEPT !.moves = @ + 1] /\ spent.moves < MaxMoves
      /\ UNCHANGED <<version, rows, points, work, writes>>
      /\ version # <<>> /\ ~Deleted
  BY <1>0 DEF Move
<1>3. /\ document' \in Documents /\ document'.current = v /\ document'.status = "pending"
      /\ spent' \in Spent /\ spent'.moves # 0 /\ spent'.deletes + spent'.moves # 0
      /\ v = Len(version) /\ version \in Seq(VersionRow) /\ v \in 1..MaxVersion
  <2>1. document \in Documents /\ v = Len(version) /\ version \in Seq(VersionRow) /\ spent \in Spent
    BY <1>0, <1>1 DEF TypeOK
  <2>2. document' \in Documents /\ document'.current = v /\ document'.status = "pending"
    BY <1>0, <1>2, <2>1 DEF Documents
  <2>3. spent' \in Spent /\ spent'.moves # 0 /\ spent'.deletes + spent'.moves # 0
    <3>1. spent.moves \in Nat /\ spent.deletes \in Nat /\ MaxMoves \in Nat
      BY <2>1, SpentBounds DEF Spent
    <3>2. spent.moves + 1 \in 0..MaxMoves
      BY <1>2, <3>1
    <3>3. spent'.moves = spent.moves + 1 /\ spent'.deletes = spent.deletes
      BY <1>2, <2>1 DEF Spent
    <3>4. spent' \in Spent
      BY <1>2, <2>1, <3>2 DEF Spent
    <3> QED BY <3>1, <3>3, <3>4
  <2>6. v \in 0..MaxVersion
    BY <1>0, <2>1 DEF Documents
  <2>4. v \in 0..MaxVersion /\ v # 0
    BY <1>2, <2>1, <2>6
  <2>5. v \in 1..MaxVersion
    BY <2>4, IndexingAssumption
  <2> QED BY <2>1, <2>2, <2>3, <2>5
<1>4. /\ job' \in Seq(JobRow) /\ Len(job') \in 0..MaxJobs /\ DOMAIN job \subseteq DOMAIN job'
      /\ \A i \in DOMAIN job : /\ job'[i].status = job[i].status /\ job'[i].version = job[i].version
                               /\ job'[i].attempts = job[i].attempts
      /\ \/ /\ DOMAIN job' = DOMAIN job
            /\ \E i \in ActiveJobs : job[i].version = v
         \/ /\ DOMAIN job' = DOMAIN job \union {Len(job) + 1}
            /\ job'[Len(job) + 1] = NewJob(v, "refresh_metadata")
  <2>1. "refresh_metadata" \in {"upsert_version", "refresh_metadata", "delete_asset"}
        /\ "refresh_metadata" # "delete_asset"
    OBVIOUS
  <2>2. Added(v, "refresh_metadata")
    BY <1>1, <1>2, <1>3, <2>1, AddJobTells
  <2> QED BY <2>2 DEF Added
<1>5. \E i \in DOMAIN job' : Answers(i)'
  <2>1. CASE \E i \in ActiveJobs : job[i].version = v
    BY <1>3, <1>4, <2>1 DEF ActiveJobs, Answers
  <2>2. CASE /\ DOMAIN job' = DOMAIN job \union {Len(job) + 1}
             /\ job'[Len(job) + 1] = NewJob(v, "refresh_metadata")
    BY <1>3, <2>2 DEF NewJob, Answers
  <2> QED BY <1>4, <2>1, <2>2
<1>6. TypeOK' /\ Hands' /\ Tries' /\ Order' /\ Prepared' /\ PointsKnown' /\ PointsAreOwn'
  <2>1. \A i \in DOMAIN job' : i \in DOMAIN job \/ (job'[i].version \in 1..Len(version') /\ job'[i].attempts = 0)
    BY <1>2, <1>3, <1>4 DEF NewJob
  <2>2. Len(version) <= Len(version')
    BY <1>2, <1>3
  <2> QED BY <1>2, <1>3, <1>4, <2>1, <2>2, CorpusKeeps
<1>7. Answered'
  <2>1. ASSUME NEW i \in DOMAIN job', work'[i].stage \in {"extracted", "embedded"},
               job'[i].version # document'.current, ~Deleted'
        PROVE  \E k \in DOMAIN job' : job'[k].status = "queued" /\ job'[k].version = document'.current
    <3>1. CASE i \in DOMAIN job
      <4>1. PICK k \in DOMAIN job : job[k].status = "queued" /\ job[k].version = v
        BY <1>0, <1>1, <1>2, <1>3, <1>4, <2>1, <3>1 DEF Answered
      <4> QED BY <1>3, <1>4, <4>1
    <3>2. CASE i \notin DOMAIN job
      BY <1>3, <1>4, <2>1, <3>2 DEF NewJob
    <3> QED BY <3>1, <3>2
  <2> QED BY <1>2, <1>5, <2>1 DEF Answered
<1>8. Unmoved' /\ OneJobEach' /\ Settled'
  BY <1>3 DEF Unmoved, OneJobEach, Settled, Simple
<1> QED BY <1>6, <1>7, <1>8 DEF DInv, Base

LEMMA DeleteKeeps == ASSUME DInv, Delete PROVE DInv'
<1>1. /\ TypeOK /\ Hands /\ Prepared /\ Unmoved /\ PointsKnown /\ Answered
  BY DEF DInv, Base
<1>0. PICK v : v = document.current
  OBVIOUS
<1>2. /\ document' = [document EXCEPT !.status = "deleted", !.indexed = FALSE]
      /\ AddJob(v, "delete_asset")
      /\ spent' = [spent EXCEPT !.deletes = @ + 1] /\ spent.deletes < MaxDeletes
      /\ UNCHANGED <<version, rows, points, work, writes>>
      /\ version # <<>>
  BY <1>0 DEF Delete
<1>3. /\ document' \in Documents /\ document'.current = v /\ document'.status = "deleted"
      /\ document'.path = document.path
      /\ spent' \in Spent /\ spent'.moves = spent.moves /\ spent'.deletes + spent'.moves # 0
      /\ v = Len(version) /\ version \in Seq(VersionRow) /\ v \in 1..MaxVersion
  <2>1. document \in Documents /\ v = Len(version) /\ version \in Seq(VersionRow) /\ spent \in Spent
    BY <1>0, <1>1 DEF TypeOK
  <2>2. /\ document' \in Documents /\ document'.current = v /\ document'.status = "deleted"
        /\ document'.path = document.path
    BY <1>0, <1>2, <2>1 DEF Documents
  <2>3. spent' \in Spent /\ spent'.moves = spent.moves /\ spent'.deletes + spent'.moves # 0
    BY <1>2, <2>1, SpentBounds DEF Spent
  <2>6. v \in 0..MaxVersion
    BY <1>0, <2>1 DEF Documents
  <2>4. v \in 0..MaxVersion /\ v # 0
    BY <1>2, <2>1, <2>6
  <2>5. v \in 1..MaxVersion
    BY <2>4, IndexingAssumption
  <2> QED BY <2>1, <2>2, <2>3, <2>5
<1>4. /\ job' \in Seq(JobRow) /\ Len(job') \in 0..MaxJobs /\ DOMAIN job \subseteq DOMAIN job'
      /\ \A i \in DOMAIN job : /\ job'[i].status = job[i].status /\ job'[i].version = job[i].version
                               /\ job'[i].attempts = job[i].attempts
                               /\ job'[i].operation \in {job[i].operation, "delete_asset"}
      /\ \/ DOMAIN job' = DOMAIN job
         \/ /\ DOMAIN job' = DOMAIN job \union {Len(job) + 1}
            /\ job'[Len(job) + 1] = NewJob(v, "delete_asset")
  <2>1. "delete_asset" \in {"upsert_version", "refresh_metadata", "delete_asset"}
    OBVIOUS
  <2>2. Added(v, "delete_asset")
    BY <1>1, <1>2, <1>3, <2>1, AddJobTells
  <2> QED BY <2>2 DEF Added
<1>5. TypeOK' /\ Hands' /\ Tries' /\ Order' /\ Prepared' /\ PointsKnown' /\ PointsAreOwn'
  <2>1. \A i \in DOMAIN job' : i \in DOMAIN job \/ (job'[i].version \in 1..Len(version') /\ job'[i].attempts = 0)
    BY <1>2, <1>3, <1>4 DEF NewJob
  <2>2. Len(version) <= Len(version')
    BY <1>2, <1>3
  <2> QED BY <1>2, <1>3, <1>4, <2>1, <2>2, CorpusKeeps
<1>6. Answered'
  BY <1>2, <1>3 DEF Answered, Deleted
<1>7. Unmoved'
  <2>1. \A i \in DOMAIN job' : \/ i \in DOMAIN job /\ job'[i].operation \in {job[i].operation, "delete_asset"}
                               \/ job'[i].operation = "delete_asset"
    BY <1>4 DEF NewJob
  <2> QED BY <1>1, <1>2, <1>3, <2>1 DEF Unmoved
<1>8. OneJobEach' /\ Settled'
  BY <1>3 DEF OneJobEach, Settled, Simple
<1> QED BY <1>5, <1>6, <1>7, <1>8 DEF DInv, Base

\* An edit that nobody has noticed yet: the file of the current version had one content more.
LEMMA OverwriteTells ==
  ASSUME TypeOK, NEW t \in Texts, Overwrite(t)
  PROVE  /\ version' \in Seq(VersionRow) /\ Len(version') = Len(version)
         /\ DOMAIN version' = DOMAIN version /\ (version' = <<>> <=> version = <<>>)
         /\ \A v \in DOMAIN version : /\ version'[v].path = version[v].path
                                      /\ version[v].contents \subseteq version'[v].contents
         /\ spent' \in Spent /\ spent'.moves = spent.moves /\ spent'.deletes = spent.deletes
         /\ spent'.faults = spent.faults /\ spent'.crashes = spent.crashes
         /\ UNCHANGED <<document, rows, points, job, work, writes>>
<1>1. /\ version \in Seq(VersionRow) /\ Len(version) \in Nat /\ DOMAIN version = 1..Len(version)
      /\ version # <<>> /\ document.current = Len(version) /\ spent \in Spent
      /\ UNCHANGED <<document, rows, points, job, work, writes>>
      /\ spent.edits < MaxEdits /\ spent' = [spent EXCEPT !.edits = @ + 1]
  BY DEF TypeOK, Overwrite
<1>2. PICK c : c = document.current
  OBVIOUS
<1>3. c \in DOMAIN version /\ version[c] \in VersionRow
  BY <1>1, <1>2
<1> DEFINE row == [version[c] EXCEPT !.contents = @ \cup {t}]
<1>4. row \in VersionRow /\ row.path = version[c].path /\ version[c].contents \subseteq row.contents
  BY <1>3 DEF VersionRow
<1>5. version' = [version EXCEPT ![c] = row]
  BY <1>2, <1>3 DEF Overwrite
<1> HIDE DEF row
<1>6. /\ version' \in Seq(VersionRow) /\ Len(version') = Len(version)
      /\ DOMAIN version' = DOMAIN version /\ version' # <<>>
      /\ version'[c] = row /\ \A v \in DOMAIN version : v # c => version'[v] = version[v]
  BY <1>1, <1>3, <1>4, <1>5
<1>7. /\ spent' \in Spent /\ spent'.moves = spent.moves /\ spent'.deletes = spent.deletes
      /\ spent'.faults = spent.faults /\ spent'.crashes = spent.crashes
  BY <1>1, SpentBounds DEF Spent
<1> QED BY <1>1, <1>4, <1>6, <1>7

LEMMA OverwriteKeeps == ASSUME DInv, NEW t \in Texts, Overwrite(t) PROVE DInv'
<1>1. /\ TypeOK /\ Hands /\ Tries /\ Order /\ Prepared /\ Unmoved
      /\ PointsKnown /\ PointsAreOwn /\ Answered /\ OneJobEach /\ Settled
      /\ Len(version) \in Nat /\ DOMAIN version = 1..Len(version)
  BY DEF DInv, Base, TypeOK
<1>2. /\ version' \in Seq(VersionRow) /\ Len(version') = Len(version)
      /\ DOMAIN version' = DOMAIN version /\ (version' = <<>> <=> version = <<>>)
      /\ \A v \in DOMAIN version : /\ version'[v].path = version[v].path
                                   /\ version[v].contents \subseteq version'[v].contents
      /\ spent' \in Spent /\ spent'.moves = spent.moves /\ spent'.deletes = spent.deletes
      /\ UNCHANGED <<document, rows, points, job, work, writes>>
  BY <1>1, OverwriteTells
<1>3. TypeOK' /\ Hands' /\ Tries' /\ Order'
  BY <1>1, <1>2 DEF TypeOK, Hands, Tries, Order
<1>4. Prepared'
  BY <1>1, <1>2 DEF Prepared, Chunked
<1>5. Unmoved'
  BY <1>1, <1>2 DEF Unmoved
<1>6. PointsKnown' /\ PointsAreOwn'
  BY <1>1, <1>2 DEF PointsKnown, PointsAreOwn
<1>7. Deleted' = Deleted /\ \A j \in DOMAIN job : Answers(j)' <=> Answers(j)
  BY <1>2 DEF Deleted, Answers
<1>8. Answered'
  BY <1>1, <1>2, <1>7 DEF Answered
<1>9. Simple' = Simple
  BY <1>2 DEF Simple
<1>10. OneJobEach' /\ Settled'
  BY <1>1, <1>2, <1>7, <1>9 DEF OneJobEach, Settled
<1> QED BY <1>3, <1>4, <1>5, <1>6, <1>8, <1>10 DEF DInv, Base

LEMMA RescanKeeps == ASSUME DInv, Rescan PROVE DInv'
<1>1. /\ TypeOK /\ Hands /\ Unmoved /\ Answered /\ OneJobEach /\ Settled
  BY DEF DInv, Base
<1>2. /\ document' \in Documents /\ document'.current = document.current
      /\ document'.path = document.path /\ document'.status = "indexed" /\ ~Deleted /\ ~Deleted'
      /\ document.status # "pending"
      /\ document'.current = Len(version)
      /\ UNCHANGED <<version, rows, points, job, work, writes, spent>>
  BY <1>1 DEF Rescan, TypeOK, Documents, Deleted
<1>3. TypeOK' /\ Hands' /\ Tries' /\ Order' /\ Prepared' /\ PointsKnown' /\ PointsAreOwn'
  <2>1. /\ job' \in Seq(JobRow) /\ Len(job') \in 0..MaxJobs /\ version' \in Seq(VersionRow)
        /\ spent' \in Spent /\ Len(version) \in Nat
    BY <1>1, <1>2 DEF TypeOK, Hands
  <2>2. Len(version) <= Len(version')
    BY <1>2, <2>1
  <2> QED BY <1>2, <2>1, <2>2, CorpusKeeps
<1>4. Unmoved' /\ OneJobEach' /\ Settled'
  BY <1>1, <1>2 DEF Unmoved, OneJobEach, Settled, Simple
<1>5. Answered'
  BY <1>1, <1>2 DEF Answered
<1> QED BY <1>3, <1>4, <1>5 DEF DInv, Base

-------------------------------------------------------------------------------
\* What the indexer does to take up jobs, and what a crash does to those it has.

LEMMA ClaimKeeps == ASSUME DInv, NEW j \in DOMAIN job, Claim(j) PROVE DInv'
<1>1. /\ TypeOK /\ Hands /\ Order /\ Prepared /\ Unmoved /\ Answered /\ OneJobEach /\ Settled /\ Tries
  BY DEF DInv, Base
<1>2. /\ j \in Jobs /\ DOMAIN job \subseteq Jobs /\ job[j] \in JobRow /\ work[j] \in Progress
  BY <1>1, Facts
<1> DEFINE r == [work[j] EXCEPT !.stage = "claimed", !.plan = job[j].operation]
           q == [job[j] EXCEPT !.status = "held", !.attempts = @ + 1]
<1>3. /\ Collecting /\ job[j].status = "queued"
      /\ document' = Marked("indexing")
      /\ UNCHANGED <<version, rows, points, writes, spent>>
  BY DEF Claim, Queued
<1>4. job' = [job EXCEPT ![j] = q]
  BY <1>1 DEF Claim, TypeOK
<1>5. work' = [work EXCEPT ![j] = r]
  BY <1>1 DEF Claim, TypeOK
<1>6. work[j].stage = "idle"
  BY <1>1, <1>2, <1>3 DEF Hands
<1>7. /\ q \in JobRow /\ q.status = "held" /\ q.version = job[j].version
      /\ q.operation = job[j].operation
  <2>1. job[j].attempts \in 0..MaxAttempts /\ job[j].attempts < MaxAttempts
    BY <1>1, <1>2, <1>3 DEF Tries, JobRow
  <2>2. job[j].attempts + 1 \in 0..MaxAttempts
    BY <2>1, IndexingAssumption
  <2> QED BY <1>2, <2>2 DEF JobRow
<1>8. r \in Progress /\ r.stage = "claimed" /\ r.plan = job[j].operation
  BY <1>2 DEF Progress, JobRow
<1> HIDE DEF r, q
<1>9. /\ job' \in Seq(JobRow) /\ Len(job') = Len(job) /\ DOMAIN job' = DOMAIN job
      /\ job'[j] = q /\ \A i \in DOMAIN job : i # j => job'[i] = job[i]
  BY <1>1, <1>4, <1>7, JobMoves
<1>10. /\ work' \in [Jobs -> Progress] /\ work'[j] = r
       /\ \A i \in Jobs : i # j => work'[i] = work[i]
  BY <1>1, <1>2, <1>5, <1>8, WorkMoves
<1>11. /\ document' \in Documents /\ document'.current = document.current
       /\ document'.path = document.path /\ (Deleted' <=> Deleted)
  <2>1. "indexing" \in {"pending", "indexing", "failed"}
    OBVIOUS
  <2> QED BY <1>1, <1>3, <2>1, DocumentMoves DEF Deleted
<1>12. TypeOK'
  BY <1>1, <1>3, <1>9, <1>10, <1>11 DEF TypeOK
<1>13. Hands'
  BY <1>1, <1>2, <1>7, <1>9, <1>10 DEF Hands
<1>14. Tries'
  BY <1>1, <1>7, <1>9 DEF Tries
<1>15. Order'
  <2>1. ASSUME NEW i \in DOMAIN writes PROVE work'[writes[i]] = work[writes[i]]
    BY <1>1, <1>6, <1>10, Facts DEF Order
  <2> QED BY <1>1, <1>3, <2>1 DEF Order
<1>16. Prepared'
  <2>1. \A i \in DOMAIN job : job'[i].version = job[i].version
    BY <1>7, <1>9
  <2> QED BY <1>1, <1>2, <1>3, <1>8, <1>9, <1>10, <2>1 DEF Prepared, Chunked
<1>17. \A i \in DOMAIN job : job'[i].version = job[i].version /\ job'[i].operation = job[i].operation
  BY <1>7, <1>9
<1>18. Unmoved'
  BY <1>1, <1>2, <1>3, <1>8, <1>9, <1>10, <1>11, <1>17 DEF Unmoved
<1>19. PointsKnown' /\ PointsAreOwn'
  <2>1. Len(version) \in Nat /\ Len(version) <= Len(version')
    BY <1>1, <1>3, Facts
  <2> QED BY <1>3, <1>12, <2>1, PointsKeep
<1>20. Answered'
  <2>1. Answers(j)'
    BY <1>7, <1>8, <1>9, <1>10 DEF Answers, Chunked
  <2>2. ASSUME NEW i \in DOMAIN job PROVE work'[i].stage \notin {"extracted", "embedded"}
    <3>1. CASE i = j
      BY <1>1, <1>2, <1>3, <1>8, <1>10, <3>1, Facts DEF Collecting, OnWriter, Order
    <3>2. CASE i # j
      BY <1>1, <1>2, <1>3, <1>8, <1>10, <3>2, Facts DEF Collecting, OnWriter, Order
    <3> QED BY <3>1, <3>2
  <2>3. version # <<>>
    BY <1>1, Facts DEF Prepared
  <2> QED BY <1>3, <1>9, <2>1, <2>2, <2>3 DEF Answered
<1>21. OneJobEach'
  <2>1. Simple' <=> Simple
    BY <1>3 DEF Simple
  <2>2. ASSUME Simple, NEW i \in Jobs
        PROVE  /\ work'[i].stage # "idle" => work'[i].plan = "upsert_version"
               /\ work'[i].stage \notin {"direct", "cleared"}
    <3>1. CASE i = j
      BY <1>1, <1>8, <1>10, <2>2, <3>1 DEF OneJobEach
    <3>2. CASE i # j
      BY <1>1, <1>10, <2>2, <3>2 DEF OneJobEach
    <3> QED BY <3>1, <3>2
  <2> QED BY <1>1, <1>3, <1>9, <1>11, <1>17, <2>1, <2>2 DEF OneJobEach
<1>22. Settled'
  BY <1>1, <1>2, <1>3, <1>7, <1>8, <1>9, <1>10, <1>11 DEF Settled, Simple
<1> QED BY <1>12, <1>13, <1>14, <1>15, <1>16, <1>18, <1>19, <1>20, <1>21, <1>22 DEF DInv, Base

LEMMA StartBatchKeeps == ASSUME DInv, StartBatch PROVE DInv'
<1>1. /\ TypeOK /\ Hands /\ Order /\ Prepared /\ Unmoved /\ Answered /\ OneJobEach /\ Settled /\ Tries
  BY DEF DInv, Base
<1>2. /\ DOMAIN job \subseteq Jobs /\ \A j \in Jobs : work[j] \in Progress
  BY <1>1, Facts
<1>3. /\ Collecting /\ document' = Marked("indexing")
      /\ UNCHANGED <<version, rows, points, job, writes, spent>>
  BY DEF StartBatch
<1>4. /\ DOMAIN work' = Jobs /\ work' = [j \in Jobs |-> work'[j]]
      /\ \A j \in Jobs :
            \/ work[j].stage # "claimed" /\ work'[j] = work[j]
            \/ /\ work[j].stage = "claimed" /\ work[j].plan = "upsert_version"
               /\ work'[j] = [work[j] EXCEPT !.stage = "extracting"]
            \/ /\ work[j].stage = "claimed" /\ work[j].plan # "upsert_version"
               /\ work'[j] = [work[j] EXCEPT !.stage = "direct"]
  BY DEF StartBatch
<1>5. ASSUME NEW j \in Jobs
      PROVE  /\ work'[j] \in Progress /\ work'[j].plan = work[j].plan
             /\ \/ work'[j] = work[j] /\ work[j].stage # "claimed"
                \/ /\ work[j].stage = "claimed" /\ work'[j].stage \in {"extracting", "direct"}
                   /\ work[j].plan = "upsert_version" => work'[j].stage = "extracting"
  <2>1. work[j] \in Progress
    BY <1>2
  <2> QED BY <1>4, <2>1 DEF Progress
<1>6. /\ document' \in Documents /\ document'.current = document.current
      /\ document'.path = document.path /\ (Deleted' <=> Deleted)
  <2>1. "indexing" \in {"pending", "indexing", "failed"}
    OBVIOUS
  <2> QED BY <1>1, <1>3, <2>1, DocumentMoves DEF Deleted
<1>7. TypeOK'
  <2>1. work' \in [Jobs -> Progress]
    BY <1>4, <1>5
  <2> QED BY <1>1, <1>3, <1>6, <2>1 DEF TypeOK
<1>8. Hands' /\ Tries'
  <2>1. ASSUME NEW j \in Jobs, work'[j].stage # "idle" PROVE work[j].stage # "idle"
    BY <1>5, <2>1
  <2> QED BY <1>1, <1>3, <2>1 DEF Hands, Tries
<1>9. Order'
  <2>1. ASSUME NEW i \in DOMAIN writes PROVE work'[writes[i]] = work[writes[i]]
    BY <1>1, <1>5, Facts DEF Order
  <2> QED BY <1>1, <1>3, <2>1 DEF Order
<1>10. Prepared'
  <2>1. ASSUME NEW j \in DOMAIN job, work'[j].stage \in Chunked PROVE work'[j] = work[j]
    BY <1>2, <1>5, <2>1 DEF Chunked
  <2> QED BY <1>1, <1>3, <2>1 DEF Prepared, Chunked
<1>11. Unmoved'
  BY <1>1, <1>3, <1>5, <1>6 DEF Unmoved
<1>12. PointsKnown' /\ PointsAreOwn'
  <2>1. Len(version) \in Nat /\ Len(version) <= Len(version')
    BY <1>1, <1>3, Facts
  <2> QED BY <1>3, <1>7, <2>1, PointsKeep
<1>13. Answered'
  <2>1. PICK j \in DOMAIN job : work[j].stage = "claimed"
    BY DEF StartBatch, Stage
  <2>2. Answers(j)'
    BY <1>1, <1>2, <1>3, <1>5, <2>1 DEF Answers, Chunked, Hands
  <2>3. ASSUME NEW i \in DOMAIN job PROVE work'[i].stage \notin {"extracted", "embedded"}
    <3>1. work[i].stage \notin {"extracted", "embedded"}
      BY <1>1, <1>3, Facts DEF Collecting, OnWriter, Order
    <3> QED BY <1>2, <1>5, <3>1
  <2>4. version # <<>>
    BY <1>1, <2>1, Facts DEF Prepared
  <2> QED BY <1>3, <2>2, <2>3, <2>4 DEF Answered
<1>14. OneJobEach'
  <2>1. Simple' <=> Simple
    BY <1>3 DEF Simple
  <2>2. ASSUME Simple, NEW j \in Jobs
        PROVE  /\ work'[j].stage # "idle" => work'[j].plan = "upsert_version"
               /\ work'[j].stage \notin {"direct", "cleared"}
    BY <1>1, <1>5, <2>2 DEF OneJobEach
  <2> QED BY <1>1, <1>3, <1>6, <2>1, <2>2 DEF OneJobEach
<1>15. Settled'
  <2>1. ASSUME NEW j \in DOMAIN job, work'[j].stage \in {"replaced", "applied"}
        PROVE  work[j].stage = work'[j].stage
    BY <1>2, <1>5, <2>1
  <2> QED BY <1>1, <1>3, <1>6, <2>1 DEF Settled, Simple
<1> QED BY <1>7, <1>8, <1>9, <1>10, <1>11, <1>12, <1>13, <1>14, <1>15 DEF DInv, Base

LEMMA CrashKeeps == ASSUME DInv, Crash PROVE DInv'
<1>1. /\ TypeOK /\ Hands /\ Order /\ Prepared /\ Unmoved /\ Answered /\ OneJobEach /\ Settled /\ Tries
  BY DEF DInv, Base
<1>2. /\ work' = [j \in Jobs |-> Idle] /\ writes' = <<>>
      /\ spent' = [spent EXCEPT !.crashes = @ + 1] /\ spent.crashes < MaxCrashes
      /\ UNCHANGED <<document, version, rows, points, job>>
  BY DEF Crash
<1>3. /\ DOMAIN job \subseteq Jobs
      /\ \A j \in Jobs : work'[j] = Idle /\ work'[j].stage = "idle" /\ work'[j].plan = "none"
      /\ Idle \in Progress
  BY <1>1, <1>2, Facts DEF Idle, Progress
<1>4. spent' \in Spent /\ spent'.moves = spent.moves /\ spent'.deletes = spent.deletes
  <2>1. spent \in Spent
    BY <1>1 DEF TypeOK
  <2> QED BY <1>2, <2>1, SpentBounds DEF Spent
<1>5. TypeOK'
  <2>1. work' \in [Jobs -> Progress] /\ writes' \in Seq(Jobs)
    BY <1>2, <1>3
  <2> QED BY <1>1, <1>2, <1>4, <2>1 DEF TypeOK
<1>6. Hands' /\ Tries' /\ Order'
  BY <1>1, <1>2, <1>3 DEF Hands, Tries, Order
<1>7. Prepared'
  BY <1>1, <1>2, <1>3 DEF Prepared, Chunked
<1>8. Unmoved'
  BY <1>1, <1>2, <1>3, <1>4 DEF Unmoved
<1>9. PointsKnown' /\ PointsAreOwn'
  <2>1. Len(version) \in Nat /\ Len(version) <= Len(version')
    BY <1>1, <1>2, Facts
  <2> QED BY <1>2, <1>4, <1>5, <2>1, PointsKeep
<1>10. Answered'
  <2>1. ASSUME NEW j \in DOMAIN job, Answers(j) PROVE Answers(j)'
    BY <1>2, <1>3, <2>1 DEF Answers, Chunked
  <2> QED BY <1>1, <1>2, <1>3, <2>1 DEF Answered
<1>11. OneJobEach' /\ Settled'
  <2>1. Simple' <=> Simple
    BY <1>4 DEF Simple
  <2> QED BY <1>1, <1>2, <1>3, <2>1 DEF OneJobEach, Settled, Deleted
<1> QED BY <1>5, <1>6, <1>7, <1>8, <1>9, <1>10, <1>11 DEF DInv, Base

-------------------------------------------------------------------------------
\* The steps of one job.

\* A job that goes on and leaves the rows and the points alone.
LEMMA QuietlyOn ==
  ASSUME DInv, NEW j \in DOMAIN job, UNCHANGED <<version, rows, points, job, spent>>,
         Base', Answered', OneJobEach',
         document'.current = document.current, document'.path = document.path,
         \A i \in DOMAIN job : i # j => work'[i].stage = work[i].stage,
         work'[j].stage \notin {"replaced", "applied"}
  PROVE  DInv'
<1>1. TypeOK /\ TypeOK' /\ Len(version) \in Nat /\ Settled
  BY Facts DEF DInv, Base
<1>2. Len(version) <= Len(version')
  BY <1>1
<1>3. PointsKnown' /\ PointsAreOwn'
  BY <1>1, <1>2, PointsKeep
<1>4. Settled'
  BY <1>1 DEF Settled, Simple
<1> QED BY <1>3, <1>4 DEF DInv

\* What is known of a job that somebody works on.
LEMMA AtWork ==
  ASSUME DInv, NEW j \in DOMAIN job, work[j].stage # "idle"
  PROVE  /\ TypeOK /\ Hands /\ Order /\ Prepared /\ Unmoved /\ OneJobEach /\ Settled /\ Answered
         /\ PointsKnown /\ PointsAreOwn
         /\ j \in Jobs /\ job[j].status = "held" /\ work[j] \in Progress /\ job[j] \in JobRow
         /\ job[j].version \in 1..Len(version) /\ version[job[j].version] \in VersionRow
         /\ DOMAIN job \subseteq Jobs
         /\ document \in Documents /\ spent \in Spent /\ rows \in Row /\ points \in [Paths -> Point]
         /\ OnWriter(j) => work[j].stage \in {"submitted", "replaced", "cleared", "applied"}
         /\ work[j].stage \in {"replaced", "cleared", "applied"} /\ OnWriter(j) => j = Head(writes)
<1>1. /\ TypeOK /\ Hands /\ Order /\ Prepared /\ Unmoved /\ OneJobEach /\ Settled /\ Answered
      /\ PointsKnown /\ PointsAreOwn
  BY DEF DInv, Base
<1>2. /\ j \in Jobs /\ work[j] \in Progress /\ job[j] \in JobRow /\ DOMAIN job \subseteq Jobs
      /\ job[j].status = "held" /\ job[j].version \in 1..Len(version)
      /\ version[job[j].version] \in VersionRow
  BY <1>1, Facts DEF Hands, Prepared
<1>3. document \in Documents /\ spent \in Spent /\ rows \in Row /\ points \in [Paths -> Point]
  BY <1>1 DEF TypeOK
<1>4. OnWriter(j) => work[j].stage \in {"submitted", "replaced", "cleared", "applied"}
  BY <1>1 DEF OnWriter, Order
<1>5. work[j].stage \in {"replaced", "cleared", "applied"} /\ OnWriter(j) => j = Head(writes)
  <2> SUFFICES ASSUME work[j].stage \in {"replaced", "cleared", "applied"}, OnWriter(j)
               PROVE  j = Head(writes)
    OBVIOUS
  <2>1. PICK i \in DOMAIN writes : writes[i] = j
    BY DEF OnWriter
  <2>2. i = 1
    BY <1>1, <2>1 DEF Order
  <2>3. writes \in Seq(Jobs) /\ writes # <<>>
    BY <1>1, <2>1 DEF TypeOK
  <2> QED BY <2>1, <2>2, <2>3
<1> QED BY <1>1, <1>2, <1>3, <1>4, <1>5

LEMMA WorkIs ==
  ASSUME DInv, NEW j \in DOMAIN job, work[j].stage # "idle", NEW r \in Progress,
         work' = [work EXCEPT ![j] = r]
  PROVE  work'[j] = r /\ \A i \in DOMAIN job : i # j => work'[i].stage = work[i].stage
<1>1. TypeOK /\ j \in Jobs /\ DOMAIN job \subseteq Jobs
  BY AtWork
<1> QED BY <1>1, WorkMoves

LEMMA DocumentKeepsPlace ==
  ASSUME TypeOK, document' \in {document, Marked("indexing"), Completed, Marked("pending"), Marked("failed")}
  PROVE  document'.current = document.current /\ document'.path = document.path
<1>1. \A s \in {"pending", "indexing", "failed"} :
         Marked(s).current = document.current /\ Marked(s).path = document.path
  BY DocumentMoves
<1>2. Completed.current = document.current /\ Completed.path = document.path
  BY DocumentMoves
<1> QED BY <1>1, <1>2

\* A job that is let go of, and what that does to the points.
LEMMA EndsWell ==
  ASSUME DInv, NEW j \in DOMAIN job, job[j].status = "held",
         NEW s \in {"queued", "failed", "completed", "superseded"},
         job' = [job EXCEPT ![j].status = s],
         Release(j), OnWriter(j) => j = Head(writes), Ends(j, s),
         UNCHANGED <<version, rows>>, spent' \in Spent,
         spent'.moves = spent.moves, spent'.deletes = spent.deletes,
         points' \in [Paths -> Point],
         \A p \in Paths : points'[p] \in {points[p], NoPoint},
         Simple /\ job[j].version # document.current =>
            (points[document.path].version = document.current =>
                points'[document.path].version = document.current),
         s = "completed" => work[j].stage = "applied" /\ points' = points
  PROVE  DInv'
<1>1. TypeOK /\ Hands /\ Order /\ Settled /\ Len(version) \in Nat /\ rows \in Row
      /\ Len(version) <= Len(version') /\ document \in Documents
  BY Facts DEF DInv, Base, TypeOK
<1>2. Base' /\ Answered' /\ OneJobEach'
  BY <1>1, EndKeeps
<1>3. PointsKnown' /\ PointsAreOwn'
  BY <1>1, <1>2, PointsKeep DEF Base
<1>4. /\ DOMAIN job' = DOMAIN job /\ job'[j].status = s
      /\ \A i \in DOMAIN job : job'[i].version = job[i].version
      /\ \A i \in DOMAIN job : i # j => job'[i] = job[i]
  BY <1>1, StatusMoves
<1>5. /\ work'[j].stage = "idle"
      /\ \A i \in DOMAIN job : i # j => work'[i].stage = work[i].stage
  <2>1. DOMAIN job \subseteq Jobs
    BY <1>1, Facts
  <2>2. work'[j] = Idle /\ \A i \in Jobs : i # j => work'[i] = work[i]
    BY <1>1, ReleaseTells
  <2> QED BY <2>1, <2>2 DEF Idle
<1>6. document' \in {document, Completed, Marked("pending"), Marked("failed")}
  BY DEF Ends
<1>7. document'.current = document.current /\ document'.path = document.path
  BY <1>1, <1>6, DocumentKeepsPlace
<1>8. ASSUME Simple, job[j].version = document.current
      PROVE  /\ job'[j].status # "superseded"
             /\ job'[j].status = "completed" =>
                    rows'.version = document.current /\ points'[document.path].version = document.current
  <2>1. ~Deleted
    BY <1>8 DEF DInv, OneJobEach
  <2>2. s # "superseded"
    BY <1>8, <2>1 DEF Ends, Current
  <2>3. s = "completed" => rows.version = document.current /\ points[document.path].version = document.current
    BY <1>1, <1>8 DEF Settled
  <2> QED BY <1>4, <2>2, <2>3
<1>9. Settled'
  BY <1>4, <1>5, <1>7, <1>8, DoneKeeps
<1> QED BY <1>2, <1>3, <1>9 DEF DInv

LEMMA FailKeeps ==
  ASSUME DInv, NEW j \in DOMAIN job, job[j].status = "held", NEW transient \in BOOLEAN,
         Fail(j, transient), OnWriter(j) => j = Head(writes),
         UNCHANGED <<version, rows>>, spent' \in Spent,
         spent'.moves = spent.moves, spent'.deletes = spent.deletes,
         points' \in [Paths -> Point],
         \A p \in Paths : points'[p] \in {points[p], NoPoint},
         Simple /\ job[j].version # document.current =>
            (points[document.path].version = document.current =>
                points'[document.path].version = document.current)
  PROVE  DInv'
<1>1. CASE transient /\ job[j].attempts < MaxAttempts
  <2>1. job' = [job EXCEPT ![j].status = "queued"] /\ document' = Marked("pending") /\ Release(j)
    BY <1>1 DEF Fail
  <2>2. Ends(j, "queued")
    BY <1>1, <2>1 DEF Ends
  <2> QED BY <2>1, <2>2, EndsWell
<1>2. CASE ~(transient /\ job[j].attempts < MaxAttempts)
  <2>1. job' = [job EXCEPT ![j].status = "failed"] /\ document' = Marked("failed") /\ Release(j)
    BY <1>2 DEF Fail
  <2>2. Ends(j, "failed")
    BY <2>1 DEF Ends
  <2> QED BY <2>1, <2>2, EndsWell
<1> QED BY <1>1, <1>2

LEMMA ExtractKeeps == ASSUME DInv, NEW j \in DOMAIN job, Extract(j) PROVE DInv'
<1>1. /\ work[j].stage = "extracting" /\ UNCHANGED <<version, rows, points, spent>>
  BY DEF Extract
<1>2. /\ TypeOK /\ j \in Jobs /\ job[j].status = "held" /\ work[j] \in Progress
      /\ version[job[j].version] \in VersionRow /\ points \in [Paths -> Point]
      /\ rows \in Row /\ spent \in Spent
      /\ ~OnWriter(j)
  BY <1>1, AtWork
<1>3. CASE Readable(job[j].version)
  <2>6. PICK t \in version[job[j].version].contents :
          work' = [work EXCEPT ![j].stage = "extracted", ![j].text = t]
    BY <1>3 DEF Extract
  <2> DEFINE r == [work[j] EXCEPT !.stage = "extracted", !.text = t]
  <2>1. /\ work' = [work EXCEPT ![j] = r] /\ document' = Marked("indexing")
        /\ UNCHANGED <<job, writes>> /\ job[j].version = document.current
    BY <1>2, <1>3, <2>6 DEF Extract, Readable, TypeOK
  <2>2. /\ r \in Progress /\ r.stage = "extracted" /\ r.plan = work[j].plan
        /\ r.text \in version[job[j].version].contents
    BY <1>2, <2>6 DEF Progress, VersionRow
  <2> HIDE DEF r
  <2>3. Base' /\ Answered' /\ OneJobEach'
    BY <1>1, <1>2, <2>1, <2>2, WorkKeeps DEF Chunked
  <2>4. work'[j] = r /\ \A i \in DOMAIN job : i # j => work'[i].stage = work[i].stage
    BY <1>1, <2>1, <2>2, WorkIs
  <2>5. document'.current = document.current /\ document'.path = document.path
    BY <1>2, <2>1, DocumentKeepsPlace
  <2> QED BY <1>1, <2>1, <2>2, <2>3, <2>4, <2>5, QuietlyOn
<1>4. CASE ~Readable(job[j].version)
  <2>1. Fail(j, TRUE)
    BY <1>4 DEF Extract
  <2> QED BY <1>1, <1>2, <2>1, FailKeeps
<1> QED BY <1>3, <1>4

LEMMA EmbedKeeps == ASSUME DInv, NEW j \in DOMAIN job, Embed(j) PROVE DInv'
<1>1. /\ work[j].stage = "extracted" /\ UNCHANGED <<version, rows, points, job, writes, spent>>
      /\ document' = Marked("indexing")
  BY DEF Embed
<1>2. /\ TypeOK /\ j \in Jobs /\ work[j] \in Progress /\ Prepared
      /\ version[job[j].version] \in VersionRow /\ points \in [Paths -> Point]
      /\ rows \in Row /\ ~OnWriter(j)
  BY <1>1, AtWork
<1>3. /\ work[j].text \in Texts /\ work[j].text \in version[job[j].version].contents
  BY <1>1, <1>2 DEF Prepared, Chunked, VersionRow
<1>4. VectorOf(work[j].text) \in Texts
  <2>1. CASE rows.text = work[j].text /\ points[rows.path] # NoPoint
    <3>1. rows # NoRows
      BY <1>3, <2>1, IndexingAssumption DEF NoRows
    <3>2. rows.path \in Paths
      BY <1>2, <3>1 DEF Row
    <3>3. points[rows.path].vector \in Texts
      BY <1>2, <2>1, <3>2 DEF Point
    <3> QED BY <2>1, <3>3 DEF VectorOf
  <2>2. CASE ~(rows.text = work[j].text /\ points[rows.path] # NoPoint)
    BY <1>3, <2>2 DEF VectorOf
  <2> QED BY <2>1, <2>2
<1> DEFINE r == [work[j] EXCEPT !.stage = "embedded", !.vector = VectorOf(work[j].text)]
<1>5. work' = [work EXCEPT ![j] = r]
  BY <1>2 DEF Embed, TypeOK
<1>6. /\ r \in Progress /\ r.stage = "embedded" /\ r.plan = work[j].plan
      /\ r.text = work[j].text /\ r.vector \in Texts
  BY <1>2, <1>4 DEF Progress
<1> HIDE DEF r
<1>7. Base' /\ Answered' /\ OneJobEach'
  BY <1>1, <1>2, <1>3, <1>5, <1>6, WorkKeeps DEF Chunked
<1>8. work'[j] = r /\ \A i \in DOMAIN job : i # j => work'[i].stage = work[i].stage
  BY <1>1, <1>5, <1>6, WorkIs
<1>9. document'.current = document.current /\ document'.path = document.path
  BY <1>1, <1>2, DocumentKeepsPlace
<1> QED BY <1>1, <1>6, <1>7, <1>8, <1>9, QuietlyOn

LEMMA SubmitKeeps == ASSUME DInv, NEW j \in DOMAIN job, Submit(j) PROVE DInv'
<1>1. /\ work[j].stage = "embedded" /\ UNCHANGED <<version, rows, points, job, spent>>
      /\ document' = Marked("indexing") /\ writes' = Append(writes, j)
  BY DEF Submit
<1>2. /\ TypeOK /\ j \in Jobs /\ work[j] \in Progress /\ Prepared
      /\ points \in [Paths -> Point] /\ rows \in Row /\ ~OnWriter(j)
  BY <1>1, AtWork
<1>3. /\ work[j].vector \in Texts /\ work[j].text \in version[job[j].version].contents
  BY <1>1, <1>2 DEF Prepared, Chunked
<1> DEFINE r == [work[j] EXCEPT !.stage = "submitted"]
<1>4. work' = [work EXCEPT ![j] = r]
  BY <1>2 DEF Submit, TypeOK
<1>5. /\ r \in Progress /\ r.stage = "submitted" /\ r.plan = work[j].plan
      /\ r.text = work[j].text /\ r.vector = work[j].vector
  BY <1>2 DEF Progress
<1> HIDE DEF r
<1>6. Base' /\ Answered' /\ OneJobEach'
  BY <1>1, <1>2, <1>3, <1>4, <1>5, WorkKeeps DEF Chunked
<1>7. work'[j] = r /\ \A i \in DOMAIN job : i # j => work'[i].stage = work[i].stage
  BY <1>1, <1>4, <1>5, WorkIs
<1>8. document'.current = document.current /\ document'.path = document.path
  BY <1>1, <1>2, DocumentKeepsPlace
<1> QED BY <1>1, <1>5, <1>6, <1>7, <1>8, QuietlyOn

\* A job that goes on when files have moved or gone, and with them all that is promised
\* of a document that they leave alone.
LEMMA GoesOn ==
  ASSUME DInv, NEW j \in DOMAIN job, ~Simple, work[j].stage # "idle", NEW r \in Progress,
         work' = [work EXCEPT ![j] = r], r.stage \in {"cleared", "applied"}, r.plan = work[j].plan,
         OnWriter(j) => j = Head(writes),
         UNCHANGED <<document, version, job, writes, spent>>,
         rows' \in Row, points' \in [Paths -> Point],
         \A p \in Paths :
            \/ points'[p] \in {points[p], NoPoint}
            \/ /\ points[p] # NoPoint /\ spent.moves # 0
               /\ points'[p].version \in 1..Len(version)
  PROVE  DInv'
<1>1. r.stage # "idle" /\ r.stage \notin Chunked /\ r.stage \notin {"extracted", "embedded"}
  BY DEF Chunked
<1>3. TypeOK /\ Len(version) \in Nat /\ Answered /\ document \in Documents
  BY Facts DEF DInv, Base
<1>4. Base' /\ Answered' /\ OneJobEach'
  BY <1>1, WorkKeeps
<1>5. PointsKnown' /\ PointsAreOwn'
  <2>1. Len(version) <= Len(version')
    BY <1>3
  <2> QED BY <1>4, <2>1, PointsKeep DEF Base
<1>6. Settled'
  BY DEF Settled, Simple
<1> QED BY <1>4, <1>5, <1>6 DEF DInv

LEMMA ClearPointsKeeps ==
  ASSUME DInv, NEW j \in DOMAIN job, ~Simple, work[j].stage \in {"direct", "submitted"},
         OnWriter(j) => j = Head(writes), ClearPoints(j)
  PROVE  DInv'
<1>1. work[j].stage # "idle"
  OBVIOUS
<1>2. TypeOK /\ work[j] \in Progress /\ rows \in Row
  BY <1>1, AtWork
<1> DEFINE r == [work[j] EXCEPT !.stage = "cleared"]
<1>3. /\ work' = [work EXCEPT ![j] = r]
      /\ UNCHANGED <<document, version, rows, job, writes, spent>>
      /\ points' = [p \in Paths |-> NoPoint]
  BY <1>2 DEF ClearPoints, TypeOK
<1>4. r \in Progress /\ r.stage = "cleared" /\ r.plan = work[j].plan
  BY <1>2 DEF Progress
<1> HIDE DEF r
<1>5. points' \in [Paths -> Point] /\ \A p \in Paths : points'[p] = NoPoint
  BY <1>3 DEF Point
<1> QED BY <1>1, <1>2, <1>3, <1>4, <1>5, GoesOn

LEMMA DirectKeeps == ASSUME DInv, NEW j \in DOMAIN job, Direct(j) PROVE DInv'
<1>1. work[j].stage = "direct"
  BY DEF Direct
<1>2. /\ TypeOK /\ Unmoved /\ OneJobEach /\ PointsKnown /\ work[j] \in Progress /\ rows \in Row
      /\ points \in [Paths -> Point] /\ spent \in Spent /\ j \in Jobs /\ ~OnWriter(j)
      /\ document \in Documents
  BY <1>1, AtWork
<1>3. ~Simple
  BY <1>1, <1>2 DEF OneJobEach
<1>4. CASE work[j].plan = "delete_asset"
  BY <1>1, <1>2, <1>3, <1>4, ClearPointsKeeps DEF Direct
<1>5. CASE work[j].plan = "refresh_metadata"
  <2> DEFINE r == [work[j] EXCEPT !.stage = "applied"]
  <2>1. /\ work' = [work EXCEPT ![j] = r]
        /\ UNCHANGED <<document, version, rows, job, writes, spent>>
        /\ points' = IF rows = NoRows \/ points[rows.path] = NoPoint THEN points
                     ELSE [points EXCEPT ![rows.path].version = document.current]
    BY <1>2, <1>5 DEF Direct, TypeOK
  <2>2. r \in Progress /\ r.stage = "applied" /\ r.plan = work[j].plan
    BY <1>2 DEF Progress
  <2> HIDE DEF r
  <2>3. spent.moves # 0
    BY <1>2, <1>5 DEF Unmoved
  <2>4. CASE rows = NoRows \/ points[rows.path] = NoPoint
    <3>1. points' = points
      BY <2>1, <2>4
    <3> QED BY <1>1, <1>2, <1>3, <2>1, <2>2, <3>1, GoesOn
  <2>5. CASE rows # NoRows /\ points[rows.path] # NoPoint
    <3>1. rows.path \in Paths
      BY <1>2, <2>5 DEF Row
    <3> DEFINE q == [points[rows.path] EXCEPT !.version = document.current]
    <3>2. points' = [points EXCEPT ![rows.path] = q]
      BY <1>2, <2>1, <2>5, <3>1
    <3>3. points[rows.path] \in Point /\ points[rows.path].version \in 1..Len(version)
      BY <1>2, <2>5, <3>1 DEF PointsKnown
    <3>4. document.current = Len(version) /\ Len(version) \in Nat /\ document.current \in 0..MaxVersion
      BY <1>2 DEF TypeOK, Documents
    <3>5. document.current \in 1..Len(version) /\ document.current \in 1..MaxVersion
      BY <3>3, <3>4, IndexingAssumption
    <3>6. q \in Point /\ q.version = document.current
      BY <2>5, <3>3, <3>5 DEF Point
    <3> HIDE DEF q
    <3>7. /\ points' \in [Paths -> Point] /\ points'[rows.path] = q
          /\ \A p \in Paths : p # rows.path => points'[p] = points[p]
      BY <1>2, <3>1, <3>2, <3>6
    <3>8. \A p \in Paths :
            \/ points'[p] \in {points[p], NoPoint}
            \/ /\ points[p] # NoPoint /\ spent.moves # 0
               /\ points'[p].version \in 1..Len(version)
      BY <2>3, <2>5, <3>5, <3>6, <3>7
    <3> QED BY <1>1, <1>2, <1>3, <2>1, <2>2, <3>7, <3>8, GoesOn
  <2> QED BY <2>4, <2>5
<1> QED BY <1>4, <1>5 DEF Direct

LEMMA ClearRowsKeeps == ASSUME DInv, NEW j \in DOMAIN job, ClearRows(j) PROVE DInv'
<1>1. work[j].stage = "cleared" /\ rows' = NoRows
  BY DEF ClearRows
<1>2. /\ TypeOK /\ OneJobEach /\ work[j] \in Progress /\ points \in [Paths -> Point]
      /\ j \in Jobs /\ (OnWriter(j) => j = Head(writes))
  BY <1>1, AtWork
<1>3. ~Simple
  BY <1>1, <1>2 DEF OneJobEach
<1> DEFINE r == [work[j] EXCEPT !.stage = "applied"]
<1>4. /\ work' = [work EXCEPT ![j] = r]
      /\ UNCHANGED <<document, version, points, job, writes, spent>>
  BY <1>2 DEF ClearRows, TypeOK
<1>5. r \in Progress /\ r.stage = "applied" /\ r.plan = work[j].plan
  BY <1>2 DEF Progress
<1> HIDE DEF r
<1>6. rows' \in Row
  BY <1>1 DEF Row
<1> QED BY <1>1, <1>2, <1>3, <1>4, <1>5, <1>6, GoesOn

LEMMA FinishKeeps == ASSUME DInv, NEW j \in DOMAIN job, Finish(j) PROVE DInv'
<1>1. /\ work[j].stage = "applied" /\ Complete(j) /\ UNCHANGED <<version, rows, points, spent>>
  BY DEF Finish
<1>2. /\ TypeOK /\ points \in [Paths -> Point] /\ rows \in Row /\ spent \in Spent
      /\ job[j].status = "held" /\ (OnWriter(j) => j = Head(writes))
  BY <1>1, AtWork
<1>3. /\ job' = [job EXCEPT ![j].status = "completed"] /\ Release(j) /\ Ends(j, "completed")
  BY <1>1 DEF Complete, Ends
<1> QED BY <1>1, <1>2, <1>3, EndsWell

LEMMA WriteKeeps == ASSUME DInv, NEW j \in DOMAIN job, Write(j) PROVE DInv'
<1>1. /\ work[j].stage = "submitted" /\ writes # <<>> /\ j = Head(writes)
  BY DEF Write, Writing
<1>2. /\ TypeOK /\ Unmoved /\ OneJobEach /\ Prepared /\ work[j] \in Progress /\ rows \in Row
      /\ points \in [Paths -> Point] /\ spent \in Spent /\ j \in Jobs /\ job[j].status = "held"
      /\ job[j].version \in 1..Len(version) /\ version[job[j].version] \in VersionRow
      /\ job[j] \in JobRow /\ document \in Documents
  BY <1>1, AtWork
<1>3. CASE job[j].operation = "delete_asset"
  <2>1. ~Simple
    BY <1>2, <1>3 DEF OneJobEach
  <2> QED BY <1>1, <1>3, <2>1, ClearPointsKeeps DEF Write
<1>4. CASE job[j].operation = "upsert_version" /\ ~Current(j)
  <2>1. /\ job' = [job EXCEPT ![j].status = "superseded"] /\ Release(j)
        /\ UNCHANGED <<document, version, rows, points, spent>>
    BY <1>4 DEF Write, Supersede
  <2>2. Ends(j, "superseded")
    BY <1>1, <1>4, <2>1 DEF Ends
  <2> QED BY <1>1, <1>2, <2>1, <2>2, EndsWell
<1>5. CASE job[j].operation = "upsert_version" /\ Current(j)
  <2> DEFINE r == [work[j] EXCEPT !.stage = "replaced"]
  <2>1. /\ work' = [work EXCEPT ![j] = r] /\ points' = Replaced(j)
        /\ UNCHANGED <<document, version, rows, job, writes, spent>>
    BY <1>2, <1>5 DEF Write, TypeOK
  <2>2. /\ work[j].vector \in Texts /\ work[j].text \in version[job[j].version].contents
        /\ work[j].text \in Texts
    BY <1>1, <1>2 DEF Prepared, Chunked, VersionRow
  <2>3. /\ r \in Progress /\ r.stage = "replaced" /\ r.plan = work[j].plan
        /\ r.text = work[j].text /\ r.vector = work[j].vector
    BY <1>2 DEF Progress
  <2> HIDE DEF r
  <2>4. PICK v : v = job[j].version
    OBVIOUS
  <2>5. PICK at : at = version[v].path
    OBVIOUS
  <2>6. at \in Paths /\ v \in 1..MaxVersion /\ v = document.current
    BY <1>2, <1>5, <2>4, <2>5 DEF VersionRow, JobRow, Current
  <2> DEFINE q == [version |-> v, text |-> work[j].text, vector |-> work[j].vector]
  <2>7. q \in Point /\ q.version = v /\ q.text \in version[v].contents
    BY <2>2, <2>4, <2>6 DEF Point
  <2>8. /\ points' \in [Paths -> Point] /\ points'[at] = q
        /\ \A p \in Paths : p # at => points'[p] \in {points[p], NoPoint}
    <3>1. points' = [Without(v) EXCEPT ![at] = q]
      BY <2>1, <2>4, <2>5 DEF Replaced
    <3> HIDE DEF q
    <3>2. Without(v) \in [Paths -> Point] /\ \A p \in Paths : Without(v)[p] \in {points[p], NoPoint}
      BY <1>2 DEF Without, Point
    <3> QED BY <2>6, <2>7, <3>1, <3>2
  <2> HIDE DEF q
  <2>9. Base' /\ Answered' /\ OneJobEach'
    <3>1. r.stage \notin {"extracted", "embedded"} /\ work[j].stage # "idle" /\ r.stage \in Chunked
      BY <1>1, <2>3 DEF Chunked
    <3>2. OnWriter(j) => j = Head(writes) /\ r.stage \in {"replaced", "cleared", "applied"}
      BY <1>1, <2>3
    <3> QED BY <1>1, <1>2, <2>1, <2>2, <2>3, <2>4, <2>6, <2>8, <3>1, <3>2, WorkKeeps
  <2>10. PointsKnown' /\ PointsAreOwn'
    <3>1. Len(version) \in Nat
      BY <1>2 DEF TypeOK
    <3>2. Len(version) <= Len(version') /\ TypeOK'
      BY <2>1, <2>9, <3>1 DEF Base
    <3>3. \A p \in Paths :
            \/ points'[p] \in {points[p], NoPoint}
            \/ /\ points[p] # NoPoint /\ spent.moves # 0
               /\ points'[p].version \in 1..Len(version)
            \/ /\ points'[p].version \in 1..Len(version)
               /\ points'[p].text \in version[points'[p].version].contents
      BY <1>2, <2>4, <2>7, <2>8
    <3> QED BY <2>1, <3>2, <3>3, PointsKeep
  <2>11. Settled'
    <3>1. work'[j] = r /\ \A i \in DOMAIN job : i # j => work'[i].stage = work[i].stage
      BY <1>1, <2>1, <2>3, WorkIs
    <3>2. ASSUME Simple PROVE points'[document.path].version = document.current
      <4>1. spent.moves = 0
        BY <1>2, <3>2 DEF Simple, Spent
      <4>2. v \in DOMAIN version
        BY <1>2, <2>4 DEF TypeOK
      <4>3. at = document.path
        BY <1>2, <2>5, <4>1, <4>2 DEF Unmoved
      <4> QED BY <2>6, <2>7, <2>8, <4>3
    <3> QED BY <1>2, <2>1, <2>3, <2>4, <2>6, <3>1, <3>2, DoneKeeps
  <2> QED BY <2>9, <2>10, <2>11 DEF DInv
<1> QED BY <1>3, <1>4, <1>5 DEF Write

LEMMA Sweeps ==
  ASSUME points \in [Paths -> Point], NEW v
  PROVE  /\ Without(v) \in [Paths -> Point] /\ Only(v) \in [Paths -> Point]
         /\ \A p \in Paths : /\ Without(v)[p] \in {points[p], NoPoint} /\ Only(v)[p] \in {points[p], NoPoint}
                             /\ points[p].version # v => Without(v)[p] = points[p]
                             /\ points[p].version = v => Only(v)[p] = points[p]
  BY DEF Without, Only, Point

LEMMA CommitKeeps == ASSUME DInv, NEW j \in DOMAIN job, Commit(j) PROVE DInv'
<1>1. /\ work[j].stage = "replaced" /\ writes # <<>> /\ j = Head(writes)
      /\ UNCHANGED <<version, spent>>
  BY DEF Commit, Writing
<1>2. /\ TypeOK /\ Unmoved /\ OneJobEach /\ Prepared /\ Settled /\ work[j] \in Progress /\ rows \in Row
      /\ points \in [Paths -> Point] /\ spent \in Spent /\ j \in Jobs /\ job[j].status = "held"
      /\ job[j].version \in 1..Len(version) /\ version[job[j].version] \in VersionRow
      /\ job[j] \in JobRow /\ document \in Documents
  BY <1>1, AtWork
<1>3. PICK v : v = job[j].version
  OBVIOUS
<1>4. CASE Current(j)
  <2> DEFINE r == [work[j] EXCEPT !.stage = "applied"]
  <2>1. /\ work' = [work EXCEPT ![j] = r] /\ points' = Only(v) /\ document' = Completed
        /\ rows' = [version |-> v, text |-> work[j].text, path |-> version[v].path]
        /\ UNCHANGED <<version, job, writes, spent>>
    BY <1>1, <1>2, <1>3, <1>4 DEF Commit, TypeOK
  <2>2. /\ r \in Progress /\ r.stage = "applied" /\ r.plan = work[j].plan
    BY <1>2 DEF Progress
  <2> HIDE DEF r
  <2>3. rows' \in Row /\ rows'.version = v /\ v = document.current
    <3>1. work[j].text \in Texts
      BY <1>1, <1>2, <1>3 DEF Prepared, Chunked, VersionRow
    <3>2. v \in 1..MaxVersion /\ version[v].path \in Paths
      BY <1>2, <1>3 DEF JobRow, VersionRow
    <3> QED BY <1>3, <1>4, <2>1, <3>1, <3>2 DEF Row, Current
  <2>4. /\ points' \in [Paths -> Point] /\ \A p \in Paths : points'[p] \in {points[p], NoPoint}
        /\ \A p \in Paths : points[p].version = v => points'[p] = points[p]
    BY <1>2, <2>1, Sweeps
  <2>5. Base' /\ Answered' /\ OneJobEach'
    <3>1. /\ r.stage \notin {"extracted", "embedded"} /\ work[j].stage # "idle" /\ r.stage # "idle"
          /\ r.stage \notin Chunked
      BY <1>1, <2>2 DEF Chunked
    <3>2. OnWriter(j) => j = Head(writes) /\ r.stage \in {"replaced", "cleared", "applied"}
      BY <1>1, <2>2
    <3>3. job[j].version = document.current
      BY <1>3, <2>3
    <3> QED BY <1>1, <1>2, <2>1, <2>2, <2>3, <2>4, <3>1, <3>2, <3>3, WorkKeeps
  <2>6. PointsKnown' /\ PointsAreOwn'
    <3>1. Len(version) \in Nat
      BY <1>2 DEF TypeOK
    <3>2. Len(version) <= Len(version') /\ TypeOK'
      BY <2>1, <2>5, <3>1 DEF Base
    <3> QED BY <2>1, <2>4, <3>2, PointsKeep
  <2>7. Settled'
    <3>1. work'[j] = r /\ \A i \in DOMAIN job : i # j => work'[i].stage = work[i].stage
      BY <1>1, <2>1, <2>2, WorkIs
    <3>2. document'.current = document.current /\ document'.path = document.path /\ document.path \in Paths
      BY <1>2, <2>1, DocumentKeepsPlace DEF Documents
    <3>3. ASSUME Simple PROVE points'[document.path].version = document.current
      <4>1. points[document.path].version = document.current
        BY <1>1, <1>2, <1>3, <2>3, <3>3 DEF Settled
      <4> QED BY <2>3, <2>4, <3>2, <4>1
    <3> QED BY <1>2, <1>3, <2>1, <2>2, <2>3, <3>1, <3>2, <3>3, DoneKeeps
  <2> QED BY <2>5, <2>6, <2>7 DEF DInv
<1>5. CASE ~Current(j)
  <2>1. /\ job' = [job EXCEPT ![j].status = "superseded"] /\ Release(j)
        /\ points' = Without(v) /\ UNCHANGED <<document, version, rows, spent>>
    BY <1>1, <1>3, <1>5 DEF Commit, Supersede
  <2>2. Ends(j, "superseded")
    BY <1>1, <1>5, <2>1 DEF Ends
  <2>3. /\ points' \in [Paths -> Point] /\ \A p \in Paths : points'[p] \in {points[p], NoPoint}
        /\ \A p \in Paths : points[p].version # v => points'[p] = points[p]
    BY <1>2, <2>1, Sweeps
  <2>4. document.path \in Paths
    BY <1>2 DEF Documents
  <2> QED BY <1>1, <1>2, <1>3, <2>1, <2>2, <2>3, <2>4, EndsWell
<1> QED BY <1>4, <1>5

LEMMA FaultKeeps == ASSUME DInv, NEW j \in DOMAIN job, Fault(j) PROVE DInv'
<1>1. /\ work[j].stage # "idle" /\ (OnWriter(j) => j = Head(writes))
      /\ UNCHANGED <<version, rows>> /\ spent.faults < MaxFaults
      /\ spent' = [spent EXCEPT !.faults = @ + 1]
      /\ \/ points' = points
         \/ points' \in {Without(job[j].version), Only(job[j].version)} /\ Current(j)
  BY DEF Fault
<1>2. /\ spent \in Spent /\ points \in [Paths -> Point] /\ job[j].status = "held"
  BY <1>1, AtWork
<1>3. spent' \in Spent /\ spent'.moves = spent.moves /\ spent'.deletes = spent.deletes
  BY <1>1, <1>2, SpentBounds DEF Spent
<1>4. /\ points' \in [Paths -> Point] /\ \A p \in Paths : points'[p] \in {points[p], NoPoint}
      /\ points' = points \/ job[j].version = document.current
  BY <1>1, <1>2, Sweeps DEF Current
<1>5. PICK transient \in BOOLEAN : Fail(j, transient)
  BY DEF Fault
<1> QED BY <1>1, <1>2, <1>3, <1>4, <1>5, FailKeeps

LEMMA RecoverKeeps == ASSUME DInv, NEW j \in DOMAIN job, Recover(j) PROVE DInv'
<1>1. /\ job[j].status = "held" /\ work[j] = Idle /\ UNCHANGED <<version, rows, points, work, writes, spent>>
  BY DEF Recover
<1>2. /\ TypeOK /\ Order /\ points \in [Paths -> Point] /\ spent \in Spent
  BY DEF DInv, Base, TypeOK
<1>3. ~OnWriter(j)
  BY <1>1, <1>2 DEF OnWriter, Order, Idle
<1>4. Release(j)
  <2>1. work' = [work EXCEPT ![j] = Idle]
    BY <1>1, <1>2 DEF TypeOK
  <2>2. ~(writes # <<>> /\ j = Head(writes))
    BY <1>2, <1>3 DEF OnWriter, TypeOK
  <2> QED BY <1>1, <2>1, <2>2 DEF Release
<1>5. Fail(j, TRUE)
  BY <1>4 DEF Recover, Fail
<1> QED BY <1>1, <1>2, <1>3, <1>5, FailKeeps

-------------------------------------------------------------------------------
LEMMA InitHolds == Init => DInv
<1> SUFFICES ASSUME Init PROVE DInv
  OBVIOUS
<1>1. /\ document \in Documents /\ document.current = 0 /\ document.status = "pending"
      /\ version = <<>> /\ rows = NoRows /\ points = [p \in Paths |-> NoPoint] /\ job = <<>>
      /\ work = [j \in Jobs |-> Idle] /\ writes = <<>>
      /\ spent = [edits |-> 0, moves |-> 0, deletes |-> 0, faults |-> 0, crashes |-> 0]
  <2>1. PICK p \in Paths : document = [current |-> 0, path |-> p, status |-> "pending", indexed |-> FALSE]
    BY DEF Init
  <2>2. 0 \in 0..MaxVersion
    BY IndexingAssumption
  <2>3. document \in Documents /\ document.current = 0 /\ document.status = "pending"
    BY <2>1, <2>2 DEF Documents
  <2> QED BY <2>3 DEF Init
<1>2. Idle \in Progress /\ spent \in Spent /\ rows \in Row
  BY <1>1, IndexingAssumption DEF Idle, Progress, Spent, Row
<1>3. points \in [Paths -> Point] /\ \A p \in Paths : points[p] = NoPoint
  BY <1>1 DEF Point
<1>4. work \in [Jobs -> Progress] /\ \A j \in Jobs : work[j].stage = "idle" /\ work[j].plan = "none"
  BY <1>1, <1>2 DEF Idle
<1>5. DOMAIN job = {} /\ DOMAIN writes = {} /\ DOMAIN version = {}
      /\ Len(job) = 0 /\ Len(version) = 0
  BY <1>1
<1>6. TypeOK
  BY <1>1, <1>2, <1>3, <1>4 DEF TypeOK
<1>7. Hands /\ Tries /\ Order /\ Prepared /\ Unmoved
  BY <1>4, <1>5, IndexingAssumption DEF Hands, Tries, Order, Prepared, Unmoved
<1>8. PointsKnown /\ PointsAreOwn /\ Answered /\ OneJobEach /\ Settled
  BY <1>1, <1>3, <1>4, <1>5 DEF PointsKnown, PointsAreOwn, Answered, OneJobEach, Settled, Deleted
<1> QED BY <1>6, <1>7, <1>8 DEF DInv, Base

LEMMA NextKeeps == DInv /\ [Next]_vars => DInv'
<1> SUFFICES ASSUME DInv, [Next]_vars PROVE DInv'
  OBVIOUS
<1>1. CASE Corpus
  BY <1>1, ModifyKeeps, OverwriteKeeps, MoveKeeps, DeleteKeeps, RescanKeeps DEF Corpus
<1>2. ASSUME NEW j \in DOMAIN job, Indexer(j) PROVE DInv'
  BY <1>2, ClaimKeeps, ExtractKeeps, EmbedKeeps, SubmitKeeps, DirectKeeps, ClearRowsKeeps,
     FinishKeeps, WriteKeeps, CommitKeeps, RecoverKeeps DEF Indexer
<1>3. ASSUME NEW j \in DOMAIN job, Fault(j) PROVE DInv'
  BY <1>3, FaultKeeps
<1>4. CASE UNCHANGED vars
  BY <1>4 DEF vars, DInv, Base, TypeOK, Hands, Tries, Order, Prepared, Unmoved, PointsKnown,
     PointsAreOwn, Answered, Answers, OneJobEach, Settled, Simple, Deleted
<1> QED BY <1>1, <1>2, <1>3, <1>4, StartBatchKeeps, CrashKeeps DEF Next

\* The invariant that the promises rest on holds in every reachable state, with any bounds.
THEOREM IndexingInvariant == Spec => []DInv
<1>1. Init => DInv
  BY InitHolds
<1>2. DInv /\ [Next]_vars => DInv'
  BY NextKeeps
<1> QED BY <1>1, <1>2, PTL DEF Spec

\* The document, its versions, rows and points and the tables of jobs keep their shape.
THEOREM IndexingTypes == Spec => []TypeOK
<1>1. DInv => TypeOK
  BY DEF DInv, Base
<1> QED BY <1>1, IndexingInvariant, PTL

\* A point holds what was in the file between the hashing of the version it says it belongs
\* to and the next one, as long as no file moves: what is prepared for a job was read while
\* the job's version was current, and replacing brings the text with the label.
THEOREM PointsHoldTheirText == Spec => []PointsAreOwn
<1>1. DInv => PointsAreOwn
  BY DEF DInv
<1> QED BY <1>1, IndexingInvariant, PTL

\* When the queue is empty the document's status is final: while it is not, some job
\* is there that will set it.
THEOREM QuietIsSettled == Spec => []RestIsSettled
<1>1. DInv => RestIsSettled
  <2> SUFFICES ASSUME DInv, AtRest, version # <<>>
               PROVE  document.status \in {"indexed", "failed", "deleted"}
    BY DEF RestIsSettled
  <2>1. document.status \in {"pending", "indexing", "indexed", "failed", "deleted"} /\ Answered
    BY DEF DInv, Base, TypeOK, Documents
  <2>2. ~ \E j \in DOMAIN job : Answers(j)
    BY DEF AtRest, ActiveJobs, Answers
  <2> QED BY <2>1, <2>2 DEF Answered
<1> QED BY <1>1, IndexingInvariant, PTL

\* A document that is published when the queue is empty has rows and a point of its
\* current version, if no job has failed and no file was moved or deleted.
THEOREM PublishedHasItsText == Spec => []PublishedIsStored
<1>1. DInv => PublishedIsStored
  <2> SUFFICES ASSUME DInv, AtRest, Published, spent.deletes + spent.moves = 0,
                      \A j \in DOMAIN job : job[j].status # "failed"
               PROVE  rows.version = document.current /\ Queryable # {}
    BY DEF PublishedIsStored
  <2>1. /\ TypeOK /\ Prepared /\ Answered /\ OneJobEach /\ Settled /\ Simple
        /\ document \in Documents /\ \A j \in DOMAIN job : job[j] \in JobRow
    BY Facts DEF DInv, Base, Simple, TypeOK
  <2>2. version # <<>>
    BY <2>1 DEF Answered, Published
  <2>3. PICK j \in DOMAIN job : job[j].version = document.current
    BY <2>1, <2>2 DEF OneJobEach
  <2>4. job[j].status = "completed"
    BY <2>1, <2>3 DEF Settled, JobRow, AtRest, ActiveJobs
  <2>5. rows.version = document.current /\ points[document.path].version = document.current
    BY <2>1, <2>3, <2>4 DEF Settled
  <2>6. document.path \in Paths /\ document.current \in 1..Len(version)
    BY <2>1, <2>3 DEF Documents, Prepared
  <2>7. points[document.path] # NoPoint
    <3>1. Len(version) \in Nat
      BY <2>1 DEF TypeOK
    <3> QED BY <2>5, <2>6, <3>1 DEF NoPoint
  <2>8. document.path \in Queryable
    BY <2>5, <2>6, <2>7 DEF Queryable
  <2> QED BY <2>5, <2>8
<1> QED BY <1>1, IndexingInvariant, PTL

-------------------------------------------------------------------------------
(***************************************************************************)
(* Points and rows.  While nothing fails, dies or is deleted, a point is   *)
(* where the rows say, or was just written by the job that will say so.    *)
(* What could spoil this is a refresh between the two halves of that       *)
(* write: it stamps the point it finds with the current version, and the   *)
(* sweep of the commit would keep it.  The order in which jobs are claimed *)
(* and worked on excludes it.                                              *)
(***************************************************************************)
Calm == spent.faults = 0 /\ spent.crashes = 0 /\ spent.deletes = 0

Refreshes(j) == job[j].operation = "refresh_metadata"

\* Jobs are worked on as they were claimed; a refresh never fails or waits for the writer.
Kind(j) ==
    /\ job[j].operation # "delete_asset"
    /\ Refreshes(j) /\ job[j].status = "queued" => job[j].attempts = 0
    /\ job[j].status = "held" => work[j].stage # "idle"
    /\ work[j].stage # "idle" => work[j].plan = job[j].operation
    /\ work[j].stage \notin {"idle", "claimed", "applied"} =>
            (work[j].stage = "direct" <=> Refreshes(j))
    /\ work[j].stage # "cleared"
    /\ OnWriter(j) => ~Refreshes(j)
    /\ work[j].stage \in {"submitted", "replaced"} => OnWriter(j)

Kinds == ~Deleted /\ \A j \in DOMAIN job : Kind(j)

\* When the job of the current version has begun, the refreshes have; when it writes,
\* they are done.
Ahead(j, i) ==
    job[j].version = document.current /\ ~Refreshes(j) /\ work[j].stage # "idle" /\ Refreshes(i) =>
        /\ job[i].status # "queued"
        /\ work[j].stage # "claimed" => work[i].stage # "claimed"
        /\ work[j].stage \in {"embedded", "submitted", "replaced"} => work[i].stage # "direct"

RefreshesFirst == \A j, i \in DOMAIN job : Ahead(j, i)

\* The place of what a job is writing.
Writes(j, p) == work[j].stage = "replaced" /\ p = version[job[j].version].path

Placed ==
    /\ \A p \in Paths : points[p] # NoPoint =>
         \/ rows # NoRows /\ rows.path = p
         \/ \E j \in DOMAIN job : Writes(j, p) /\ points[p].version = job[j].version
    /\ \A j \in DOMAIN job : \A p \in Paths :
         work[j].stage = "replaced" /\ job[j].version = document.current
                                    /\ points[p].version = job[j].version => Writes(j, p)

Orderly == Kinds /\ RefreshesFirst
OInv == Calm => Orderly /\ Placed

-------------------------------------------------------------------------------
\* A job goes on: nobody overtakes.
LEMMA OrderGoesOn ==
  ASSUME Orderly, NEW j \in DOMAIN job, job' = job, ~Deleted',
         document'.current = document.current,
         work[j].stage \notin {"idle", "claimed"}, work'[j].plan = work[j].plan,
         work'[j].stage \notin {"idle", "claimed", "direct", "cleared"},
         work'[j].stage # "applied" => ~Refreshes(j),
         work'[j].stage \in {"embedded", "submitted", "replaced"} =>
            \/ work[j].stage \in {"embedded", "submitted", "replaced"}
            \/ \A i \in DOMAIN job : Refreshes(i) => work[i].stage # "direct",
         \A i \in DOMAIN job : i # j => work'[i] = work[i],
         \A i \in DOMAIN job : OnWriter(i)' => OnWriter(i) \/ ~Refreshes(i),
         \A i \in DOMAIN job : OnWriter(i) => OnWriter(i)',
         work'[j].stage \in {"submitted", "replaced"} => OnWriter(j)'
  PROVE  Orderly'
<1>1. ASSUME NEW i \in DOMAIN job PROVE Kind(i)'
  <2>1. Kind(i)
    BY DEF Orderly, Kinds
  <2>2. CASE i = j
    BY <2>1, <2>2 DEF Kind, Refreshes
  <2>3. CASE i # j
    BY <2>1, <2>3 DEF Kind, Refreshes
  <2> QED BY <2>2, <2>3
<1>2. ASSUME NEW k \in DOMAIN job, NEW i \in DOMAIN job PROVE Ahead(k, i)'
  <2>1. Ahead(k, i)
    BY DEF Orderly, RefreshesFirst
  <2>2. CASE k = j /\ i # j
    BY <2>1, <2>2 DEF Ahead, Refreshes
  <2>3. CASE k # j
    BY <2>1, <2>3 DEF Ahead, Refreshes
  <2>4. CASE k = i
    BY <2>4 DEF Ahead, Refreshes
  <2> QED BY <2>2, <2>3, <2>4
<1> QED BY <1>1, <1>2 DEF Orderly, Kinds, RefreshesFirst

\* A job ends, or goes back to the queue.
LEMMA OrderEnds ==
  ASSUME Orderly, TypeOK, NEW j \in DOMAIN job,
         NEW s \in {"queued", "failed", "completed", "superseded"},
         job' = [job EXCEPT ![j].status = s], s = "queued" => ~Refreshes(j),
         work'[j] = Idle, \A i \in DOMAIN job : i # j => work'[i] = work[i],
         \A i \in DOMAIN job : OnWriter(i)' => OnWriter(i),
         \A i \in DOMAIN job : i # j /\ OnWriter(i) => OnWriter(i)',
         document'.current = document.current, ~Deleted'
  PROVE  Orderly'
<1>0. /\ DOMAIN job' = DOMAIN job /\ job'[j].status = s /\ job'[j].version = job[j].version
      /\ job'[j].operation = job[j].operation
      /\ \A i \in DOMAIN job : i # j => job'[i] = job[i]
  BY StatusMoves
<1>1. ASSUME NEW i \in DOMAIN job PROVE Kind(i)'
  <2>1. Kind(i)
    BY DEF Orderly, Kinds
  <2>2. CASE i = j
    BY <1>0, <2>1, <2>2 DEF Kind, Refreshes, Idle
  <2>3. CASE i # j
    BY <1>0, <2>1, <2>3 DEF Kind, Refreshes
  <2> QED BY <2>2, <2>3
<1>2. ASSUME NEW k \in DOMAIN job, NEW i \in DOMAIN job PROVE Ahead(k, i)'
  <2>1. Ahead(k, i)
    BY DEF Orderly, RefreshesFirst
  <2>2. CASE k = j
    BY <1>0, <2>1, <2>2 DEF Ahead, Refreshes, Idle
  <2>3. CASE k # j /\ i = j
    BY <1>0, <2>1, <2>3 DEF Ahead, Refreshes, Idle
  <2>4. CASE k # j /\ i # j
    BY <1>0, <2>1, <2>4 DEF Ahead, Refreshes
  <2> QED BY <2>2, <2>3, <2>4
<1> QED BY <1>0, <1>1, <1>2 DEF Orderly, Kinds, RefreshesFirst

\* Points and rows that nobody touches, while no job begins or ends to write.
LEMMA PlacesStay ==
  ASSUME Placed, points' = points, rows' = rows, DOMAIN job \subseteq DOMAIN job',
         \A j \in DOMAIN job' : work'[j].stage = "replaced" =>
            j \in DOMAIN job /\ work[j].stage = "replaced",
         \A j \in DOMAIN job : /\ work[j].stage = "replaced" => work'[j].stage = "replaced"
                               /\ job'[j].version = job[j].version
                               /\ version'[job[j].version].path = version[job[j].version].path,
         \/ document'.current = document.current
         \/ \A j \in DOMAIN job : job[j].version # document'.current
  PROVE  Placed'
<1>1. ASSUME NEW p \in Paths, points'[p] # NoPoint
      PROVE  \/ rows' # NoRows /\ rows'.path = p
             \/ \E j \in DOMAIN job' : Writes(j, p)' /\ points'[p].version = job'[j].version
  BY <1>1 DEF Placed, Writes
<1>2. ASSUME NEW j \in DOMAIN job', NEW p \in Paths, work'[j].stage = "replaced",
             job'[j].version = document'.current, points'[p].version = job'[j].version
      PROVE  Writes(j, p)'
  BY <1>2 DEF Placed, Writes
<1>3. NoPoint' = NoPoint /\ NoRows' = NoRows
  BY DEF NoPoint, NoRows
<1> QED BY <1>1, <1>2, <1>3 DEF Placed

\* Marking the document neither moves nor deletes it.
LEMMA MarkTells ==
  ASSUME TypeOK, ~Deleted,
         document' \in {document, Marked("indexing"), Completed, Marked("pending"), Marked("failed")}
  PROVE  ~Deleted' /\ document'.current = document.current
<1>1. document'.current = document.current
  BY DocumentKeepsPlace
<1>2. \A s \in {"pending", "indexing", "failed"} : Marked(s).status = s
  BY DocumentMoves
<1>3. Completed.status = "indexed"
  BY DocumentMoves
<1> QED BY <1>1, <1>2, <1>3 DEF Deleted

\* A job whose step failed, or that is over, with points and rows as they were.
LEMMA OverKeepsOrder ==
  ASSUME DInv, Orderly, Placed, NEW j \in DOMAIN job, work[j].stage \notin {"idle", "replaced"},
         NEW s \in {"queued", "failed", "completed", "superseded"},
         job' = [job EXCEPT ![j].status = s], s = "queued" => ~Refreshes(j),
         Release(j), document' \in {document, Completed, Marked("pending"), Marked("failed")},
         version' = version, rows' = rows, points' = points
  PROVE  Orderly' /\ Placed'
<1>1. /\ TypeOK /\ Hands /\ Order /\ ~Deleted
      /\ OnWriter(j) => work[j].stage \in {"submitted", "cleared", "applied"}
  BY AtWork DEF Orderly, Kinds
<1>3. /\ work'[j] = Idle /\ \A i \in DOMAIN job : i # j => work'[i] = work[i]
      /\ \A i \in DOMAIN job : OnWriter(i)' => OnWriter(i)
      /\ \A i \in DOMAIN job : i # j /\ OnWriter(i) => OnWriter(i)'
  <2>1. j \in Jobs /\ work \in [Jobs -> Progress] /\ DOMAIN job \subseteq Jobs
    BY <1>1, Facts DEF TypeOK
  <2>2. writes \in Seq(Jobs)
    BY <1>1 DEF TypeOK
  <2>3. \/ writes' = writes
        \/ writes' = Tail(writes) /\ writes # <<>> /\ j = Head(writes)
    BY DEF Release
  <2>4. \A i : (OnWriter(i)' => OnWriter(i)) /\ (i # j /\ OnWriter(i) => OnWriter(i)')
    <3>1. CASE writes' = writes
      BY <3>1 DEF OnWriter
    <3>2. CASE writes' = Tail(writes) /\ writes # <<>> /\ j = Head(writes)
      <4>1. \A i \in DOMAIN writes' : i + 1 \in DOMAIN writes /\ writes'[i] = writes[i + 1]
        BY <2>2, <3>2
      <4>2. \A i \in DOMAIN writes : i # 1 => i - 1 \in DOMAIN writes' /\ writes'[i - 1] = writes[i]
        BY <2>2, <3>2
      <4>3. writes[1] = j
        BY <2>2, <3>2
      <4> QED BY <4>1, <4>2, <4>3 DEF OnWriter
    <3> QED BY <2>3, <3>1, <3>2
  <2> QED BY <2>1, <2>4 DEF Release
<1>4. ~Deleted' /\ document'.current = document.current
  BY <1>1, MarkTells
<1>5. Orderly'
  BY <1>1, <1>3, <1>4, OrderEnds
<1>6. /\ DOMAIN job' = DOMAIN job
      /\ \A i \in DOMAIN job : job'[i].version = job[i].version
  BY <1>1, StatusMoves
<1>7. \A i \in DOMAIN job : work'[i].stage = "replaced" <=> work[i].stage = "replaced"
  BY <1>3 DEF Idle
<1>8. Placed'
  BY <1>4, <1>6, <1>7, PlacesStay
<1> QED BY <1>5, <1>8

\* The higher priority goes first, and a refresh has one: when a job of the current version
\* is claimed, no refresh of the document is left in the queue.
LEMMA ClaimKeepsOrder ==
  ASSUME DInv, Orderly, Placed, NEW j \in DOMAIN job, Claim(j) PROVE Orderly' /\ Placed'
<1>1. /\ TypeOK /\ Hands /\ ~Deleted
  BY DEF DInv, Base, Orderly, Kinds
<1>2. /\ j \in Jobs /\ DOMAIN job \subseteq Jobs /\ job[j] \in JobRow /\ work[j] \in Progress
      /\ job \in Seq(JobRow) /\ work \in [Jobs -> Progress]
  BY <1>1, Facts DEF TypeOK
<1>3. /\ Collecting /\ job[j].status = "queued" /\ document' = Marked("indexing")
      /\ UNCHANGED <<version, rows, points, writes, spent>>
      /\ \A i \in Queued : job[i].attempts = 0 => Priority(i) <= Priority(j)
  BY DEF Claim, Queued
<1>4. /\ DOMAIN job' = DOMAIN job
      /\ job'[j].status = "held" /\ job'[j].operation = job[j].operation
      /\ job'[j].version = job[j].version
      /\ \A i \in DOMAIN job : i # j => job'[i] = job[i]
      /\ work'[j].stage = "claimed" /\ work'[j].plan = job[j].operation
      /\ \A i \in DOMAIN job : i # j => work'[i] = work[i]
  BY <1>2 DEF Claim, JobRow, Progress
<1>5. work[j].stage = "idle"
  BY <1>1, <1>2, <1>3 DEF Hands
<1>6. ~Deleted' /\ document'.current = document.current
  BY <1>1, <1>3, MarkTells
<1>7. ASSUME NEW i \in DOMAIN job PROVE Kind(i) /\ Kind(i)' /\ (OnWriter(i)' <=> OnWriter(i))
  <2>1. Kind(i) /\ (OnWriter(i)' <=> OnWriter(i))
    BY <1>3 DEF Orderly, Kinds, OnWriter
  <2>2. CASE i = j
    BY <1>4, <2>1, <2>2 DEF Kind, Refreshes
  <2>3. CASE i # j
    BY <1>4, <2>1, <2>3 DEF Kind, Refreshes
  <2> QED BY <2>1, <2>2, <2>3
<1>8. ASSUME NEW i \in DOMAIN job, Refreshes(i), ~Refreshes(j) PROVE job[i].status # "queued"
  <2>1. SUFFICES ASSUME i \in Queued PROVE FALSE
    BY DEF Queued
  <2>2. job[i].attempts = 0
    BY <1>7, <1>8, <2>1 DEF Kind, Queued
  <2>3. Priority(i) = 80
    BY <1>8 DEF Priority, Refreshes
  <2>4. job[j].operation = "upsert_version"
    BY <1>2, <1>7, <1>8 DEF Kind, Refreshes, JobRow
  <2>5. Priority(j) = 60
    BY <2>4 DEF Priority
  <2> QED BY <1>3, <2>1, <2>2, <2>3, <2>5
<1>9. ASSUME NEW k \in DOMAIN job, NEW i \in DOMAIN job PROVE Ahead(k, i)'
  <2>1. Ahead(k, i)
    BY DEF Orderly, RefreshesFirst
  <2>2. CASE k = j
    BY <1>4, <1>8, <2>2 DEF Ahead, Refreshes
  <2>3. CASE k # j /\ i = j
    BY <1>3, <1>4, <1>6, <2>1, <2>3 DEF Ahead, Refreshes
  <2>4. CASE k # j /\ i # j
    BY <1>4, <1>6, <2>1, <2>4 DEF Ahead, Refreshes
  <2> QED BY <2>2, <2>3, <2>4
<1>10. Orderly'
  BY <1>4, <1>6, <1>7, <1>9 DEF Orderly, Kinds, RefreshesFirst
<1>11. \A i \in DOMAIN job : work'[i].stage = "replaced" <=> work[i].stage = "replaced"
  BY <1>4, <1>5
<1>12. \A i \in DOMAIN job : job'[i].version = job[i].version
  BY <1>4
<1>13. Placed'
  BY <1>3, <1>4, <1>6, <1>11, <1>12, PlacesStay
<1> QED BY <1>10, <1>13

\* A batch begins all at once, refreshes and writes alike.
LEMMA StartBatchKeepsOrder ==
  ASSUME DInv, Orderly, Placed, StartBatch PROVE Orderly' /\ Placed'
<1>1. /\ TypeOK /\ Hands /\ ~Deleted /\ DOMAIN job \subseteq Jobs
  BY Facts DEF DInv, Base, Orderly, Kinds
<1>2. /\ Collecting /\ document' = Marked("indexing")
      /\ UNCHANGED <<version, rows, points, job, writes, spent>>
  BY DEF StartBatch
<1>3. ASSUME NEW i \in DOMAIN job
      PROVE  /\ work[i].stage # "claimed" => work'[i] = work[i]
             /\ work[i].stage = "claimed" =>
                   /\ work'[i].plan = work[i].plan
                   /\ work'[i].stage = IF work[i].plan = "upsert_version"
                                       THEN "extracting" ELSE "direct"
  <2>1. i \in Jobs /\ work[i] \in Progress
    BY <1>1, Facts
  <2> QED BY <2>1 DEF StartBatch, Progress
<1>4. ~Deleted' /\ document'.current = document.current
  BY <1>1, <1>2, MarkTells
<1>5. ASSUME NEW i \in DOMAIN job
      PROVE  /\ Kind(i) /\ Kind(i)' /\ work'[i].stage # "claimed"
             /\ work'[i].stage = "replaced" <=> work[i].stage = "replaced"
             /\ work'[i].stage = "idle" <=> work[i].stage = "idle"
             /\ work'[i].stage \in {"embedded", "submitted", "replaced"} =>
                    OnWriter(i) /\ work[i].stage = work'[i].stage
  <2>1. Kind(i) /\ (OnWriter(i)' <=> OnWriter(i)) /\ job[i] \in JobRow /\ work[i] \in Progress
    BY <1>1, <1>2, Facts DEF Orderly, Kinds, OnWriter
  <2>2. CASE work[i].stage = "claimed"
    <3>1. work[i].plan = job[i].operation /\ work[i].plan \in {"upsert_version", "refresh_metadata"}
      BY <2>1, <2>2 DEF Kind, JobRow
    <3> QED BY <1>2, <1>3, <2>1, <2>2, <3>1 DEF Kind, Refreshes
  <2>3. CASE work[i].stage # "claimed"
    BY <1>2, <1>3, <2>1, <2>3 DEF Kind, Refreshes, Collecting
  <2> QED BY <2>2, <2>3
<1>6. ASSUME NEW k \in DOMAIN job, NEW i \in DOMAIN job PROVE Ahead(k, i)'
  <2>1. Ahead(k, i)
    BY DEF Orderly, RefreshesFirst
  <2>2. work'[i].stage = "direct" => work[i].stage = "claimed" \/ work[i].stage = "direct"
    BY <1>3
  <2> QED BY <1>2, <1>4, <1>5, <2>1, <2>2 DEF Ahead, Refreshes
<1>7. Orderly'
  BY <1>2, <1>4, <1>5, <1>6 DEF Orderly, Kinds, RefreshesFirst
<1>8. Placed'
  BY <1>2, <1>4, <1>5, PlacesStay
<1> QED BY <1>7, <1>8

\* A new job, unless one of the version is there (add_indexing_job).
LEMMA AddJobAppends ==
  ASSUME TypeOK, NEW v, NEW op, op # "delete_asset", AddJob(v, op)
  PROVE  \/ /\ job' = job /\ \E i \in ActiveJobs : job[i].version = v
         \/ /\ job' = Append(job, NewJob(v, op))
            /\ \A i \in ActiveJobs : job[i].version # v
<1>1. job \in Seq(JobRow)
  BY DEF TypeOK
<1> DEFINE same == {j \in ActiveJobs : job[j].version = v}
<1>2. CASE same = {}
  BY <1>2 DEF AddJob
<1>3. CASE same # {}
  <2>1. job' = [j \in DOMAIN job |-> job[j]]
    BY <1>3 DEF AddJob
  <2> QED BY <1>1, <1>3, <2>1
<1> QED BY <1>2, <1>3

\* A job is added for the current version only while none of that version is active.
LEMMA AddedKeepsOrder ==
  ASSUME DInv, Orderly, Placed, NEW v, NEW op \in {"upsert_version", "refresh_metadata"},
         AddJob(v, op), rows' = rows, points' = points, work' = work, writes' = writes,
         document'.current = v, ~Deleted',
         \A n \in DOMAIN version : version'[n] = version[n],
         \/ v = document.current
         \/ v \notin DOMAIN version /\ op = "upsert_version"
  PROVE  Orderly' /\ Placed'
<1>1. /\ TypeOK /\ Hands /\ Prepared /\ Len(job) \in Nat /\ DOMAIN job = 1..Len(job)
      /\ DOMAIN version = 1..Len(version)
  BY Facts DEF DInv, Base
<1>2. \A i \in DOMAIN job : work[i].stage # "idle" => i \in ActiveJobs
  <2>1. DOMAIN job \subseteq Jobs
    BY <1>1, Facts
  <2> QED BY <1>1, <2>1 DEF Hands, ActiveJobs
<1>3. \/ /\ job' = job /\ \E i \in ActiveJobs : job[i].version = v
      \/ /\ job' = Append(job, NewJob(v, op))
         /\ \A i \in ActiveJobs : job[i].version # v
  BY <1>1, AddJobAppends
<1>4. \A i \in DOMAIN job : i \in DOMAIN job' /\ job'[i] = job[i] /\ job[i].version \in DOMAIN version
  BY <1>1, <1>3 DEF Prepared
<1>5. \A i \in DOMAIN job' : i \in DOMAIN job
                            \/ /\ job'[i] = NewJob(v, op) /\ work[i].stage = "idle"
                               /\ ~OnWriter(i)
                               /\ \A k \in ActiveJobs : job[k].version # v
  <2>1. SUFFICES ASSUME job' = Append(job, NewJob(v, op)), NEW i \in DOMAIN job', i \notin DOMAIN job
                 PROVE  job'[i] = NewJob(v, op) /\ work[i].stage = "idle" /\ ~OnWriter(i)
    BY <1>3
  <2>2. i = Len(job) + 1 /\ job'[i] = NewJob(v, op)
    BY <1>1, <2>1 DEF TypeOK
  <2>3. ~OnWriter(i)
    <3>1. ASSUME NEW n \in DOMAIN writes PROVE writes[n] \in DOMAIN job
      <4>1. work[writes[n]].stage # "idle" /\ writes[n] \in Jobs
        BY <1>1, Facts DEF DInv, Base, Order
      <4> QED BY <1>1, <4>1 DEF Hands
    <3> QED BY <2>1, <3>1 DEF OnWriter
  <2>4. work[i].stage = "idle"
    <3>1. i \in Jobs
      <4>1. Len(job) < MaxJobs
        BY <1>1, <2>1, <2>2 DEF AddJob
      <4> QED BY <1>1, <2>2, <4>1, IndexingAssumption DEF Jobs
    <3> QED BY <1>1, <2>1, <3>1 DEF Hands
  <2> QED BY <2>2, <2>3, <2>4
<1>6. ASSUME NEW i \in DOMAIN job' PROVE Kind(i)'
  <2>1. CASE i \in DOMAIN job
    <3>1. Kind(i) /\ (OnWriter(i)' <=> OnWriter(i))
      BY <2>1 DEF Orderly, Kinds, OnWriter
    <3> QED BY <1>4, <2>1, <3>1 DEF Kind, Refreshes
  <2>2. CASE i \notin DOMAIN job
    <3>1. job'[i] = NewJob(v, op) /\ work[i].stage = "idle" /\ ~OnWriter(i)
      BY <1>5, <2>2
    <3>2. ~OnWriter(i)'
      BY <3>1 DEF OnWriter
    <3> QED BY <3>1, <3>2 DEF Kind, Refreshes, NewJob
  <2> QED BY <2>1, <2>2
<1>7. ASSUME NEW k \in DOMAIN job', NEW i \in DOMAIN job' PROVE Ahead(k, i)'
  <2>1. CASE k \in DOMAIN job /\ i \in DOMAIN job
    <3>1. Ahead(k, i) /\ job'[k] = job[k] /\ job'[i] = job[i]
      BY <1>4, <2>1 DEF Orderly, RefreshesFirst
    <3>2. CASE v = document.current
      BY <3>1, <3>2 DEF Ahead, Refreshes
    <3>3. CASE v \notin DOMAIN version
      BY <1>4, <2>1, <3>1, <3>3 DEF Ahead, Refreshes
    <3> QED BY <3>2, <3>3
  <2>2. CASE k \notin DOMAIN job
    BY <1>5, <2>2 DEF Ahead
  <2>3. CASE k \in DOMAIN job /\ i \notin DOMAIN job
    <3>1. work[k].stage # "idle" => job[k].version # v
      BY <1>2, <1>5, <2>3
    <3> QED BY <1>4, <2>3, <3>1 DEF Ahead
  <2> QED BY <2>1, <2>2, <2>3
<1>8. Orderly'
  BY <1>6, <1>7 DEF Orderly, Kinds, RefreshesFirst
<1>9. \A j \in DOMAIN job' : work'[j].stage = "replaced" => j \in DOMAIN job /\ work[j].stage = "replaced"
  BY <1>5
<1>10. document'.current = document.current \/ \A j \in DOMAIN job : job[j].version # document'.current
  BY <1>4
<1>11. Placed'
  BY <1>4, <1>9, <1>10, PlacesStay
<1> QED BY <1>8, <1>11

\* A step of a job that changes neither points nor rows, nor begins or ends a write.
LEMMA OnKeepsOrder ==
  ASSUME DInv, Orderly, Placed, NEW j \in DOMAIN job, NEW r \in Progress,
         work[j].stage \notin {"idle", "claimed", "replaced"}, work' = [work EXCEPT ![j] = r],
         r.plan = work[j].plan, r.stage \in {"extracted", "embedded", "submitted"},
         ~Refreshes(j),
         r.stage \in {"embedded", "submitted"} =>
            \/ work[j].stage \in {"embedded", "submitted", "replaced"}
            \/ \A i \in DOMAIN job : Refreshes(i) => work[i].stage # "direct",
         \/ writes' = writes /\ r.stage # "submitted"
         \/ writes' = Append(writes, j),
         document' \in {document, Marked("indexing")},
         version' = version, rows' = rows, points' = points, job' = job
  PROVE  Orderly' /\ Placed'
<1>1. /\ TypeOK /\ ~Deleted /\ j \in Jobs /\ DOMAIN job \subseteq Jobs /\ writes \in Seq(Jobs)
  BY AtWork DEF Orderly, Kinds, TypeOK
<1>2. work'[j] = r /\ \A i \in DOMAIN job : i # j => work'[i] = work[i]
  BY <1>1 DEF TypeOK
<1>3. ~Deleted' /\ document'.current = document.current
  BY <1>1, MarkTells
<1>4. /\ \A i \in DOMAIN job : OnWriter(i)' => OnWriter(i) \/ ~Refreshes(i)
      /\ \A i \in DOMAIN job : OnWriter(i) => OnWriter(i)'
      /\ r.stage = "submitted" => OnWriter(j)'
  <2>1. CASE writes' = writes /\ r.stage # "submitted"
    BY <2>1 DEF OnWriter
  <2>2. CASE writes' = Append(writes, j)
    <3>1. /\ DOMAIN writes = 1..Len(writes) /\ DOMAIN writes' = 1..(Len(writes) + 1)
          /\ Len(writes) \in Nat /\ writes'[Len(writes) + 1] = j
          /\ \A i \in 1..Len(writes) : writes'[i] = writes[i]
      BY <1>1, <2>2, Appended
    <3>2. Len(writes) + 1 \in 1..(Len(writes) + 1) /\ 1..Len(writes) \subseteq 1..(Len(writes) + 1)
      BY <3>1
    <3>3. \A i \in 1..(Len(writes) + 1) : i = Len(writes) + 1 \/ i \in 1..Len(writes)
      BY <3>1
    <3> QED BY <3>1, <3>2, <3>3 DEF OnWriter
  <2> QED BY <2>1, <2>2
<1>5. Orderly'
  BY <1>2, <1>3, <1>4, OrderGoesOn
<1>6. Placed'
  BY <1>2, <1>3, PlacesStay
<1> QED BY <1>5, <1>6

\* A job is read, or goes back because the file is not where its version was stored.
LEMMA ExtractKeepsOrder ==
  ASSUME DInv, Orderly, Placed, NEW j \in DOMAIN job, Extract(j) PROVE Orderly' /\ Placed'
<1>1. work[j].stage = "extracting" /\ UNCHANGED <<version, rows, points, spent>>
  BY DEF Extract
<1>2. /\ TypeOK /\ Kind(j) /\ ~Refreshes(j) /\ work[j] \in Progress
      /\ version[job[j].version] \in VersionRow
  BY <1>1, AtWork DEF Orderly, Kinds, Kind
<1>3. CASE Readable(job[j].version)
  <2>3. PICK t \in version[job[j].version].contents :
          work' = [work EXCEPT ![j].stage = "extracted", ![j].text = t]
    BY <1>3 DEF Extract
  <2> DEFINE r == [work[j] EXCEPT !.stage = "extracted", !.text = t]
  <2>1. /\ work' = [work EXCEPT ![j] = r] /\ document' = Marked("indexing")
        /\ UNCHANGED <<job, writes>>
    BY <1>2, <1>3, <2>3 DEF Extract, TypeOK
  <2>2. r \in Progress /\ r.stage = "extracted" /\ r.plan = work[j].plan
    BY <1>2, <2>3 DEF Progress, VersionRow
  <2> HIDE DEF r
  <2> QED BY <1>1, <1>2, <2>1, <2>2, OnKeepsOrder
<1>4. CASE ~Readable(job[j].version)
  <2>1. Fail(j, TRUE)
    BY <1>4 DEF Extract
  <2>2. PICK s \in {"queued", "failed"} : job' = [job EXCEPT ![j].status = s]
    BY <2>1 DEF Fail
  <2>3. Release(j) /\ document' \in {Marked("pending"), Marked("failed")}
    BY <2>1 DEF Fail
  <2> QED BY <1>1, <1>2, <2>2, <2>3, OverKeepsOrder
<1> QED BY <1>3, <1>4

\* Embedding waits until the refreshes of the batch are done.
LEMMA EmbedKeepsOrder ==
  ASSUME DInv, Orderly, Placed, NEW j \in DOMAIN job, Embed(j) PROVE Orderly' /\ Placed'
<1>1. /\ work[j].stage = "extracted" /\ document' = Marked("indexing")
      /\ UNCHANGED <<version, rows, points, job, writes, spent>>
      /\ \A i \in Stage("direct") : OnWriter(i)
  BY DEF Embed
<1>2. /\ TypeOK /\ Kind(j) /\ ~Refreshes(j) /\ work[j] \in Progress
  BY <1>1, AtWork DEF Orderly, Kinds, Kind
<1> DEFINE r == [work[j] EXCEPT !.stage = "embedded", !.vector = VectorOf(work[j].text)]
<1>3. work' = [work EXCEPT ![j] = r]
  BY <1>2 DEF Embed, TypeOK
<1>4. r \in Progress /\ r.stage = "embedded" /\ r.plan = work[j].plan
  <2>1. work' \in [Jobs -> Progress] /\ j \in Jobs /\ work \in [Jobs -> Progress]
    <3>1. DInv'
      BY EmbedKeeps
    <3> QED BY <1>1, <3>1, AtWork DEF DInv, Base, TypeOK
  <2>2. work'[j] = r
    BY <1>3, <2>1
  <2> QED BY <1>2, <2>1, <2>2 DEF Progress
<1> HIDE DEF r
<1>5. \A i \in DOMAIN job : Refreshes(i) => work[i].stage # "direct"
  BY <1>1 DEF Stage, Orderly, Kinds, Kind
<1> QED BY <1>1, <1>2, <1>3, <1>4, <1>5, OnKeepsOrder

\* What is handed to the writer thread is not a refresh.
LEMMA SubmitKeepsOrder ==
  ASSUME DInv, Orderly, Placed, NEW j \in DOMAIN job, Submit(j) PROVE Orderly' /\ Placed'
<1>1. /\ work[j].stage = "embedded" /\ UNCHANGED <<version, rows, points, job, spent>>
      /\ document' = Marked("indexing") /\ writes' = Append(writes, j)
  BY DEF Submit
<1>2. /\ TypeOK /\ Kind(j) /\ ~Refreshes(j) /\ work[j] \in Progress
  BY <1>1, AtWork DEF Orderly, Kinds, Kind
<1> DEFINE r == [work[j] EXCEPT !.stage = "submitted"]
<1>3. work' = [work EXCEPT ![j] = r]
  BY <1>2 DEF Submit, TypeOK
<1>4. r \in Progress /\ r.stage = "submitted" /\ r.plan = work[j].plan
  BY <1>2 DEF Progress
<1> HIDE DEF r
<1> QED BY <1>1, <1>2, <1>3, <1>4, OnKeepsOrder

\* A refresh stamps the point that the rows name; nobody is writing the current version.
LEMMA DirectKeepsOrder ==
  ASSUME DInv, Orderly, Placed, NEW j \in DOMAIN job, Direct(j) PROVE Orderly' /\ Placed'
<1>1. work[j].stage = "direct"
  BY DEF Direct
<1>2. /\ TypeOK /\ Kind(j) /\ Refreshes(j) /\ work[j] \in Progress /\ ~Deleted
      /\ points \in [Paths -> Point] /\ rows \in Row /\ j \in Jobs /\ DOMAIN job \subseteq Jobs
  BY <1>1, AtWork DEF Orderly, Kinds, Kind
<1>3. /\ points' = IF rows = NoRows \/ points[rows.path] = NoPoint THEN points
                   ELSE [points EXCEPT ![rows.path].version = document.current]
      /\ UNCHANGED <<document, version, rows, job, writes, spent>>
  BY <1>1, <1>2 DEF Direct, Kind, Refreshes
<1>4. /\ work'[j].stage = "applied" /\ work'[j].plan = work[j].plan
      /\ \A i \in DOMAIN job : i # j => work'[i] = work[i]
  BY <1>1, <1>2 DEF Direct, Kind, Refreshes, Progress, TypeOK
<1>5. Orderly'
  <2>1. ~Deleted' /\ \A i \in DOMAIN job : OnWriter(i)' <=> OnWriter(i)
    BY <1>2, <1>3 DEF Deleted, OnWriter
  <2> QED BY <1>1, <1>3, <1>4, <2>1, OrderGoesOn
<1>6. \A i \in DOMAIN job : work[i].stage = "replaced" => job[i].version # document.current
  BY <1>1, <1>2 DEF Orderly, RefreshesFirst, Ahead, Kinds, Kind
<1>7. \A i \in DOMAIN job : work'[i].stage = "replaced" <=> work[i].stage = "replaced"
  BY <1>1, <1>4
<1>8. CASE rows = NoRows \/ points[rows.path] = NoPoint
  <2>1. Placed'
    BY <1>3, <1>7, <1>8, PlacesStay
  <2> QED BY <1>5, <2>1
<1>9. CASE ~(rows = NoRows \/ points[rows.path] = NoPoint)
  <2>1. \A p \in Paths : p # rows.path => points'[p] = points[p]
    BY <1>2, <1>3, <1>9
  <2>2. ASSUME NEW p \in Paths, points'[p] # NoPoint
        PROVE  \/ rows' # NoRows /\ rows'.path = p
               \/ \E i \in DOMAIN job' : Writes(i, p)' /\ points'[p].version = job'[i].version
    <3>1. CASE p = rows.path
      BY <1>3, <1>9, <3>1
    <3>2. CASE p # rows.path
      BY <1>3, <1>7, <2>1, <2>2, <3>2 DEF Placed, Writes
    <3> QED BY <3>1, <3>2
  <2>3. \A i \in DOMAIN job' : ~(work'[i].stage = "replaced" /\ job'[i].version = document'.current)
    BY <1>3, <1>6, <1>7
  <2>4. NoPoint' = NoPoint /\ NoRows' = NoRows
    BY DEF NoPoint, NoRows
  <2>5. Placed'
    BY <2>2, <2>3, <2>4 DEF Placed
  <2> QED BY <1>5, <2>5
<1> QED BY <1>8, <1>9

\* The end of a job touches neither points nor rows.
LEMMA FinishKeepsOrder ==
  ASSUME DInv, Orderly, Placed, NEW j \in DOMAIN job, Finish(j) PROVE Orderly' /\ Placed'
<1>1. /\ work[j].stage = "applied" /\ job' = [job EXCEPT ![j].status = "completed"]
      /\ document' = Completed /\ Release(j) /\ version' = version /\ rows' = rows
      /\ points' = points
  BY DEF Finish, Complete
<1> QED BY <1>1, OverKeepsOrder

\* The first half of a write puts the point where the rows will say, or gives up.
LEMMA WriteKeepsOrder ==
  ASSUME DInv, Orderly, Placed, NEW j \in DOMAIN job, Write(j) PROVE Orderly' /\ Placed'
<1>1. /\ work[j].stage = "submitted" /\ writes # <<>> /\ j = Head(writes)
  BY DEF Write, Writing
<1>2. /\ TypeOK /\ Order /\ Kind(j) /\ ~Refreshes(j) /\ work[j] \in Progress /\ ~Deleted
      /\ points \in [Paths -> Point] /\ j \in Jobs /\ DOMAIN job \subseteq Jobs
      /\ version[job[j].version] \in VersionRow
  BY <1>1, AtWork DEF Orderly, Kinds, Kind
<1>3. job[j].operation = "upsert_version"
  BY <1>2 DEF Write, Kind
<1>4. CASE ~Current(j)
  <2>1. /\ job' = [job EXCEPT ![j].status = "superseded"] /\ Release(j)
        /\ UNCHANGED <<document, version, rows, points, spent>>
    BY <1>3, <1>4 DEF Write, Supersede
  <2> QED BY <1>1, <2>1, OverKeepsOrder
<1>5. CASE Current(j)
  <2>1. PICK v, at : v = job[j].version /\ at = version[v].path
    OBVIOUS
  <2>2. at \in Paths
    BY <1>2, <2>1 DEF VersionRow
  <2>3. /\ work' = [work EXCEPT ![j].stage = "replaced"] /\ points' = Replaced(j)
        /\ UNCHANGED <<document, version, rows, job, writes, spent>>
    BY <1>3, <1>5 DEF Write
  <2>4. /\ work'[j].stage = "replaced" /\ work'[j].plan = work[j].plan
        /\ \A i \in DOMAIN job : i # j => work'[i] = work[i]
    BY <1>2, <2>3 DEF TypeOK, Progress
  <2>5. /\ points'[at].version = v
        /\ \A p \in Paths : p # at =>
               points'[p] = IF points[p].version = v THEN NoPoint ELSE points[p]
    <3>1. Without(v) = [p \in Paths |-> IF points[p].version = v THEN NoPoint ELSE points[p]]
      BY DEF Without
    <3> DEFINE q == [version |-> v, text |-> work[j].text, vector |-> work[j].vector]
    <3>2. points' = [Without(v) EXCEPT ![at] = q] /\ q.version = v
      BY <2>1, <2>3 DEF Replaced
    <3> HIDE DEF q
    <3> QED BY <2>2, <3>1, <3>2
  <2>6. Orderly'
    <3>1. ~Deleted' /\ \A i \in DOMAIN job : OnWriter(i)' <=> OnWriter(i)
      BY <1>2, <2>3 DEF Deleted, OnWriter
    <3>2. OnWriter(j)
      BY <1>1, <1>2 DEF Kind
    <3> QED BY <1>1, <1>2, <2>3, <2>4, <3>1, <3>2, OrderGoesOn
  <2>7. ASSUME NEW i \in DOMAIN job PROVE work[i].stage # "replaced"
    <3>1. SUFFICES ASSUME work[i].stage = "replaced" PROVE FALSE
      OBVIOUS
    <3>2. OnWriter(i)
      BY <3>1 DEF Orderly, Kinds, Kind
    <3>3. i = Head(writes)
      BY <3>1, <3>2, AtWork
    <3> QED BY <1>1, <3>1, <3>3
  <2>8. ASSUME NEW p \in Paths, points'[p] # NoPoint
        PROVE  \/ rows' # NoRows /\ rows'.path = p
               \/ \E i \in DOMAIN job' : Writes(i, p)' /\ points'[p].version = job'[i].version
    <3>1. CASE p = at
      BY <2>1, <2>3, <2>4, <2>5, <3>1 DEF Writes
    <3>2. CASE p # at
      BY <2>3, <2>5, <2>7, <2>8, <3>2 DEF Placed, Writes
    <3> QED BY <3>1, <3>2
  <2>9. ASSUME NEW i \in DOMAIN job', NEW p \in Paths, work'[i].stage = "replaced",
               job'[i].version = document'.current, points'[p].version = job'[i].version
        PROVE  Writes(i, p)'
    <3>1. i = j
      BY <2>3, <2>4, <2>7, <2>9
    <3>2. v # 0
      BY <1>1, <2>1, AtWork DEF DInv, Base, Prepared
    <3>3. p = at
      BY <2>1, <2>3, <2>5, <2>9, <3>1, <3>2 DEF NoPoint
    <3> QED BY <2>1, <2>3, <2>4, <3>1, <3>3 DEF Writes
  <2>10. NoPoint' = NoPoint /\ NoRows' = NoRows
    BY DEF NoPoint, NoRows
  <2>11. Placed'
    BY <2>8, <2>9, <2>10 DEF Placed
  <2> QED BY <2>6, <2>11
<1> QED BY <1>4, <1>5

\* The sweep of a commit leaves what the rows will say; that of one that is too late
\* takes back what was just written.
LEMMA CommitKeepsOrder ==
  ASSUME DInv, Orderly, Placed, NEW j \in DOMAIN job, Commit(j) PROVE Orderly' /\ Placed'
<1>1. /\ work[j].stage = "replaced" /\ writes # <<>> /\ j = Head(writes)
      /\ UNCHANGED <<version, spent>>
  BY DEF Commit, Writing
<1>2. /\ TypeOK /\ Hands /\ Order /\ Kind(j) /\ ~Refreshes(j) /\ work[j] \in Progress /\ ~Deleted
      /\ points \in [Paths -> Point] /\ j \in Jobs /\ DOMAIN job \subseteq Jobs
      /\ job[j].version \in 1..Len(version) /\ OnWriter(j)
  BY <1>1, AtWork DEF Orderly, Kinds, Kind
<1>3. PICK v, at : v = job[j].version /\ at = version[v].path
  OBVIOUS
<1>4. v # 0 /\ \A p \in Paths : points[p].version = v => points[p] # NoPoint
  BY <1>2, <1>3 DEF NoPoint
<1>5. ASSUME NEW i \in DOMAIN job, i # j PROVE work[i].stage # "replaced"
  <2>1. SUFFICES ASSUME work[i].stage = "replaced" PROVE FALSE
    OBVIOUS
  <2>2. OnWriter(i)
    BY <2>1 DEF Orderly, Kinds, Kind
  <2>3. i = Head(writes)
    BY <2>1, <2>2, AtWork
  <2> QED BY <1>1, <1>5, <2>3
<1>6. NoPoint' = NoPoint /\ NoRows' = NoRows
  BY DEF NoPoint, NoRows
<1>7. CASE Current(j)
  <2>1. /\ work' = [work EXCEPT ![j].stage = "applied"] /\ points' = Only(v)
        /\ document' = Completed /\ UNCHANGED <<version, job, writes, spent>>
        /\ rows' = [version |-> v, text |-> work[j].text, path |-> version[v].path]
    BY <1>1, <1>3, <1>7 DEF Commit
  <2>2. /\ work'[j].stage = "applied" /\ work'[j].plan = work[j].plan
        /\ \A i \in DOMAIN job : i # j => work'[i] = work[i]
    BY <1>2, <2>1 DEF TypeOK, Progress
  <2>3. ~Deleted' /\ document'.current = document.current
    BY <1>2, <2>1, MarkTells
  <2>4. Orderly'
    <3>1. \A i \in DOMAIN job : OnWriter(i)' <=> OnWriter(i)
      BY <2>1 DEF OnWriter
    <3> QED BY <1>1, <1>2, <2>1, <2>2, <2>3, <3>1, OrderGoesOn
  <2>5. rows'.version = v /\ rows'.path = at /\ rows' # NoRows
    BY <1>3, <1>4, <2>1 DEF NoRows
  <2>6. ASSUME NEW p \in Paths, points'[p] # NoPoint PROVE rows'.path = p
    <3>1. points[p].version = v
      BY <2>1, <2>6 DEF Only
    <3>2. v = document.current
      BY <1>3, <1>7 DEF Current
    <3>3. Writes(j, p)
      BY <1>1, <1>3, <3>1, <3>2 DEF Placed
    <3> QED BY <1>3, <2>5, <3>3 DEF Writes
  <2>7. \A i \in DOMAIN job' : work'[i].stage # "replaced"
    BY <1>5, <2>1, <2>2
  <2>8. Placed'
    BY <1>6, <2>5, <2>6, <2>7 DEF Placed
  <2> QED BY <2>4, <2>8
<1>8. CASE ~Current(j)
  <2>1. /\ job' = [job EXCEPT ![j].status = "superseded"] /\ Release(j)
        /\ points' = Without(v) /\ UNCHANGED <<document, version, rows, spent>>
    BY <1>1, <1>3, <1>8 DEF Commit, Supersede
  <2>2. /\ work'[j] = Idle /\ \A i \in DOMAIN job : i # j => work'[i] = work[i]
    BY <1>2, <2>1 DEF Release, TypeOK
  <2>3. /\ \A i \in DOMAIN job : OnWriter(i)' => OnWriter(i)
        /\ \A i \in DOMAIN job : i # j /\ OnWriter(i) => OnWriter(i)'
    <3>1. writes' = Tail(writes) /\ writes \in Seq(Jobs)
      BY <1>1, <1>2, <2>1 DEF Release, TypeOK
    <3>2. \A i \in DOMAIN writes' : i + 1 \in DOMAIN writes /\ writes'[i] = writes[i + 1]
      BY <1>1, <3>1
    <3>3. \A i \in DOMAIN writes : i # 1 => i - 1 \in DOMAIN writes' /\ writes'[i - 1] = writes[i]
      BY <1>1, <3>1
    <3>4. writes[1] = j
      BY <1>1, <3>1
    <3> QED BY <3>2, <3>3, <3>4 DEF OnWriter
  <2>4. Orderly'
    <3>1. ~Deleted' /\ document'.current = document.current
      BY <1>2, <2>1 DEF Deleted
    <3> QED BY <1>2, <2>1, <2>2, <2>3, <3>1, OrderEnds
  <2>5. DOMAIN job' = DOMAIN job
    BY <1>2, <2>1, StatusMoves
  <2>6. \A p \in Paths : points'[p] = IF points[p].version = v THEN NoPoint ELSE points[p]
    BY <2>1 DEF Without
  <2>7. ASSUME NEW p \in Paths, points'[p] # NoPoint PROVE rows' # NoRows /\ rows'.path = p
    <3>1. points[p] # NoPoint /\ points[p].version # v
      BY <2>6, <2>7
    <3>2. \A i \in DOMAIN job : Writes(i, p) => points[p].version # job[i].version
      BY <1>3, <1>5, <3>1 DEF Writes
    <3> QED BY <2>1, <3>1, <3>2 DEF Placed
  <2>8. \A i \in DOMAIN job' : work'[i].stage # "replaced"
    BY <1>5, <2>2, <2>5 DEF Idle
  <2>9. Placed'
    BY <1>6, <2>7, <2>8 DEF Placed
  <2> QED BY <2>4, <2>9
<1> QED BY <1>7, <1>8

\* The corpus changes, and nothing is deleted.
LEMMA CorpusKeepsOrder ==
  ASSUME DInv, Orderly, Placed, Calm', Corpus PROVE Orderly' /\ Placed'
<1>1. /\ TypeOK /\ document \in Documents /\ document.current = Len(version) /\ spent \in Spent
      /\ version \in Seq(VersionRow) /\ Len(version) \in Nat /\ DOMAIN version = 1..Len(version)
      /\ ~Deleted
  BY Facts DEF DInv, Base, TypeOK, Orderly, Kinds
<1>2. ASSUME NEW t \in Texts, Modify(t) PROVE Orderly' /\ Placed'
  <2>1. PICK x \in VersionRow : version' = Append(version, x)
    BY <1>1, <1>2 DEF Modify, VersionRow, Documents
  <2>2. /\ Len(version') = Len(version) + 1
        /\ \A n \in DOMAIN version : version'[n] = version[n]
    BY <1>1, <2>1, Appended
  <2>3. /\ document'.current = Len(version') /\ document'.status = "pending"
    BY <1>1, <1>2 DEF Modify, Documents
  <2>4. Len(version') \notin DOMAIN version /\ ~Deleted'
    BY <1>1, <2>2, <2>3 DEF Deleted
  <2>5. /\ AddJob(Len(version'), "upsert_version")
        /\ rows' = rows /\ points' = points /\ work' = work /\ writes' = writes
    BY <1>2 DEF Modify
  <2> QED BY <2>2, <2>3, <2>4, <2>5, AddedKeepsOrder
<1>3. ASSUME NEW p \in Paths, Move(p) PROVE Orderly' /\ Placed'
  <2>1. document'.current = document.current /\ document'.status = "pending"
    BY <1>1, <1>3 DEF Move, Documents
  <2>2. /\ AddJob(document.current, "refresh_metadata") /\ version' = version
        /\ rows' = rows /\ points' = points /\ work' = work /\ writes' = writes
    BY <1>3 DEF Move
  <2>3. ~Deleted'
    BY <2>1 DEF Deleted
  <2> QED BY <2>1, <2>2, <2>3, AddedKeepsOrder
<1>4. ASSUME Delete PROVE FALSE
  BY <1>1, <1>4 DEF Delete, Calm, Spent
<1>5. ASSUME Rescan PROVE Orderly' /\ Placed'
  <2>1. document'.current = document.current /\ document'.status = "indexed"
    BY <1>1, <1>5 DEF Rescan, Documents
  <2>2. UNCHANGED <<version, rows, points, job, work, writes, spent>> /\ ~Deleted'
    BY <1>5, <2>1 DEF Rescan, Deleted
  <2>3. \A i \in DOMAIN job : Kind(i)' /\ \A k \in DOMAIN job : Ahead(k, i)'
    BY <2>1, <2>2 DEF Orderly, Kinds, RefreshesFirst, Kind, Ahead, Refreshes, OnWriter
  <2>4. Placed'
    BY <2>1, <2>2, PlacesStay
  <2> QED BY <2>2, <2>3, <2>4 DEF Orderly, Kinds, RefreshesFirst
<1>6. ASSUME NEW t \in Texts, Overwrite(t) PROVE Orderly' /\ Placed'
  <2>1. /\ DOMAIN version' = DOMAIN version
        /\ \A v \in DOMAIN version : version'[v].path = version[v].path
        /\ UNCHANGED <<document, rows, points, job, work, writes>>
    BY <1>1, <1>6, OverwriteTells
  <2>2. ~Deleted'
    BY <1>1, <2>1 DEF Deleted
  <2>3. \A i \in DOMAIN job : Kind(i)' /\ \A k \in DOMAIN job : Ahead(k, i)'
    BY <2>1 DEF Orderly, Kinds, RefreshesFirst, Kind, Ahead, Refreshes, OnWriter
  <2>4. \A j \in DOMAIN job : job[j].version \in DOMAIN version
    BY <1>1 DEF DInv, Base, Prepared
  <2>5. Placed'
    BY <2>1, <2>4, PlacesStay
  <2> QED BY <2>1, <2>2, <2>3, <2>5 DEF Orderly, Kinds, RefreshesFirst
<1> QED BY <1>2, <1>3, <1>4, <1>5, <1>6 DEF Corpus

\* Every step keeps the order, and with it the places of the points.
LEMMA OrderKeeps == ASSUME DInv, OInv, [Next]_vars PROVE OInv'
<1>1. SUFFICES ASSUME Calm' PROVE Orderly' /\ Placed'
  BY DEF OInv
<1>2. spent \in Spent
  BY DEF DInv, Base, TypeOK
<1>3. Calm
  <2>1. SUFFICES \/ spent' = spent \/ Delete \/ (\E j \in DOMAIN job : Fault(j)) \/ Crash
                 \/ (\E p \in Paths : Move(p)) \/ \E t \in Texts : Overwrite(t)
    <3>1. CASE spent' = spent
      BY <1>1, <3>1 DEF Calm
    <3>2. CASE Delete
      BY <1>1, <1>2, <3>2 DEF Delete, Calm, Spent
    <3>3. CASE \E j \in DOMAIN job : Fault(j)
      BY <1>1, <1>2, <3>3 DEF Fault, Calm, Spent
    <3>4. CASE Crash
      BY <1>1, <1>2, <3>4 DEF Crash, Calm, Spent
    <3>5. CASE \E p \in Paths : Move(p)
      BY <1>1, <1>2, <3>5 DEF Move, Calm, Spent
    <3>6. CASE \E t \in Texts : Overwrite(t)
      BY <1>1, <1>2, <3>6 DEF Overwrite, Calm, Spent
    <3> QED BY <3>1, <3>2, <3>3, <3>4, <3>5, <3>6
  <2>2. CASE Corpus
    BY <2>2 DEF Corpus, Modify, Rescan
  <2>3. CASE StartBatch
    BY <2>3 DEF StartBatch
  <2>4. ASSUME NEW j \in DOMAIN job, Indexer(j) PROVE spent' = spent
    <3>1. ASSUME Write(j) PROVE spent' = spent
      BY <3>1 DEF Write, ClearPoints
    <3>2. ASSUME Direct(j) PROVE spent' = spent
      BY <3>2 DEF Direct, ClearPoints
    <3> QED BY <2>4, <3>1, <3>2 DEF Indexer, Claim, Extract, Embed, Submit, ClearRows, Finish,
               Commit, Recover
  <2>5. CASE UNCHANGED vars
    BY <2>5 DEF vars
  <2> QED BY <2>2, <2>3, <2>4, <2>5 DEF Next
<1>4. Orderly /\ Placed
  BY <1>3 DEF OInv
<1>5. CASE Corpus
  BY <1>1, <1>4, <1>5, CorpusKeepsOrder
<1>6. CASE StartBatch
  BY <1>4, <1>6, StartBatchKeepsOrder
<1>7. ASSUME NEW j \in DOMAIN job, Indexer(j) PROVE Orderly' /\ Placed'
  <2>1. ~ClearRows(j)
    BY <1>4 DEF ClearRows, Orderly, Kinds, Kind
  <2>2. ~Recover(j)
    BY <1>4 DEF Recover, Idle, Orderly, Kinds, Kind
  <2> QED BY <1>4, <1>7, <2>1, <2>2, ClaimKeepsOrder, ExtractKeepsOrder, EmbedKeepsOrder,
             SubmitKeepsOrder, DirectKeepsOrder, FinishKeepsOrder, WriteKeepsOrder,
             CommitKeepsOrder DEF Indexer
<1>8. ASSUME NEW j \in DOMAIN job, Fault(j) PROVE FALSE
  BY <1>1, <1>2, <1>8 DEF Fault, Calm, Spent
<1>9. ASSUME Crash PROVE FALSE
  BY <1>1, <1>2, <1>9 DEF Crash, Calm, Spent
<1>10. CASE UNCHANGED vars
  <2>1. \A i \in DOMAIN job : Kind(i)' /\ \A k \in DOMAIN job : Ahead(k, i)'
    BY <1>4, <1>10 DEF Orderly, Kinds, RefreshesFirst, Kind, Ahead, Refreshes, OnWriter, vars
  <2>2. ~Deleted' /\ DOMAIN job' = DOMAIN job
    BY <1>4, <1>10 DEF Orderly, Kinds, Deleted, vars
  <2>3. Placed'
    BY <1>4, <1>10, PlacesStay DEF vars
  <2> QED BY <2>1, <2>2, <2>3 DEF Orderly, Kinds, RefreshesFirst
<1> QED BY <1>5, <1>6, <1>7, <1>8, <1>9, <1>10 DEF Next

(***************************************************************************)
(* When no job is left, and none failed, died or deleted, every point is   *)
(* one that a row of the document names, however often the file changes    *)
(* and moves while jobs are on their way.                                  *)
(***************************************************************************)
THEOREM NothingIsOrphaned == Spec => []NoOrphans
<1>1. Init => OInv
  <2>1. SUFFICES ASSUME Init PROVE Orderly /\ Placed
    BY DEF OInv
  <2>2. ~Deleted
    BY <2>1 DEF Init, Deleted
  <2>3. DOMAIN job = {}
    BY <2>1 DEF Init
  <2>4. \A p \in Paths : points[p] = NoPoint
    BY <2>1 DEF Init
  <2> QED BY <2>2, <2>3, <2>4 DEF Orderly, Kinds, RefreshesFirst, Placed
<1>2. DInv /\ OInv /\ [Next]_vars => OInv'
  BY OrderKeeps
<1>3. DInv /\ OInv => NoOrphans
  <2>1. SUFFICES ASSUME DInv, OInv, AtRest, spent.faults + spent.crashes + spent.deletes = 0,
                        NEW p \in Paths, points[p] # NoPoint
                 PROVE  rows # NoRows /\ rows.path = p
    BY DEF NoOrphans
  <2>2. Calm
    BY <2>1 DEF DInv, Base, TypeOK, Spent, Calm
  <2>3. \A j \in DOMAIN job : work[j].stage # "replaced"
    BY <2>1, AtWork DEF AtRest, ActiveJobs
  <2> QED BY <2>1, <2>2, <2>3 DEF OInv, Placed, Writes
<1>4. Spec => []DInv
  BY IndexingInvariant
<1> QED BY <1>1, <1>2, <1>3, <1>4, PTL DEF Spec

=============================================================================
