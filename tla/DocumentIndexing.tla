--------------------------- MODULE DocumentIndexing ---------------------------
(***************************************************************************)
(* One document on its way from a file to what a query can find.  The      *)
(* synchronizer commits versions and jobs; one indexer process claims the  *)
(* jobs, prepares them on its main thread (ContinuousIndexer.drain_once)   *)
(* and writes them on its writer thread (_write_prepared_asset); the       *)
(* derived state is a set of chunk rows in PostgreSQL and of points in     *)
(* Qdrant.                                                                 *)
(*                                                                         *)
(* A version has one chunk.  The id of a point is made of the file's path  *)
(* and the chunk's place in it, not of the version (_stable_point_id), so  *)
(* a point is named by the path here, and carries the version it says it   *)
(* belongs to, its text, and the text its vector was computed from.        *)
(*                                                                         *)
(* Of the queue this module keeps the life cycle that IndexQueue is shown  *)
(* to implement: a job is held by one process at a time.                   *)
(***************************************************************************)
EXTENDS Integers, Sequences, FiniteSets

CONSTANTS
    Texts, Paths,
    NoText,                 \* no point, no rows, no chunk
    MaxVersion, MaxJobs,    \* bounds on versions and job rows
    MaxAttempts,            \* max_attempts
    MaxEdits, MaxMoves, MaxDeletes, MaxFaults, MaxCrashes   \* bounds on the environment

ASSUME IndexingAssumption ==
    /\ NoText \notin Texts
    /\ MaxVersion \in Nat /\ MaxJobs \in Nat /\ MaxAttempts \in Nat \ {0}
    /\ {MaxEdits, MaxMoves, MaxDeletes, MaxFaults, MaxCrashes} \subseteq Nat

Versions == 1..MaxVersion
Jobs == 1..MaxJobs

VARIABLES
    document,   \* its row: current version, path, lifecycle status, indexed
    version,    \* version[v]: the content that was hashed and the storage key; and, as
                \* history, the contents its file has had since, while v was current
    rows,       \* the chunk rows of the document in PostgreSQL
    points,     \* points[p]: the point whose id is made from path p
    job,        \* the document's rows in indexing_jobs
    work,       \* work[j]: how far the indexer has got with j, in memory
    writes,     \* what the writer thread has to do, in order
    spent       \* how much of the environment's bounds is used up

vars == <<document, version, rows, points, job, work, writes, spent>>

Queued == {j \in DOMAIN job : job[j].status = "queued"}
ActiveJobs == {j \in DOMAIN job : job[j].status \in {"queued", "held"}}
Deleted == document.status = "deleted"

NoPoint == [version |-> 0, text |-> NoText, vector |-> NoText]
NoRows == [version |-> 0, text |-> NoText, path |-> NoText]
Idle == [stage |-> "idle", plan |-> "none", text |-> NoText, vector |-> NoText]

\* What the queue's methods write into the document, deleted ones excepted.
Marked(s) == IF Deleted THEN document ELSE [document EXCEPT !.status = s]

\* Mutant: the document takes the job's status.
CompletedLikeJob == IF Deleted THEN document
                    ELSE [document EXCEPT !.status = "completed", !.indexed = TRUE]

Completed == IF Deleted THEN document
             ELSE [document EXCEPT !.status = "indexed", !.indexed = TRUE]

-------------------------------------------------------------------------------
\* The synchronizer, one committed transaction at a time.

NewJob(v, op) == [version |-> v, operation |-> op, status |-> "queued", attempts |-> 0]

\* Mutant: an active job of the document is kept, whatever version it is for.
AddJobForDocument(v, op) ==
    IF ActiveJobs = {}
    THEN Len(job) < MaxJobs /\ job' = Append(job, NewJob(v, op))
    ELSE job' = [j \in DOMAIN job |->
                    IF j \in ActiveJobs /\ op = "delete_asset"
                    THEN [job[j] EXCEPT !.operation = op] ELSE job[j]]

\* add_indexing_job: an active job of the version is kept, a deletion takes it
\* over; otherwise there is a new one.
AddJob(v, op) ==
    LET same == {j \in ActiveJobs : job[j].version = v}
    IN  IF same = {}
        THEN Len(job) < MaxJobs /\ job' = Append(job, NewJob(v, op))
        ELSE job' = [j \in DOMAIN job |->
                        IF j \in same /\ op = "delete_asset"
                        THEN [job[j] EXCEPT !.operation = op] ELSE job[j]]

\* A file that is new, that changed, or that is back.
Modify(t) ==
    /\ Len(version) < MaxVersion
    /\ version # <<>> /\ ~Deleted => t # version[document.current].text
    /\ version' = Append(version, [text |-> t, path |-> document.path, contents |-> {t}])
    /\ document' = [document EXCEPT !.current = Len(version'), !.status = "pending",
                                    !.indexed = FALSE]
    /\ AddJob(Len(version'), "upsert_version")
    /\ UNCHANGED <<rows, points, work, writes, spent>>

\* The file changes and nobody has noticed yet.
Overwrite(t) ==
    /\ version # <<>> /\ ~Deleted
    /\ t \notin version[document.current].contents
    /\ spent.edits < MaxEdits
    /\ version' = [version EXCEPT ![document.current].contents = @ \cup {t}]
    /\ spent' = [spent EXCEPT !.edits = @ + 1]
    /\ UNCHANGED <<document, rows, points, job, work, writes>>

\* The same content at another path: the version keeps its storage key.
Move(p) ==
    /\ version # <<>> /\ ~Deleted
    /\ p # document.path
    /\ spent.moves < MaxMoves
    /\ document' = [document EXCEPT !.path = p, !.status = "pending", !.indexed = FALSE]
    /\ AddJob(document.current, "refresh_metadata")
    /\ spent' = [spent EXCEPT !.moves = @ + 1]
    /\ UNCHANGED <<version, rows, points, work, writes>>

Delete ==
    /\ version # <<>> /\ ~Deleted
    /\ spent.deletes < MaxDeletes
    /\ document' = [document EXCEPT !.status = "deleted", !.indexed = FALSE]
    /\ AddJob(document.current, "delete_asset")
    /\ spent' = [spent EXCEPT !.deletes = @ + 1]
    /\ UNCHANGED <<version, rows, points, work, writes>>

\* A file that is where and what it was: the status follows `indexed`.
Rescan ==
    /\ document.status \notin {"deleted", "pending", "indexed"}
    /\ document.indexed
    /\ document' = [document EXCEPT !.status = "indexed"]
    /\ UNCHANGED <<version, rows, points, job, work, writes, spent>>

-------------------------------------------------------------------------------
\* How the indexer lets go of a job.

\* A job that the writer thread lets go of is the one it is at.
Release(j) ==
    /\ work' = [work EXCEPT ![j] = Idle]
    /\ writes' = IF writes # <<>> /\ j = Head(writes) THEN Tail(writes) ELSE writes

\* Mutant: a retry starts counting afresh.
FailForgetting(j, transient) ==
    /\ job' = [job EXCEPT ![j].status = IF transient THEN "queued" ELSE "failed",
                          ![j].attempts = IF transient THEN 0 ELSE @]
    /\ document' = Marked(IF transient THEN "pending" ELSE "failed")
    /\ Release(j)

\* _handle_failure and fail(): a transient error is retried while attempts last.
Fail(j, transient) ==
    LET retry == transient /\ job[j].attempts < MaxAttempts
    IN  /\ job' = [job EXCEPT ![j].status = IF retry THEN "queued" ELSE "failed"]
        /\ document' = Marked(IF retry THEN "pending" ELSE "failed")
        /\ Release(j)

\* "no longer current": _handle_failure and supersede(), which leaves the
\* document as it is.
Supersede(j) ==
    /\ job' = [job EXCEPT ![j].status = "superseded"]
    /\ Release(j)
    /\ UNCHANGED document

\* complete() and _set_target_completed.
Complete(j) ==
    /\ job' = [job EXCEPT ![j].status = "completed"]
    /\ document' = Completed
    /\ Release(j)

Priority(j) == CASE job[j].operation = "delete_asset"     -> 120
                 [] job[j].operation = "refresh_metadata" -> 80
                 [] job[j].operation = "upsert_version"   -> 60

-------------------------------------------------------------------------------
\* The main thread: drain_once.

Stage(s) == {j \in DOMAIN job : work[j].stage = s}
OnWriter(j) == \E i \in DOMAIN writes : writes[i] = j
Collecting == \A j \in DOMAIN job : work[j].stage \in {"idle", "claimed"} \/ OnWriter(j)

\* A batch is collected before any of it is worked on, and each job is read once,
\* with the operation its row has then.  A job that was tried before may be waiting for
\* its back-off, and then lets others pass.
Claim(j) ==
    /\ Collecting
    /\ j \in Queued
    /\ \A i \in Queued : job[i].attempts = 0 => Priority(i) <= Priority(j)
    /\ job' = [job EXCEPT ![j].status = "held", ![j].attempts = @ + 1]
    /\ work' = [work EXCEPT ![j].stage = "claimed", ![j].plan = job[j].operation]
    /\ document' = Marked("indexing")
    /\ UNCHANGED <<version, rows, points, writes, spent>>

StartBatch ==
    /\ Collecting
    /\ Stage("claimed") # {}
    /\ work' = [j \in Jobs |->
            IF work[j].stage # "claimed" THEN work[j]
            ELSE [work[j] EXCEPT !.stage = IF work[j].plan = "upsert_version"
                                           THEN "extracting" ELSE "direct"]]
    /\ document' = Marked("indexing")
    /\ UNCHANGED <<version, rows, points, job, writes, spent>>

\* extract_document_version opens the file at the version's storage key, and only
\* for the current version.  What is in the file is not compared with what was hashed: it
\* is any content the file has had since, as edits may be undone.  Every error it has says
\* "unavailable", which _handle_failure takes for transient.
Readable(v) == /\ v = document.current
               /\ ~Deleted
               /\ version[v].path = document.path

Extract(j) ==
    /\ work[j].stage = "extracting"
    /\ IF Readable(job[j].version)
       THEN /\ \E t \in version[job[j].version].contents :
                 work' = [work EXCEPT ![j].stage = "extracted", ![j].text = t]
            /\ document' = Marked("indexing")
            /\ UNCHANGED <<job, writes>>
       ELSE Fail(j, TRUE)
    /\ UNCHANGED <<version, rows, points, spent>>

\* reusable_document_chunk_embeddings: a row with the same text vouches for the
\* vector of the point it names.
VectorOf(t) ==
    IF rows.text = t /\ points[rows.path] # NoPoint
    THEN points[rows.path].vector ELSE t

\* The first half of _embed_and_write.  The batch's direct operations are done by
\* then.
Embed(j) ==
    /\ work[j].stage = "extracted"
    /\ \A i \in Stage("direct") \cup Stage("cleared") \cup Stage("applied") : OnWriter(i)
    /\ work' = [work EXCEPT ![j].stage = "embedded", ![j].vector = VectorOf(work[j].text)]
    /\ document' = Marked("indexing")
    /\ UNCHANGED <<version, rows, points, job, writes, spent>>

Submit(j) ==
    /\ work[j].stage = "embedded"
    /\ work' = [work EXCEPT ![j].stage = "submitted"]
    /\ writes' = Append(writes, j)
    /\ document' = Marked("indexing")
    /\ UNCHANGED <<version, rows, points, job, spent>>

\* delete_document_asset, its Qdrant half.
ClearPoints(j) ==
    /\ points' = [p \in Paths |-> NoPoint]
    /\ work' = [work EXCEPT ![j].stage = "cleared"]
    /\ UNCHANGED <<document, version, rows, job, writes, spent>>

\* _process_non_document_upsert, one job at a time.  A refresh stamps the payload
\* of the point its row names with the document's current version.
Direct(j) ==
    /\ work[j].stage = "direct"
    /\ \A i \in Stage("cleared") \cup Stage("applied") : OnWriter(i)
    /\ \/ /\ work[j].plan = "delete_asset"
          /\ ClearPoints(j)
       \/ /\ work[j].plan = "refresh_metadata"
          /\ points' = IF rows = NoRows \/ points[rows.path] = NoPoint THEN points
                       ELSE [points EXCEPT ![rows.path].version = document.current]
          /\ work' = [work EXCEPT ![j].stage = "applied"]
          /\ UNCHANGED <<document, version, rows, job, writes, spent>>

\* delete_document_asset, its PostgreSQL half.
ClearRows(j) ==
    /\ work[j].stage = "cleared"
    /\ rows' = NoRows
    /\ work' = [work EXCEPT ![j].stage = "applied"]
    /\ UNCHANGED <<document, version, points, job, writes, spent>>

\* The end of every operation, on either thread.
Finish(j) ==
    /\ work[j].stage = "applied"
    /\ Complete(j)
    /\ UNCHANGED <<version, rows, points, spent>>

-------------------------------------------------------------------------------
\* The writer thread: _write_prepared_asset, in the order of submission.

Writing(j, s) == writes # <<>> /\ j = Head(writes) /\ work[j].stage = s

\* Still the version to write, as write_document_version asks twice.
Current(j) == job[j].version = document.current /\ ~Deleted

Without(v) == [p \in Paths |-> IF points[p].version = v THEN NoPoint ELSE points[p]]

\* Mutant: points of other versions are left to be swept some other day.
Unswept(v) == points

Only(v) == [p \in Paths |-> IF points[p].version = v THEN points[p] ELSE NoPoint]

\* Mutant: a point that is there already gets its new payload and no new content.
ReplacedInPart(j) ==
    LET v == job[j].version
    IN  [Without(v) EXCEPT ![version[v].path] =
            IF @ # NoPoint THEN [@ EXCEPT !.version = v]
            ELSE [version |-> v, text |-> work[j].text, vector |-> work[j].vector]]

\* replace_document_chunks: the version's own points go, then the new one is
\* upserted under the id its file gives it.
Replaced(j) ==
    LET v == job[j].version
    IN  [Without(v) EXCEPT ![version[v].path] =
            [version |-> v, text |-> work[j].text, vector |-> work[j].vector]]

\* The operation is read again, outside any transaction of the write.
Write(j) ==
    /\ Writing(j, "submitted")
    /\ \/ /\ job[j].operation = "delete_asset"
          /\ ClearPoints(j)
       \/ /\ job[j].operation = "upsert_version"
          /\ ~Current(j)
          /\ Supersede(j)
          /\ UNCHANGED <<version, rows, points, spent>>
       \/ /\ job[j].operation = "upsert_version"
          /\ Current(j)
          /\ points' = Replaced(j)
          /\ work' = [work EXCEPT ![j].stage = "replaced"]
          /\ UNCHANGED <<document, version, rows, job, writes, spent>>

\* The second half of write_document_version, with the document locked.
Commit(j) ==
    /\ Writing(j, "replaced")
    /\ IF Current(j)
       THEN /\ points' = Only(job[j].version)
            /\ rows' = [version |-> job[j].version, text |-> work[j].text,
                        path |-> version[job[j].version].path]
            /\ document' = Completed
            /\ work' = [work EXCEPT ![j].stage = "applied"]
            /\ UNCHANGED <<job, writes>>
       ELSE /\ points' = Without(job[j].version)
            /\ Supersede(j)
            /\ UNCHANGED rows
    /\ UNCHANGED <<version, spent>>

-------------------------------------------------------------------------------
\* What goes wrong.

\* An exception inside a step.  A replacement may have deleted before it failed,
\* and a commit may have swept the other versions' points before it was undone.
Fault(j) ==
    /\ work[j].stage \in {"extracting", "embedded", "direct", "cleared", "applied",
                          "submitted", "replaced"}
    /\ OnWriter(j) => j = Head(writes)
    /\ spent.faults < MaxFaults
    /\ \E transient \in BOOLEAN : Fail(j, transient)
    /\ points' \in {points}
            \cup (IF work[j].stage = "submitted" /\ Current(j)
                  THEN {Without(job[j].version)} ELSE {})
            \cup (IF work[j].stage = "replaced" /\ Current(j)
                  THEN {Only(job[j].version)} ELSE {})
    /\ spent' = [spent EXCEPT !.faults = @ + 1]
    /\ UNCHANGED <<version, rows>>

\* The indexer's process dies; what it held in memory is gone.
Crash ==
    /\ spent.crashes < MaxCrashes
    /\ \E j \in DOMAIN job : work[j] # Idle
    /\ work' = [j \in Jobs |-> Idle]
    /\ writes' = <<>>
    /\ spent' = [spent EXCEPT !.crashes = @ + 1]
    /\ UNCHANGED <<document, version, rows, points, job>>

\* Mutant: recovery resets the job and forgets its document.
RecoverJobOnly(j) ==
    /\ job[j].status = "held"
    /\ work[j] = Idle
    /\ job' = [job EXCEPT ![j].status = IF job[j].attempts < MaxAttempts
                                        THEN "queued" ELSE "failed"]
    /\ UNCHANGED <<document, version, rows, points, work, writes, spent>>

\* recover_expired: the lease of a job that nobody works on runs out.
Recover(j) ==
    /\ job[j].status = "held"
    /\ work[j] = Idle
    /\ LET retry == job[j].attempts < MaxAttempts
       IN  /\ job' = [job EXCEPT ![j].status = IF retry THEN "queued" ELSE "failed"]
           /\ document' = Marked(IF retry THEN "pending" ELSE "failed")
    /\ UNCHANGED <<version, rows, points, work, writes, spent>>

-------------------------------------------------------------------------------
Init ==
    /\ document \in {[current |-> 0, path |-> p, status |-> "pending",
                      indexed |-> FALSE] : p \in Paths}
    /\ version = <<>>
    /\ rows = NoRows
    /\ points = [p \in Paths |-> NoPoint]
    /\ job = <<>>
    /\ work = [j \in Jobs |-> Idle]
    /\ writes = <<>>
    /\ spent = [edits |-> 0, moves |-> 0, deletes |-> 0, faults |-> 0, crashes |-> 0]

Corpus ==
    \/ \E t \in Texts : Modify(t) \/ Overwrite(t)
    \/ \E p \in Paths : Move(p)
    \/ Delete
    \/ Rescan

Indexer(j) ==
    \/ Claim(j) \/ Extract(j) \/ Embed(j) \/ Submit(j)
    \/ Direct(j) \/ ClearRows(j) \/ Finish(j)
    \/ Write(j) \/ Commit(j)
    \/ Recover(j)

Next ==
    \/ Corpus
    \/ StartBatch
    \/ \E j \in DOMAIN job : Indexer(j) \/ Fault(j)
    \/ Crash

Spec == Init /\ [][Next]_vars

\* The indexer's loops go on (run(), continuous_indexer.py:300): what it can do it
\* does in the end.  Nothing obliges the corpus to change or a step to fail.
FairSpec ==
    /\ Spec
    /\ WF_vars(StartBatch)
    /\ \A j \in Jobs : WF_vars(j \in DOMAIN job /\ Indexer(j))

-------------------------------------------------------------------------------
\* Properties.

Documents == [current: 0..MaxVersion, path: Paths, indexed: BOOLEAN,
              status: {"pending", "indexing", "indexed", "failed", "deleted"}]
VersionRow == [text: Texts, path: Paths, contents: SUBSET Texts]
Row == [version: 1..MaxVersion, text: Texts, path: Paths] \cup {NoRows}
Point == [version: 1..MaxVersion, text: Texts, vector: Texts] \cup {NoPoint}
JobRow == [version: 1..MaxVersion, attempts: 0..MaxAttempts,
           operation: {"upsert_version", "refresh_metadata", "delete_asset"},
           status: {"queued", "held", "completed", "failed", "superseded"}]
Progress == [plan: {"none", "upsert_version", "refresh_metadata", "delete_asset"},
             stage: {"idle", "claimed", "extracting", "extracted", "embedded",
                     "submitted", "replaced", "direct", "cleared", "applied"},
             text: Texts \cup {NoText}, vector: Texts \cup {NoText}]
Spent == [edits: 0..MaxEdits, moves: 0..MaxMoves, deletes: 0..MaxDeletes,
          faults: 0..MaxFaults, crashes: 0..MaxCrashes]

TypeOK ==
    /\ document \in Documents
    /\ version \in Seq(VersionRow)
    /\ document.current = Len(version)
    /\ rows \in Row
    /\ points \in [Paths -> Point]
    /\ job \in Seq(JobRow)
    /\ work \in [Jobs -> Progress]
    /\ writes \in Seq(Jobs)
    /\ spent \in Spent

\* What a query may use: refresh_published_query_identities takes the current
\* version of an indexed document, and a search keeps the points labelled with it.
Published == document.indexed /\ document.status = "indexed"
Queryable == {p \in Paths : Published /\ points[p] # NoPoint
                                      /\ points[p].version = document.current}

AtRest == ActiveJobs = {}

\* A point that says it belongs to a version holds something that was in the file between
\* the hashing of that version and the next, though versions share point ids, and jobs
\* fail, die and overtake each other.  (Only as long as no file has moved:
\* QueryableIsCurrent shows what a move does to it.)
PointsAreOwn ==
    \A p \in Paths : points[p] # NoPoint /\ spent.moves = 0 =>
        points[p].text \in version[points[p].version].contents

\* When no job is left the document's status is a final one: no failure, crash or
\* lost race leaves it "indexing" or "pending".
RestIsSettled ==
    AtRest /\ version # <<>> => document.status \in {"indexed", "failed", "deleted"}

\* A document that ends up published has the rows and the point of its current
\* version, whichever of its jobs came to an end last, and however often steps failed
\* and the indexer died, unless that used up the attempts of a job.  (A deletion, a move
\* or a failed job may break it: see the hazards, and README, section 8.)
PublishedIsStored ==
    /\ AtRest /\ Published /\ spent.deletes + spent.moves = 0
    /\ \A j \in DOMAIN job : job[j].status # "failed"
    => rows.version = document.current /\ Queryable # {}

\* When no job is left, and none failed, died or deleted, every point is one that a row of
\* the document names: nothing else would ever remove it, or stamp it after a move.
NoOrphans ==
    AtRest /\ spent.faults + spent.crashes + spent.deletes = 0 =>
        \A p \in Paths : points[p] # NoPoint => rows # NoRows /\ rows.path = p

\* A corpus that is left alone is worked off: attempts run out even for a version
\* that can never be extracted.
ComesToRest == <>[]AtRest

\* "... without making a partial or stale version queryable"
\* (CONTINUOUS_INDEXING_ARCHITECTURE.md:233).  Of a stale version is what was not in the
\* file since the current one was hashed.
QueryableIsCurrent ==
    \A p \in Queryable : points[p].text \in version[document.current].contents

(* Promises that the code does not keep: stated here, refuted by TLC on this *)
(* instance (README, section 8), and checked by no run.                      *)

\* "Matching prior document_chunks rows resolve to their verified Qdrant points
\* and reuse the existing vectors" (CONTINUOUS_INDEXING_ARCHITECTURE.md:153).
VectorsAreOwn ==
    \A p \in Paths : points[p].vector = points[p].text

\* "the older writer ... becomes superseded if it lost the race"
\* (CONTINUOUS_INDEXING_ARCHITECTURE.md:111): it does not take the document down.
StoredIsPublished ==
    AtRest /\ rows # NoRows /\ rows.version = document.current => Published \/ Deleted

\* "Delete: soft-delete PostgreSQL metadata + delete_asset"
\* (CONTINUOUS_INDEXING_ARCHITECTURE.md:190): the derived state goes with it.
DeletedIsGone ==
    AtRest /\ Deleted => rows = NoRows /\ points = [p \in Paths |-> NoPoint]

\* "Same-content move/rename: preserve document identity + refresh_metadata"
\* (CONTINUOUS_INDEXING_ARCHITECTURE.md:188): a move is no failure.
MovedIsIndexed ==
    AtRest /\ version # <<>> => document.status # "failed"

\* "extraction/chunking for one immutable managed version"
\* (knowledge_engine_service.py:1379): what is stored of a version is what was hashed.
TextIsHashed ==
    \A p \in Paths : points[p] # NoPoint /\ spent.moves = 0 =>
        points[p].text = version[points[p].version].text

=============================================================================
