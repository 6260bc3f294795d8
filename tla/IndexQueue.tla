------------------------------ MODULE IndexQueue ------------------------------
(***************************************************************************)
(* The durable indexing queue: the rows of `indexing_jobs` and the columns *)
(* of their targets, as DurableIndexQueue                                  *)
(* (backend/app/services/indexing_queue.py) and the two producers of jobs  *)
(* (the corpus synchronizer and the note service) change them.             *)
(*                                                                         *)
(* Every method of the queue is one short transaction that locks the job's *)
(* row before it tests it.  Its document it reads without a lock, and      *)
(* writes when it commits: a method on a document's job is two actions,    *)
(* ReadTarget and the method, and the document may have been deleted in    *)
(* between.  The producers select the active jobs of their asset without a *)
(* lock and write them back when they commit, so each of them is two       *)
(* actions as well.                                                        *)
(*                                                                         *)
(* Time is kept as what is left of it: `lease` counts the ticks to         *)
(* lease_expires_at and `wait` the ticks to available_at; a lease that is  *)
(* null and one that has run out are both 0, as recovery treats both.      *)
(***************************************************************************)
EXTENDS Integers, FiniteSets

CONSTANTS
    Jobs,           \* identities of rows that may come to exist
    Workers,        \* worker_id of the indexer processes
    Documents, Notes, Versions,
    NoWorker,       \* claimed_by is null
    NoTarget,       \* the job of a control request names no asset
    AssetOf,        \* document_id or note_id of each job
    VersionOf,      \* document_version_id or note_version_id of each job
    MaxAttempts,    \* max_attempts
    LeaseTicks,     \* lease_seconds
    Backoff,        \* retry_backoff_seconds
    MaxWait,        \* bound on one retry delay
    NoteDelay,      \* the pause that coalesces edits of a note
    NotOpen         \* no producer transaction of the asset is open

Assets == Documents \cup Notes

ASSUME QueueAssumption ==
    /\ NoWorker \notin Workers
    /\ NoTarget \notin Assets
    /\ Documents \cap Notes = {}
    /\ AssetOf \in [Jobs -> Assets \cup {NoTarget}]
    /\ VersionOf \in [Jobs -> Versions]
    /\ MaxAttempts \in Nat \ {0}
    /\ LeaseTicks \in Nat \ {0}
    /\ Backoff \in Nat
    /\ MaxWait \in Nat
    /\ NoteDelay \in 0..MaxWait

VARIABLES
    job,        \* job[j]: the row of j in indexing_jobs
    document,   \* document[d]: lifecycle_status and indexed of document d
    note,       \* note[n]: status and indexed_revision of n's NoteIndexState
    verified,   \* the document versions whose status is "indexed"
    seen,       \* seen[j]: what the method that holds j's row lock read of the document
    selected,   \* selected[a]: job rows read by the open producer of asset a
    abandoned   \* jobs whose claimant died with the claim in its hands

vars == <<job, document, note, verified, seen, selected, abandoned>>

-------------------------------------------------------------------------------
\* Statuses.  "absent" is a row that has not been inserted.

Waiting == {"pending", "retry_wait"}
InProgress == {"claimed", "extracting", "chunked", "embedding", "writing",
               "verifying"}
Active == Waiting \cup InProgress
Terminal == {"completed", "failed", "superseded", "cancelled"}

\* The entries of STAGE_TRANSITIONS that the indexer asks for.  The queue would
\* also let transition() move a job to retry_wait or to a terminal status; no
\* caller does, they use fail(), complete() and supersede() for that.
NextStages ==
    [s \in InProgress |->
        CASE s = "claimed"    -> {"extracting", "writing"}
          [] s = "extracting" -> {"chunked"}
          [] s = "chunked"    -> {"embedding"}
          [] s = "embedding"  -> {"writing"}
          [] s = "writing"    -> {"verifying"}
          [] s = "verifying"  -> {}]

Operations == {"upsert_version", "delete_asset", "refresh_metadata",
               "rebuild_scope"}

Priority(j) ==
    CASE job[j].operation = "delete_asset"     -> 120
      [] job[j].operation = "refresh_metadata" -> 80
      [] job[j].operation = "rebuild_scope"    -> 10
      [] job[j].operation = "upsert_version"   ->
            IF AssetOf[j] \in Notes THEN 100 ELSE 60

JobRow == [status: Active \cup Terminal \cup {"absent"},
           owner: Workers \cup {NoWorker},
           attempts: Nat,
           lease: 0..LeaseTicks,
           wait: 0..MaxWait,
           operation: Operations]

DocumentRow == [status: {"pending", "indexing", "indexed", "failed", "deleted"},
                indexed: BOOLEAN]

NoteRow == [status: {"pending", "indexing", "indexed", "removed", "failed"},
            revision: Versions \cup {NoTarget}]

-------------------------------------------------------------------------------
\* What the queue's methods write into the target of job j.

\* A method of a document's job gets to its writes when it has read the document
\* and, if it is going to update the row, no synchronization holds that row.
Reaches(j) ==
    AssetOf[j] \in Documents =>
        \/ seen[j] = "deleted"
        \/ seen[j] = "live" /\ selected[AssetOf[j]] = NotOpen

\* The document's columns, unless the method read it as deleted.
DocumentUnder(j, s) ==
    [d \in Documents |->
        IF d = AssetOf[j] /\ seen[j] = "live"
        THEN [document[d] EXCEPT !.status = s] ELSE document[d]]

NoteUnder(j, s) ==
    [n \in Notes |->
        IF n = AssetOf[j] THEN [note[n] EXCEPT !.status = s] ELSE note[n]]

MarkTarget(j, s) ==
    /\ Reaches(j)
    /\ seen' = [seen EXCEPT ![j] = "free"]
    /\ document' = DocumentUnder(j, s)
    /\ note' = NoteUnder(j, s)
    /\ UNCHANGED verified

\* _set_target_completed: nothing here asks whether the job's version is still
\* the current one, or whether its operation wrote the target at all.
CompleteTarget(j) ==
    /\ Reaches(j)
    /\ seen' = [seen EXCEPT ![j] = "free"]
    /\ document' = [d \in Documents |->
            IF d = AssetOf[j] /\ seen[j] = "live"
            THEN [status |-> "indexed", indexed |-> TRUE] ELSE document[d]]
    /\ verified' = IF AssetOf[j] \in Documents
                   THEN verified \cup {VersionOf[j]} ELSE verified
    /\ note' = [n \in Notes |->
            IF n = AssetOf[j]
            THEN [status |-> IF job[j].operation = "delete_asset"
                             THEN "removed" ELSE "indexed",
                  revision |-> VersionOf[j]]
            ELSE note[n]]

-------------------------------------------------------------------------------
\* The methods of DurableIndexQueue.

\* Mutant: a claim also takes over a row whose lease ran out.
ClaimableOnceExpired(j) ==
    \/ job[j].status \in Waiting /\ job[j].wait = 0
    \/ job[j].status \in InProgress /\ job[j].lease = 0

Claimable(j) == job[j].status \in Waiting /\ job[j].wait = 0

\* The row that claim() selects: of highest priority among the available ones
\* that nobody has locked.  Which of several rows of that priority comes first
\* (available_at, created_at, id) is left open.
FirstInLine(j) ==
    /\ Claimable(j)
    /\ \A i \in Jobs :
          Claimable(i) /\ seen[i] = "free" => Priority(i) <= Priority(j)

\* The first half of any method that writes a document: it has found the row,
\* locked it, and got the document.
ReadTarget(j) ==
    /\ AssetOf[j] \in Documents
    /\ seen[j] = "free"
    /\ job[j].status \in InProgress \/ FirstInLine(j)
    /\ seen' = [seen EXCEPT ![j] =
            IF document[AssetOf[j]].status = "deleted" THEN "deleted" ELSE "live"]
    /\ UNCHANGED <<job, document, note, verified, selected, abandoned>>

\* The transaction fails: a lost connection, or the victim of a deadlock with a
\* synchronization, which locks the document first and the job after it.
Rollback(j) ==
    /\ seen[j] # "free"
    /\ seen' = [seen EXCEPT ![j] = "free"]
    /\ UNCHANGED <<job, document, note, verified, selected, abandoned>>

\* One more attempt by worker w: the row of claim().
ClaimedRow(r, w) ==
    [r EXCEPT !.status = "claimed", !.owner = w, !.attempts = @ + 1,
              !.lease = LeaseTicks]

\* claim: a document's row was selected when it was locked.
Claim(w, j) ==
    /\ Claimable(j)
    /\ AssetOf[j] \in Documents \/ FirstInLine(j)
    /\ job' = [job EXCEPT ![j] = ClaimedRow(@, w)]
    /\ MarkTarget(j, "indexing")
    /\ abandoned' = abandoned \ {j}
    /\ UNCHANGED selected

\* transition: tests the owner and the stage, never the lease.
Transition(w, j, s) ==
    /\ job[j].owner = w
    /\ job[j].status \in InProgress
    /\ s \in NextStages[job[j].status]
    /\ job' = [job EXCEPT ![j].status = s, ![j].lease = LeaseTicks]
    /\ MarkTarget(j, "indexing")
    /\ UNCHANGED <<selected, abandoned>>

\* renew: what the heartbeat thread does for every job it believes active.
Renew(w, j) ==
    /\ job[j].owner = w
    /\ job[j].status \in InProgress
    /\ seen[j] = "free"
    /\ job' = [job EXCEPT ![j].lease = LeaseTicks]
    /\ UNCHANGED <<document, note, verified, seen, selected, abandoned>>

\* _finish: tests the owner alone, whatever the status.
Finish(w, j, s) ==
    /\ job[j].owner = w
    /\ job' = [job EXCEPT ![j].status = s, ![j].owner = NoWorker,
                          ![j].lease = 0]
    /\ UNCHANGED <<selected, abandoned>>

Complete(w, j) == Finish(w, j, "completed") /\ CompleteTarget(j)

Supersede(w, j) ==
    /\ Finish(w, j, "superseded")
    /\ seen[j] = "free"
    /\ UNCHANGED <<document, note, verified, seen>>

\* backoff * 2^max(0, attempts-1), give or take a fifth, in whole ticks.
RetryDelays(attempts) ==
    LET delay == Backoff * 2^(IF attempts = 0 THEN 0 ELSE attempts - 1)
    IN  {d \in 0..MaxWait : 4 * delay <= 5 * d /\ 5 * d <= 6 * delay}

\* Mutant: the last attempt is retried as well.
FailRetryOnceMore(w, j) ==
    /\ job[j].owner = w
    /\ job[j].attempts <= MaxAttempts
    /\ \E d \in RetryDelays(job[j].attempts) :
           job' = [job EXCEPT ![j].status = "retry_wait", ![j].owner = NoWorker,
                              ![j].lease = 0, ![j].wait = d]
    /\ MarkTarget(j, "pending")
    /\ UNCHANGED <<selected, abandoned>>

\* fail, for a transient error with attempts left.
FailRetry(w, j) ==
    /\ job[j].owner = w
    /\ job[j].attempts < MaxAttempts
    /\ \E d \in RetryDelays(job[j].attempts) :
           job' = [job EXCEPT ![j].status = "retry_wait", ![j].owner = NoWorker,
                              ![j].lease = 0, ![j].wait = d]
    /\ MarkTarget(j, "pending")
    /\ UNCHANGED <<selected, abandoned>>

\* fail, for a permanent error or with the attempts used up.
FailForGood(w, j) ==
    /\ Finish(w, j, "failed")
    /\ MarkTarget(j, "failed")

\* Mutant: a recovered row keeps its dead claimant.
RecoverKeepingOwner(j) ==
    /\ job[j].status \in InProgress
    /\ job[j].lease = 0
    /\ job' = [job EXCEPT ![j].status = IF @ = "claimed" THEN "retry_wait"
                                        ELSE "failed"]
    /\ MarkTarget(j, "pending")
    /\ abandoned' = abandoned \ {j}
    /\ UNCHANGED selected

\* Mutant: a row that has used up its attempts is passed over.
RecoverOnlyRetryable(j) ==
    /\ job[j].status \in InProgress
    /\ job[j].lease = 0
    /\ job[j].attempts < MaxAttempts
    /\ job' = [job EXCEPT ![j].status = "retry_wait",
                          ![j].owner = NoWorker, ![j].wait = 0]
    /\ MarkTarget(j, "pending")
    /\ abandoned' = abandoned \ {j}
    /\ UNCHANGED selected

\* recover_expired, one row at a time: the method takes every expired row that
\* no other transaction holds (SKIP LOCKED), which is any subset of them.
Recover(j) ==
    /\ job[j].status \in InProgress
    /\ job[j].lease = 0
    /\ IF job[j].attempts >= MaxAttempts
       THEN /\ job' = [job EXCEPT ![j].status = "failed", ![j].owner = NoWorker]
            /\ MarkTarget(j, "failed")
       ELSE /\ job' = [job EXCEPT ![j].status = "retry_wait",
                                  ![j].owner = NoWorker, ![j].wait = 0]
            /\ MarkTarget(j, "pending")
    /\ abandoned' = abandoned \ {j}
    /\ UNCHANGED selected

-------------------------------------------------------------------------------
\* The producers.

NewRow(op, delay) ==
    [status |-> "pending", owner |-> NoWorker, attempts |-> 0, lease |-> 0,
     wait |-> delay, operation |-> op]

\* enqueue_control: a request of an administrator, which names no asset.
EnqueueControl(j) ==
    /\ AssetOf[j] = NoTarget
    /\ job[j].status = "absent"
    /\ job' = [job EXCEPT ![j] = NewRow("rebuild_scope", 0)]
    /\ UNCHANGED <<document, note, verified, seen, selected, abandoned>>

\* A producer selects the rows of its asset that it may have to change: the
\* synchronizer every active one, the note service the waiting ones.  The
\* synchronizer has updated its document by then, and holds it until it commits;
\* others still see the old columns.
Select(a) ==
    /\ selected[a] = NotOpen
    /\ selected' = [selected EXCEPT ![a] =
            {j \in Jobs : /\ AssetOf[j] = a
                          /\ job[j].status \in (IF a \in Documents
                                                THEN Active ELSE Waiting)}]
    /\ UNCHANGED <<job, document, note, verified, seen, abandoned>>

\* The job the producer of asset a ends up with: the row it selected for the
\* same version, else a new one.
Reuses(a, j) == j \in selected[a]
Inserts(a, j) ==
    /\ AssetOf[j] = a
    /\ job[j].status = "absent"
    /\ \A i \in selected[a] : VersionOf[i] # VersionOf[j]

\* add_indexing_job and the document columns the synchronizer sets with it.  An
\* active job of the version is kept; a deletion turns it into a deletion.
SyncDocument(d, j, op) ==
    /\ selected[d] # NotOpen
    /\ \/ /\ Reuses(d, j)
          /\ seen[j] = "free"
          /\ op # "upsert_version"
          /\ job' = IF op = "delete_asset"
                    THEN [job EXCEPT ![j].operation = op] ELSE job
       \/ /\ Inserts(d, j)
          /\ job' = [job EXCEPT ![j] = NewRow(op, 0)]
    /\ document' = [document EXCEPT ![d] =
            [status |-> IF op = "delete_asset" THEN "deleted" ELSE "pending",
             indexed |-> FALSE]]
    /\ selected' = [selected EXCEPT ![d] = NotOpen]
    /\ UNCHANGED <<note, verified, seen, abandoned>>

\* The synchronization fails, as any transaction may, or is the deadlock's victim.
SyncAbort(d) ==
    /\ selected[d] # NotOpen
    /\ selected' = [selected EXCEPT ![d] = NotOpen]
    /\ UNCHANGED <<job, document, note, verified, seen, abandoned>>

\* Mutant: the reused row is set back to pending, whatever became of it.
ScheduleNoteReviving(n, j, op) ==
    /\ selected[n] # NotOpen
    /\ Reuses(n, j) \/ Inserts(n, j)
    /\ job' = [i \in Jobs |->
              IF i = j THEN NewRow(op, NoteDelay)
              ELSE IF i \in selected[n]
                   THEN [job[i] EXCEPT !.status = "superseded"]
                   ELSE job[i]]
    /\ note' = [note EXCEPT ![n].status = "pending"]
    /\ selected' = [selected EXCEPT ![n] = NotOpen]
    /\ UNCHANGED <<document, verified, seen, abandoned>>

\* _schedule_index: the other waiting rows it read become superseded, by an
\* UPDATE that does not look at the row again.
\* A reused row keeps whatever status it has by now; its attempts are reset
\* when the value read differs from 0, so a row claimed since may keep its own.
ScheduleNote(n, j, op) ==
    /\ selected[n] # NotOpen
    /\ Reuses(n, j) \/ Inserts(n, j)
    /\ \E attempts \in {0, job[j].attempts} :
        /\ job[j].status \in Waiting => attempts = 0
        /\ job' = [i \in Jobs |->
              IF i = j
              THEN IF Inserts(n, j) THEN NewRow(op, NoteDelay)
                   ELSE [job[j] EXCEPT !.operation = op, !.wait = NoteDelay,
                                       !.attempts = attempts]
              ELSE IF i \in selected[n]
                   THEN [job[i] EXCEPT !.status = "superseded"]
                   ELSE job[i]]
    /\ note' = [note EXCEPT ![n].status = "pending"]
    /\ selected' = [selected EXCEPT ![n] = NotOpen]
    /\ UNCHANGED <<document, verified, seen, abandoned>>

\* The process behind w dies.  Its open transactions are undone and nothing is
\* written; its claims just stop being worked on, and a process started later
\* under the same id knows none of them.
Crash(w) ==
    /\ \E j \in Jobs \ abandoned : job[j].owner = w
    /\ abandoned' = abandoned \cup {j \in Jobs : job[j].owner = w}
    /\ seen' = [j \in Jobs |-> IF job[j].owner = w THEN "free" ELSE seen[j]]
    /\ UNCHANGED <<job, document, note, verified, selected>>

\* Time passes for every lease and every delay.
Tick ==
    /\ \E j \in Jobs : job[j].lease > 0 \/ job[j].wait > 0
    /\ job' = [j \in Jobs |->
            [job[j] EXCEPT !.lease = IF @ > 0 THEN @ - 1 ELSE 0,
                           !.wait = IF @ > 0 THEN @ - 1 ELSE 0]]
    /\ UNCHANGED <<document, note, verified, seen, selected, abandoned>>

-------------------------------------------------------------------------------
Init ==
    /\ job = [j \in Jobs |-> [NewRow("upsert_version", 0)
                              EXCEPT !.status = "absent"]]
    /\ document = [d \in Documents |-> [status |-> "pending", indexed |-> FALSE]]
    /\ note = [n \in Notes |-> [status |-> "pending", revision |-> NoTarget]]
    /\ verified = {}
    /\ seen = [j \in Jobs |-> "free"]
    /\ selected = [a \in Assets |-> NotOpen]
    /\ abandoned = {}

\* What a live worker that holds job j may do with it.
Work(w, j) ==
    /\ j \notin abandoned
    /\ \/ \E s \in InProgress : Transition(w, j, s)
       \/ Complete(w, j)
       \/ Supersede(w, j)
       \/ FailRetry(w, j)
       \/ FailForGood(w, j)

Heartbeat(w, j) == j \notin abandoned /\ Renew(w, j)

Produce ==
    \/ \E j \in Jobs : EnqueueControl(j)
    \/ \E a \in Assets : Select(a)
    \/ \E d \in Documents, j \in Jobs :
          \E op \in {"upsert_version", "refresh_metadata", "delete_asset"} :
              SyncDocument(d, j, op)
    \/ \E d \in Documents : SyncAbort(d)
    \/ \E n \in Notes, j \in Jobs :
          \E op \in {"upsert_version", "delete_asset"} : ScheduleNote(n, j, op)

Next ==
    \/ \E w \in Workers, j \in Jobs : Claim(w, j) \/ Work(w, j) \/ Heartbeat(w, j)
    \/ \E w \in Workers : Crash(w)
    \/ \E j \in Jobs : Recover(j) \/ ReadTarget(j) \/ Rollback(j)
    \/ Produce
    \/ Tick

\* Time passes, and some indexer polls and recovers for ever (run(), the loop of
\* continuous_indexer.py:300).  A worker that lives works on what it claimed:
\* drain_once ends every job it starts.  It may die at any moment, any number
\* of times, and any transaction may fail, but not the same one for ever.
Fairness ==
    /\ WF_vars(Tick)
    /\ \A j \in Jobs :
          /\ WF_vars(ReadTarget(j))
          /\ SF_vars(Recover(j))
          /\ SF_vars(\E w \in Workers : Claim(w, j))
          /\ SF_vars(\E w \in Workers : Work(w, j))

Spec == Init /\ [][Next]_vars /\ Fairness

-------------------------------------------------------------------------------
\* Properties.

TypeOK ==
    /\ job \in [Jobs -> JobRow]
    /\ document \in [Documents -> DocumentRow]
    /\ note \in [Notes -> NoteRow]
    /\ verified \in SUBSET Versions
    /\ seen \in [Jobs -> {"free", "live", "deleted"}]
    /\ abandoned \in SUBSET Jobs
    /\ selected \in [Assets -> (SUBSET Jobs) \cup {NotOpen}]

\* A row in progress is somebody's, and a row that is somebody's is in progress
\* unless a save of the note superseded it after the claim.  complete(),
\* supersede() and fail() test claimed_by and never the status
\* (indexing_queue.py:233, :280): this is what makes that test enough.
Ownership ==
    \A j \in Jobs :
        /\ job[j].status \in InProgress => job[j].owner # NoWorker
        /\ job[j].owner # NoWorker =>
               \/ job[j].status \in InProgress
               \/ job[j].status = "superseded" /\ AssetOf[j] \in Notes

\* No job is tried more often than max_attempts, and one that waits for a claim
\* has an attempt left: claim() does not look at the number
\* (indexing_queue.py:109-145), so fail() and recover_expired() have to.
AttemptsLeft ==
    \A j \in Jobs :
        /\ job[j].attempts <= MaxAttempts
        /\ job[j].status \in Waiting => job[j].attempts < MaxAttempts

\* Once a job is over and nobody holds it, it is never in anybody's hands
\* again, whatever a worker that lost its lease, or a producer that read the row
\* earlier, still writes.
OverIsOver ==
    [][\A j \in Jobs :
          job[j].status \in Terminal /\ job[j].owner = NoWorker =>
              job'[j].status \in Terminal /\ job'[j].owner = NoWorker]_vars

\* Every job that is queued comes to an end, though workers die with the lease
\* in hand, fail as often as they like and have their transactions undone.  While
\* synchronizations keep coming, each may win the deadlock with a claim, so the
\* promise is for a corpus that is left alone some day.
JobsSettle ==
    <>[](\A d \in Documents : selected[d] = NotOpen) =>
        \A j \in Jobs : (job[j].status \in Active) ~> (job[j].status \in Terminal)

\* Not kept by the code (README, section 8), and checked by no run.  What the
\* architecture document says: the queue preserves `deleted`, and only
\* a synchronization that finds the file again brings a document back
\* (CONTINUOUS_INDEXING_ARCHITECTURE.md:101-103).
DeletedPreserved ==
    [][\A d \in Documents :
          document[d].status = "deleted" /\ document'[d].status # "deleted" =>
              selected[d] # selected'[d]]_vars

-------------------------------------------------------------------------------
\* The queue implements the life cycle of JobLifecycle.  A row that a save
\* superseded under its worker counts as held until that worker lets go of it.
Phase(j) ==
    CASE job[j].status = "absent"   -> "none"
      [] job[j].status \in Waiting  -> "queued"
      [] job[j].status # "absent" /\ job[j].status \notin Waiting ->
             IF job[j].owner = NoWorker THEN "over" ELSE "held"

Lifecycle == INSTANCE JobLifecycle WITH
    Nobody <- NoWorker,
    phase  <- [j \in Jobs |-> Phase(j)],
    holder <- [j \in Jobs |-> job[j].owner],
    tries  <- [j \in Jobs |-> job[j].attempts]

\* At most one worker holds a job, it is taken only with an attempt left, and it
\* ends once: what the rest of the system relies on, for every interleaving of
\* workers, recovery and producers.
ImplementsLifecycle == Lifecycle!Spec

=============================================================================
