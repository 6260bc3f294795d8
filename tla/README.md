# A verification of the CIAL Knowledge OS

CIAL Knowledge OS answers questions about an organisation's documents and notes
on its own premises.  A React frontend talks to a FastAPI backend; a library
(`cial_knowledge_os`) parses, chunks, embeds, retrieves, fuses, reranks and
prompts; a separate *indexer* process turns committed versions of documents and
notes into what is searchable.  PostgreSQL holds the truth, Qdrant and a BM25
snapshot on disk hold what is derived from it, and a local model writes the
answers.

This directory holds TLA+ modules of the parts whose correctness depends on
order, concurrency, failure or time, TLC configurations that check them on small
instances, and proofs, checked by TLAPS, of what must hold for every instance.

Below, `KE` is `src/services/knowledge-engine`, `SVC` is `KE/backend/app/services`
and `LIB` is `KE/src/cial_knowledge_os`.

## 1. The system

| Part | Source | State it keeps | Operations |
| --- | --- | --- | --- |
| Durable indexing queue | `SVC/indexing_queue.py` | `indexing_jobs`: status, claimant, lease, attempts, availability; status columns of the targets; `indexing_state` generation | claim, transition, renew, complete, supersede, fail, recover, publish, status |
| Producers of jobs | `LIB/corpus/synchronizer.py`, `LIB/corpus/metadata.py`, `SVC/note_service.py`, `SVC/indexing_retry_service.py` | documents, versions, notes | synchronize, add job, schedule a note, retry |
| Continuous indexer | `SVC/continuous_indexer.py` | active jobs, pending writes, BM25-dirty mark, stop flag | drain, embed, write, publish, heartbeat, watch, stop |
| Index writer | `SVC/knowledge_engine_service.py` 1375-1795, `SVC/note_indexing_service.py` | chunk rows, Qdrant points | extract, write a version, delete an asset, refresh metadata, prepare and write a note |
| Query runtime | `SVC/knowledge_engine_service.py` 96-1196 | the active pipeline, its generation, its published identities, reader leases | prepare, acquire and release, refresh identities, refresh, request refresh |
| BM25 snapshot | `LIB/bm25_snapshot.py` | `current.json` and its checksum | write, load |
| Chat concurrency | `SVC/chat_concurrency.py` | event channels, request records, the resource gate, the session queues | publish, acquire, submit, cancel, dispatch, expire, close |
| Chat turns | `KE/backend/app/api/routes/chat.py` | sessions, messages | stream a turn, answer, persist |
| GPU priority | `SVC/gpu_resource_coordinator.py` | chat owners, a marker file | enter, leave, wait for chat |
| Summaries | `SVC/document_summary_service.py`, `SVC/summary_service.py`, `SVC/summary_worker.py` | summary jobs | request, claim, checkpoint, cancel, recover |
| Personal files | `SVC/personal_workspace_service.py`, `SVC/managed_workspace_ingestion.py` | files under a managed root, a trash beside it, the documents' rows and jobs | upload within a quota, delete, reconcile files with rows |
| Notebooks, enterprise documents, search, exports | the other services of `SVC` | their tables and files | create, read, update, delete, render, export |
| Security | `KE/backend/app/security` | users, sessions, rate-limit windows | log in, authenticate, authorize, rotate, limit |
| LAN manager | `KE/backend/app/lan` | network profile, gateway, firewall rules, power request | enable, disable, watch, recover |
| Corpus | `LIB/corpus` | the scan, the watcher's pending events | scan, watch, hash, synchronize |
| Retrieval | `LIB/retrievers.py`, `fusion.py`, `reranker.py`, `evidence_selector.py`, `token_budget.py`, `context_builder.py`, `retrieval_cache.py` | the cache | retrieve, fuse, rerank, select, fit, build |
| Pipelines | `LIB/phase4_*.py`, `LIB/execution`, `LIB/pipeline.py`, `LIB/incremental_index.py` | checkpoints, manifests | run, checkpoint, resume |
| Frontend | `src/frontend` | sessions, drafts, caches | edit, autosave, stream, navigate |

How they meet: the synchronizer, a note save and a retry commit a version *and*
its job in one transaction; the indexer claims jobs from the queue, prepares on
its main thread, writes on a single writer thread, and publishes a generation
(a new BM25 snapshot, then a row) after it.  The query runtime reads the
generation row and the published identities, and gives each request a lease on
one shared pipeline.  A chat turn is queued per user, dispatched in turn, passes
the gates of the models it needs, streams through a bounded channel, and marks
the GPU busy so that the indexer stands back.  The notes editor saves by
optimistic concurrency and the save schedules the note's next job.  An upload puts a
file in place and then commits its row; the indexer's reconciler lists the same files
and makes rows of those it finds no row of.

## 2. What is hard, and what must be true

The system's difficulty is that five actors change the same few rows and the
derived state follows later: request handlers, the indexer's main, writer and
heartbeat threads, and the synchronizer.  Locks are held for single
transactions; what was read before a lock, an `await` or a thread hand-over is
used after it.  A process may die between any two transactions.

| Part | Hard behaviour | What makes it correct |
| --- | --- | --- |
| Queue | leases that run out, dead claimants, producers that read rows without a lock and write them at commit, a deadlock between claim and synchronizer | one holder at a time, bounded attempts, an end that is final, and an end for every job |
| Continuous indexer and index writer | two versions of a document in different stages at once, two stores written one after the other, moves and deletions in between | what is searchable is the current version, whole, and with its own text; nothing orphaned; the document's status becomes final |
| BM25 publication | a mark set and cleared by two threads, two publishers, leases that are renewed while a file is written, a shutdown | what was completed is in the published snapshot, and none is taken out again |
| Personal files | file and row are written one after the other by requests and by the reconciler, and each may be cut off in between; the quota is asked before | files, rows and what the owner was told come to agree; the quota holds |
| Query runtime | a pipeline replaced under running readers, two refreshes out of order, a cache filled late | a turn reads one lexical snapshot; nothing goes back; nothing stale is found |
| Retrieval and selection | searches that come back late, results of several queries put together, three passes under two budgets and a floor | a better rank is not worth less; the floor is reached; nothing that fits is left when it is not |
| Chat | four structures that count the same places; grants to leaving waiters; cancellation and deadlines at every stage; shutdown | nobody is lost, passed over twice or left hanging; the reported outcome is the stored one |
| Stream of an answer | a full channel, a slow reader, a connection that breaks, a stop while the end is on its way | what is shown is the answer, whole but for one piece that may have made room for the end; the end arrives, once |
| GPU priority | overlapping turns share one marker, which grows stale and is removed without a lock | the indexer stands back for a turn, and never for good |
| Notes: editing | typing during a save, lost answers, conflicts, deletion, leaving, stale lists, a second tab | no unseen overwrite; the hook is right about the server; its labels are honest; every save ends |
| Notes: indexing | deletion and restoration keep the revision; a job is relabelled while it runs | what is published is stored; at rest the index is what the owner left; the last verified revision stays |

PROJECT.json lists every hazard at its line, with the properties aimed at it.

## 3. Modules

| Module | Models | Meets |
| --- | --- | --- |
| `IndexQueue` | `DurableIndexQueue` and its producers, for many jobs, workers and assets | implements `JobLifecycle` |
| `JobLifecycle` | the abstract specification of one job's life | - |
| `DocumentIndexing` | synchronizer, main thread, writer thread, rows and points of one document | uses of the queue what `JobLifecycle` promises |
| `LexicalPublication` | the indexer's three threads, their leases and futures, the dirty mark, the snapshot file and its generation | the same threads as `DocumentIndexing`, over many changes |
| `PersonalFiles` | uploads, deletions and the reconciler over files and rows | makes the versions and jobs that `DocumentIndexing` starts from |
| `QueryRuntime` | the loaded publication, its refresh daemon, the retrieval cache and the turns that lease it | takes publications from an environment that commits what `DocumentIndexing` and `LexicalPublication` end with |
| `Retrieval` | one question: its variants, the two searches of each, the cache, fusion and merge | hands its pool to the reranker |
| `EvidenceSelection` | the three passes over what was reranked | takes any ranking |
| `ChatConcurrency` | admission, dispatcher, the model's gate, the turn and its transaction, shutdown | - |
| `ChatStream` | a turn's event channel, response body, connection and panel | ends as the turn of `ChatConcurrency` ends |
| `GpuPriority` | turns that mark the GPU as theirs, and the indexer that waits | the batches are those of `DocumentIndexing` |
| `NoteAutosave` | the autosave hook in several tabs, the connection, the service | - |
| `NoteIndexing` | scheduling, preparing and writing the revisions of one note | uses the queue's life cycle, takes revisions as `NoteAutosave` commits them |
| `Subsequences` | a sequence without some of its members, as a recursive function | used by `ChatConcurrency`, `ChatStream` and `NoteIndexing` |
| `MCIndexQueue`, `MCDocumentIndexing`, `MCAnswering`, `MCAssistant`, `MCNotes` | what TLC checks together | extend the modules above, and small `MC` modules with the values of their constants |
| `..._proofs` | theorems checked by TLAPS | |

Modules whose processes share rows at such a distance that one only sees the other's
committed results are not multiplied with each other.  `MCDocumentIndexing`,
`MCAnswering`, `MCAssistant` and `MCNotes` put them *side by side*: an extra variable
`part` is chosen at the beginning, a step is a step of that part, and the variables of
the others keep their initial values.  The states are the sum and not the product, one
run checks them all, and the fairness of a part is stated on its steps.

### IndexQueue

`job[j]` is a row of `indexing_jobs` (status, `claimed_by`, attempts, operation, the
ticks left of the lease and of the wait); `document`, `note` and `verified` are the
columns of the targets that the queue writes.  Each method of the queue is one
action: `Claim`, `Transition`, `Renew`, `Complete`, `Supersede`, `FailRetry` and
`FailForGood` (the two outcomes of `fail`), `Recover` (one row of `recover_expired`, as
its rows are independent), `EnqueueControl`.  A method locks its job but reads the
document without a lock, so a method on a document's job is preceded by `ReadTarget`,
which stores what was read in `seen`.  The producers, `SyncDocument` (for
`_sync_documents` and `add_indexing_job`) and `ScheduleNote`, are preceded by
`Select`, which stores the rows they found in `selected`.  SQLAlchemy writes only
columns whose value differs from the one loaded; the actions write the same.
`Rollback` and `SyncAbort` are the two ends of the deadlock between a claim and a
synchronization.  `Crash` is the death of an indexer, `Tick` is time.

### DocumentIndexing

`version` is the history of the file, `document` its row, `rows` the chunk rows and
`points` the vector store.  The id of a point is made from the path and the place of
the chunk (`_stable_point_id`), so `points` is a function of paths and a point says
which version it belongs to.  `work[j]` is what the indexer's memory knows of job `j`:
the operation it read when it claimed the row, and how far it has come.  A batch is
claimed (`Claim`, `StartBatch`), extracted from what is in the file by then (`Overwrite` is a
change that no reconciliation has seen, `contents` what the file has held while a version
was current), given vectors by reuse or by the model,
submitted and written by the writer thread in order; other operations run on the main
thread.  Every request to the store and every transaction is an action, so that each
can be the last before `Fault` or `Crash`.

### LexicalPublication

A job is a change that `document_chunks` has or has not, so a snapshot (`file`, and
`announced` when its generation is committed) is a set of jobs.  The main thread and the
writer thread are records of the same shape and go through the same operators, as they
go through the same methods of the code: `Store`, `FinishJob`, `Mark`,
`RenewForPublication`, `ReadRows`, `ReplaceFile`, `Announce`, `ClearMark`,
`RemoveLease`, `FailJob`.  What they share without a lock is what the code shares:
`leases`, `futures`, `dirty`, the row and the file.  `Beat` and `RenewLease` are the
heartbeat, `Lose` a lease that ran out, `Stop` and `Close` an ordered end, `Restart` a
death.  A publication may fail at each of its steps (`FailPublication`), and so may what
else the loop calls (`LeaveLoop`); both lead to `Close`, and a failure of the publication
made there leaves run() "broken".  `exposed` is a history variable: the jobs completed while a mark could be wiped
unseen.

### PersonalFiles

`disk` and `trash` are the files, `doc` the row at a path, `task` its open jobs.  An
upload counts what its owner has (`Count`, under the workspace's lock), puts the file in
place or is refused (`Place`, `Refuse`), writes the rows (`Insert`), commits, and takes
the file back if that fails (`Unlink`).  A deletion looks (`Load`, `FindTask`), writes
(`FlushRemoval`), moves the file to the trash (`MoveAway`), commits, and puts it back if
that fails.  The reconciler lists the files (`Scan`), reads the rows (`ReadDocuments`),
looks at one file after another (`Look`, `Adopt`), marks what is missing and commits; its
rows are visible to others only then, and a row it has written is locked until then.
`CommitUpload` and `CommitRemoval` may fail after the commit went through.  An exception in
the reconciler ends the indexer (`GiveUp`), until somebody starts it (`StartIndexer`).
`Index` is the end of a job in the queue, with the deletion mark as it was read.

### QueryRuntime

`document` and `active` are PostgreSQL, `snapshot` the file, `loaded` the pipeline
(identities, lexical snapshot, generations), `refresh` the program counter of the
daemon with each branch of `refresh_query_runtime_if_needed`, `cache` the entry of the
one question.  A turn identifies (reads identities), installs them, leases, looks up,
searches, stores and releases, as `_acquire_snapshot` and its callers do under their
locks.

### Retrieval

`ranks` says what each branch finds for each variant of the question.  `LookUp` asks the
cache, `Return` ends a branch in time, late or in error, `Fuse` and `FuseLate` put
rankings together and store them, `EndQuestion` hands on the pool.  The algorithms are
functions of the rankings: `Fused` (reciprocal ranks), `Partial`, `Best`
(deduplication), `Pool`.  `Descending` is the stable sort of the code, by insertion, and
`Seen` the order in which a dictionary keeps its keys.  Scores are integers: weights are scaled by `Scale`, which both
of the ranks that occur divide, so the comparison of two scores is exact.

### EvidenceSelection

`pass` and `cursor` walk over the ranking as the three loops do; `SelectStrong`,
`PassOver`, `Fill` and `Leave` are the outcomes for a candidate, `EndThreshold`,
`EndDiverse` and `EndRelaxed` the ends of the loops.  `before` remembers the tokens used
when a candidate was taken.

### ChatConcurrency

`line` and `gate` have the same shape, as in the code: a queue per user, a ring of
users, the user last served.  `Dispatch` is one turn of the dispatcher's loop;
`turn[t].pc` follows the worker from its start through the gate to the commit and the
terminal event.  `Client` submits and cancels, `Expire` is the deadline of the queue,
`TimeOut` that of the turn, `Fail` any exception, `Close` the shutdown.

### ChatStream

An answer is the sequence of tokens 1, 2, ..., and an event a piece of it, a stage or the
end.  `PutToken` appends, or lets the last piece grow, or removes a stage; `Room` is the
place made for the end.  `Send`, `EndBody` and `Cut` are the response, `Read`, `Frame`
and `Conclude` the panel, `Abort` the Stop button.  The browser's buffer of one animation
frame is a variable of its own, as an abort comes between two frames.

### GpuPriority

`ask[t]` is a turn in `chat_priority`, `since` the start of the first of those that
overlap, `marker` the file.  All three are ages that stop growing above `Stale`.
`chat_active` is a reading followed by an unlinking (`Look`, `Unlink`), which is where
another marker may have come in between.  `Poll` looks at the marker and then at
`stopped`, which is stop_event; `Misread` is a marker that cannot be read.  "embed anyway"
is a batch that begins for one of these two reasons.

### NoteAutosave

`editor[e]` has the refs and state of the hook in tab `e` (`pending`, `inFlight`,
`blocked`, `lastSaved`, `revision`, the timer, the label, the conflict) and the text on
screen; `calls` are the requests on their way, each with a phase on the server;
`history` are the stored revisions.  A call of an earlier generation of the hook is not
`live`: it is still served, and its answer is ignored.  `Normal` is what the service makes
of a text: the blanks of its title are joined (`note_service.py:74`).

### NoteIndexing

`past` is what the note has been: a transaction has read any of it, as it reads without a
lock (`_get`).  `saving` are the owner's open transactions from the look-up of the jobs,
which comes after the flush that locks the note, to the commit, with the revision they
have read, the rows they found waiting and the values they loaded; one that writes nothing
of the note, the restoration of a live one, has no lock and may be open beside another.  `batch`
and `writes` are the two threads.  `Mark` and `Finalize` are the two short locks of
`write_prepared`, `Upsert` lies between them.

## 4. Runs

| Run | Instance | Shows |
| --- | --- | --- |
| `queue_notes` | 2 workers, a note with jobs of 2 revisions, 2 attempts | one holder at a time, bounded attempts, an end that is final, and that the queue implements `JobLifecycle` |
| `queue_settles` | 1 worker that may die for ever, a document job and a control request, 2 attempts | every job ends |
| `indexing` | (1) 2 versions, 2 texts, 2 paths, 3 jobs, 2 attempts, a move, a deletion, a fault, a crash, or an edit without a move, deletion or crash; (2) 2 changes, 1 of them of the main thread, a write queue of 2, 2 starts; (3) a file with an upload, a removal, and an outside change or a mishap; (4) 2 uploads, quota 1, a mishap | points hold what was in the file of their version, status becomes final, nothing orphaned, the work ends; the published snapshot has what was completed, and keeps it; files, rows and answers agree, the quota holds |
| `indexing_relabelled` | (1) of `indexing`, without failures | **violated**: a move labels the old point with the new version |
| `publication_idle` | (2) of `indexing`, with one start | **violated**: the indexer waits for work and a completed change is in no snapshot |
| `answering` | (1) 2 turns, 2 versions, 3 generations, small and large snapshots, failing reads; (2) 3 chunks, 2 variants, pools of 2; (3) all rankings of 0, 1, 3 and 4 candidates of 2 sources, with what is similar | frozen lexical snapshot, nothing goes back; fair pools; sound selections |
| `runtime_stale` | 1 turn, 2 generations | **violated**: a cached result of the old version is found |
| `retrieval_cached` | 2 variants | **violated**: with the cache a question has other candidates than without |
| `chat` | (1) 2 users, 3 requests, 2 active, 1 per user, 1 place at the gate; (2) a channel of 2, 4 tokens, 2 stages; (3) 3 turns that come again and again, a marker that is stale after 3, stops and starts of the indexer | rings, places, fairness, truth, an end for every turn; the answer arrives whole and ends; the indexer yields and goes on |
| `chat_cancelled` | (1) of `chat` | **violated**: a cancelled turn's messages are stored |
| `notes` | (1) 2 tabs, 2 texts of which one has two spellings, 3 and 1 inputs; (2) 2 revisions, 3 jobs, 2 attempts, a deletion, a restoration, a fault, a crash, 3 of these together | the hook of the editor; what is published is stored, rest is right, the verified revision stays |
| `autosave_saved` | (1) of `notes` | **violated**: Saved, with text that is stored nowhere |

Why the bounds are enough.  *Two* of what competes (workers, versions, turns, tabs,
revisions, changes, uploads) is the least that shows a race, and a third actor of the
same kind meets the same rows in the same states; a third job is there because a delete
or restore adds a job to those of two versions.  Two attempts have a first, a retry and a
last.  Two texts let an edit be taken back.  Three generations let a publication overtake
a refresh that is already loading another; two starts let a publication be completed by
the process after the one that died.  One fault and one crash each may come at every
step, and together make two interruptions of one job, which is all its attempts.  For the
file of `PersonalFiles` an outside change and a mishap are alternatives: each alone
separates file and row, and which of them did is all that the reconciler could tell.
`NoteAutosave` was also checked once with three inputs in each tab (9.75 million states,
safety only), `notes` with two restorations (2.4 million), and
`PersonalFiles` with two uploads, a removal and both disturbances
(1.9 million).  A ranking of four has one candidate for each of the three passes and one
that is left out; the rank constant is the code's 60.  Where the numbers of the code
matter (capacity reached, attempts used up, queue or channel full, quota, token budget,
age of a marker) the bounds are small so that the limit is met.

Some bounds leave combinations out.  In `indexing` an unnoticed edit comes with a fault but
not with a move, a deletion or a crash (`EditedAlone`); the proofs have them all.  In `notes` the note
says `bar` at first and nobody types `foo` (`Spelled`), so that it is on screen only where
the service has made it of `foo_`; no step is taken after a transaction that was overtaken
(`Few`), as no property speaks of what follows.  With two revisions a third cannot come
between the writing of the second and its second lock while the first is the verified one:
that case of `VerifiedStays` is covered by its proof alone.

The runtime's turns, the users, sources and the like are interchangeable, and `answering`
uses that as a symmetry; it has no liveness property, for which that would be unsound.

`CHECK_DEADLOCK FALSE` stands in every configuration but those of `answering`,
`runtime_stale` and `retrieval_cached` because those systems may stop: the bounded
environment is used up, the controller or the indexer is closed, the stream is over, the
note is deleted in every tab.  Whether work is left behind then is what the liveness
properties and those about rest (`RestIsSettled`, `RestIsPublished`, `RestIsRight`) say.

## 5. Fairness

* `IndexQueue`: time passes; an indexer polls and recovers for ever
  (`continuous_indexer.py:314`), and a worker that lives goes on with what it claimed.
  Claims, recovery and work are strongly fair because a crash or a failed transaction
  may disable them again and again, and the poll comes back each time.
* `DocumentIndexing`: each step of the indexer is weakly fair; its loop ends each job it
  starts.  Nothing obliges the corpus, a fault or a crash.
* `LexicalPublication`: the main and the writer thread run.  The heartbeat need not, no
  lease need be lost, no process need stop.
* `PersonalFiles`: a request that is served goes on, and so does the reconciler of an indexer
  that is up, with one pass after another: at its start, on its timer and after each event
  of the watcher.  An exception in a pass ends the process (`continuous_indexer.py:305`,
  `317`; `indexer_main.py:31`), and nothing in the repository starts it again:
  `FilesSettle` supposes, in its formula, that somebody does each time.  That an owner acts, a job is done or anything fails is not
  assumed.
* `QueryRuntime`, `Retrieval`, `EvidenceSelection` and `NoteIndexing` have only safety
  properties.
* `ChatConcurrency`: the dispatcher's thread and each worker go on.  Deadlines and
  cancellations are not fair, so no turn ends by timing out.
* `ChatStream`: the turn's thread, the response body and the browser go on; the number of
  tokens is bounded, as every turn has a limit of time.  A cut, a stop and a
  cancellation promise nothing.
* `GpuPriority`: time passes, a turn ends by its limit, and the indexer has batches.  No
  reading need fail, nobody need stop the indexer, and no poll need meet a gap between two
  turns: `IndexerGoesOn` supposes, in its formula, that from some time on there is a turn
  always or never.
* `NoteAutosave`: timers fire, the server serves and answers.  Users and connections
  promise nothing, and a lost answer is an answer of failure to the hook.

## 6. Proofs

All theorems are of the specification itself, for every value of the constants that
satisfies the module's assumption: any number of jobs, workers, assets, turns, users,
tabs, texts, places, candidates and attempts.  The module of a passing run extends every
module with an assumption, so TLC evaluates each on its instance.

* `IndexQueue_proofs`.  The inductive invariant is
  `TypeOK /\ Ownership /\ AttemptsLeft /\ SelectedOwn`.  `Ownership` alone is not
  inductive: a save writes back rows it selected earlier, and only `SelectedOwn` (they
  are rows of its own asset, and exist) keeps it from touching a document's job in a
  worker's hands.  `TypeCorrect`, `OwnershipHolds` and `AttemptsBounded` follow.
  `OverStaysOver` is an action property: the lemma `Steps` classifies what a step may do to
  one job.  `QueueImplementsLifecycle` is the
  refinement: `InitRefines`, and `NextRefines` with a case per action; the job that a
  save superseded under its worker counts as held until the worker lets go.
* `Subsequences_proofs`.  What the other proofs keep needing of sequences.  Induction and
  recursion are stated with sets and functions in place of operators
  (`InductionOverSets`, `IterationExists`), so that a recursive function can be unfolded
  by lemmas (`OnlyUnfolds`, `FlattenUnfolds`) and what it returns can be proved for
  sequences of any length (`OnlyIsSubsequence`, `WithoutProperties`, `FlattenConcat`).  Beside
  them is how a sequence without repetitions behaves that is appended to, shortened and
  turned, and who is ahead of whom in it.
* `DocumentIndexing_proofs`.  `DInv` has three parts beside the types.  One is about
  hands: a job that somebody works on is held (`Hands`), the writer thread has each job
  once and has begun on the first at most (`Order`), what is prepared for a job was in
  the file while its version was current (`Prepared`), and only a move makes a refresh (`Unmoved`).  One is
  about points: a point names a version there is (`PointsKnown`), and holds what was in
  its file (`PointsHoldTheirText`).  One is about ends: a document that is neither published nor
  given up has a job that will answer for it (`Answered`, hence `QuietIsSettled`), and
  without moves and deletions a version has one job and what that has done is there
  (`OneJobEach`, `Settled`, hence `PublishedHasItsText`).  Two general lemmas, for a job that
  goes on and one that is let go of, carry most of it, and each action says what it does
  to rows and points.  `NoOrphans` needs more, and under its own hypotheses only: `OInv`
  adds that without faults and late deletions a job is done as what its row says (`Kind`),
  that the refreshes of moves are carried out in the order of the moves, ahead of whatever
  was queued after them (`RefreshesFirst`), and that there is a
  point only at the rows' path or at the path a job is just writing (`Placed`).
* `Indexer_proofs`.  *Publication*: `LInv` follows a change that was completed and marked
  (`Due`): the snapshot is dirty, or the change is announced; a thread about to announce
  has it in the file, and one about to clear the mark has announced it (`Carried`); and
  what was stored after a thread has read the rows is in no file yet, as the other thread
  still has it in its hands (`Current`).  As the threads publish by the same operators,
  this is stated of *a* thread and the other, and proved once.  A publication that fails
  keeps the mark, at whichever step.  `RestPublishes` and, for
  a step, `SnapshotsGrow` follow.  *Files*: that the accepted files do not exceed the quota
  is not inductive: an upload asks what is used and commits much later.  The invariant says
  that the upload that asked has the workspace to itself (`OneHolds`), that there are never
  more accepted files than it counted (`CountStands`), and that its own will fit
  (`HasRoom`).  Nothing but the commit of an upload makes a file accepted: what the
  reconciler writes is from the file system or a later version, of rows that it has found
  and that are never taken away (`Known`).  *Together*: `IndexerIsItsParts`.
* `Answering_proofs`.  *Runtime*, `InOrder`: the generation the daemon has read is between
  the one loaded and the one published, the snapshot it has loaded between the one loaded
  and the file.  `NeverBack` and `LexicalStaysUnderLease` are action properties and follow
  from there being one daemon and a counted lease.  *Selection*: what blocks a candidate
  goes on to block it, and what is over a limit stays over it, so each candidate the
  diverse pass has come by is selected, blocked, or too big while the floor is reached
  (`Settled`); the relaxed pass begins below the floor, hence with nothing but blocked
  candidates left.  `SelectionIsSound` for rankings of any length.
  *Retrieval*, `CandidatesAreFair` from `RankedInv`: what is merged and what is cached is
  `Fair`, that is, with each result there is, *with a better score*, whatever every search
  prefers to it.  That the better place must also score better is what makes it inductive:
  a cut takes from the end of what is sorted, so it never takes the better one alone.  A
  lemma each says that fusing (`FusedIsFair`, from `WeightFalls`), the partial ranking, a
  cut, joining and the best of each chunk keep it; that sorting returns the same results in
  descending order is proved of the recursion itself (`DescendingSorts`).  *Together*:
  `AnsweringIsItsParts`.
* `ChatStream_proofs`.  `AnswersArriveWhole` for answers of any length through a channel of
  any capacity.  What is in the channel, on the wire, in the browser's buffer and on
  screen, put one after the other, is a cut of the answer without gaps but the one
  discarded piece (`StreamInv`); each step moves a piece from one place to the next, or
  splits or joins one, and the lemmas about flattened sequences say that the whole stays.
  `PanelsKnowTheEnd` from `Aware`: what the panel has been told is how the turn ends.
* `Assistant_proofs`.  *Admission*: `OutcomesAreTrue` from `TruthInv`, which adds the
  places on the way: a turn that is past its commit has its rows, and one that is about to
  end has told its client already.  `RingsStayExact` and `GateIsNeverIdle` speak of what a
  recursion over queues (`Granted`) returns; one round of it is a lemma about any line, and
  induction over the rounds carries it to all.  `RoundRobin` from `RoundInv`: while somebody
  waits, whoever was served since is behind in the ring or has left it.
  *Priority*, `ChatComesFirst`: as long as turns overlap for no longer than a
  marker counts, the file holds what the coordinator believes to have written
  (`MarkerStands`, from `OwnersAreTimed`), and an indexer that has begun a batch since
  cannot be about to begin another.  *Together*: `AssistantIsItsParts`.
* `Notes_proofs`.  *Editing*: `NobodyOverwritesUnseen` and `TypesHold` from
  `TypeOK /\ CallsAreSound /\ NothingIsOverwrittenUnseen`.  `CallsAreSound` carries the
  comparison of the revision, made when the call is read, to its commit, where the
  uniqueness of (note, revision) makes it still true.  `HInv` adds `HooksAreSound` (a hook
  with a save in flight listens to exactly one call; one that shows a conflict or an error
  is blocked, listens to none and holds the draft) and `AnswersAreSound`, and yields
  `RestIsRightAboutServer` (up to `Normal`), `SavesAreSerialized` and `LabelsHold`.
  *Indexing*: `WhatIsPublishedIsStored` from `NInv`.  Only the first job of the writer's
  queue has got as far as to touch the points, and until it has put them right the note is
  not called indexed (`WriterKnows`); a save takes that word back.  What a transaction may have
  read is behind the note (`PastIsBehind`), so no job is ahead of it.  A job carried out as a
  removal can be completed as an index only of a note that is hidden (`RemovalsAreSeen`),
  because the unique index refuses a restoration its second job.  `RestIsOwners` and
  `LastVerifiedStays` hold while nothing goes wrong, and so does the rest of the invariant
  (`Calm`): the two threads have the jobs in the order of their rows (`InLine`), only the
  latest row may wait and it is never lost (`RowsAreKept`), an open change has found it,
  or it has been claimed, or another was added since (`ChangeIsFirst`), once prepared it is done as the note is now
  (`LatestIsKnown`) and done last (`LatestIsRight`), and the state row is behind every job
  that is still to be done (`RevisionsGrow`).  A removal that is under way stays one
  (`RemovalsRemain`).  `NoteTypesHold` adds the count of attempts.
  *Together*: `NotesAreTheirParts`.

The theorems of the form `...IsItsParts` say that what TLC runs side by side is each of its
parts, so that a theorem about a part is one about the run's specification.

Not within reach of the prover, and checked by TLC only: the liveness properties
(`JobsSettle`, `ComesToRest`, `ChangesArePublished`, `FilesSettle`, `EveryTurnEnds`,
`StreamEnds`, `IndexerGoesOn`, `SavesEnd`), as they need `ENABLED`.  Every other property of
a passing run is stated by a theorem.

## 7. Findings

1. **Old content under a new version** (`indexing_relabelled`, `QueryableIsCurrent`;
   `knowledge_engine_service.py:1755`).  A file is indexed, moved, and edited before the
   indexer takes up the move.  The refresh stamps the *current* version on the points of
   the old one and marks the document indexed.
2. **An indexer at rest with an unpublished change** (`publication_idle`,
   `NothingWaitsUnpublished`; `continuous_indexer.py:1296`).  A job is completed and marks
   the snapshot while the other thread, which has read its rows already, publishes; that
   thread then clears the mark.  The change is found by vectors and not by words until
   another one comes.
3. **A cached answer of an old version** (`runtime_stale`, `FindsCurrent`;
   `knowledge_engine_service.py:398`).  Identities advance between publications, the
   cache key does not.
4. **Variants of a question that are never searched for** (`retrieval_cached`,
   `CacheIsTransparent`; `knowledge_engine_service.py:2183`).  The key of the cache is made
   of the question and not of the variant, so from the second variant on the results of
   the first are taken again.
5. **A cancelled turn leaves its messages** (`chat_cancelled`, `CancelledLeavesNothing`;
   `routes/chat.py:280`).  The commit comes before a report that may raise.
6. **Saved, and stored nowhere** (`autosave_saved`, `SavedIsOnServer`;
   `useSerializedNoteAutosave.ts:129`).  A draft is dropped while the hook is blocked or
   believes the note deleted; and typing back to the saved text says Saved while the
   older draft still waits for its timer.

## 8. Promises the code does not keep

These were stated, refuted by TLC on the instances above or met while modelling, and are
kept out of the runs; some are still definitions in their modules.  The properties that
are checked exclude exactly these cases, by the conditions on `spent`, by history
variables (`exposed`, `robbed`, `discarded`, `contents`), by hypotheses, and by the wording of their comments.

| Statement | What happens instead |
| --- | --- |
| `DocumentIndexing!VectorsAreOwn` | After edits A, B, A the third version may reuse the vector of the point that now holds B (`knowledge_engine_service.py:1571`). |
| `DocumentIndexing!StoredIsPublished` | The last failure of version 1's job marks the document failed after version 2 was indexed (`continuous_indexer.py:1465`). |
| `DocumentIndexing!DeletedIsGone` | A deletion finds an upsert in progress, relabels its row and inserts nothing; the upsert completes (`corpus/metadata.py:134`). |
| `DocumentIndexing!MovedIsIndexed` | A document moved before it was ever indexed has no file where extraction looks (`knowledge_engine_service.py:1397`). |
| `DocumentIndexing!TextIsHashed` | Extraction opens the live file and does not compare it with the hash of the version (`knowledge_engine_service.py:1401-1415`).  An edit is indexed under the version before it; if it is undone before a reconciliation has seen it, no new version comes and the text stays. |
| `DocumentIndexing!PublishedIsStored` with faults, moves or deletions | A refresh of a document that failed marks it indexed without rows (`indexing_queue.py:300`); a late deletion erases the restored version (`knowledge_engine_service.py:1739`). |
| The same once attempts are used up | The late end of version 1's job says indexed of a document whose version 2 is stored by nobody: its own job used up its attempts in crashes. |
| A due publication of the main thread | It sets the mark (`continuous_indexer.py:1039`) before it lets go of its job (`:1043`), so the renewal of leases finds a job that is no longer held and refuses; the debounce passes on to the next idle wait. |
| A last publication is made at the end of run() | The flush in its `finally` (`continuous_indexer.py:347`) may fail like any other: on a lost lease, the reading of the rows, the file (`bm25_snapshot.py:73`), the count of the points (`continuous_indexer.py:1257`) or the commit (`:1263`).  What was completed is then published with the next change of a later process. |
| The mark survives | It is only in memory (`continuous_indexer.py:1296`): what was completed before a death is published with the next change. |
| `IndexQueue!DeletedPreserved` | A queue method that read the document before the deletion writes its status after it (`indexing_queue.py:383`).  The next reconciliation marks a missing file deleted again (`FilesSettle`). |
| `QueryRuntime!CachedIsOfLoaded` | An entry computed with the old snapshot is stored after the new one was loaded (`retrieval_cache.py:40`). |
| `QueryRuntime!LeaseCaptures` | Identities are replaced on the pipeline a turn has leased (`knowledge_engine_service.py:965`). |
| `QueryRuntime!PendingIsActivated` | The last reader's refresh request is dropped when another is in flight, or gives up on a lock (`knowledge_engine_service.py:1107`, `1184`). |
| A partial ranking is comparable | When one branch is late, the scores of the other are not of the scale of fused ones, and the merge of variants compares them. |
| The context has the reranker's order | Building it sorts again by the retrieval's score (`context_builder.py:351`, `retrieval_postprocessing.py:61`). |
| "`selected` preserves reranker order" (`evidence_selector.py:44`) | The fallback passes append what the first pass left out, wherever it stood. |
| "Zero selection is reserved for no candidates or candidates with empty text" (`BATCH_QA_EXPORT.md:374`) | A selection that is late selects nothing (`phase4_pipeline.py:897`). |
| The relaxed pass ends with the floor | It goes on past it as long as there are too few tokens, with redundant candidates. |
| "The cross-process marker remains present until the last process-local query owner releases it" (`MULTI_REQUEST_CHAT_ARCHITECTURE.md:154`) | It has the time of the first of the turns that overlap and counts as stale by that; and the indexer may unlink the successor of the stale marker it read (`gpu_resource_coordinator.py:101`). |
| The indexer stands back for a turn, always | It does not wait for the batches it still has when it is told to stop or its heartbeat fails: `wait_for_chat` returns at once (`gpu_resource_coordinator.py:111`) and the loop over the batches does not look at the event (`continuous_indexer.py:743`).  A marker that cannot be read costs a batch (`gpu_resource_coordinator.py:99`). |
| The indexer is not held up for good | Turns that come and go for ever may do that: each has a fresh marker, and the poll need not meet a gap. |
| "A watcher event after an API write is harmless" (`managed_workspace_ingestion.py:28`) | A pass that listed the files before an upload and read the rows after it marks the acknowledged document deleted; the next one brings it back, as a second version, without asking for the quota. |
| A deletion that fails leaves the document shown | When the commit went through and its answer was lost, or the file was replaced meanwhile, the document stays live with `deleted_at` set, and no list shows it. |
| A deletion tells the index | One that meets the end of the document's job relabels a finished job, and no other is made; of two deletions at once the one that fails puts back what the first has removed. |
| The reconciler is patient | An exception in the first or the periodic reconciliation ends the indexer's loop and its process (`continuous_indexer.py:305`, `317`; `indexer_main.py:31`). |
| `NoteIndexing!VerifiedStays` with restorations or crashes | A revision indexed before and indexed again is removed when a newer one was saved meanwhile (`note_indexing_service.py:245`). |
| `NoteIndexing!OverlapsAreHarmless` | `NoteService` reads the note without a lock (`note_service.py:28-34`) and locks it at the flush (`:126`).  A save that commits between a deletion's reading (`:81`) and its flush leaves the deletion with the old revision: it supersedes the save's job, or finds it claimed, and schedules a removal for the old revision, which `prepare` supersedes (`note_indexing_service.py:89`).  The deleted note keeps its points.  A restoration (`:83`) does the same, and leaves the note without points. |
| The same without a stale reading | A job that is claimed between a deletion's look-up and its flush is relabelled in the worker's hands and completed as a removal with its points stored.  Restoring a note that is not deleted takes no lock: overlapping a save it leaves a job of the old revision, whose claim and end leave the state `indexing` although the newer revision is indexed. |
| `NoteIndexing!RestIsRight` with faults | The retry of an obsolete revision leaves the note `indexing` for good, so it is not published (`indexing_queue.py:266`, `393`). |
| `NoteIndexing!PublishedIsStored` when the look-up is overtaken | Restoring a note relabels a removal that has been claimed; its completion says `indexed` (`note_service.py:155`). The same completion says `indexed` of a note that is archived and restored, which is hidden anyway. |
| Retry of a failed document | Requires a version status that the continuous indexer never writes (`indexing_retry_service.py:64`). |
| What the hook compares is what is stored | The title is tidied up by the service (`note_service.py:74`), and the hook keeps the draft as it was sent (`useSerializedNoteAutosave.ts:83`): the screen shows `Foo`, and `Foo ` typed again is taken for saved.  `SavedTextIsOfRevision` and `SavedIsOnServer` are up to `Normal`. |
| Editing a note | Opening another note within the debounce drops the last words (`useSerializedNoteAutosave.ts:109`); a save whose answer is lost conflicts with itself; "keep mine" overwrites a version saved after the one that was shown (`:155`). |

## 9. Not modelled

The repository's lines are mostly notebooks, evaluation code, views and conversions, in
which nothing meets anything; the modules cover the services that share state.

* *Summaries* do not run at this commit: `summary_worker.py:108` and the services it calls
  use names that are not defined, so there is no behaviour to be faithful to.
* *Legacy indexing worker*: nothing instantiates it.
* *Security*: a session is one row that a request reads and checks, a rate limit a window
  under one lock, an access check a condition of a query of the same request.
* *Notebooks, saved knowledge, search, enterprise uploads, message actions*: single
  transactions over the rows of one owner.
* *Batch runs*: offline and sequential, a checkpoint after each question.
* *LAN manager*: one thread around PowerShell, Caddy and the firewall; what can go wrong is
  what those do.
* *Jobs that rebuild a scope, and the file watchers*: the first repeat what jobs of one
  document do, the second only bring a reconciliation forward.
* *Extraction, OCR, embedding, reranking, generation*: outcomes of actions, not their
  subject; formats, rendering, configuration, telemetry, evaluation: no state over time.

PROJECT.json gives the status and the reason for every part.  What would be worth adding:
the quota and the reconciler over folders, the routes that regenerate an answer, and the
product of `LexicalPublication` with `QueryRuntime` in place of the latter's publishing
environment, for which the two instances are too large to be multiplied.

## 10. Assumptions and limits

* A transaction of PostgreSQL is atomic, row locks are kept to its end, and the partial
  unique indexes hold.  A request to Qdrant with `wait=True` is carried out once it
  returns; it may also have been carried out when it fails.  A rename of a file is atomic.
* A version has one chunk in `DocumentIndexing` and a revision has all its points or none
  in `NoteIndexing`: a request to the store is carried out for all points or for none.
* `DocumentIndexing` and `NoteIndexing` have one indexer process and one asset.  Jobs of
  other assets are interleaved by the queue and do not touch its rows and points.
* In `IndexQueue` an indexer whose claim PostgreSQL has failed goes on, as one that is
  started again would.  In `DocumentIndexing` the states in the middle of a replacement of
  points are left behind by failures only, and not by deaths.
* In `LexicalPublication` a change is either stored or not; whether the debounce has
  passed is left open at each test.
* In `PersonalFiles` the listing of the files is one step, a file that is still being
  received is seen by nobody, a job's end reads and writes its rows in one step, and the
  creation of a workspace and folders are left out.
* In `NoteIndexing` at most one transaction that writes the note and one that does not have
  come to the jobs; any number may have read the note before.  An update that has read an
  older revision fails on the version's row, forced or not.  The two stage transitions around `prepare`, and those before and
  after embedding, are one step each.
* `ChatConcurrency` has as many workers as active turns (`config.py:432` allows fewer),
  fair scheduling switched on, and of the four gates the model's, which a turn with an empty context
  would skip (`phase2_pipeline.py:112`).  After its commit a turn fails only by being
  cancelled or out of time.
* In `ChatStream` when tokens are joined, and how long a piece is, is left open; stage
  events that the reranker's thread sends late (`phase4_pipeline.py:757`) are left out.
* In `QueryRuntime` and `Retrieval` one user asks one question; the permission boundary and
  the size of the cache are left out, and the searches themselves are what they found.
* In `EvidenceSelection` similarity is a relation of pairs, and candidates without text are
  left out before.
