--------------------------- MODULE LexicalPublication ---------------------------
(***************************************************************************)
(* The three threads of the indexer and what they share: the set of jobs   *)
(* whose leases are renewed, the futures of the writer thread, the mark    *)
(* that the lexical snapshot is out of date, and the snapshot itself       *)
(* (ContinuousIndexer.run, drain_once, _write_prepared_asset,              *)
(* _process_non_document_upsert, publish_bm25_generation,                  *)
(* _flush_bm25_if_due and the heartbeat loop).                             *)
(*                                                                         *)
(* A job is one change of the corpus.  Its change is either stored or not, *)
(* so a snapshot is the set of jobs whose changes it has.  What the store  *)
(* and the queue do with a job is in DocumentIndexing and IndexQueue.      *)
(***************************************************************************)
EXTENDS Integers, Sequences, FiniteSets

CONSTANTS
    Changes,        \* the jobs
    Immediate,      \* those the main thread performs: moves and deletions
    WriteQueueSize, \* indexer_write_queue_size
    Slow,           \* those whose lease may run out and be recovered by another
    MaxStarts       \* bound on starts of the process

ASSUME PublicationAssumption ==
    /\ Immediate \subseteq Changes
    /\ WriteQueueSize \in Nat \ {0}
    /\ Slow \subseteq Changes
    /\ MaxStarts \in Nat \ {0}

VARIABLES
    row,        \* the job in PostgreSQL; "held" is claimed by this process
    stored,     \* the jobs whose changes are in document_chunks
    file,       \* current.json
    announced,  \* current.json as it was when a generation was last published
    leases,     \* _active_jobs
    futures,    \* _write_futures
    submitted,  \* those the writer thread has not begun
    dirty,      \* _bm25_dirty_since is set
    stopped,    \* stop_event; _accepting is its negation
    main,       \* the main thread
    writer,     \* the writer thread
    heart,      \* the heartbeat thread
    starts,     \* how often the process was started
    exposed     \* history: completed while a mark could be wiped unseen

lexVars == <<row, stored, file, announced, leases, futures, submitted, dirty, stopped,
             main, writer, heart, starts, exposed>>

DoneJobs == {j \in Changes : row[j] = "completed"}

(***************************************************************************)
(* A thread: where it is, the jobs it claimed and has not dealt with, the  *)
(* jobs at hand (none or one), whose flush it performs, the leases it has  *)
(* still to renew and the rows it read for a snapshot.                     *)
(***************************************************************************)
Thread(pc) == [pc |-> pc, batch |-> {}, job |-> {}, for |-> "none", renew |-> {}, read |-> {}]

\* From the reading of the rows to the end of publish_bm25_generation.
Publishing == {"again", "write", "announce", "clear"}

LexInit ==
    /\ row = [j \in Changes |-> "absent"]
    /\ stored = {} /\ file = {} /\ announced = {}
    /\ leases = {} /\ futures = {} /\ submitted = <<>>
    /\ dirty = FALSE /\ stopped = FALSE
    /\ main = Thread("top") /\ writer = Thread("rest") /\ heart = Thread("rest")
    /\ starts = 1 /\ exposed = {}

\* What each group of actions leaves alone.
corpusVars == <<stored, file, announced, starts, exposed>>
sharedVars == <<leases, futures, submitted, dirty, stopped>>

-------------------------------------------------------------------------------
\* The rest of the system.

Arrive(j) ==
    /\ row[j] = "absent"
    /\ row' = [row EXCEPT ![j] = "pending"]
    /\ UNCHANGED <<corpusVars, sharedVars, main, writer, heart>>

\* A lease ran out and the row was recovered: it is another indexer's.
Lose(j) ==
    /\ j \in Slow /\ row[j] = "held"
    /\ row' = [row EXCEPT ![j] = "gone"]
    /\ UNCHANGED <<corpusVars, sharedVars, main, writer, heart>>

\* stop(), from the signal handler.
Stop ==
    /\ ~stopped
    /\ stopped' = TRUE
    /\ UNCHANGED <<row, corpusVars, leases, futures, submitted, dirty, main, writer, heart>>

\* The process dies and another is started; the leases it held are recovered.
Restart ==
    /\ starts < MaxStarts
    /\ starts' = starts + 1
    /\ row' = [j \in Changes |-> IF row[j] = "held" THEN "pending" ELSE row[j]]
    /\ exposed' = exposed \union (DoneJobs \ announced)
    /\ leases' = {} /\ futures' = {} /\ submitted' = <<>> /\ dirty' = FALSE /\ stopped' = FALSE
    /\ main' = Thread("top") /\ writer' = Thread("rest") /\ heart' = Thread("rest")
    /\ UNCHANGED <<stored, file, announced>>

-------------------------------------------------------------------------------
(***************************************************************************)
(* What the main thread and the writer have in common.  `self' is the      *)
(* thread, `next' its value after the step.                                *)
(***************************************************************************)

\* Where a thread goes from _flush_bm25_if_due, and where an error takes it.
Return(for) == CASE for = "immediate" -> "remove" [] for = "write" -> "rest"
                 [] for = "idle" -> "idle" [] for = "last" -> "stopped"
Raise(for) == CASE for = "idle" -> "close" [] for = "last" -> "broken" [] OTHER -> "fail"

Flushing(self) == [self EXCEPT !.pc = "renew", !.renew = leases]
Done(self, pc) == [self EXCEPT !.pc = pc, !.renew = {}, !.read = {}]

\* The rows of the change are committed; a lost lease is not noticed before _finish.
Store(self, next) ==
    /\ self.pc = "store"
    /\ stored' = stored \union self.job
    /\ next = [self EXCEPT !.pc = "finish"]
    /\ UNCHANGED <<row, file, announced, leases, dirty, exposed>>

\* complete(): refused when the row is no longer this worker's.
FinishJob(self, next) ==
    /\ self.pc = "finish"
    /\ \E j \in self.job :
         IF row[j] = "held"
         THEN /\ row' = [row EXCEPT ![j] = "completed"]
              /\ next = [self EXCEPT !.pc = IF self.for = "write" THEN "remove" ELSE "mark"]
         ELSE next = [self EXCEPT !.pc = "fail"] /\ UNCHANGED row
    /\ UNCHANGED <<stored, file, announced, leases, dirty, exposed>>

\* _mark_bm25_dirty: whether the debounce time has passed is left open.
Mark(self, other, next) ==
    /\ self.pc = "mark"
    /\ dirty' = TRUE
    /\ exposed' = IF other.pc \in Publishing THEN exposed \union self.job ELSE exposed
    /\ next \in {Flushing(self), [self EXCEPT !.pc = Return(self.for)]}
    /\ UNCHANGED <<row, stored, file, announced, leases>>

\* Mutant: a refused publication wipes the mark as a finished one does.
RenewAndForget(self, next) ==
    /\ self.pc \in {"renew", "again"}
    /\ IF self.renew = {}
       THEN /\ next = [self EXCEPT !.pc = IF self.pc = "renew" THEN "read" ELSE "write"]
            /\ UNCHANGED dirty
       ELSE \E j \in self.renew :
              IF row[j] = "held"
              THEN next = [self EXCEPT !.renew = @ \ {j}] /\ UNCHANGED dirty
              ELSE next = Done(self, Raise(self.for)) /\ dirty' = FALSE
    /\ UNCHANGED <<row, stored, file, announced, leases, exposed>>

\* renew_publication_leases: a refusal ends the publication, and the mark stays.
RenewForPublication(self, next) ==
    /\ self.pc \in {"renew", "again"}
    /\ IF self.renew = {}
       THEN next = [self EXCEPT !.pc = IF self.pc = "renew" THEN "read" ELSE "write"]
       ELSE \E j \in self.renew :
              next = IF row[j] = "held" THEN [self EXCEPT !.renew = @ \ {j}]
                                        ELSE Done(self, Raise(self.for))
    /\ UNCHANGED <<row, stored, file, announced, leases, dirty, exposed>>

\* Mutant: the snapshot is made of the rows of the job at hand.
ReadRowsOfJob(self, next) ==
    /\ self.pc = "read"
    /\ next = [self EXCEPT !.pc = "again", !.renew = leases, !.read = self.job]
    /\ UNCHANGED <<row, stored, file, announced, leases, dirty, exposed>>

\* The rows are read; leases are renewed again while the file is written.
ReadRows(self, next) ==
    /\ self.pc = "read"
    /\ next = [self EXCEPT !.pc = "again", !.renew = leases, !.read = stored]
    /\ UNCHANGED <<row, stored, file, announced, leases, dirty, exposed>>

\* write_bm25_snapshot ends with os.replace.
ReplaceFile(self, next) ==
    /\ self.pc = "write"
    /\ file' = self.read
    /\ next = [self EXCEPT !.pc = "announce"]
    /\ UNCHANGED <<row, stored, announced, leases, dirty, exposed>>

\* DurableIndexQueue.publish_generation
Announce(self, next) ==
    /\ self.pc = "announce"
    /\ announced' = file
    /\ next = [self EXCEPT !.pc = "clear"]
    /\ UNCHANGED <<row, stored, file, leases, dirty, exposed>>

\* What else may raise on the way: reading the rows, writing the file, which is then as it
\* was, the count of the points, and publish_generation, which may have been committed
\* nevertheless.  The mark stays.
FailPublication(self, next) ==
    /\ self.pc \in {"renew", "read", "again", "write", "announce"}
    /\ next = Done(self, Raise(self.for))
    /\ announced' \in {announced} \union (IF self.pc = "announce" THEN {file} ELSE {})
    /\ UNCHANGED <<row, stored, file, leases, dirty, exposed>>

ClearMark(self, next) ==
    /\ self.pc = "clear"
    /\ dirty' = FALSE
    /\ next = Done(self, Return(self.for))
    /\ UNCHANGED <<row, stored, file, announced, leases, exposed>>

\* _handle_failure: fail() leaves a row alone that is not this worker's.
FailJob(self, next) ==
    /\ self.pc = "fail"
    /\ row' = [j \in Changes |-> IF j \in self.job /\ row[j] = "held" THEN "gone" ELSE row[j]]
    /\ next = [self EXCEPT !.pc = "drop"]
    /\ UNCHANGED <<stored, file, announced, leases, dirty, exposed>>

\* _remove_active; the writer marks the snapshot after it, the main thread before.
RemoveLease(self, next) ==
    /\ self.pc \in {"remove", "drop"}
    /\ leases' = leases \ self.job
    /\ next = IF self.for = "write" /\ self.pc = "remove"
              THEN [self EXCEPT !.pc = "mark"]
              ELSE [self EXCEPT !.pc = IF self.for = "write" THEN "rest" ELSE "batch"]
    /\ UNCHANGED <<row, stored, file, announced, dirty, exposed>>

Work(self, other, next) ==
    \/ Store(self, next) \/ FinishJob(self, next) \/ Mark(self, other, next)
    \/ RenewForPublication(self, next) \/ ReadRows(self, next) \/ ReplaceFile(self, next)
    \/ Announce(self, next) \/ FailPublication(self, next) \/ ClearMark(self, next)
    \/ FailJob(self, next) \/ RemoveLease(self, next)

-------------------------------------------------------------------------------
\* The writer thread: _write_prepared_asset, one future after the other.

BeginWrite ==
    /\ writer.pc = "rest" /\ submitted # <<>>
    /\ \E pc \in {"store", "fail"} :
         writer' = [Thread(pc) EXCEPT !.job = {Head(submitted)}, !.for = "write"]
    /\ submitted' = Tail(submitted)
    /\ UNCHANGED <<row, corpusVars, leases, futures, dirty, stopped, main, heart>>

WriterStep ==
    /\ Work(writer, main, writer')
    /\ UNCHANGED <<futures, submitted, stopped, main, heart, starts>>

\* Futures whose function has returned.
DoneWrites == futures \ ({submitted[i] : i \in 1..Len(submitted)}
                           \union (IF writer.pc = "rest" THEN {} ELSE writer.job))

-------------------------------------------------------------------------------
\* The main thread.

\* The head of the loop, the harvest and the claims of drain_once.
ClaimChanges(S) ==
    LET left == futures \ DoneWrites
    IN  /\ main.pc = "top" /\ ~stopped
        /\ S # {} /\ \A j \in S : row[j] = "pending"
        /\ Cardinality(S) + Cardinality(left) <= WriteQueueSize
        /\ futures' = left
        /\ row' = [j \in Changes |-> IF j \in S THEN "held" ELSE row[j]]
        /\ leases' = leases \union S
        /\ main' = [Thread("batch") EXCEPT !.batch = S]
        /\ UNCHANGED <<corpusVars, submitted, dirty, stopped, writer, heart>>

\* drain_once claims nothing: no job, no room, or (without a harvest) no acceptance.
NothingClaimed ==
    LET left == IF stopped THEN futures ELSE futures \ DoneWrites
    IN  /\ main.pc = "top"
        /\ \/ stopped
           \/ \A j \in Changes : row[j] # "pending"
           \/ Cardinality(left) >= WriteQueueSize
        /\ futures' = left
        /\ main' = IF left = {} /\ dirty THEN [Flushing(main) EXCEPT !.for = "idle"]
                                         ELSE Thread("idle")
        /\ UNCHANGED <<row, corpusVars, leases, submitted, dirty, stopped, writer, heart>>

\* stop_event.wait, and the test of the loop.
Wake ==
    /\ main.pc = "idle"
    /\ main' = Thread(IF stopped THEN "close" ELSE "top")
    /\ UNCHANGED <<row, corpusVars, sharedVars, writer, heart>>

\* Anything else that the loop calls raises: a reconciliation, the recovery, a heartbeat, a
\* claim.
LeaveLoop ==
    /\ main.pc \in {"top", "idle"}
    /\ main' = Thread("close")
    /\ UNCHANGED <<row, corpusVars, sharedVars, writer, heart>>

\* The immediate jobs of a batch come first, in the order of the claims.
Perform(j) ==
    /\ main.pc = "batch" /\ j \in main.batch \intersect Immediate
    /\ \E pc \in {"store", "fail"} :
         main' = [main EXCEPT !.pc = pc, !.batch = @ \ {j}, !.job = {j}, !.for = "immediate"]
    /\ UNCHANGED <<row, corpusVars, sharedVars, writer, heart>>

\* The others are extracted and given vectors, or fail at it.
Prepare(j) ==
    /\ main.pc = "batch" /\ main.batch \intersect Immediate = {} /\ j \in main.batch
    /\ IF row[j] = "held"
       THEN \/ /\ submitted' = Append(submitted, j) /\ futures' = futures \union {j}
               /\ main' = [main EXCEPT !.batch = @ \ {j}]
            \/ /\ main' = [main EXCEPT !.pc = "fail", !.batch = @ \ {j}, !.job = {j},
                                       !.for = "immediate"]
               /\ UNCHANGED <<submitted, futures>>
       ELSE main' = Thread("close") /\ UNCHANGED <<submitted, futures>>  \* InvalidJobTransition
    /\ UNCHANGED <<row, corpusVars, leases, dirty, stopped, writer, heart>>

\* The end of drain_once, and the test of the loop.
EndBatch ==
    /\ main.pc = "batch" /\ main.batch = {}
    /\ main' = Thread(IF stopped THEN "close" ELSE "top")
    /\ UNCHANGED <<row, corpusVars, sharedVars, writer, heart>>

MainStep ==
    /\ Work(main, writer, main')
    /\ UNCHANGED <<futures, submitted, stopped, writer, heart, starts>>

\* Mutant: the process ends without a last publication.
CloseUnpublished ==
    /\ main.pc = "close"
    /\ writer.pc = "rest" /\ submitted = <<>>
    /\ stopped' = TRUE /\ futures' = {} /\ heart' = Thread("dead")
    /\ main' = Thread("stopped")
    /\ UNCHANGED <<row, corpusVars, leases, submitted, dirty, writer>>

\* The finally of run: the writer is drained and the heartbeat ended before the last flush.
Close ==
    /\ main.pc = "close"
    /\ writer.pc = "rest" /\ submitted = <<>>
    /\ stopped' = TRUE /\ futures' = {} /\ heart' = Thread("dead")
    /\ main' = IF dirty THEN [Flushing(main) EXCEPT !.for = "last"] ELSE Thread("stopped")
    /\ UNCHANGED <<row, corpusVars, leases, submitted, dirty, writer>>

-------------------------------------------------------------------------------
\* The heartbeat thread.

Beat ==
    /\ heart.pc = "rest"
    /\ heart' = [Flushing(heart) EXCEPT !.pc = "renew"]
    /\ UNCHANGED <<row, corpusVars, sharedVars, main, writer>>

\* One refused renewal stops the indexer.
RenewLease ==
    /\ heart.pc = "renew"
    /\ IF heart.renew = {} THEN heart' = Thread("rest") /\ UNCHANGED stopped
       ELSE \E j \in heart.renew :
              IF row[j] = "held"
              THEN heart' = [heart EXCEPT !.renew = @ \ {j}] /\ UNCHANGED stopped
              ELSE heart' = Thread("dead") /\ stopped' = TRUE
    /\ UNCHANGED <<row, corpusVars, leases, futures, submitted, dirty, main, writer>>

-------------------------------------------------------------------------------
MainThread == \/ \E S \in SUBSET Changes : ClaimChanges(S)
              \/ NothingClaimed \/ Wake \/ LeaveLoop \/ EndBatch \/ MainStep \/ Close
              \/ \E j \in Changes : Perform(j) \/ Prepare(j)
WriterThread == BeginWrite \/ WriterStep

LexNext ==
    \/ \E j \in Changes : Arrive(j) \/ Lose(j)
    \/ Stop \/ Restart \/ Beat \/ RenewLease
    \/ MainThread \/ WriterThread

LexSpec == LexInit /\ [][LexNext]_lexVars

\* The threads run.
LexFairness == WF_lexVars(MainThread) /\ WF_lexVars(WriterThread)

-------------------------------------------------------------------------------
LexTypeOK ==
    /\ row \in [Changes -> {"absent", "pending", "held", "completed", "gone"}]
    /\ stored \in SUBSET Changes /\ file \in SUBSET Changes /\ announced \in SUBSET Changes
    /\ leases \in SUBSET Changes /\ futures \in SUBSET Changes /\ submitted \in Seq(Changes)
    /\ dirty \in BOOLEAN /\ stopped \in BOOLEAN
    /\ starts \in 1..MaxStarts /\ exposed \in SUBSET Changes

(***************************************************************************)
(* The indexer never waits for work with a change outside the published    *)
(* lexical snapshot: what continuous_indexer.py:322-324 says.              *)
(***************************************************************************)
NothingWaitsUnpublished == main.pc = "idle" /\ futures = {} => DoneJobs \subseteq announced

(***************************************************************************)
(* What the code does: where the main thread waits for work, and where     *)
(* run() has returned, every completed change is published, though any     *)
(* publication may fail or be refused on the way, except those that were   *)
(* completed while the other thread published, whose mark that thread      *)
(* wipes, and those that a death of the process overtook, whose mark was   *)
(* only in its memory.  Of a run() that ends by the exception of its last  *)
(* publication (continuous_indexer.py:347) nothing is said.                *)
(***************************************************************************)
RestIsPublished ==
    main.pc \in {"idle", "stopped"} /\ futures = {} => DoneJobs \ exposed \subseteq announced

(***************************************************************************)
(* A publication takes no such change out of the snapshot again, though    *)
(* two threads may write the file in the other order than they read.       *)
(***************************************************************************)
NothingIsTakenBack ==
    [][(file \intersect DoneJobs) \ exposed' \subseteq file']_lexVars

\* run() was left by the exception of its last publication.
Spoilt == main.pc = "broken"

(***************************************************************************)
(* A completed change is published in the end, whichever publications      *)
(* fail, unless its mark was exposed or the last publication of the        *)
(* process fails: then it waits, published by nobody, for the next change  *)
(* that a later process makes.                                             *)
(***************************************************************************)
ChangesArePublished ==
    \A j \in Changes : row[j] = "completed" ~> j \in announced \union exposed \/ Spoilt

=============================================================================
