----------------------------- MODULE Indexer_proofs -----------------------------
(***************************************************************************)
(* The other two parts of the indexer, and the indexer as a whole.         *)
(*                                                                         *)
(* First the lexical snapshot that the two threads publish, then the       *)
(* personal documents, and last the module that runs the three side by     *)
(* side: each of its behaviors is a behavior of every part, so that what   *)
(* is proved of a part holds of the whole.                                 *)
(***************************************************************************)
EXTENDS MCDocumentIndexing, DocumentIndexing_proofs, FiniteSetTheorems, TLAPS

-------------------------------------------------------------------------------
(***************************************************************************)
(* What LexicalPublication promises, for any number of changes, jobs that  *)
(* lose their lease, and starts of the process.                            *)
(*                                                                         *)
(* The two threads publish by the same code, so most of the invariant is   *)
(* said of a thread and the other one, and the steps of that code are      *)
(* proved once, for either.                                                *)
(***************************************************************************)

Flush == {"renew", "read", "again", "write", "announce", "clear"}
OneJob == {"store", "finish", "mark", "remove", "fail", "drop"}

Threads == [pc : Flush \union OneJob
                   \union {"top", "rest", "idle", "batch", "close", "stopped", "broken", "dead"},
            batch : SUBSET Changes, job : SUBSET Changes,
            for : {"none", "immediate", "write", "idle", "last"},
            renew : SUBSET Changes, read : SUBSET Changes]

\* What a thread does, it does for one job or for a flush of its own.
Sound(self) ==
    /\ self \in Threads
    /\ \A i, j \in self.job : i = j
    /\ self.pc \in OneJob => self.for \in {"immediate", "write"}
    /\ self.pc \in Flush => self.for \in {"immediate", "write", "idle", "last"}

\* The jobs that a thread has not completed yet, and those that it has and not marked.
AtHand(self) == IF self.pc \in {"store", "finish"} THEN self.job ELSE {}
Unmarked(self) ==
    IF self.pc = "mark" \/ (self.pc = "remove" /\ self.for = "write") THEN self.job ELSE {}

\* What a mark, a snapshot or a publication answers for.
Due(self, other) == (DoneJobs \ exposed) \ (Unmarked(self) \union Unmarked(other))

\* Nothing is completed or read that is not in the rows.
StoredFirst(self) ==
    /\ self.read \subseteq stored
    /\ self.pc = "finish" => self.job \subseteq stored

(***************************************************************************)
(* A change that was stored after a thread read the rows is in no file:    *)
(* the other thread still has it, and when it goes on it is exposed.       *)
(***************************************************************************)
LatestRead(self, other) ==
    self.pc \in {"again", "write"} =>
        \A j \in stored \ self.read :
            \/ j \in exposed \/ row[j] = "gone"
            \/ j \notin file /\ j \in other.job
                             /\ (other.pc = "finish" \/ j \in Unmarked(other))

\* What a thread is about to announce, or to forget, has all that is due.
Carried(self, other) ==
    /\ self.pc = "announce" => Due(self, other) \subseteq file
    /\ self.pc = "clear" => Due(self, other) \subseteq announced

\* The part of the invariant that is the same for the two threads.
Pair(self, other) ==
    /\ LexTypeOK
    /\ Sound(self) /\ Sound(other)
    /\ DoneJobs \subseteq stored /\ file \subseteq stored
    /\ StoredFirst(self) /\ StoredFirst(other)
    /\ AtHand(self) \intersect AtHand(other) = {}
    /\ \A j \in AtHand(self) \union AtHand(other) : row[j] \in {"held", "gone"}
    /\ LatestRead(self, other) /\ LatestRead(other, self)
    /\ Carried(self, other) /\ Carried(other, self)
    /\ dirty \/ Due(self, other) \subseteq announced

Waiting == {submitted[i] : i \in 1..Len(submitted)}

\* A job is claimed by this process once, and is in one place of it.
Claimed ==
    /\ \A j \in main.batch \union Waiting : row[j] \in {"held", "gone"}
    /\ main.batch \intersect Waiting = {}
    /\ (main.batch \union Waiting) \intersect (AtHand(main) \union AtHand(writer)) = {}
    /\ \A i, k \in 1..Len(submitted) : submitted[i] = submitted[k] => i = k

\* The main thread knows of every write that is not done.
Awaited ==
    /\ main.for # "write"
    /\ Waiting \subseteq futures
    /\ writer.pc # "rest" => /\ writer.for = "write"
                             /\ writer.job # {} /\ writer.job \subseteq futures

\* Where the main thread waits or has ended.
NothingLeft ==
    /\ main.for = "last" \/ main.pc = "stopped" => writer.pc = "rest" /\ submitted = <<>>
    /\ main.for = "last" => main.pc \in Flush \union {"stopped", "broken"}
    /\ main.pc = "idle" /\ futures = {} => Due(main, writer) \subseteq announced
    /\ main.pc = "stopped" => Due(main, writer) \subseteq announced

LInv == Pair(main, writer) /\ Claimed /\ Awaited /\ NothingLeft
-------------------------------------------------------------------------------
\* What the steps of a thread leave of it, and what they need to keep the invariant.

USE DEF Flush, OneJob

LEMMA Moves ==
    ASSUME NEW self, Sound(self), NEW pc \in Flush \union OneJob \union {"rest", "idle", "batch", "close", "stopped", "broken"},
           pc \in OneJob => self.for \in {"immediate", "write"},
           pc \in Flush => self.for \in {"immediate", "write", "idle", "last"},
           NEW renew \in SUBSET Changes, NEW read \in SUBSET Changes, NEW next,
           next = [self EXCEPT !.pc = pc, !.renew = renew, !.read = read]
    PROVE  /\ Sound(next)
           /\ next.pc = pc /\ next.job = self.job /\ next.for = self.for
           /\ next.batch = self.batch /\ next.renew = renew /\ next.read = read
  BY DEF Sound, Threads

LEMMA GoesTo ==
    ASSUME NEW self, Sound(self), NEW pc \in OneJob \union {"rest", "idle", "batch", "close", "stopped", "broken"},
           pc \in OneJob => self.for \in {"immediate", "write"},
           NEW next, next = [self EXCEPT !.pc = pc]
    PROVE  /\ Sound(next)
           /\ next.pc = pc /\ next.job = self.job /\ next.for = self.for
           /\ next.batch = self.batch /\ next.renew = self.renew /\ next.read = self.read
  BY DEF Sound, Threads

LEMMA Flushes ==
    ASSUME NEW self, Sound(self), self.for \in {"immediate", "write", "idle", "last"}, LexTypeOK,
           NEW next, next = Flushing(self)
    PROVE  /\ Sound(next)
           /\ next.pc = "renew" /\ next.job = self.job /\ next.for = self.for
           /\ next.batch = self.batch /\ next.renew = leases /\ next.read = self.read
  BY DEF Sound, Threads, Flushing, LexTypeOK

LEMMA Kept ==
    ASSUME NEW self, Sound(self)
    PROVE  /\ self.renew \in SUBSET Changes /\ self.read \in SUBSET Changes
           /\ self.job \in SUBSET Changes
  BY DEF Sound, Threads
\* What the two threads' code leaves to the main thread's own steps.
Alone == UNCHANGED <<futures, submitted, stopped, starts>>

LEMMA StoreKeeps ==
    ASSUME NEW self, NEW other, NEW next, Pair(self, other), Store(self, next), Alone
    PROVE  Pair(next, other)'
  <1>1. Sound(next) /\ next.pc = "finish" /\ next.job = self.job /\ next.for = self.for
        /\ next.read = self.read
    <2>1. Sound(self) /\ self.for \in {"immediate", "write"} /\ next = [self EXCEPT !.pc = "finish"]
      BY DEF Pair, Store, Sound
    <2> QED BY <2>1, GoesTo
  <1>2. Sound(other) /\ Sound(self)
    BY DEF Pair
  <1>3. LexTypeOK'
    BY Kept, <1>2 DEF Pair, LexTypeOK, Store, Alone
  <1>4. DoneJobs' = DoneJobs /\ Unmarked(next) = Unmarked(self) /\ AtHand(next) = AtHand(self)
    BY <1>1 DEF Store, DoneJobs, Unmarked, AtHand
  <1>5. Due(next, other)' = Due(self, other)
    BY <1>4 DEF Due, Store
  <1>6. StoredFirst(next)' /\ StoredFirst(other)' /\ DoneJobs' \subseteq stored' /\ file' \subseteq stored'
    BY <1>1, <1>4 DEF Pair, StoredFirst, Store
  <1>7. LatestRead(next, other)'
    BY <1>1 DEF LatestRead
  <1>8. LatestRead(other, next)'
    <2> SUFFICES ASSUME other.pc \in {"again", "write"}, NEW j \in stored' \ other.read
                 PROVE  \/ j \in exposed \/ row[j] = "gone"
                        \/ j \notin file /\ j \in next.job
      BY <1>1 DEF LatestRead, Store
    <2>1. CASE j \in stored
      BY <2>1, <1>1 DEF Pair, LatestRead, Store, Unmarked
    <2>2. CASE j \notin stored
      BY <2>2, <1>1 DEF Pair, Store
    <2> QED BY <2>1, <2>2
  <1>9. Carried(next, other)' /\ Carried(other, next)'
    BY <1>1, <1>5 DEF Pair, Carried, Store, Due
  <1>10. (dirty \/ Due(next, other) \subseteq announced)'
    BY <1>5 DEF Pair, Store
  <1> QED
    BY <1>1, <1>2, <1>3, <1>4, <1>6, <1>7, <1>8, <1>9, <1>10 DEF Pair, Store, AtHand

LEMMA LexFinishKeeps ==
    ASSUME NEW self, NEW other, NEW next, Pair(self, other), FinishJob(self, next), Alone
    PROVE  Pair(next, other)'
  <1>1. Sound(self) /\ Sound(other) /\ self.pc = "finish" /\ self.for \in {"immediate", "write"}
    BY DEF Pair, FinishJob, Sound
  <1>2. PICK j \in self.job :
            IF row[j] = "held"
            THEN /\ row' = [row EXCEPT ![j] = "completed"]
                 /\ next = [self EXCEPT !.pc = IF self.for = "write" THEN "remove" ELSE "mark"]
            ELSE next = [self EXCEPT !.pc = "fail"] /\ UNCHANGED row
    BY DEF FinishJob
  <1>3. j \in Changes /\ self.job = {j} /\ row \in [Changes -> {"absent", "pending", "held", "completed", "gone"}]
    BY <1>1, <1>2 DEF Sound, Threads, Pair, LexTypeOK
  <1>4. /\ Sound(next) /\ next.pc = (IF row[j] # "held" THEN "fail"
                                     ELSE IF self.for = "write" THEN "remove" ELSE "mark")
        /\ next.job = {j} /\ next.for = self.for /\ next.read = self.read
    <2> DEFINE pc == IF row[j] # "held" THEN "fail"
                     ELSE IF self.for = "write" THEN "remove" ELSE "mark"
    <2>1. next = [self EXCEPT !.pc = pc] /\ pc \in OneJob
      BY <1>2
    <2> QED BY <1>1, <1>3, <2>1, GoesTo
  <1>5. AtHand(next) = {} /\ AtHand(self) = {j} /\ Unmarked(self) = {}
        /\ j \in stored /\ j \notin AtHand(other) /\ row[j] \in {"held", "gone"}
    BY <1>1, <1>3, <1>4 DEF AtHand, Unmarked, Pair, StoredFirst
  <1>6. LexTypeOK'
    BY <1>2, <1>3 DEF Pair, LexTypeOK, FinishJob, Alone
  <1>7. CASE row[j] = "held"
    <2>1. row' = [row EXCEPT ![j] = "completed"]
      BY <1>2, <1>7
    <2>2. \A i \in Changes : row'[i] = IF i = j THEN "completed" ELSE row[i]
      BY <1>3, <2>1
    <2>3. DoneJobs' = DoneJobs \union {j}
      BY <1>3, <2>2 DEF DoneJobs
    <2>4. Unmarked(next) = {j}
      BY <1>4, <1>7 DEF Unmarked
    <2>5. Due(next, other)' \subseteq Due(self, other) /\ Due(other, next)' \subseteq Due(other, self)
      BY <2>3, <2>4, <1>5 DEF Due, FinishJob
    <2>6. StoredFirst(next)' /\ StoredFirst(other)' /\ DoneJobs' \subseteq stored' /\ file' \subseteq stored'
      BY <2>3, <1>4, <1>5, <1>7 DEF Pair, StoredFirst, FinishJob
    <2>7. LatestRead(next, other)'
      BY <1>4, <1>7 DEF LatestRead
    <2>8. LatestRead(other, next)'
      <3> SUFFICES ASSUME other.pc \in {"again", "write"}, NEW i \in stored \ other.read
                   PROVE  \/ i \in exposed \/ row'[i] = "gone"
                          \/ i \notin file /\ i \in next.job /\ i \in Unmarked(next)
        BY DEF LatestRead, FinishJob
      <3>1. \/ i \in exposed \/ row[i] = "gone" \/ (i \notin file /\ i \in self.job)
        BY DEF Pair, LatestRead
      <3>2. i \in Changes
        BY DEF Pair, LexTypeOK
      <3> QED BY <3>1, <3>2, <2>2, <2>4, <1>3, <1>4, <1>7
    <2>9. \A i \in AtHand(next) \union AtHand(other) : row'[i] \in {"held", "gone"}
      <3> SUFFICES ASSUME NEW i \in AtHand(other) PROVE row'[i] \in {"held", "gone"}
        BY <1>5
      <3>1. i \in Changes /\ i # j
        BY <1>1, <1>5 DEF AtHand, Sound, Threads
      <3> QED BY <3>1, <2>2 DEF Pair
    <2>10. Carried(next, other)' /\ Carried(other, next)'
      BY <2>5, <1>4, <1>7 DEF Pair, Carried, FinishJob
    <2>11. (dirty \/ Due(next, other) \subseteq announced)'
      BY <2>5 DEF Pair, FinishJob
    <2> QED
      BY <1>1, <1>4, <1>5, <1>6, <2>6, <2>7, <2>8, <2>9, <2>10, <2>11 DEF Pair, FinishJob, AtHand
  <1>8. CASE row[j] # "held"
    <2>1. UNCHANGED row /\ row[j] = "gone" /\ next.pc = "fail"
      BY <1>2, <1>4, <1>5, <1>8
    <2>2. DoneJobs' = DoneJobs /\ Unmarked(next) = {}
      BY <2>1 DEF DoneJobs, Unmarked
    <2>3. Due(next, other)' = Due(self, other)
      BY <2>2, <1>5 DEF Due, FinishJob
    <2>4. StoredFirst(next)' /\ StoredFirst(other)' /\ DoneJobs' \subseteq stored' /\ file' \subseteq stored'
      BY <2>1, <2>2, <1>4 DEF Pair, StoredFirst, FinishJob
    <2>5. LatestRead(next, other)' /\ LatestRead(other, next)'
      BY <2>1, <1>3, <1>4, <1>5 DEF Pair, LatestRead, FinishJob
    <2>6. Carried(next, other)' /\ Carried(other, next)'
      BY <2>3, <2>1 DEF Pair, Carried, FinishJob, Due
    <2>7. (dirty \/ Due(next, other) \subseteq announced)'
      BY <2>3 DEF Pair, FinishJob
    <2> QED
      BY <1>1, <1>4, <1>5, <1>6, <2>1, <2>4, <2>5, <2>6, <2>7 DEF Pair, FinishJob, AtHand
  <1> QED BY <1>7, <1>8

\* A mark speaks for the job, unless the other thread may wipe it unseen.
LEMMA MarkKeeps ==
    ASSUME NEW self, NEW other, NEW next, Pair(self, other), Mark(self, other, next), Alone
    PROVE  Pair(next, other)'
  <1>1. Sound(self) /\ Sound(other) /\ self.pc = "mark" /\ self.for \in {"immediate", "write"}
    BY DEF Pair, Mark, Sound
  <1>2. /\ Sound(next) /\ next.pc \in {"renew", "remove", "rest"} /\ next.job = self.job
        /\ next.for = self.for /\ next.read = self.read
        /\ next.pc = "remove" => next.for = "immediate"
    <2>1. CASE next = Flushing(self)
      BY <1>1, <2>1, Flushes DEF Pair
    <2>2. CASE next = [self EXCEPT !.pc = Return(self.for)]
      <3>1. Return(self.for) = IF self.for = "write" THEN "rest" ELSE "remove"
        BY <1>1 DEF Return
      <3> QED BY <1>1, <2>2, <3>1, GoesTo
    <2> QED BY <2>1, <2>2 DEF Mark
  <1>3. AtHand(next) = {} /\ AtHand(self) = {} /\ Unmarked(next) = {} /\ Unmarked(self) = self.job
    BY <1>1, <1>2 DEF AtHand, Unmarked
  <1>4. self.job \subseteq Changes
    BY <1>1, Kept
  <1>5. LexTypeOK'
    BY <1>4 DEF Pair, LexTypeOK, Mark, Alone
  <1>6. DoneJobs' = DoneJobs
    BY DEF Mark, DoneJobs
  <1>7. exposed \subseteq exposed' /\ (other.pc \in Publishing => self.job \subseteq exposed')
    BY DEF Mark
  <1>8. other.pc \in Publishing => Due(next, other)' \subseteq Due(self, other)
                                   /\ Due(other, next)' \subseteq Due(other, self)
    BY <1>3, <1>6, <1>7 DEF Due
  <1>9. StoredFirst(next)' /\ StoredFirst(other)' /\ DoneJobs' \subseteq stored' /\ file' \subseteq stored'
    BY <1>1, <1>2, <1>6 DEF Pair, StoredFirst, Mark
  <1>10. LatestRead(next, other)'
    BY <1>2 DEF LatestRead
  <1>11. LatestRead(other, next)'
    <2> SUFFICES ASSUME other.pc \in {"again", "write"}, NEW j \in stored \ other.read
                 PROVE  j \in exposed' \/ row[j] = "gone"
      BY DEF LatestRead, Mark
    <2>1. self.job \subseteq exposed'
      BY <1>7 DEF Publishing
    <2> QED BY <2>1, <1>7 DEF Pair, LatestRead
  <1>12. Carried(next, other)' /\ Carried(other, next)'
    BY <1>2, <1>8 DEF Pair, Carried, Mark, Publishing
  <1>13. dirty'
    BY DEF Mark
  <1> QED
    BY <1>1, <1>2, <1>3, <1>5, <1>9, <1>10, <1>11, <1>12, <1>13 DEF Pair, Mark, AtHand

\* What rows do that no thread of this process completes.
RowsGoOn ==
    /\ row' \in [Changes -> {"absent", "pending", "held", "completed", "gone"}]
    /\ \A j \in Changes : \/ row'[j] = row[j]
                          \/ row[j] = "absent" /\ row'[j] = "pending"
                          \/ row[j] = "pending" /\ row'[j] = "held"
                          \/ row[j] = "held" /\ row'[j] = "gone"

LEMMA RowsKeep ==
    ASSUME RowsGoOn
    PROVE  /\ DoneJobs' = DoneJobs
           /\ \A j \in Changes : row[j] \in {"held", "gone"} => row'[j] \in {"held", "gone"}
           /\ \A j \in Changes : row[j] = "gone" => row'[j] = "gone"
  BY DEF RowsGoOn, DoneJobs

\* Steps of a thread that has nothing to mark, before it completes or publishes anything.
LEMMA QuietKeeps ==
    ASSUME NEW self, NEW other, NEW next, Pair(self, other), LexTypeOK', RowsGoOn,
           UNCHANGED <<stored, file, announced, exposed>>, dirty' = dirty,
           Sound(next), next.read \subseteq stored,
           \A j \in AtHand(next) : row[j] \in {"held", "gone"},
           AtHand(next) \intersect AtHand(other) = {},
           Unmarked(next) = {}, Unmarked(self) = {}, self.pc # "finish",
           next.pc \notin {"announce", "clear", "finish"},
           next.pc \in {"again", "write"} =>
                next.read = stored \/ (self.pc = "again" /\ next.read = self.read)
    PROVE  Pair(next, other)'
  <1>1. DoneJobs' = DoneJobs
        /\ \A j \in Changes : row[j] \in {"held", "gone"} => row'[j] \in {"held", "gone"}
    BY RowsKeep
  <1>2. stored \subseteq Changes /\ \A j \in Changes : row[j] = "gone" => row'[j] = "gone"
    BY RowsKeep DEF Pair, LexTypeOK
  <1>3. Due(next, other)' = Due(self, other) /\ Due(other, next)' = Due(other, self)
    BY <1>1 DEF Due
  <1>4. StoredFirst(next)' /\ StoredFirst(other)'
    BY DEF Pair, StoredFirst
  <1>5. LatestRead(next, other)' /\ LatestRead(other, next)'
    BY <1>2 DEF Pair, LatestRead
  <1>6. Carried(next, other)' /\ Carried(other, next)'
    BY <1>3 DEF Pair, Carried
  <1>7. \A j \in AtHand(next) \union AtHand(other) : row'[j] \in {"held", "gone"}
    <2> SUFFICES ASSUME NEW j \in AtHand(next) \union AtHand(other) PROVE row'[j] \in {"held", "gone"}
      OBVIOUS
    <2>1. j \in Changes /\ row[j] \in {"held", "gone"}
      BY DEF Pair, AtHand, Sound, Threads
    <2> QED BY <2>1, <1>1
  <1> QED BY <1>1, <1>3, <1>4, <1>5, <1>6, <1>7 DEF Pair, AtHand

LEMMA RenewKeeps ==
    ASSUME NEW self, NEW other, NEW next, Pair(self, other), RenewForPublication(self, next), Alone
    PROVE  Pair(next, other)'
  <1>1. Sound(self) /\ self.pc \in {"renew", "again"}
        /\ self.for \in {"immediate", "write", "idle", "last"} /\ self.read \subseteq stored
    BY DEF Pair, RenewForPublication, Sound, StoredFirst
  <1>2. /\ Sound(next) /\ next.job = self.job /\ next.for = self.for
        /\ next.read \subseteq stored
        /\ next.pc \in {"read", "write", "renew", "again", "fail", "close", "broken"}
        /\ next.pc \in {"again", "write"} => self.pc = "again" /\ next.read = self.read
    <2>1. CASE self.renew = {}
      <3>1. next = [self EXCEPT !.pc = IF self.pc = "renew" THEN "read" ELSE "write"]
        BY <2>1 DEF RenewForPublication
      <3> QED BY <1>1, <3>1 DEF Sound, Threads
    <2>2. CASE \E j \in self.renew : next = [self EXCEPT !.renew = @ \ {j}]
      BY <1>1, <2>2 DEF Sound, Threads
    <2>3. CASE next = Done(self, Raise(self.for))
      <3>1. Raise(self.for) \in {"fail", "close", "broken"}
            /\ (Raise(self.for) = "fail" => self.for \in {"immediate", "write"})
        BY <1>1 DEF Raise
      <3>2. next = [self EXCEPT !.pc = Raise(self.for), !.renew = {}, !.read = {}]
        BY <2>3 DEF Done
      <3> QED BY <1>1, <3>1, <3>2 DEF Sound, Threads
    <2> QED BY <2>1, <2>2, <2>3 DEF RenewForPublication
  <1>3. AtHand(next) = {} /\ AtHand(self) = {} /\ Unmarked(next) = {} /\ Unmarked(self) = {}
    BY <1>1, <1>2 DEF AtHand, Unmarked
  <1>4. UNCHANGED <<row, stored, file, announced, leases, exposed>> /\ dirty' = dirty
    BY DEF RenewForPublication
  <1>5. LexTypeOK' /\ RowsGoOn
    BY <1>4 DEF Pair, LexTypeOK, Alone, RowsGoOn
  <1> QED BY <1>1, <1>2, <1>3, <1>4, <1>5, QuietKeeps

\* What a failure may have announced is what was about to be announced.
LEMMA FailPublicationKeeps ==
    ASSUME NEW self, NEW other, NEW next, Pair(self, other), FailPublication(self, next), Alone
    PROVE  Pair(next, other)'
  <1>1. Sound(self) /\ self.pc \in {"renew", "read", "again", "write", "announce"}
        /\ self.for \in {"immediate", "write", "idle", "last"}
    BY DEF Pair, FailPublication, Sound
  <1>2. /\ Sound(next) /\ next.job = self.job /\ next.for = self.for /\ next.read = {}
        /\ next.pc \in {"fail", "close", "broken"}
    <2>1. Raise(self.for) \in {"fail", "close", "broken"}
          /\ (Raise(self.for) = "fail" => self.for \in {"immediate", "write"})
      BY <1>1 DEF Raise
    <2>2. next = [self EXCEPT !.pc = Raise(self.for), !.renew = {}, !.read = {}]
      BY DEF FailPublication, Done
    <2> QED BY <1>1, <2>1, <2>2 DEF Sound, Threads
  <1>3. AtHand(next) = {} /\ AtHand(self) = {} /\ Unmarked(next) = {} /\ Unmarked(self) = {}
    BY <1>1, <1>2 DEF AtHand, Unmarked
  <1>4. UNCHANGED <<row, stored, file, leases, dirty, exposed>>
        /\ (announced' = announced \/ (self.pc = "announce" /\ announced' = file))
    BY DEF FailPublication
  <1>5. LexTypeOK' /\ DoneJobs' = DoneJobs
    BY <1>4 DEF Pair, LexTypeOK, DoneJobs, Alone
  <1>6. Due(next, other)' = Due(self, other) /\ Due(other, next)' = Due(self, other)
        /\ Due(other, self) = Due(self, other)
    BY <1>3, <1>4, <1>5 DEF Due
  <1>7. announced' = announced \/ Due(self, other) \subseteq announced'
    BY <1>4 DEF Pair, Carried
  <1>8. StoredFirst(next)' /\ StoredFirst(other)'
    BY <1>2, <1>4 DEF Pair, StoredFirst
  <1>9. LatestRead(next, other)' /\ LatestRead(other, next)'
    BY <1>1, <1>2, <1>3, <1>4 DEF Pair, LatestRead
  <1>10. Carried(next, other)' /\ Carried(other, next)'
    BY <1>2, <1>4, <1>6, <1>7 DEF Pair, Carried
  <1>11. dirty' \/ Due(next, other)' \subseteq announced'
    BY <1>4, <1>6, <1>7 DEF Pair
  <1> QED
    BY <1>2, <1>3, <1>4, <1>5, <1>8, <1>9, <1>10, <1>11 DEF Pair, AtHand

LEMMA ReadKeeps ==
    ASSUME NEW self, NEW other, NEW next, Pair(self, other), ReadRows(self, next), Alone
    PROVE  Pair(next, other)'
  <1>1. Sound(self) /\ self.pc = "read" /\ stored \subseteq Changes /\ leases \subseteq Changes
    BY DEF Pair, ReadRows, LexTypeOK
  <1>2. Sound(next) /\ next.pc = "again" /\ next.job = self.job /\ next.for = self.for
        /\ next.read = stored
    BY <1>1 DEF ReadRows, Sound, Threads
  <1>3. AtHand(next) = {} /\ AtHand(self) = {} /\ Unmarked(next) = {} /\ Unmarked(self) = {}
    BY <1>1, <1>2 DEF AtHand, Unmarked
  <1>4. UNCHANGED <<row, stored, file, announced, leases, exposed>> /\ dirty' = dirty
    BY DEF ReadRows
  <1>5. LexTypeOK' /\ RowsGoOn
    BY <1>4 DEF Pair, LexTypeOK, Alone, RowsGoOn
  <1> QED BY <1>1, <1>2, <1>3, <1>4, <1>5, QuietKeeps

\* What is due has been read by whoever is about to write the file.
LEMMA DueIsRead ==
    ASSUME NEW self, NEW other, Pair(self, other), self.pc \in {"again", "write"}
    PROVE  Due(self, other) \subseteq self.read
  <1> SUFFICES ASSUME NEW j \in Due(self, other), j \notin self.read PROVE FALSE
    OBVIOUS
  <1>1. j \in DoneJobs /\ j \notin exposed /\ j \notin Unmarked(other) /\ j \in stored
    BY DEF Due, Pair
  <1>2. row[j] = "completed"
    BY <1>1 DEF DoneJobs
  <1>3. j \in other.job /\ other.pc = "finish"
    BY <1>1, <1>2 DEF Pair, LatestRead
  <1> QED BY <1>2, <1>3 DEF Pair, AtHand

LEMMA ReplaceKeeps ==
    ASSUME NEW self, NEW other, NEW next, Pair(self, other), ReplaceFile(self, next), Alone
    PROVE  Pair(next, other)'
  <1>1. Sound(self) /\ self.pc = "write" /\ next = [self EXCEPT !.pc = "announce"]
        /\ self.for \in {"immediate", "write", "idle", "last"}
    BY DEF Pair, ReplaceFile, Sound
  <1>2. Sound(next) /\ next.pc = "announce" /\ next.job = self.job /\ next.for = self.for
        /\ next.read = self.read
    BY <1>1 DEF Sound, Threads
  <1>3. AtHand(next) = {} /\ AtHand(self) = {} /\ Unmarked(next) = {} /\ Unmarked(self) = {}
    BY <1>1, <1>2 DEF AtHand, Unmarked
  <1>4. UNCHANGED <<row, stored, announced, leases, dirty, exposed>> /\ file' = self.read
        /\ file' \subseteq stored
    BY DEF ReplaceFile, Pair, StoredFirst
  <1>5. LexTypeOK' /\ DoneJobs' = DoneJobs
    BY <1>4 DEF Pair, LexTypeOK, DoneJobs, Alone
  <1>6. Due(next, other)' = Due(self, other) /\ Due(other, next)' = Due(self, other)
    BY <1>3, <1>4, <1>5 DEF Due
  <1>7. Due(self, other) \subseteq file'
    BY <1>1, <1>4, DueIsRead
  <1>8. StoredFirst(next)' /\ StoredFirst(other)'
    BY <1>2, <1>4 DEF Pair, StoredFirst
  <1>9. LatestRead(next, other)'
    BY <1>2 DEF LatestRead
  <1>10. LatestRead(other, next)'
    BY <1>1, <1>3, <1>4 DEF Pair, LatestRead
  <1>11. Carried(next, other)' /\ Carried(other, next)'
    BY <1>2, <1>4, <1>6, <1>7 DEF Pair, Carried, Due
  <1> QED
    BY <1>2, <1>3, <1>4, <1>5, <1>6, <1>8, <1>9, <1>10, <1>11 DEF Pair, AtHand

LEMMA AnnounceKeeps ==
    ASSUME NEW self, NEW other, NEW next, Pair(self, other), Announce(self, next), Alone
    PROVE  Pair(next, other)'
  <1>1. Sound(self) /\ self.pc = "announce" /\ next = [self EXCEPT !.pc = "clear"]
        /\ self.for \in {"immediate", "write", "idle", "last"}
    BY DEF Pair, Announce, Sound
  <1>2. Sound(next) /\ next.pc = "clear" /\ next.job = self.job /\ next.for = self.for
        /\ next.read = self.read
    BY <1>1 DEF Sound, Threads
  <1>3. AtHand(next) = {} /\ AtHand(self) = {} /\ Unmarked(next) = {} /\ Unmarked(self) = {}
    BY <1>1, <1>2 DEF AtHand, Unmarked
  <1>4. UNCHANGED <<row, stored, file, leases, dirty, exposed>> /\ announced' = file
    BY DEF Announce
  <1>5. LexTypeOK' /\ DoneJobs' = DoneJobs
    BY <1>4 DEF Pair, LexTypeOK, DoneJobs, Alone
  <1>6. Due(next, other)' = Due(self, other) /\ Due(other, next)' = Due(self, other)
    BY <1>3, <1>4, <1>5 DEF Due
  <1>7. Due(self, other) \subseteq announced'
    BY <1>1, <1>4 DEF Pair, Carried
  <1>8. StoredFirst(next)' /\ StoredFirst(other)'
    BY <1>2, <1>4 DEF Pair, StoredFirst
  <1>9. LatestRead(next, other)' /\ LatestRead(other, next)'
    BY <1>1, <1>2, <1>3, <1>4 DEF Pair, LatestRead
  <1>10. Carried(next, other)' /\ Carried(other, next)'
    BY <1>2, <1>4, <1>6, <1>7 DEF Pair, Carried, Due
  <1> QED
    BY <1>2, <1>3, <1>4, <1>5, <1>6, <1>7, <1>8, <1>9, <1>10 DEF Pair, AtHand

\* The mark is wiped, and all that it may have spoken for is announced.
LEMMA ClearKeeps ==
    ASSUME NEW self, NEW other, NEW next, Pair(self, other), ClearMark(self, next), Alone
    PROVE  Pair(next, other)'
  <1>1. Sound(self) /\ self.pc = "clear" /\ self.for \in {"immediate", "write", "idle", "last"}
    BY DEF Pair, ClearMark, Sound
  <1>2. /\ Sound(next) /\ next.job = self.job /\ next.for = self.for /\ next.read = {}
        /\ next.pc \in {"remove", "rest", "idle", "stopped"}
        /\ next.pc = "remove" => next.for = "immediate"
    <2>1. Return(self.for) \in {"remove", "rest", "idle", "stopped"}
          /\ (Return(self.for) = "remove" => self.for = "immediate")
      BY <1>1 DEF Return
    <2>2. next = [self EXCEPT !.pc = Return(self.for), !.renew = {}, !.read = {}]
      BY DEF ClearMark, Done
    <2> QED BY <1>1, <2>1, <2>2 DEF Sound, Threads
  <1>3. AtHand(next) = {} /\ AtHand(self) = {} /\ Unmarked(next) = {} /\ Unmarked(self) = {}
    BY <1>1, <1>2 DEF AtHand, Unmarked
  <1>4. UNCHANGED <<row, stored, file, announced, leases, exposed>> /\ dirty' = FALSE
    BY DEF ClearMark
  <1>5. DoneJobs' = DoneJobs
    BY <1>4 DEF DoneJobs
  <1>6. LexTypeOK'
    BY <1>4 DEF Pair, LexTypeOK, Alone
  <1>7. Due(next, other)' = Due(self, other) /\ Due(other, next)' = Due(self, other)
    BY <1>3, <1>4, <1>5 DEF Due
  <1>8. Due(self, other) \subseteq announced
    BY <1>1 DEF Pair, Carried
  <1>9. StoredFirst(next)' /\ StoredFirst(other)'
    BY <1>2, <1>4 DEF Pair, StoredFirst
  <1>10. LatestRead(next, other)' /\ LatestRead(other, next)'
    BY <1>1, <1>2, <1>3, <1>4 DEF Pair, LatestRead
  <1>11. Carried(next, other)' /\ Carried(other, next)'
    BY <1>2, <1>4, <1>7 DEF Pair, Carried, Due
  <1> QED
    BY <1>2, <1>3, <1>4, <1>5, <1>6, <1>7, <1>8, <1>9, <1>10, <1>11 DEF Pair, AtHand

LEMMA LexFailKeeps ==
    ASSUME NEW self, NEW other, NEW next, Pair(self, other), FailJob(self, next), Alone
    PROVE  Pair(next, other)'
  <1>1. Sound(self) /\ self.pc = "fail" /\ next = [self EXCEPT !.pc = "drop"]
        /\ self.for \in {"immediate", "write"}
    BY DEF Pair, FailJob, Sound
  <1>2. Sound(next) /\ next.pc = "drop" /\ next.job = self.job /\ next.for = self.for
        /\ next.read = self.read
    BY <1>1, GoesTo
  <1>3. AtHand(next) = {} /\ AtHand(self) = {} /\ Unmarked(next) = {} /\ Unmarked(self) = {}
    BY <1>1, <1>2 DEF AtHand, Unmarked
  <1>4. UNCHANGED <<stored, file, announced, leases, dirty, exposed>>
    BY DEF FailJob
  <1>5. \A j \in Changes : row'[j] = row[j] \/ (row[j] = "held" /\ row'[j] = "gone")
    BY DEF FailJob
  <1>6. row' \in [Changes -> {"absent", "pending", "held", "completed", "gone"}]
    BY DEF FailJob, Pair, LexTypeOK
  <1>7. LexTypeOK'
    BY <1>4, <1>6 DEF Pair, LexTypeOK, Alone
  <1>8. DoneJobs' = DoneJobs
    BY <1>5 DEF DoneJobs
  <1>9. Due(next, other)' = Due(self, other) /\ Due(other, next)' = Due(other, self)
    BY <1>3, <1>4, <1>8 DEF Due
  <1>10. StoredFirst(next)' /\ StoredFirst(other)'
    BY <1>1, <1>2, <1>4 DEF Pair, StoredFirst
  <1>11. LatestRead(next, other)'
    BY <1>2 DEF LatestRead
  <1>12. LatestRead(other, next)'
    <2> SUFFICES ASSUME other.pc \in {"again", "write"}, NEW j \in stored \ other.read
                 PROVE  j \in exposed \/ row'[j] = "gone"
      BY <1>4 DEF LatestRead
    <2>1. j \in exposed \/ row[j] = "gone"
      BY <1>1, <1>3 DEF Pair, LatestRead
    <2>2. j \in Changes
      BY DEF Pair, LexTypeOK
    <2> QED BY <2>1, <2>2, <1>5
  <1>13. \A j \in AtHand(other) : row'[j] \in {"held", "gone"}
    <2> SUFFICES ASSUME NEW j \in AtHand(other) PROVE row'[j] \in {"held", "gone"}
      OBVIOUS
    <2>1. j \in Changes /\ row[j] \in {"held", "gone"}
      BY DEF Pair, AtHand, Sound, Threads
    <2> QED BY <2>1, <1>5
  <1>14. Carried(next, other)' /\ Carried(other, next)'
    BY <1>2, <1>4, <1>9 DEF Pair, Carried
  <1> QED
    BY <1>2, <1>3, <1>4, <1>7, <1>8, <1>9, <1>10, <1>11, <1>12, <1>13, <1>14 DEF Pair, AtHand

LEMMA RemoveKeeps ==
    ASSUME NEW self, NEW other, NEW next, Pair(self, other), RemoveLease(self, next), Alone
    PROVE  Pair(next, other)'
  <1>1. Sound(self) /\ self.pc \in {"remove", "drop"} /\ self.for \in {"immediate", "write"}
        /\ leases' = leases \ self.job
    BY DEF Pair, RemoveLease, Sound
  <1>2. /\ Sound(next) /\ next.job = self.job /\ next.for = self.for /\ next.read = self.read
        /\ next.pc = IF self.for = "write" /\ self.pc = "remove" THEN "mark"
                     ELSE IF self.for = "write" THEN "rest" ELSE "batch"
    <2>1. next = [self EXCEPT !.pc = IF self.for = "write" /\ self.pc = "remove" THEN "mark"
                                     ELSE IF self.for = "write" THEN "rest" ELSE "batch"]
      BY DEF RemoveLease
    <2> QED BY <1>1, <2>1, GoesTo
  <1>3. AtHand(next) = {} /\ AtHand(self) = {} /\ Unmarked(next) = Unmarked(self)
    BY <1>1, <1>2 DEF AtHand, Unmarked
  <1>4. UNCHANGED <<row, stored, file, announced, dirty, exposed>>
    BY DEF RemoveLease
  <1>5. LexTypeOK' /\ DoneJobs' = DoneJobs
    BY <1>1, <1>4 DEF Pair, LexTypeOK, Alone, DoneJobs
  <1>6. Due(next, other)' = Due(self, other) /\ Due(other, next)' = Due(other, self)
    BY <1>3, <1>4, <1>5 DEF Due
  <1>7. StoredFirst(next)' /\ StoredFirst(other)'
    BY <1>2, <1>4 DEF Pair, StoredFirst
  <1>8. LatestRead(next, other)' /\ LatestRead(other, next)'
    BY <1>1, <1>2, <1>3, <1>4 DEF Pair, LatestRead
  <1>9. Carried(next, other)' /\ Carried(other, next)'
    BY <1>2, <1>4, <1>6 DEF Pair, Carried
  <1> QED
    BY <1>2, <1>3, <1>4, <1>5, <1>6, <1>7, <1>8, <1>9 DEF Pair, AtHand

\* Either thread's own work keeps what holds of the two.
LEMMA LexWorkKeeps ==
    ASSUME NEW self, NEW other, NEW next, Pair(self, other), Work(self, other, next), Alone
    PROVE  Pair(next, other)'
  BY StoreKeeps, LexFinishKeeps, MarkKeeps, RenewKeeps, ReadKeeps, ReplaceKeeps, AnnounceKeeps,
     FailPublicationKeeps, ClearKeeps, LexFailKeeps, RemoveKeeps DEF Work

\* What else the rest of the invariant needs to know of a thread's work.
LEMMA LexWorkMoves ==
    ASSUME NEW self, NEW other, NEW next, Pair(self, other), Work(self, other, next)
    PROVE  /\ next.job = self.job /\ next.for = self.for /\ next.batch = self.batch
           /\ self.pc \in Flush \union OneJob
           /\ AtHand(next) \subseteq AtHand(self)
           /\ \A j \in Changes : \/ row'[j] = row[j]
                                 \/ j \in AtHand(self) /\ row'[j] = "completed"
                                 \/ row[j] = "held" /\ row'[j] = "gone"
           /\ self.for = "last" => next.pc \in Flush \union {"stopped", "broken"}
           /\ next.pc = "idle" => ~dirty'
           /\ next.pc = "stopped" => self.for = "last" /\ ~dirty'
  <1>0. Sound(self) /\ row \in [Changes -> {"absent", "pending", "held", "completed", "gone"}]
    BY DEF Pair, LexTypeOK
  <1>1. CASE Store(self, next)
    BY <1>0, <1>1 DEF Store, Sound, Threads, AtHand
  <1>2. CASE FinishJob(self, next)
    <2>1. PICK j \in self.job :
            IF row[j] = "held"
            THEN /\ row' = [row EXCEPT ![j] = "completed"]
                 /\ next = [self EXCEPT !.pc = IF self.for = "write" THEN "remove" ELSE "mark"]
            ELSE next = [self EXCEPT !.pc = "fail"] /\ UNCHANGED row
      BY <1>2 DEF FinishJob
    <2>2. self.pc = "finish" /\ j \in AtHand(self) /\ next.pc \in {"remove", "mark", "fail"}
          /\ next.job = self.job /\ next.for = self.for /\ next.batch = self.batch
      BY <1>0, <1>2, <2>1 DEF FinishJob, Sound, Threads, AtHand
    <2>3. \A i \in Changes : row'[i] = row[i] \/ (i \in AtHand(self) /\ row'[i] = "completed")
      BY <1>0, <2>1, <2>2
    <2>4. self.for # "last"
      BY <1>0, <2>2 DEF Sound
    <2> QED BY <2>2, <2>3, <2>4 DEF AtHand
  <1>3. CASE Mark(self, other, next)
    <2>1. self.pc = "mark" /\ self.for \in {"immediate", "write"} /\ UNCHANGED row
      BY <1>0, <1>3 DEF Mark, Sound
    <2>2. Return(self.for) \in {"remove", "rest"}
      BY <2>1 DEF Return
    <2>3. next.pc \in {"renew", "remove", "rest"}
          /\ next.job = self.job /\ next.for = self.for /\ next.batch = self.batch
      BY <1>0, <1>3, <2>2 DEF Mark, Flushing, Sound, Threads
    <2> QED BY <2>1, <2>3 DEF AtHand
  <1>4. CASE RenewForPublication(self, next)
    <2>1. self.pc \in {"renew", "again"} /\ UNCHANGED <<row, leases>>
          /\ self.for \in {"immediate", "write", "idle", "last"}
      BY <1>0, <1>4 DEF RenewForPublication, Sound
    <2>2. CASE next.pc \in {"read", "write", "renew", "again"}
      <3>1. Raise(self.for) \in {"fail", "close", "broken"}
        BY <2>1 DEF Raise
      <3>2. next # Done(self, Raise(self.for))
        BY <1>0, <2>2, <3>1 DEF Done, Sound, Threads
      <3>3. \/ next = [self EXCEPT !.pc = IF self.pc = "renew" THEN "read" ELSE "write"]
            \/ \E j \in self.renew : next = [self EXCEPT !.renew = @ \ {j}]
        BY <1>4, <3>2 DEF RenewForPublication
      <3>4. next.job = self.job /\ next.for = self.for /\ next.batch = self.batch
        BY <1>0, <3>3 DEF Sound, Threads
      <3> QED BY <2>1, <2>2, <3>4 DEF AtHand
    <2>3. CASE next.pc \notin {"read", "write", "renew", "again"}
      <3>1. PICK j \in self.renew : row[j] # "held" /\ next = Done(self, Raise(self.for))
        BY <1>0, <1>4, <2>1, <2>3 DEF RenewForPublication, Sound, Threads
      <3>2. Raise(self.for) \in {"fail", "close", "broken"}
            /\ (Raise(self.for) = "broken" <=> self.for = "last")
        BY <2>1 DEF Raise
      <3>3. next.pc \in {"fail", "close", "broken"} /\ (next.pc = "broken" <=> self.for = "last")
            /\ next.job = self.job /\ next.for = self.for /\ next.batch = self.batch
        BY <1>0, <3>1, <3>2 DEF Done, Sound, Threads
      <3> QED BY <2>1, <3>1, <3>3 DEF AtHand
    <2> QED BY <2>2, <2>3
  <1>5. CASE ReadRows(self, next)
    BY <1>0, <1>5 DEF ReadRows, Sound, Threads, AtHand
  <1>6. CASE ReplaceFile(self, next)
    BY <1>0, <1>6 DEF ReplaceFile, Sound, Threads, AtHand
  <1>7. CASE Announce(self, next)
    BY <1>0, <1>7 DEF Announce, Sound, Threads, AtHand
  <1>8. CASE ClearMark(self, next)
    <2>1. self.pc = "clear" /\ self.for \in {"immediate", "write", "idle", "last"}
          /\ UNCHANGED <<row, leases>> /\ ~dirty'
      BY <1>0, <1>8 DEF ClearMark, Sound
    <2>2. Return(self.for) \in {"remove", "rest", "idle", "stopped"}
          /\ (Return(self.for) = "stopped" <=> self.for = "last")
      BY <2>1 DEF Return
    <2>3. next.pc \in {"remove", "rest", "idle", "stopped"}
          /\ (next.pc = "stopped" <=> self.for = "last")
          /\ next.job = self.job /\ next.for = self.for /\ next.batch = self.batch
      BY <1>0, <1>8, <2>2 DEF ClearMark, Done, Sound, Threads
    <2> QED BY <2>1, <2>3 DEF AtHand
  <1>9. CASE FailJob(self, next)
    <2>1. self.pc = "fail" /\ next.pc = "drop"
          /\ next.job = self.job /\ next.for = self.for /\ next.batch = self.batch
      BY <1>0, <1>9 DEF FailJob, Sound, Threads
    <2>2. \A j \in Changes : row'[j] = row[j] \/ (row[j] = "held" /\ row'[j] = "gone")
      BY <1>9 DEF FailJob
    <2>3. self.for # "last"
      BY <1>0, <2>1 DEF Sound
    <2> QED BY <2>1, <2>2, <2>3 DEF AtHand
  <1>10. CASE RemoveLease(self, next)
    <2>1. self.pc \in {"remove", "drop"} /\ next.pc \in {"mark", "rest", "batch"} /\ UNCHANGED row
          /\ next.job = self.job /\ next.for = self.for /\ next.batch = self.batch
      BY <1>0, <1>10 DEF RemoveLease, Sound, Threads
    <2>2. self.for # "last"
      BY <1>0, <2>1 DEF Sound
    <2> QED BY <2>1, <2>2 DEF AtHand
  <1>11. CASE FailPublication(self, next)
    <2>1. self.pc \in {"renew", "read", "again", "write", "announce"} /\ UNCHANGED row
          /\ self.for \in {"immediate", "write", "idle", "last"}
      BY <1>0, <1>11 DEF FailPublication, Sound
    <2>2. Raise(self.for) \in {"fail", "close", "broken"}
          /\ (Raise(self.for) = "broken" <=> self.for = "last")
      BY <2>1 DEF Raise
    <2>3. next.pc \in {"fail", "close", "broken"} /\ (next.pc = "broken" <=> self.for = "last")
          /\ next.job = self.job /\ next.for = self.for /\ next.batch = self.batch
      BY <1>0, <1>11, <2>2 DEF FailPublication, Done, Sound, Threads
    <2> QED BY <2>1, <2>3 DEF AtHand
  <1> QED
    BY <1>1, <1>2, <1>3, <1>4, <1>5, <1>6, <1>7, <1>8, <1>9, <1>10, <1>11 DEF Work

-------------------------------------------------------------------------------
\* The work of either thread, in the whole of the state.

\* The jobs at hand keep apart from those that wait, whatever a thread does to its own.
LEMMA ClaimedKeeps ==
    ASSUME LInv, NEW self \in {main, writer}, UNCHANGED submitted, main'.batch = main.batch,
           AtHand(main)' \subseteq AtHand(main), AtHand(writer)' \subseteq AtHand(writer),
           \A j \in Changes : \/ row'[j] = row[j]
                              \/ j \in AtHand(self) /\ row'[j] = "completed"
                              \/ row[j] = "held" /\ row'[j] = "gone"
    PROVE  Claimed'
  <1>1. Waiting' = Waiting /\ Waiting \subseteq Changes /\ main.batch \subseteq Changes
    <2>1. submitted \in Seq(Changes)
      BY DEF LInv, Pair, LexTypeOK
    <2> QED BY <2>1 DEF LInv, Pair, Waiting, Sound, Threads
  <1>2. \A j \in main.batch \union Waiting : row'[j] \in {"held", "gone"}
    BY <1>1 DEF LInv, Claimed
  <1> QED BY <1>1, <1>2 DEF LInv, Claimed

LEMMA MainWorks == ASSUME LInv, MainStep PROVE LInv'
  <1>0. Pair(main, writer) /\ Work(main, writer, main') /\ Alone /\ writer' = writer
    BY DEF LInv, MainStep, Alone
  <1>1. PICK next : next = main'
    OBVIOUS
  <1>2. Pair(next, writer)'
    BY <1>0, <1>1, LexWorkKeeps
  <1>3. Pair(main, writer)'
    BY <1>1, <1>2
  <1>4. /\ main'.job = main.job /\ main'.for = main.for /\ main'.batch = main.batch
        /\ main.pc \in Flush \union OneJob
        /\ AtHand(main)' \subseteq AtHand(main)
        /\ \A j \in Changes : \/ row'[j] = row[j]
                              \/ j \in AtHand(main) /\ row'[j] = "completed"
                              \/ row[j] = "held" /\ row'[j] = "gone"
        /\ main.for = "last" => main'.pc \in Flush \union {"stopped", "broken"}
        /\ main'.pc = "idle" => ~dirty'
        /\ main'.pc = "stopped" => main.for = "last" /\ ~dirty'
    BY <1>0, LexWorkMoves DEF AtHand
  <1>5. Claimed'
    BY <1>0, <1>4, ClaimedKeeps DEF Alone, AtHand
  <1>6. Awaited'
    BY <1>0, <1>4 DEF LInv, Awaited, Alone, Waiting
  <1>7. NothingLeft'
    <2>1. ~dirty' => Due(main, writer)' \subseteq announced'
      BY <1>3 DEF Pair
    <2>2. main'.for = "last" \/ main'.pc = "stopped" => writer'.pc = "rest" /\ submitted' = <<>>
      BY <1>0, <1>4 DEF LInv, NothingLeft, Alone
    <2> QED BY <1>4, <2>1, <2>2 DEF NothingLeft
  <1> QED BY <1>3, <1>5, <1>6, <1>7 DEF LInv

LEMMA WriterWorks == ASSUME LInv, WriterStep PROVE LInv'
  <1>0. Pair(writer, main) /\ Work(writer, main, writer') /\ Alone /\ main' = main
        /\ writer.pc # "rest"
    BY DEF LInv, WriterStep, Alone, Pair, Due, Work, Store, FinishJob, Mark, RenewForPublication,
           ReadRows, ReplaceFile, Announce, FailPublication, ClearMark, FailJob, RemoveLease
  <1>1. PICK next : next = writer'
    OBVIOUS
  <1>2. Pair(next, main)'
    BY <1>0, <1>1, LexWorkKeeps
  <1>3. Pair(writer, main)'
    BY <1>1, <1>2
  <1>4. Pair(main, writer)'
    BY <1>3 DEF Pair, Due
  <1>5. /\ writer'.job = writer.job /\ writer'.for = writer.for
        /\ AtHand(writer)' \subseteq AtHand(writer)
        /\ \A j \in Changes : \/ row'[j] = row[j]
                              \/ j \in AtHand(writer) /\ row'[j] = "completed"
                              \/ row[j] = "held" /\ row'[j] = "gone"
    BY <1>0, LexWorkMoves DEF AtHand
  <1>6. Claimed'
    BY <1>0, <1>5, ClaimedKeeps DEF Alone, AtHand
  <1>7. Awaited'
    BY <1>0, <1>5 DEF LInv, Awaited, Alone, Waiting
  <1>8. NothingLeft'
    <2>1. main.for # "last" /\ main.pc # "stopped" /\ ~(main.pc = "idle" /\ futures = {})
      BY <1>0 DEF LInv, NothingLeft, Awaited
    <2> QED BY <1>0, <2>1 DEF NothingLeft, Alone
  <1> QED BY <1>4, <1>6, <1>7, <1>8 DEF LInv

-------------------------------------------------------------------------------
\* The threads' own steps.

\* What a thread is when it starts something.
LEMMA Threaded ==
    ASSUME NEW pc \in {"top", "rest", "idle", "batch", "close", "stopped", "dead"},
           NEW next, next = Thread(pc)
    PROVE  /\ Sound(next) /\ next.pc = pc /\ next.batch = {} /\ next.job = {}
           /\ next.for = "none" /\ next.renew = {} /\ next.read = {}
  BY DEF Thread, Sound, Threads

LEMMA RowsStay ==
    ASSUME LexTypeOK, UNCHANGED row PROVE RowsGoOn /\ DoneJobs' = DoneJobs
  BY DEF LexTypeOK, RowsGoOn, DoneJobs

LEMMA SubmittedAre ==
    ASSUME LInv
    PROVE  /\ submitted \in Seq(Changes) /\ Waiting \subseteq Changes
           /\ main.batch \subseteq Changes /\ writer.job \subseteq Changes
  <1>1. submitted \in Seq(Changes)
    BY DEF LInv, Pair, LexTypeOK
  <1> QED BY <1>1 DEF LInv, Pair, Sound, Threads, Waiting

LEMMA BeginWriteKeeps == ASSUME LInv, BeginWrite PROVE LInv'
  <1>0. LexTypeOK /\ writer.pc = "rest" /\ submitted # <<>> /\ submitted' = Tail(submitted)
        /\ UNCHANGED <<row, stored, file, announced, starts, exposed, leases, futures, dirty, stopped, main>>
    BY DEF LInv, Pair, BeginWrite, corpusVars
  <1> DEFINE j == Head(submitted)
  <1>1. /\ submitted \in Seq(Changes) /\ Len(submitted) \in Nat /\ Len(submitted) # 0
        /\ submitted' \in Seq(Changes) /\ Len(submitted') = Len(submitted) - 1
        /\ \A i \in 1..Len(submitted') : submitted'[i] = submitted[i + 1]
        /\ j = submitted[1]
    BY <1>0 DEF LexTypeOK
  <1>2. j \in Waiting /\ j \in Changes
    BY <1>1 DEF Waiting
  <1>3. Waiting' \subseteq Waiting /\ j \notin Waiting'
    <2>1. \A i \in 1..Len(submitted') : i + 1 \in 1..Len(submitted) /\ submitted[i + 1] # submitted[1]
      BY <1>1 DEF LInv, Claimed
    <2> QED BY <1>1, <2>1 DEF Waiting
  <1>4. /\ Sound(writer') /\ writer'.pc \in {"store", "fail"} /\ writer'.job = {j}
        /\ writer'.for = "write" /\ writer'.read = {}
    <2>1. PICK pc \in {"store", "fail"} :
              writer' = [Thread(pc) EXCEPT !.job = {Head(submitted)}, !.for = "write"]
      BY DEF BeginWrite
    <2> QED BY <1>2, <2>1 DEF Thread, Sound, Threads
  <1>5. LexTypeOK' /\ RowsGoOn
    BY <1>0, <1>1, RowsStay DEF LexTypeOK
  <1>6. row[j] \in {"held", "gone"} /\ j \notin AtHand(main) /\ j \notin main.batch
    BY <1>2 DEF LInv, Claimed
  <1>7. PICK next : next = writer'
    OBVIOUS
  <1>8. Pair(next, main)'
    <2>1. Pair(writer, main)
      BY DEF LInv, Pair, Due
    <2>2. AtHand(next) \subseteq {j} /\ Unmarked(next) = {} /\ Unmarked(writer) = {}
      BY <1>0, <1>4, <1>7 DEF AtHand, Unmarked
    <2> QED BY <1>0, <1>4, <1>5, <1>6, <1>7, <2>1, <2>2, QuietKeeps
  <1>9. Pair(writer, main)'
    BY <1>7, <1>8
  <1>10. Pair(main, writer)'
    BY <1>9 DEF Pair, Due
  <1>11. AtHand(writer)' \subseteq {j} /\ AtHand(main)' = AtHand(main)
    BY <1>0, <1>4 DEF AtHand
  <1>12. \A i, k \in 1..Len(submitted') : submitted'[i] = submitted'[k] => i = k
    <2> SUFFICES ASSUME NEW i \in 1..Len(submitted'), NEW k \in 1..Len(submitted'),
                        submitted'[i] = submitted'[k]
                 PROVE  i = k
      OBVIOUS
    <2>1. i + 1 \in 1..Len(submitted) /\ k + 1 \in 1..Len(submitted)
          /\ submitted[i + 1] = submitted[k + 1]
      BY <1>1
    <2>2. i + 1 = k + 1
      BY <2>1 DEF LInv, Claimed
    <2> QED BY <2>2
  <1>13. Claimed'
    BY <1>0, <1>3, <1>6, <1>11, <1>12 DEF LInv, Claimed
  <1>14. Awaited'
    BY <1>0, <1>2, <1>3, <1>4 DEF LInv, Awaited
  <1>15. NothingLeft'
    <2>1. main.for # "last" /\ main.pc # "stopped" /\ futures # {}
      BY <1>0, <1>2 DEF LInv, NothingLeft, Awaited
    <2> QED BY <1>0, <2>1 DEF NothingLeft
  <1> QED BY <1>10, <1>13, <1>14, <1>15 DEF LInv

\* The main thread's own steps leave the writer alone; QuietKeeps for them.
LEMMA MainQuiet ==
    ASSUME LInv, LexTypeOK', RowsGoOn, UNCHANGED <<stored, file, announced, exposed, dirty, writer>>,
           Sound(main'), main'.read \subseteq stored,
           \A j \in AtHand(main)' : row[j] \in {"held", "gone"} /\ j \notin AtHand(writer),
           Unmarked(main)' = {}, Unmarked(main) = {}, main.pc # "finish",
           main'.pc \notin {"again", "write", "announce", "clear", "finish"}
    PROVE  Pair(main, writer)'
  <1>1. PICK next : next = main'
    OBVIOUS
  <1>2. AtHand(next) = AtHand(main)' /\ Unmarked(next) = {}
    BY <1>1 DEF AtHand, Unmarked
  <1>3. Pair(next, writer)'
    BY <1>1, <1>2, QuietKeeps DEF LInv
  <1> QED BY <1>1, <1>3

LEMMA DoneWritesAre ==
    ASSUME LInv
    PROVE  Waiting \subseteq futures \ DoneWrites
           /\ (writer.pc # "rest" => writer.job \subseteq futures \ DoneWrites)
  BY DEF LInv, Awaited, DoneWrites, Waiting

LEMMA LexClaimKeeps == ASSUME LInv, NEW S \in SUBSET Changes, ClaimChanges(S) PROVE LInv'
  <1>0. LexTypeOK /\ main.pc = "top" /\ (\A j \in S : row[j] = "pending")
        /\ UNCHANGED <<stored, file, announced, starts, exposed, submitted, dirty, stopped, writer, heart>>
        /\ main' = [Thread("batch") EXCEPT !.batch = S]
        /\ row' = [j \in Changes |-> IF j \in S THEN "held" ELSE row[j]]
        /\ leases' = leases \union S /\ futures' = futures \ DoneWrites
    BY DEF LInv, Pair, ClaimChanges, corpusVars
  <1>1. Sound(main') /\ main'.pc = "batch" /\ main'.batch = S /\ main'.for = "none"
        /\ main'.read = {}
    BY <1>0 DEF Thread, Sound, Threads
  <1>2. row \in [Changes -> {"absent", "pending", "held", "completed", "gone"}]
    BY <1>0 DEF LexTypeOK
  <1>3. RowsGoOn
    BY <1>0, <1>2 DEF RowsGoOn
  <1>4. futures' \subseteq Changes /\ leases' \subseteq Changes
    BY <1>0 DEF LexTypeOK
  <1>5. LexTypeOK'
    BY <1>0, <1>3, <1>4 DEF LexTypeOK, RowsGoOn
  <1>6. AtHand(main)' = {} /\ AtHand(main) = {} /\ Unmarked(main)' = {} /\ Unmarked(main) = {}
        /\ AtHand(writer)' = AtHand(writer) /\ Waiting' = Waiting
    BY <1>0, <1>1 DEF AtHand, Unmarked, Waiting
  <1>7. Pair(main, writer)'
    BY <1>0, <1>1, <1>3, <1>5, <1>6, MainQuiet
  <1>8. Claimed'
    <2>1. \A j \in Waiting : row[j] \in {"held", "gone"} /\ j \in Changes
      BY SubmittedAre DEF LInv, Claimed
    <2>2. \A j \in AtHand(writer) : row[j] \in {"held", "gone"}
      BY DEF LInv, Pair
    <2>3. \A j \in S \union Waiting : row'[j] \in {"held", "gone"}
      BY <1>0, <2>1
    <2>4. S \intersect (Waiting \union AtHand(writer)) = {}
      BY <1>0, <2>1, <2>2
    <2> QED BY <1>0, <1>1, <1>6, <2>3, <2>4 DEF LInv, Claimed
  <1>9. Awaited'
    BY <1>0, <1>1, <1>6, DoneWritesAre DEF LInv, Awaited
  <1>10. NothingLeft'
    BY <1>1 DEF NothingLeft
  <1> QED BY <1>7, <1>8, <1>9, <1>10 DEF LInv

\* Nothing is claimed: the thread waits only when no mark asks for a publication.
LEMMA NothingClaimedKeeps == ASSUME LInv, NothingClaimed PROVE LInv'
  <1>0. LexTypeOK /\ main.pc = "top" /\ Sound(main)
        /\ UNCHANGED <<row, stored, file, announced, starts, exposed, leases, submitted, dirty, stopped, writer, heart>>
        /\ futures' \in {futures, futures \ DoneWrites}
        /\ main' = IF futures' = {} /\ dirty THEN [Flushing(main) EXCEPT !.for = "idle"]
                                             ELSE Thread("idle")
    BY DEF LInv, Pair, NothingClaimed, corpusVars
  <1>1. /\ Sound(main') /\ main'.batch \subseteq main.batch /\ main'.for \in {"none", "idle"}
        /\ main'.read \subseteq stored
        /\ main'.pc \in {"renew", "idle"} /\ (main'.pc = "idle" => ~(futures' = {} /\ dirty))
    <2>1. CASE futures' = {} /\ dirty
      BY <1>0, <2>1 DEF Flushing, Sound, Threads, LInv, Pair, StoredFirst, LexTypeOK
    <2>2. CASE ~(futures' = {} /\ dirty)
      BY <1>0, <2>2, Threaded
    <2> QED BY <2>1, <2>2
  <1>2. LexTypeOK' /\ RowsGoOn /\ DoneJobs' = DoneJobs
    BY <1>0, RowsStay DEF LexTypeOK
  <1>3. AtHand(main)' = {} /\ AtHand(main) = {} /\ Unmarked(main)' = {} /\ Unmarked(main) = {}
        /\ AtHand(writer)' = AtHand(writer) /\ Waiting' = Waiting
    BY <1>0, <1>1 DEF AtHand, Unmarked, Waiting
  <1>4. Pair(main, writer)'
    BY <1>0, <1>1, <1>2, <1>3, MainQuiet
  <1>5. Claimed'
    BY <1>0, <1>1, <1>3 DEF LInv, Claimed
  <1>6. Awaited'
    BY <1>0, <1>1, <1>3, DoneWritesAre DEF LInv, Awaited
  <1>7. NothingLeft'
    <2>1. main'.pc = "idle" /\ futures' = {} => Due(main, writer)' \subseteq announced'
      BY <1>0, <1>1, <1>4 DEF Pair
    <2> QED BY <1>1, <2>1 DEF NothingLeft
  <1> QED BY <1>4, <1>5, <1>6, <1>7 DEF LInv

\* Ends of the loop's body.
LEMMA TurnKeeps == ASSUME LInv, Wake \/ LeaveLoop \/ EndBatch PROVE LInv'
  <1>0. LexTypeOK /\ main.pc \in {"top", "idle", "batch"} /\ main' \in {Thread("close"), Thread("top")}
        /\ UNCHANGED <<row, stored, file, announced, starts, exposed, leases, futures, submitted, dirty, stopped, writer, heart>>
    BY DEF LInv, Pair, Wake, LeaveLoop, EndBatch, corpusVars, sharedVars
  <1>1. Sound(main') /\ main'.batch = {} /\ main'.for = "none" /\ main'.read = {}
        /\ main'.pc \in {"close", "top"}
    BY <1>0, Threaded
  <1>2. LexTypeOK' /\ RowsGoOn
    BY <1>0, RowsStay DEF LexTypeOK
  <1>3. AtHand(main)' = {} /\ AtHand(main) = {} /\ Unmarked(main)' = {} /\ Unmarked(main) = {}
        /\ AtHand(writer)' = AtHand(writer) /\ Waiting' = Waiting
    BY <1>0, <1>1 DEF AtHand, Unmarked, Waiting
  <1>4. Pair(main, writer)'
    BY <1>0, <1>1, <1>2, <1>3, MainQuiet
  <1>5. Claimed' /\ Awaited' /\ NothingLeft'
    BY <1>0, <1>1, <1>3 DEF LInv, Claimed, Awaited, NothingLeft
  <1> QED BY <1>4, <1>5 DEF LInv

LEMMA PerformKeeps == ASSUME LInv, NEW j \in Changes, Perform(j) PROVE LInv'
  <1>0. LexTypeOK /\ Sound(main) /\ main.pc = "batch" /\ j \in main.batch /\ main.read \subseteq stored
        /\ UNCHANGED <<row, stored, file, announced, starts, exposed, leases, futures, submitted, dirty, stopped, writer, heart>>
    BY DEF LInv, Pair, StoredFirst, Perform, corpusVars, sharedVars
  <1>1. PICK pc \in {"store", "fail"} :
            main' = [main EXCEPT !.pc = pc, !.batch = @ \ {j}, !.job = {j}, !.for = "immediate"]
    BY DEF Perform
  <1>2. Sound(main') /\ main'.pc = pc /\ main'.batch = main.batch \ {j} /\ main'.job = {j}
        /\ main'.for = "immediate" /\ main'.read \subseteq stored
    BY <1>0, <1>1 DEF Sound, Threads
  <1>3. LexTypeOK' /\ RowsGoOn
    BY <1>0, RowsStay DEF LexTypeOK
  <1>4. AtHand(main)' \subseteq {j} /\ AtHand(main) = {} /\ Unmarked(main)' = {} /\ Unmarked(main) = {}
        /\ AtHand(writer)' = AtHand(writer) /\ Waiting' = Waiting
    BY <1>0, <1>2 DEF AtHand, Unmarked, Waiting
  <1>5. row[j] \in {"held", "gone"} /\ j \notin AtHand(writer) /\ j \notin Waiting
    BY <1>0 DEF LInv, Claimed
  <1>6. Pair(main, writer)'
    BY <1>0, <1>2, <1>3, <1>4, <1>5, MainQuiet
  <1>7. Claimed'
    BY <1>0, <1>2, <1>4, <1>5 DEF LInv, Claimed
  <1>8. Awaited' /\ NothingLeft'
    BY <1>0, <1>2, <1>4 DEF LInv, Awaited, NothingLeft
  <1> QED BY <1>6, <1>7, <1>8 DEF LInv

\* A prepared job goes from the batch to the writer, or fails, or ends the process.
LEMMA PrepareKeeps == ASSUME LInv, NEW j \in Changes, Prepare(j) PROVE LInv'
  <1>0. LexTypeOK /\ Sound(main) /\ main.pc = "batch" /\ j \in main.batch /\ main.read \subseteq stored
        /\ UNCHANGED <<row, stored, file, announced, starts, exposed, leases, dirty, stopped, writer, heart>>
    BY DEF LInv, Pair, StoredFirst, Prepare, corpusVars
  <1>1. \/ /\ submitted' = Append(submitted, j) /\ futures' = futures \union {j}
           /\ main' = [main EXCEPT !.batch = @ \ {j}]
        \/ /\ UNCHANGED <<submitted, futures>>
           /\ main' \in {[main EXCEPT !.pc = "fail", !.batch = @ \ {j}, !.job = {j}, !.for = "immediate"],
                         Thread("close")}
    BY DEF Prepare
  <1>2. /\ Sound(main') /\ main'.pc \in {"batch", "fail", "close"}
        /\ main'.batch \subseteq main.batch /\ main'.for \in {main.for, "immediate", "none"}
        /\ main'.read \subseteq stored
        /\ (main'.for = main.for => main'.renew \subseteq main.renew)
        /\ (submitted' # submitted => j \notin main'.batch)
    <2>1. CASE main' = [main EXCEPT !.batch = @ \ {j}]
      BY <1>0, <2>1 DEF Sound, Threads
    <2>2. CASE /\ submitted' = submitted
               /\ main' = [main EXCEPT !.pc = "fail", !.batch = @ \ {j}, !.job = {j}, !.for = "immediate"]
      BY <1>0, <2>2 DEF Sound, Threads
    <2>3. CASE submitted' = submitted /\ main' = Thread("close")
      <3>1. Sound(main') /\ main'.batch = {} /\ main'.for = "none" /\ main'.read = {}
            /\ main'.renew = {} /\ main'.pc = "close"
        BY <2>3, Threaded
      <3> QED BY <2>3, <3>1
    <2> QED BY <1>1, <2>1, <2>2, <2>3
  <1>3. LexTypeOK' /\ RowsGoOn
    <2>1. submitted' \in Seq(Changes) /\ futures' \subseteq Changes
      BY <1>0, <1>1 DEF LexTypeOK
    <2> QED BY <1>0, <2>1, RowsStay DEF LexTypeOK
  <1>4. AtHand(main)' = {} /\ AtHand(main) = {} /\ Unmarked(main)' = {} /\ Unmarked(main) = {}
        /\ AtHand(writer)' = AtHand(writer)
    BY <1>0, <1>2 DEF AtHand, Unmarked
  <1>5. row[j] \in {"held", "gone"} /\ j \notin AtHand(writer) /\ j \notin Waiting
    BY <1>0 DEF LInv, Claimed
  <1>6. Pair(main, writer)'
    BY <1>0, <1>2, <1>3, <1>4, MainQuiet
  <1>7. CASE UNCHANGED <<submitted, futures>>
    <2>1. Waiting' = Waiting
      BY <1>7 DEF Waiting
    <2>2. Claimed'
      BY <1>0, <1>2, <1>4, <1>7, <2>1 DEF LInv, Claimed
    <2>3. Awaited'
      BY <1>0, <1>2, <1>7, <2>1 DEF LInv, Awaited
    <2>4. NothingLeft'
      BY <1>0, <1>2, <1>7 DEF LInv, NothingLeft
    <2> QED BY <1>6, <2>2, <2>3, <2>4 DEF LInv
  <1>8. CASE submitted' = Append(submitted, j) /\ futures' = futures \union {j}
    <2>1. /\ submitted \in Seq(Changes) /\ Len(submitted) \in Nat
          /\ Len(submitted') = Len(submitted) + 1
          /\ submitted'[Len(submitted) + 1] = j
          /\ \A i \in 1..Len(submitted) : submitted'[i] = submitted[i]
      BY <1>0, <1>8 DEF LexTypeOK
    <2>2. \A i \in 1..Len(submitted') :
              i = Len(submitted) + 1 \/ (i \in 1..Len(submitted) /\ submitted'[i] = submitted[i])
      BY <2>1
    <2>3. Waiting' \subseteq Waiting \union {j}
      BY <2>1, <2>2 DEF Waiting
    <2>4. \A i, k \in 1..Len(submitted') : submitted'[i] = submitted'[k] => i = k
      <3>1. \A i \in 1..Len(submitted) : submitted[i] # j
        BY <1>5 DEF Waiting
      <3> QED BY <2>1, <2>2, <3>1 DEF LInv, Claimed
    <2>5. j \notin main'.batch
      <3>1. submitted' # submitted
        BY <2>1
      <3> QED BY <3>1, <1>2
    <2>6. Claimed'
      BY <1>0, <1>2, <1>4, <1>5, <2>3, <2>4, <2>5 DEF LInv, Claimed
    <2>7. Awaited'
      BY <1>0, <1>2, <1>8, <2>3 DEF LInv, Awaited
    <2>8. NothingLeft'
      BY <1>0, <1>2 DEF LInv, NothingLeft
    <2> QED BY <1>6, <2>6, <2>7, <2>8 DEF LInv
  <1> QED BY <1>1, <1>7, <1>8

LEMMA CloseKeeps == ASSUME LInv, Close PROVE LInv'
  <1>0. LexTypeOK /\ main.pc = "close" /\ Sound(main) /\ main.read \subseteq stored
        /\ writer.pc = "rest" /\ submitted = <<>> /\ futures' = {} /\ stopped' = TRUE
        /\ UNCHANGED <<row, stored, file, announced, starts, exposed, leases, submitted, dirty, writer>>
        /\ main' = IF dirty THEN [Flushing(main) EXCEPT !.for = "last"] ELSE Thread("stopped")
    BY DEF LInv, Pair, StoredFirst, Close, corpusVars
  <1>1. /\ Sound(main') /\ main'.batch \subseteq main.batch /\ main'.for \in {"none", "last"}
        /\ main'.read \subseteq stored
        /\ main'.pc \in {"renew", "stopped"} /\ (main'.pc = "stopped" => ~dirty)
    <2>1. CASE dirty
      BY <1>0, <2>1 DEF Flushing, Sound, Threads, LexTypeOK
    <2>2. CASE ~dirty
      BY <1>0, <2>2, Threaded
    <2> QED BY <2>1, <2>2
  <1>2. LexTypeOK' /\ RowsGoOn
    BY <1>0, RowsStay DEF LexTypeOK
  <1>3. AtHand(main)' = {} /\ AtHand(main) = {} /\ Unmarked(main)' = {} /\ Unmarked(main) = {}
        /\ AtHand(writer)' = AtHand(writer) /\ Waiting' = Waiting
    BY <1>0, <1>1 DEF AtHand, Unmarked, Waiting
  <1>4. Pair(main, writer)'
    BY <1>0, <1>1, <1>2, <1>3, MainQuiet
  <1>5. Claimed'
    BY <1>0, <1>1, <1>3 DEF LInv, Claimed
  <1>6. Waiting = {}
    BY <1>0 DEF Waiting
  <1>7. Awaited'
    BY <1>0, <1>1, <1>3, <1>6 DEF Awaited
  <1>8. NothingLeft'
    <2>1. main'.pc = "stopped" => Due(main, writer)' \subseteq announced'
      BY <1>0, <1>1, <1>4 DEF Pair
    <2> QED BY <1>0, <1>1, <2>1 DEF NothingLeft
  <1> QED BY <1>4, <1>5, <1>7, <1>8 DEF LInv

-------------------------------------------------------------------------------
\* The rest of the system.

\* Steps outside the two threads: rows arrive or are lost, the stop flag, the heartbeat.
LEMMA LexOutsideKeeps ==
    ASSUME LInv, RowsGoOn, stopped' \in BOOLEAN,
           UNCHANGED <<corpusVars, leases, futures, submitted, dirty, main, writer>>
    PROVE  LInv'
  <1>0. UNCHANGED <<stored, file, announced, starts, exposed, leases, futures, submitted, dirty, main, writer>>
    BY DEF corpusVars
  <1>1. /\ DoneJobs' = DoneJobs /\ Waiting' = Waiting
        /\ \A j \in Changes : row[j] \in {"held", "gone"} => row'[j] \in {"held", "gone"}
        /\ \A j \in Changes : row[j] = "gone" => row'[j] = "gone"
    BY <1>0, RowsKeep DEF Waiting
  <1>2. /\ Unmarked(main)' = Unmarked(main) /\ Unmarked(writer)' = Unmarked(writer)
        /\ AtHand(main)' = AtHand(main) /\ AtHand(writer)' = AtHand(writer)
        /\ Due(main, writer)' = Due(main, writer) /\ Due(writer, main)' = Due(writer, main)
    BY <1>0, <1>1 DEF Unmarked, AtHand, Due
  <1>3. LexTypeOK' /\ stored \subseteq Changes /\ leases \subseteq Changes
    BY <1>0 DEF LInv, Pair, LexTypeOK, RowsGoOn
  <1>4. LatestRead(main, writer)' /\ LatestRead(writer, main)'
    BY <1>0, <1>1, <1>2, <1>3 DEF LInv, Pair, LatestRead
  <1>5. \A j \in AtHand(main) \union AtHand(writer) : row'[j] \in {"held", "gone"}
    <2> SUFFICES ASSUME NEW j \in AtHand(main) \union AtHand(writer)
                 PROVE  row'[j] \in {"held", "gone"}
      OBVIOUS
    <2>1. j \in Changes /\ row[j] \in {"held", "gone"}
      BY DEF LInv, Pair, AtHand, Sound, Threads
    <2> QED BY <2>1, <1>1
  <1>6. Pair(main, writer)'
    BY <1>0, <1>1, <1>2, <1>3, <1>4, <1>5 DEF LInv, Pair, Sound, StoredFirst, Carried
  <1>7. Claimed'
    <2>1. \A j \in main.batch \union Waiting : row'[j] \in {"held", "gone"}
      BY <1>1, SubmittedAre DEF LInv, Claimed
    <2> QED BY <1>0, <1>1, <1>2, <2>1 DEF LInv, Claimed
  <1>8. Awaited'
    BY <1>0, <1>1 DEF LInv, Awaited
  <1>9. NothingLeft'
    BY <1>0, <1>2 DEF LInv, NothingLeft
  <1> QED BY <1>6, <1>7, <1>8, <1>9 DEF LInv

LEMMA ArriveKeeps == ASSUME LInv, NEW j \in Changes, Arrive(j) \/ Lose(j) PROVE LInv'
  <1>1. row \in [Changes -> {"absent", "pending", "held", "completed", "gone"}] /\ stopped \in BOOLEAN
    BY DEF LInv, Pair, LexTypeOK
  <1>2. \/ row[j] = "absent" /\ row' = [row EXCEPT ![j] = "pending"]
        \/ row[j] = "held" /\ row' = [row EXCEPT ![j] = "gone"]
    BY DEF Arrive, Lose
  <1>3. RowsGoOn
    BY <1>1, <1>2 DEF RowsGoOn
  <1>4. UNCHANGED <<corpusVars, leases, futures, submitted, dirty, stopped, main, writer>>
    BY DEF Arrive, Lose, sharedVars
  <1> QED BY <1>1, <1>3, <1>4, LexOutsideKeeps

LEMMA BeatKeeps == ASSUME LInv, Stop \/ Beat \/ RenewLease \/ UNCHANGED lexVars PROVE LInv'
  <1>1. UNCHANGED <<row, corpusVars, leases, futures, submitted, dirty, main, writer>>
    BY DEF Stop, Beat, RenewLease, sharedVars, corpusVars, lexVars
  <1>2. stopped' = stopped \/ stopped' = TRUE
    BY DEF Stop, Beat, RenewLease, sharedVars, lexVars
  <1>3. stopped' \in BOOLEAN
    BY <1>2 DEF LInv, Pair, LexTypeOK
  <1>4. RowsGoOn
    BY <1>1, RowsStay DEF LInv, Pair
  <1> QED BY <1>1, <1>3, <1>4, LexOutsideKeeps

\* What two threads that begin have to do with each other.
LEMMA Begun ==
    ASSUME LexTypeOK, main = Thread("top"), writer = Thread("rest"), submitted = <<>>,
           DoneJobs \subseteq stored, file \subseteq stored, DoneJobs \ exposed \subseteq announced
    PROVE  LInv
  <1>1. /\ Sound(main) /\ main.pc = "top" /\ main.batch = {} /\ main.for = "none" /\ main.read = {}
        /\ Sound(writer) /\ writer.pc = "rest" /\ writer.read = {}
    BY Threaded
  <1>2. AtHand(main) = {} /\ AtHand(writer) = {} /\ Unmarked(main) = {} /\ Unmarked(writer) = {}
    BY <1>1 DEF AtHand, Unmarked
  <1>3. Waiting = {} /\ Len(submitted) = 0
    BY DEF Waiting
  <1>4. Pair(main, writer)
    BY <1>1, <1>2 DEF Pair, StoredFirst, LatestRead, Carried, Due
  <1>5. Claimed /\ Awaited /\ NothingLeft
    BY <1>1, <1>2, <1>3 DEF Claimed, Awaited, NothingLeft
  <1> QED BY <1>4, <1>5 DEF LInv

\* A death leaves the marks behind, and exposes what they spoke for.
LEMMA RestartKeeps == ASSUME LInv, Restart PROVE LInv'
  <1>0. LexTypeOK /\ DoneJobs \subseteq stored /\ file \subseteq stored
    BY DEF LInv, Pair
  <1>1. row' \in [Changes -> {"absent", "pending", "held", "completed", "gone"}]
        /\ DoneJobs' = DoneJobs
    BY <1>0 DEF Restart, LexTypeOK, DoneJobs
  <1>2. DoneJobs \subseteq Changes /\ submitted' \in Seq(Changes) /\ starts' \in 1..MaxStarts
    BY <1>0, PublicationAssumption DEF Restart, LexTypeOK, DoneJobs
  <1>3. LexTypeOK'
    BY <1>0, <1>1, <1>2 DEF Restart, LexTypeOK
  <1>4. /\ main' = Thread("top") /\ writer' = Thread("rest") /\ submitted' = <<>>
        /\ DoneJobs' \subseteq stored' /\ file' \subseteq stored'
        /\ DoneJobs' \ exposed' \subseteq announced'
    BY <1>0, <1>1 DEF Restart
  <1>5. /\ Sound(main') /\ main'.pc = "top" /\ main'.batch = {} /\ main'.for = "none" /\ main'.read = {}
        /\ Sound(writer') /\ writer'.pc = "rest" /\ writer'.read = {}
    BY <1>4, Threaded
  <1>6. AtHand(main)' = {} /\ AtHand(writer)' = {} /\ Unmarked(main)' = {} /\ Unmarked(writer)' = {}
    BY <1>5 DEF AtHand, Unmarked
  <1>7. Waiting' = {} /\ Len(submitted') = 0
    BY <1>4 DEF Waiting
  <1>8. Pair(main, writer)'
    BY <1>3, <1>4, <1>5, <1>6 DEF Pair, StoredFirst, LatestRead, Carried, Due
  <1>9. Claimed' /\ Awaited' /\ NothingLeft'
    BY <1>5, <1>6, <1>7 DEF Claimed, Awaited, NothingLeft
  <1> QED BY <1>8, <1>9 DEF LInv

-------------------------------------------------------------------------------
LEMMA LexInitHolds == LexInit => LInv
  <1> SUFFICES ASSUME LexInit PROVE LInv
    OBVIOUS
  <1>1. DoneJobs = {}
    BY DEF LexInit, DoneJobs
  <1>2. 1 \in 1..MaxStarts /\ <<>> \in Seq(Changes)
    BY PublicationAssumption
  <1>3. row \in [Changes -> {"absent", "pending", "held", "completed", "gone"}]
    BY DEF LexInit
  <1>4. dirty \in BOOLEAN /\ stopped \in BOOLEAN
    BY DEF LexInit
  <1>5. LexTypeOK
    BY <1>2, <1>3, <1>4 DEF LexInit, LexTypeOK
  <1> QED BY <1>1, <1>5, Begun DEF LexInit

LEMMA StepKeeps == LInv /\ [LexNext]_lexVars => LInv'
  <1> SUFFICES ASSUME LInv, [LexNext]_lexVars PROVE LInv'
    OBVIOUS
  <1>1. CASE \E j \in Changes : Arrive(j) \/ Lose(j) BY <1>1, ArriveKeeps
  <1>2. CASE Stop \/ Beat \/ RenewLease \/ UNCHANGED lexVars BY <1>2, BeatKeeps
  <1>3. CASE Restart BY <1>3, RestartKeeps
  <1>4. CASE MainThread
    BY <1>4, LexClaimKeeps, NothingClaimedKeeps, TurnKeeps, MainWorks, CloseKeeps, PerformKeeps,
       PrepareKeeps DEF MainThread
  <1>5. CASE WriterThread BY <1>5, BeginWriteKeeps, WriterWorks DEF WriterThread
  <1> QED BY <1>1, <1>2, <1>3, <1>4, <1>5 DEF LexNext

(***************************************************************************)
(* The inductive invariant: which changes each mark, each snapshot being   *)
(* written and each publication answers for.                               *)
(***************************************************************************)
THEOREM PublicationInvariant == LexSpec => []LInv
  BY LexInitHolds, StepKeeps, PTL DEF LexSpec

(***************************************************************************)
(* Where the indexer waits for work or has ended, every completed change   *)
(* is published but those whose mark was exposed (drain_once, run), for    *)
(* any number of jobs and deaths, and wherever publications fail on the    *)
(* way; a run() that its last publication leaves by an exception is not    *)
(* "ended" here.                                                           *)
(***************************************************************************)
THEOREM RestPublishes == LexSpec => []RestIsPublished
  <1>1. LInv => RestIsPublished
    <2> SUFFICES ASSUME LInv, main.pc \in {"idle", "stopped"}, futures = {}
                 PROVE  DoneJobs \ exposed \subseteq announced
      BY DEF RestIsPublished
    <2>1. Due(main, writer) \subseteq announced
      BY DEF LInv, NothingLeft
    <2>2. writer.pc = "rest"
      BY DEF LInv, Awaited
    <2>3. Unmarked(main) = {} /\ Unmarked(writer) = {}
      BY <2>2 DEF Unmarked
    <2> QED BY <2>1, <2>3 DEF Due
  <1> QED BY <1>1, PublicationInvariant, PTL

(***************************************************************************)
(* No publication takes a completed change out of the snapshot again       *)
(* (publish_bm25_generation), though two threads may replace the file in   *)
(* the other order than they read the rows.                                *)
(***************************************************************************)
THEOREM SnapshotsGrow == LexSpec => NothingIsTakenBack
  <1>1. LInv /\ [LexNext]_lexVars => [(file \intersect DoneJobs) \ exposed' \subseteq file']_lexVars
    <2> SUFFICES ASSUME LInv, LexNext PROVE (file \intersect DoneJobs) \ exposed' \subseteq file'
      OBVIOUS
    <2>1. ASSUME NEW self, NEW other, NEW next, Pair(self, other), Work(self, other, next)
          PROVE  (file \intersect DoneJobs) \ exposed' \subseteq file'
      <3>1. CASE file' = file BY <3>1
      <3>2. CASE file' # file
        <4>1. ReplaceFile(self, next)
          BY <2>1, <3>2 DEF Work, Store, FinishJob, Mark, RenewForPublication, ReadRows, Announce,
                            FailPublication, ClearMark, FailJob, RemoveLease
        <4>2. self.pc = "write" /\ file' = self.read /\ exposed' = exposed
          BY <4>1 DEF ReplaceFile
        <4>3. \A j \in file \intersect DoneJobs : row[j] = "completed" /\ j \in stored
          BY <2>1 DEF Pair, DoneJobs
        <4> QED BY <2>1, <4>2, <4>3 DEF Pair, LatestRead
      <3> QED BY <3>1, <3>2
    <2>2. CASE MainStep
      BY <2>1, <2>2 DEF LInv, MainStep
    <2>3. CASE WriterStep
      <3>1. Pair(writer, main)
        BY DEF LInv, Pair, Due
      <3> QED BY <2>1, <2>3, <3>1 DEF WriterStep
    <2>4. CASE ~MainStep /\ ~WriterStep
      <3>1. file' = file
        BY <2>4 DEF LexNext, MainThread, WriterThread, Arrive, Lose, Stop, Restart, Beat, RenewLease,
               ClaimChanges, NothingClaimed, Wake, LeaveLoop, EndBatch, Close, Perform, Prepare, BeginWrite,
               corpusVars
      <3> QED BY <3>1
    <2> QED BY <2>2, <2>3, <2>4
  <1> QED BY <1>1, PublicationInvariant, PTL DEF LexSpec, NothingIsTakenBack

-------------------------------------------------------------------------------
(***************************************************************************)
(* The quota of a personal workspace holds, for any number of places,      *)
(* requests, versions and mishaps.                                         *)
(*                                                                         *)
(* That the accepted files do not exceed the quota is not inductive: an    *)
(* upload asks for what is used and commits much later.  It is so because  *)
(* the upload that asked has the workspace to itself, so that there are    *)
(* never more accepted files than it has counted, and because nothing but  *)
(* the commit of an upload makes a file accepted: what the reconciler      *)
(* writes is from the file system or a later version.                      *)
(***************************************************************************)

TextsOrNone == Contents \cup {NoFile}
Operations == {"upsert_version", "delete_asset", NoFile}

UploadStages ==
    {"new", "counted", "placed", "inserted", "stored", "undone", "refused", "cut off"}
RemovalStages ==
    {"new", "loaded", "found", "missing", "flushed", "moved", "moved new", "gone", "undone",
     "failed", "cut off"}

UploadRecs == [pc : UploadStages, used : Nat, text : TextsOrNone]
RemovalRecs == [pc : RemovalStages, place : Places \cup {NoFile}, status : Status \cup {NoFile},
             version : DocVersions \cup {0}]
SyncRecs ==
    [pc : {"idle", "scanned", "looking", "marking", "down"}, listed : SUBSET Places,
     loaded : [Places -> Docs \cup {NoFile}], todo : SUBSET Places,
     hashed : Places \cup {NoFile}, text : TextsOrNone, written : [Places -> TextsOrNone],
     open : SUBSET Places]

Shape ==
    /\ disk \in [Places -> TextsOrNone] /\ trash \in [Places -> TextsOrNone]
    /\ doc \in [Places -> Docs \cup {NoFile}]
    /\ task \in [Places -> [DocVersions -> Operations]]
    /\ upload \in [Places -> UploadRecs]
    /\ removal \in [Removers -> RemovalRecs]
    /\ sync \in SyncRecs
    /\ touched \in SUBSET Places

\* What a request, a job or the reconciler has found is never taken away.
Known ==
    /\ \A p \in Places : upload[p].pc # "new" => upload[p].text \in Contents
    /\ \A r \in Removers : removal[r].pc # "new" =>
         /\ removal[r].place \in Places /\ doc[removal[r].place] \in Docs
         /\ removal[r].version \in DocVersions
    /\ \A p \in Places : sync.loaded[p] # NoFile => doc[p] \in Docs
    /\ \A p \in Places, v \in DocVersions : task[p][v] # NoFile => doc[p] \in Docs
    /\ sync.todo \subseteq sync.listed /\ (sync.pc # "looking" => sync.todo = {})

FInv == Shape /\ Known

\* One upload at a time has the workspace; since it counted, no more has been accepted,
\* and beyond the count there was room for its file.
OneHolds == \A p, q \in Places : HoldsWorkspace(p) /\ HoldsWorkspace(q) => p = q
CountStands == \A p \in Places : HoldsWorkspace(p) => Cardinality(Accepted) <= upload[p].used
HasRoom == \A p \in Places : upload[p].pc \in {"placed", "inserted"} => upload[p].used + 1 <= Quota

QInv == OneHolds /\ CountStands /\ HasRoom /\ QuotaIsKept

-------------------------------------------------------------------------------
(* Shape and Known *)

LEMMA NewDocType == ASSUME NEW t \in Contents, NEW s \in {"upload", "sync"} PROVE NewDoc(t, s) \in Docs
  BY PersonalFilesAssumption DEF NewDoc, Docs, Status, DocVersions

\* The rows stay, and so does what is known, when requests and reconciler learn nothing new.
LEMMA Learn ==
    ASSUME FInv, doc' = doc, task' = task
    PROVE  /\ \A p \in Places, v \in DocVersions : task'[p][v] # NoFile => doc'[p] \in Docs
           /\ sync' = sync => (\A p \in Places : sync'.loaded[p] # NoFile => doc'[p] \in Docs)
  BY DEF FInv, Known

LEMMA UploadStep ==
    ASSUME FInv, NEW p \in Places, NEW from, NEW to \in UploadStages, "new" \notin from,
           UploadGoes(p, from, to)
    PROVE  /\ upload' \in [Places -> UploadRecs]
           /\ \A q \in Places : upload'[q].pc # "new" => upload'[q].text \in Contents
           /\ upload[p].text \in Contents
  <1>1. upload[p].pc # "new" /\ upload[p].text \in Contents
    BY DEF FInv, Known, UploadGoes
  <1>2. upload' \in [Places -> UploadRecs]
    BY DEF FInv, Shape, UploadGoes, UploadRecs
  <1>3. \A q \in Places : upload'[q].pc # "new" => upload'[q].text \in Contents
    BY <1>1 DEF FInv, Shape, Known, UploadGoes, UploadRecs
  <1> QED BY <1>1, <1>2, <1>3

LEMMA StoredKeeps ==
    ASSUME FInv, NEW p \in Places, Stored(p), upload[p].text \in Contents
    PROVE  /\ doc' \in [Places -> Docs \cup {NoFile}]
           /\ task' \in [Places -> [DocVersions -> Operations]]
           /\ \A q \in Places : doc[q] \in Docs => doc'[q] \in Docs
           /\ \A q \in Places, v \in DocVersions : task'[q][v] # NoFile => doc'[q] \in Docs
  <1>1. NewDoc(upload[p].text, "upload") \in Docs
    BY NewDocType
  <1>2. doc' \in [Places -> Docs \cup {NoFile}] /\ doc'[p] \in Docs
    BY <1>1 DEF FInv, Shape, Stored
  <1>3. \A q \in Places : q # p => doc'[q] = doc[q] /\ task'[q] = task[q]
    BY DEF FInv, Shape, Stored
  <1>4. task' \in [Places -> [DocVersions -> Operations]]
    BY DEF FInv, Shape, Stored, Operations
  <1> QED BY <1>2, <1>3, <1>4 DEF FInv, Known

\* A step of an upload keeps everything, if it leaves the rows or stores them.
LEMMA UploadKeeps ==
    ASSUME FInv, NEW p \in Places, NEW from, NEW to \in UploadStages, "new" \notin from,
           UploadGoes(p, from, to), disk' \in [Places -> TextsOrNone],
           UNCHANGED records \/ Stored(p)
    PROVE  FInv'
  <1>1. /\ upload' \in [Places -> UploadRecs] /\ upload[p].text \in Contents
        /\ \A q \in Places : upload'[q].pc # "new" => upload'[q].text \in Contents
    BY UploadStep
  <1>2. /\ doc' \in [Places -> Docs \cup {NoFile}]
        /\ task' \in [Places -> [DocVersions -> Operations]]
        /\ \A q \in Places : doc[q] \in Docs => doc'[q] \in Docs
        /\ \A q \in Places, v \in DocVersions : task'[q][v] # NoFile => doc'[q] \in Docs
    <2>1. CASE UNCHANGED records BY <2>1 DEF FInv, Shape, Known, records
    <2>2. CASE Stored(p) BY <2>2, <1>1, StoredKeeps
    <2> QED BY <2>1, <2>2
  <1>3. trash' = trash /\ removal' = removal /\ sync' = sync /\ touched' = touched
    BY DEF UploadGoes
  <1>4. Shape'
    BY <1>1, <1>2, <1>3 DEF FInv, Shape
  <1>5. Known'
    BY <1>1, <1>2, <1>3 DEF FInv, Known
  <1> QED BY <1>4, <1>5 DEF FInv

LEMMA CountKeeps == ASSUME FInv, NEW p \in Places, Count(p) PROVE FInv'
  <1> DEFINE n == Cardinality({q \in Places : Counts(doc[q])})
  <1>1. n \in Nat
    BY PersonalFilesAssumption, FS_Subset, FS_CardinalityType
  <1>2. PICK t \in Uploaded : upload' = [upload EXCEPT ![p] = [pc |-> "counted", used |-> n, text |-> t]]
    BY DEF Count
  <1>3. t \in Contents
    BY PersonalFilesAssumption
  <1> HIDE DEF n
  <1>4. upload' \in [Places -> UploadRecs]
    BY <1>1, <1>2, <1>3 DEF FInv, Shape, UploadRecs, UploadStages, TextsOrNone
  <1>5. \A q \in Places : upload'[q].pc # "new" => upload'[q].text \in Contents
    BY <1>2, <1>3 DEF FInv, Shape, Known
  <1>6. UNCHANGED <<disk, trash, doc, task, removal, sync, touched>>
    BY DEF Count, files, records
  <1>7. Shape'
    BY <1>4, <1>6 DEF FInv, Shape
  <1>8. Known'
    BY <1>5, <1>6 DEF FInv, Known
  <1> QED BY <1>7, <1>8 DEF FInv

LEMMA UploadsKeep ==
    ASSUME FInv, NEW p \in Places,
           Place(p) \/ Refuse(p) \/ Insert(p) \/ CommitUpload(p) \/ FailUpload(p) \/ Unlink(p)
    PROVE  FInv'
  <1> USE DEF UploadStages
  <1>1. CASE Place(p)
    <2>1. upload[p].text \in Contents
      BY <1>1 DEF Place, UploadGoes, FInv, Known
    <2>2. disk' \in [Places -> TextsOrNone]
      BY <1>1, <2>1 DEF Place, FInv, Shape, TextsOrNone
    <2> QED BY <1>1, <2>2, UploadKeeps DEF Place
  <1>2. CASE Refuse(p)
    <2>1. disk' \in [Places -> TextsOrNone]
      BY <1>2 DEF Refuse, FInv, Shape
    <2> QED BY <1>2, <2>1, UploadKeeps DEF Refuse
  <1>3. CASE Insert(p)
    <2> DEFINE to == IF doc[p] = NoFile THEN "inserted" ELSE "undone"
    <2>1. disk' \in [Places -> TextsOrNone] /\ UploadGoes(p, {"placed"}, to) /\ UNCHANGED records
      BY <1>3 DEF Insert, FInv, Shape
    <2>2. to \in UploadStages
      OBVIOUS
    <2> HIDE DEF to
    <2> QED BY <2>1, <2>2, UploadKeeps
  <1>4. CASE CommitUpload(p)
    <2>1. disk' \in [Places -> TextsOrNone]
      BY <1>4 DEF CommitUpload, FInv, Shape
    <2> QED BY <1>4, <2>1, UploadKeeps DEF CommitUpload
  <1>5. CASE FailUpload(p)
    <2>1. disk' \in [Places -> TextsOrNone]
      BY <1>5 DEF FailUpload, FInv, Shape
    <2> QED BY <1>5, <2>1, UploadKeeps DEF FailUpload
  <1>6. CASE Unlink(p)
    <2>1. disk' \in [Places -> TextsOrNone]
      BY <1>6 DEF Unlink, FInv, Shape, TextsOrNone
    <2> QED BY <1>6, <2>1, UploadKeeps DEF Unlink
  <1> QED BY <1>1, <1>2, <1>3, <1>4, <1>5, <1>6

-------------------------------------------------------------------------------
(* Removals *)

LEMMA MarkedKeeps ==
    ASSUME FInv, NEW r \in Removers, removal[r].pc # "new", MarkDeleted(r)
    PROVE  /\ doc' \in [Places -> Docs \cup {NoFile}]
           /\ task' \in [Places -> [DocVersions -> Operations]]
           /\ \A q \in Places : doc[q] \in Docs => doc'[q] \in Docs
           /\ \A q \in Places, v \in DocVersions : task'[q][v] # NoFile => doc'[q] \in Docs
  <1> DEFINE p == removal[r].place
             v == removal[r].version
             d == [doc[p] EXCEPT !.hidden = TRUE,
                                 !.status = IF removal[r].status = "deleted" THEN @ ELSE "deleted"]
             new == removal[r].pc = "moved new"
  <1>1. p \in Places /\ doc[p] \in Docs /\ v \in DocVersions
    BY DEF FInv, Known
  <1>2. d \in Docs
    BY <1>1 DEF Docs, Status
  <1>3. doc' = [doc EXCEPT ![p] = d]
    BY <1>1 DEF MarkDeleted, FInv, Shape
  <1>4. task' = [task EXCEPT ![p][v] = IF new \/ @ # NoFile THEN "delete_asset" ELSE @]
    BY DEF MarkDeleted
  <1> HIDE DEF p, v, d, new
  <1>5. task' \in [Places -> [DocVersions -> Operations]]
    BY <1>1, <1>4 DEF FInv, Shape, Operations
  <1>6. \A q \in Places : q # p => doc'[q] = doc[q] /\ task'[q] = task[q]
    BY <1>3, <1>4 DEF FInv, Shape
  <1>7. doc' \in [Places -> Docs \cup {NoFile}] /\ doc'[p] \in Docs
    BY <1>1, <1>2, <1>3 DEF FInv, Shape
  <1> QED BY <1>5, <1>6, <1>7 DEF FInv, Known

LEMMA RemovalKeeps ==
    ASSUME FInv, NEW r \in Removers, NEW from, NEW to \in RemovalStages, "new" \notin from,
           RemovalGoes(r, from, to), disk' \in [Places -> TextsOrNone], trash' \in [Places -> TextsOrNone],
           UNCHANGED records \/ MarkDeleted(r)
    PROVE  FInv'
  <1>1. removal[r].pc # "new"
    BY DEF RemovalGoes
  <1>2. /\ doc' \in [Places -> Docs \cup {NoFile}]
        /\ task' \in [Places -> [DocVersions -> Operations]]
        /\ \A q \in Places : doc[q] \in Docs => doc'[q] \in Docs
        /\ \A q \in Places, v \in DocVersions : task'[q][v] # NoFile => doc'[q] \in Docs
    <2>1. CASE UNCHANGED records BY <2>1 DEF FInv, Shape, Known, records
    <2>2. CASE MarkDeleted(r) BY <2>2, <1>1, MarkedKeeps
    <2> QED BY <2>1, <2>2
  <1>3. removal' \in [Removers -> RemovalRecs]
    BY DEF FInv, Shape, RemovalGoes, RemovalRecs
  <1>4. \A s \in Removers :
          /\ removal'[s].pc # "new" => removal[s].pc # "new"
          /\ removal'[s].place = removal[s].place /\ removal'[s].version = removal[s].version
    BY <1>1 DEF FInv, Shape, RemovalGoes, RemovalRecs
  <1>5. upload' = upload /\ sync' = sync /\ touched' = touched
    BY DEF RemovalGoes
  <1>6. Shape'
    BY <1>2, <1>3, <1>5 DEF FInv, Shape
  <1>7. Known'
    BY <1>2, <1>4, <1>5 DEF FInv, Known
  <1> QED BY <1>6, <1>7 DEF FInv

LEMMA LoadKeeps == ASSUME FInv, NEW r \in Removers, Load(r) PROVE FInv'
  <1>1. PICK p \in Places :
          /\ doc[p] # NoFile
          /\ removal' = [removal EXCEPT ![r] =
                [pc |-> "loaded", place |-> p, status |-> doc[p].status, version |-> doc[p].version]]
    BY DEF Load
  <1>2. doc[p] \in Docs
    BY <1>1 DEF FInv, Shape
  <1>3. doc[p].status \in Status /\ doc[p].version \in DocVersions
    BY <1>2 DEF Docs
  <1>4. removal' \in [Removers -> RemovalRecs]
    BY <1>1, <1>3 DEF FInv, Shape, RemovalRecs, RemovalStages
  <1>5. UNCHANGED <<disk, trash, doc, task, upload, sync, touched>>
    BY DEF Load, files, records
  <1>6. Shape'
    BY <1>4, <1>5 DEF FInv, Shape
  <1>7. \A s \in Removers : removal'[s].pc # "new" =>
          /\ removal'[s].place \in Places /\ doc[removal'[s].place] \in Docs
          /\ removal'[s].version \in DocVersions
    BY <1>1, <1>2, <1>3 DEF FInv, Shape, Known
  <1>8. Known'
    BY <1>5, <1>7 DEF FInv, Known
  <1> QED BY <1>6, <1>8 DEF FInv

LEMMA RemovalsKeep ==
    ASSUME FInv, NEW r \in Removers, RemovalGoesOn(r) \/ FailRemoval(r)
    PROVE  FInv'
  <1> DEFINE p == removal[r].place
  <1>0. disk \in [Places -> TextsOrNone] /\ trash \in [Places -> TextsOrNone] /\ NoFile \in TextsOrNone
    BY DEF FInv, Shape, TextsOrNone
  <1>1. CASE FindTask(r)
    <2> DEFINE to == IF TaskOf(r) # NoFile THEN "found" ELSE "missing"
    <2>1. RemovalGoes(r, {"loaded"}, to) /\ UNCHANGED <<disk, trash>> /\ UNCHANGED records
      BY <1>1 DEF FindTask, files
    <2>2. to \in RemovalStages
      BY DEF RemovalStages
    <2> HIDE DEF to
    <2> QED BY <1>0, <2>1, <2>2, RemovalKeeps
  <1>2. CASE FlushRemoval(r)
    <2> DEFINE to == IF TaskOf(r) = "delete_asset" THEN "failed" ELSE "flushed"
    <2>1. RemovalGoes(r, {"missing"}, to) /\ UNCHANGED <<disk, trash>> /\ UNCHANGED records
      BY <1>2 DEF FlushRemoval, files
    <2>2. to \in RemovalStages
      BY DEF RemovalStages
    <2> HIDE DEF to
    <2> QED BY <1>0, <2>1, <2>2, RemovalKeeps
  <1>3. CASE MoveAway(r)
    <2> DEFINE to == IF removal[r].pc = "found" THEN "moved" ELSE "moved new"
    <2>1. RemovalGoes(r, {"found", "flushed"}, to) /\ UNCHANGED records
      BY <1>3 DEF MoveAway
    <2>2. to \in RemovalStages
      BY DEF RemovalStages
    <2>3. disk' \in [Places -> TextsOrNone] /\ trash' \in [Places -> TextsOrNone]
      <3>1. disk' = [disk EXCEPT ![p] = NoFile]
        BY <1>3 DEF MoveAway
      <3>2. trash' = [trash EXCEPT ![p] = IF disk[p] = NoFile THEN @ ELSE disk[p]]
        BY <1>3 DEF MoveAway
      <3> HIDE DEF p
      <3> QED BY <1>0, <3>1, <3>2
    <2> HIDE DEF to
    <2> QED BY <2>1, <2>2, <2>3, RemovalKeeps
  <1>4. CASE CommitRemoval(r)
    <2>1. "gone" \in RemovalStages
      BY DEF RemovalStages
    <2> QED BY <1>0, <1>4, <2>1, RemovalKeeps DEF CommitRemoval, files
  <1>5. CASE PutBack(r)
    <2>1. RemovalGoes(r, {"undone"}, "failed") /\ UNCHANGED records
      BY <1>5 DEF PutBack
    <2>2. "failed" \in RemovalStages
      BY DEF RemovalStages
    <2>3. disk' \in [Places -> TextsOrNone] /\ trash' \in [Places -> TextsOrNone]
      <3>1. disk' = [disk EXCEPT ![p] = IF trash[p] = NoFile THEN @ ELSE trash[p]]
        BY <1>5 DEF PutBack
      <3>2. trash' = [trash EXCEPT ![p] = NoFile]
        BY <1>5 DEF PutBack
      <3> HIDE DEF p
      <3> QED BY <1>0, <3>1, <3>2
    <2> QED BY <2>1, <2>2, <2>3, RemovalKeeps
  <1>6. CASE FailRemoval(r)
    <2>1. "failed" \in RemovalStages /\ "undone" \in RemovalStages
      BY DEF RemovalStages
    <2>2. CASE RemovalGoes(r, {"loaded", "found", "missing", "flushed"}, "failed") /\ UNCHANGED records
      BY <1>0, <1>6, <2>1, <2>2, RemovalKeeps DEF FailRemoval, files
    <2>3. CASE RemovalGoes(r, {"moved", "moved new"}, "undone")
      BY <1>0, <1>6, <2>1, <2>3, RemovalKeeps DEF FailRemoval, files
    <2> QED BY <1>6, <2>2, <2>3 DEF FailRemoval
  <1> QED BY <1>1, <1>2, <1>3, <1>4, <1>5, <1>6 DEF RemovalGoesOn

LEMMA DieKeeps == ASSUME FInv, Die PROVE FInv'
  <1>1. upload' \in [Places -> UploadRecs]
    BY DEF FInv, Shape, Die, UploadRecs, UploadStages
  <1>2. \A p \in Places :
          /\ upload'[p].text = upload[p].text
          /\ upload'[p].pc # "new" => upload[p].pc # "new"
    BY DEF FInv, Shape, Die, UploadRecs, UploadEnds
  <1>3. removal' \in [Removers -> RemovalRecs]
    <2>1. \A r \in Removers : removal[r] \in RemovalRecs
      BY DEF FInv, Shape
    <2>2. \A r \in Removers : [removal[r] EXCEPT !.pc = "cut off"] \in RemovalRecs
      BY <2>1 DEF RemovalRecs, RemovalStages
    <2> QED BY <2>1, <2>2 DEF Die
  <1>4. \A s \in Removers :
          /\ removal'[s].pc # "new" => removal[s].pc # "new"
          /\ removal'[s].place = removal[s].place /\ removal'[s].version = removal[s].version
    BY DEF FInv, Shape, Die, RemovalRecs, RemovalEnds
  <1>5. UNCHANGED <<disk, trash, doc, task, sync, touched>>
    BY DEF Die, files, records
  <1>6. Shape'
    BY <1>1, <1>3, <1>5 DEF FInv, Shape
  <1>7. \A p \in Places : upload'[p].pc # "new" => upload'[p].text \in Contents
    BY <1>2 DEF FInv, Known
  <1>8. \A r \in Removers : removal'[r].pc # "new" =>
          /\ removal'[r].place \in Places /\ doc[removal'[r].place] \in Docs
          /\ removal'[r].version \in DocVersions
    BY <1>4 DEF FInv, Known
  <1>9. Known'
    BY <1>5, <1>7, <1>8 DEF FInv, Known
  <1> QED BY <1>6, <1>9 DEF FInv

-------------------------------------------------------------------------------
(* The reconciler *)

LEMMA SyncKeeps ==
    ASSUME FInv, sync' \in SyncRecs, sync'.todo \subseteq sync'.listed,
           sync'.pc # "looking" => sync'.todo = {},
           UNCHANGED <<disk, trash, upload, removal, touched>>,
           doc' \in [Places -> Docs \cup {NoFile}],
           task' \in [Places -> [DocVersions -> Operations]],
           \A q \in Places : doc[q] \in Docs => doc'[q] \in Docs,
           \A q \in Places, v \in DocVersions : task'[q][v] # NoFile => doc'[q] \in Docs,
           \A q \in Places : sync'.loaded[q] # NoFile => doc'[q] \in Docs
    PROVE  FInv'
  <1>1. Shape'
    BY DEF FInv, Shape
  <1>2. Known'
    BY DEF FInv, Known
  <1> QED BY <1>1, <1>2 DEF FInv

\* A step that leaves the rows, and reads none.
LEMMA SyncMoves ==
    ASSUME FInv, NEW pc, NEW next \in SyncRecs, SyncGoes(pc, next), UNCHANGED records,
           next.todo \subseteq next.listed, next.pc # "looking" => next.todo = {},
           \A q \in Places : next.loaded[q] # NoFile => doc[q] \in Docs
    PROVE  FInv'
  <1>1. UNCHANGED <<disk, trash, upload, removal, touched, doc, task>> /\ sync' = next
    BY DEF SyncGoes, files, records
  <1> QED BY <1>1, SyncKeeps DEF FInv, Shape, Known

LEMMA AtRestType ==
    \A next \in {SyncAtRest, Ended} :
      /\ next \in SyncRecs /\ next.pc # "looking"
      /\ next.todo = {} /\ \A q \in Places : next.loaded[q] = NoFile
  BY DEF SyncAtRest, Ended, SyncRecs, Nothing, TextsOrNone

LEMMA GiveUpKeeps == ASSUME FInv, GiveUp \/ StartIndexer PROVE FInv'
  <1>1. PICK next \in {SyncAtRest, Ended} : SyncGoes(sync.pc, next) /\ UNCHANGED records
    BY DEF GiveUp, StartIndexer, SyncGoes
  <1> QED BY <1>1, AtRestType, SyncMoves

LEMMA SyncLooks ==
    ASSUME FInv,
           Scan \/ ReadDocuments \/ MarkMissing \/ (\E p \in Places : Look(p) \/ Adopt(p))
    PROVE  FInv'
  <1>0. /\ sync \in SyncRecs
        /\ sync.todo \subseteq sync.listed /\ (sync.pc # "looking" => sync.todo = {})
        /\ \A q \in Places : sync.loaded[q] # NoFile => doc[q] \in Docs
        /\ disk \in [Places -> TextsOrNone] /\ doc \in [Places -> Docs \cup {NoFile}]
    BY DEF FInv, Shape, Known
  <1>1. CASE Scan
    <2> DEFINE next == [sync EXCEPT !.pc = "scanned", !.listed = {p \in Places : disk[p] # NoFile}]
    <2>1. SyncGoes("idle", next) /\ UNCHANGED records
      BY <1>1 DEF Scan
    <2>2. next \in SyncRecs
      BY <1>0 DEF SyncRecs
    <2>3. next.todo = {} /\ next.loaded = sync.loaded
      BY <1>0, <2>1 DEF SyncGoes, SyncRecs
    <2> HIDE DEF next
    <2> QED BY <1>0, <2>1, <2>2, <2>3, SyncMoves
  <1>2. CASE ReadDocuments
    <2> DEFINE next == [sync EXCEPT !.pc = "looking", !.loaded = doc, !.todo = sync.listed]
    <2>1. SyncGoes("scanned", next) /\ UNCHANGED records
      BY <1>2 DEF ReadDocuments
    <2>2. next \in SyncRecs
      BY <1>0 DEF SyncRecs
    <2>3. next.todo \subseteq next.listed /\ next.pc = "looking" /\ next.loaded = doc
      BY <1>0 DEF SyncRecs
    <2> HIDE DEF next
    <2> QED BY <1>0, <2>1, <2>2, <2>3, SyncMoves
  <1>3. CASE MarkMissing
    <2> DEFINE next == [sync EXCEPT !.pc = "marking",
                                    !.open = {p \in Missing : MissingTask(p) # NoFile}]
    <2>1. SyncGoes("looking", next) /\ UNCHANGED records /\ sync.todo = {}
      BY <1>3 DEF MarkMissing
    <2>2. next \in SyncRecs
      BY <1>0 DEF SyncRecs, Missing
    <2>3. next.todo = {} /\ next.loaded = sync.loaded
      BY <1>0, <2>1 DEF SyncRecs
    <2> HIDE DEF next
    <2> QED BY <1>0, <2>1, <2>2, <2>3, SyncMoves
  <1>4. CASE \E p \in Places : Look(p)
    <2>1. PICK p \in Places : Look(p)
      BY <1>4
    <2> DEFINE seen == [sync EXCEPT !.todo = @ \ {p}]
               found == [sync EXCEPT !.todo = @ \ {p}, !.hashed = p, !.text = disk[p]]
    <2>2. seen \in SyncRecs /\ found \in SyncRecs
      BY <1>0 DEF SyncRecs
    <2>3. /\ seen.todo = sync.todo \ {p} /\ found.todo = sync.todo \ {p}
          /\ seen.listed = sync.listed /\ found.listed = sync.listed
          /\ seen.loaded = sync.loaded /\ found.loaded = sync.loaded
          /\ seen.pc = sync.pc /\ found.pc = sync.pc
      BY <1>0 DEF SyncRecs
    <2>4. UNCHANGED records /\ (GiveUp \/ SyncGoes("looking", seen) \/ SyncGoes("looking", found))
      BY <2>1 DEF Look
    <2> HIDE DEF seen, found
    <2>5. CASE SyncGoes("looking", seen)
      BY <1>0, <2>2, <2>3, <2>4, <2>5, SyncMoves
    <2>6. CASE SyncGoes("looking", found)
      BY <1>0, <2>2, <2>3, <2>4, <2>6, SyncMoves
    <2> QED BY <2>4, <2>5, <2>6, GiveUpKeeps
  <1>5. CASE \E p \in Places : Adopt(p)
    <2>1. PICK p \in Places : Adopt(p)
      BY <1>5
    <2> DEFINE next == [sync EXCEPT !.hashed = NoFile, !.text = NoFile, !.written[p] = sync.text]
    <2>2. next \in SyncRecs
      BY <1>0 DEF SyncRecs, TextsOrNone
    <2>3. /\ next.todo = sync.todo /\ next.listed = sync.listed
          /\ next.loaded = sync.loaded /\ next.pc = sync.pc
      BY <1>0 DEF SyncRecs
    <2>4. UNCHANGED records /\ (GiveUp \/ SyncGoes("looking", next))
      BY <2>1 DEF Adopt
    <2> HIDE DEF next
    <2>5. CASE SyncGoes("looking", next)
      BY <1>0, <2>2, <2>3, <2>4, <2>5, SyncMoves
    <2> QED BY <2>4, <2>5, GiveUpKeeps
  <1> QED BY <1>1, <1>2, <1>3, <1>4, <1>5

LEMMA WrittenType ==
    ASSUME FInv, NEW p \in Places, LockedBySync(p), NextVersion(p) \in DocVersions
    PROVE  Written(p) \in Docs
  <1>1. sync.written[p] \in Contents
    BY DEF FInv, Shape, SyncRecs, LockedBySync, TextsOrNone
  <1>2. CASE doc[p] = NoFile
    BY <1>1, <1>2, NewDocType DEF Written
  <1>3. CASE doc[p] # NoFile
    <2>1. doc[p] \in Docs /\ doc[p].version + 1 \in DocVersions
      BY <1>3 DEF FInv, Shape, NextVersion
    <2> QED BY <1>1, <1>3, <2>1 DEF Written, Docs, Status
  <1> QED BY <1>2, <1>3

LEMMA CommitSyncKeeps == ASSUME FInv, CommitSync PROVE FInv'
  <1>1. CASE GiveUp
    BY <1>1, GiveUpKeeps
  <1>2. CASE ~GiveUp
    <2> DEFINE newDoc(p) ==
                 IF LockedBySync(p) THEN Written(p)
                 ELSE IF p \in Missing THEN [doc[p] EXCEPT !.status = "deleted", !.hidden = TRUE]
                 ELSE doc[p]
               newTask(p) ==
                 IF LockedBySync(p) THEN [task[p] EXCEPT ![NextVersion(p)] = "upsert_version"]
                 ELSE IF p \in Missing /\ (p \in sync.open => MissingTask(p) # NoFile)
                   THEN [task[p] EXCEPT ![sync.loaded[p].version] = "delete_asset"]
                 ELSE task[p]
    <2>1. /\ SyncGoes("marking", SyncAtRest)
          /\ doc' = [p \in Places |-> newDoc(p)]
          /\ task' = [p \in Places |-> newTask(p)]
          /\ \A p \in Places : LockedBySync(p) => NextVersion(p) \in DocVersions
      BY <1>2 DEF CommitSync, LockedBySync
    <2>2. ASSUME NEW p \in Missing PROVE p \in Places /\ doc[p] \in Docs
      BY DEF Missing, Live, FInv, Known
    <2>3. ASSUME NEW p \in Places
          PROVE  /\ newDoc(p) \in Docs \cup {NoFile}
                 /\ doc[p] \in Docs => newDoc(p) \in Docs
      <3>1. CASE LockedBySync(p)
        BY <2>1, <3>1, WrittenType
      <3>2. CASE ~LockedBySync(p) /\ p \in Missing
        BY <2>2, <3>2 DEF Docs, Status
      <3>3. CASE ~LockedBySync(p) /\ p \notin Missing
        BY <3>3 DEF FInv, Shape
      <3> QED BY <3>1, <3>2, <3>3
    <2>4. ASSUME NEW p \in Places
          PROVE  /\ newTask(p) \in [DocVersions -> Operations]
                 /\ \A v \in DocVersions : newTask(p)[v] # NoFile => newDoc(p) \in Docs
      <3>0. task[p] \in [DocVersions -> Operations]
        BY DEF FInv, Shape
      <3>1. newTask(p) \in [DocVersions -> Operations]
        BY <3>0 DEF Operations
      <3>2. ASSUME NEW v \in DocVersions, newTask(p)[v] # NoFile PROVE newDoc(p) \in Docs
        <4>1. CASE LockedBySync(p)
          BY <2>1, <4>1, WrittenType
        <4>2. CASE ~LockedBySync(p) /\ p \in Missing
          BY <2>2, <2>3, <4>2
        <4>3. CASE ~LockedBySync(p) /\ p \notin Missing
          BY <2>3, <3>2, <4>3 DEF FInv, Known
        <4> QED BY <4>1, <4>2, <4>3
      <3> QED BY <3>1, <3>2
    <2> HIDE DEF newDoc, newTask
    <2>5. /\ doc' \in [Places -> Docs \cup {NoFile}]
          /\ task' \in [Places -> [DocVersions -> Operations]]
          /\ \A q \in Places : doc[q] \in Docs => doc'[q] \in Docs
          /\ \A q \in Places, v \in DocVersions : task'[q][v] # NoFile => doc'[q] \in Docs
      BY <2>1, <2>3, <2>4
    <2>6. sync' = SyncAtRest /\ UNCHANGED <<disk, trash, upload, removal, touched>>
      BY <2>1 DEF SyncGoes, files
    <2> QED BY <2>5, <2>6, AtRestType, SyncKeeps
  <1> QED BY <1>1, <1>2

-------------------------------------------------------------------------------
(* Everything *)

LEMMA IndexKeeps ==
    ASSUME FInv, NEW p \in Places, NEW v \in DocVersions, Index(p, v)
    PROVE  FInv'
  <1>1. doc[p] \in Docs
    BY DEF Index, FInv, Known
  <1>2. [doc[p] EXCEPT !.status = "indexed"] \in Docs
    BY <1>1 DEF Docs, Status
  <1>3. doc' = doc \/ doc' = [doc EXCEPT ![p] = [doc[p] EXCEPT !.status = "indexed"]]
    BY DEF Index, FInv, Shape
  <1>4. /\ doc' \in [Places -> Docs \cup {NoFile}]
        /\ \A q \in Places : doc[q] \in Docs => doc'[q] \in Docs
    BY <1>2, <1>3 DEF FInv, Shape
  <1>5. task' = [task EXCEPT ![p][v] = NoFile]
    BY DEF Index
  <1>6. task' \in [Places -> [DocVersions -> Operations]]
    BY <1>5 DEF FInv, Shape, Operations
  <1>7. \A q \in Places, w \in DocVersions : task'[q][w] # NoFile => task[q][w] # NoFile
    BY <1>5 DEF FInv, Shape
  <1>8. UNCHANGED <<disk, trash, upload, removal, sync, touched>>
    BY DEF Index, files
  <1> QED BY <1>4, <1>6, <1>7, <1>8, SyncKeeps DEF FInv, Shape, Known

LEMMA OutsideKeeps == ASSUME FInv, NEW p \in Places, Outside(p) PROVE FInv'
  <1>1. disk' \in [Places -> TextsOrNone] /\ touched' \in SUBSET Places
    BY DEF Outside, FInv, Shape, TextsOrNone
  <1>2. UNCHANGED <<trash, doc, task, upload, removal, sync>>
    BY DEF Outside, records
  <1>3. Shape'
    BY <1>1, <1>2 DEF FInv, Shape
  <1>4. Known'
    BY <1>2 DEF FInv, Known
  <1> QED BY <1>3, <1>4 DEF FInv

LEMMA FilesBegin == ASSUME FilesInit PROVE FInv
  <1>1. Shape
    <2>1. sync \in SyncRecs
      BY AtRestType DEF FilesInit
    <2> QED BY <2>1 DEF FilesInit, Shape, Nothing, TextsOrNone, Operations, UploadRecs, UploadStages,
                    RemovalRecs, RemovalStages, Status
  <1>2. Known
    BY AtRestType DEF FilesInit, Known
  <1> QED BY <1>1, <1>2 DEF FInv

LEMMA FilesKeep == ASSUME FInv, [FilesNext]_fileVars PROVE FInv'
  <1>1. CASE UNCHANGED fileVars
    BY <1>1 DEF FInv, Shape, Known, fileVars
  <1>2. ASSUME NEW p \in Places, Count(p) \/ UploadGoesOn(p) \/ FailUpload(p) \/ Outside(p) PROVE FInv'
    BY <1>2, CountKeeps, UploadsKeep, OutsideKeeps DEF UploadGoesOn
  <1>3. ASSUME NEW r \in Removers, Load(r) \/ RemovalGoesOn(r) \/ FailRemoval(r) PROVE FInv'
    BY <1>3, LoadKeeps, RemovalsKeep
  <1>4. ASSUME NEW p \in Places, NEW v \in DocVersions, Index(p, v) PROVE FInv'
    BY <1>4, IndexKeeps
  <1>5. CASE Die \/ SyncGoesOn \/ FailSync \/ StartIndexer
    BY <1>5, DieKeeps, SyncLooks, CommitSyncKeeps, GiveUpKeeps DEF SyncGoesOn, FailSync
  <1> QED BY <1>1, <1>2, <1>3, <1>4, <1>5 DEF FilesNext

-------------------------------------------------------------------------------
(* The quota *)

Accepts(d) == Counts(d) /\ d.source = "upload" /\ d.version = 1

LEMMA AcceptedFinite == IsFiniteSet(Accepted) /\ Cardinality(Accepted) \in Nat
  BY PersonalFilesAssumption, FS_Subset, FS_CardinalityType DEF Accepted

\* A step that makes no file accepted, and that lets no upload go on but one that had the
\* workspace and was within the quota.
LEMMA QuotaStands ==
    ASSUME QInv, \A q \in Places : Accepts(doc'[q]) => Accepts(doc[q]),
           \A q \in Places : HoldsWorkspace(q)' =>
             /\ HoldsWorkspace(q) /\ upload'[q].used = upload[q].used
             /\ upload'[q].pc \in {"placed", "inserted"} =>
                  upload[q].pc \in {"placed", "inserted"} \/ upload[q].used + 1 <= Quota,
           upload \in [Places -> UploadRecs]
    PROVE  QInv'
  <1>1. Accepted' \subseteq Accepted
    BY DEF Accepted, Accepts
  <1>2. Cardinality(Accepted') <= Cardinality(Accepted) /\ Cardinality(Accepted') \in Nat
    BY <1>1, AcceptedFinite, FS_Subset, FS_CardinalityType
  <1>3. Quota \in Nat /\ Cardinality(Accepted) \in Nat
    BY AcceptedFinite, PersonalFilesAssumption
  <1>4. OneHolds'
    BY DEF QInv, OneHolds
  <1>5. CountStands'
    <2> SUFFICES ASSUME NEW p \in Places, HoldsWorkspace(p)'
                 PROVE  Cardinality(Accepted') <= upload'[p].used
      BY DEF CountStands
    <2>1. Cardinality(Accepted) <= upload[p].used /\ upload'[p].used = upload[p].used
      BY DEF QInv, CountStands
    <2>2. upload[p].used \in Nat
      BY DEF UploadRecs
    <2> QED BY <1>2, <1>3, <2>1, <2>2
  <1>6. HasRoom'
    BY DEF QInv, HasRoom, HoldsWorkspace
  <1>7. QuotaIsKept'
    BY <1>2, <1>3 DEF QInv, QuotaIsKept
  <1> QED BY <1>4, <1>5, <1>6, <1>7 DEF QInv

LEMMA CountQuota == ASSUME FInv, QInv, NEW p \in Places, Count(p) PROVE QInv'
  <1> DEFINE Shown == {q \in Places : Counts(doc[q])}
  <1>1. Cardinality(Accepted) <= Cardinality(Shown) /\ Cardinality(Shown) \in Nat
    <2>1. IsFiniteSet(Shown) /\ Accepted \subseteq Shown
      BY PersonalFilesAssumption, FS_Subset DEF Accepted
    <2> HIDE DEF Shown
    <2> QED BY <2>1, FS_Subset, FS_CardinalityType
  <1>2. doc' = doc /\ Accepted' = Accepted
    BY DEF Count, records, Accepted, Counts, Live
  <1>3. /\ \A q \in Places : ~HoldsWorkspace(q)
        /\ upload'[p].pc = "counted" /\ upload'[p].used = Cardinality(Shown)
        /\ \A q \in Places : q # p => upload'[q] = upload[q]
    BY DEF Count, CanCount, FInv, Shape
  <1> HIDE DEF Shown
  <1>4. \A q \in Places : HoldsWorkspace(q)' <=> q = p
    BY <1>3 DEF HoldsWorkspace
  <1>5. OneHolds'
    BY <1>4 DEF OneHolds
  <1>6. CountStands'
    BY <1>1, <1>2, <1>3, <1>4 DEF CountStands
  <1>7. HasRoom'
    BY <1>3, <1>4 DEF HasRoom, HoldsWorkspace
  <1>8. QuotaIsKept'
    BY <1>2 DEF QInv, QuotaIsKept
  <1> QED BY <1>5, <1>6, <1>7, <1>8 DEF QInv

\* The commit of an upload makes its file accepted, and gives the workspace up.
LEMMA StoredQuota ==
    ASSUME FInv, QInv, NEW p \in Places, Stored(p), NEW to \in {"stored", "undone"},
           upload' = [upload EXCEPT ![p].pc = to]
    PROVE  QInv'
  <1>1. \A q \in Places : q # p => doc'[q] = doc[q]
    BY DEF Stored, FInv, Shape
  <1>2. Accepted' \subseteq Accepted \cup {p}
    BY <1>1 DEF Accepted, Counts, Live
  <1>3. Cardinality(Accepted) + 1 <= Quota /\ Quota \in Nat
    <2>1. HoldsWorkspace(p) /\ upload[p].used + 1 <= Quota /\ upload[p].used \in Nat
      BY DEF Stored, QInv, HasRoom, HoldsWorkspace, FInv, Shape, UploadRecs
    <2>2. Cardinality(Accepted) <= upload[p].used
      BY <2>1 DEF QInv, CountStands
    <2>3. Quota \in Nat
      BY PersonalFilesAssumption
    <2> QED BY <2>1, <2>2, <2>3, AcceptedFinite
  <1>4. Cardinality(Accepted') <= Cardinality(Accepted) + 1 /\ Cardinality(Accepted') \in Nat
    <2>1. /\ IsFiniteSet(Accepted \cup {p})
          /\ Cardinality(Accepted \cup {p}) <= Cardinality(Accepted) + 1
      <3>1. /\ IsFiniteSet(Accepted \cup {p})
            /\ Cardinality(Accepted \cup {p}) =
                 IF p \in Accepted THEN Cardinality(Accepted) ELSE Cardinality(Accepted) + 1
        BY AcceptedFinite, FS_AddElement, Zenon
      <3> QED BY <3>1, AcceptedFinite
    <2>2. /\ IsFiniteSet(Accepted')
          /\ Cardinality(Accepted') <= Cardinality(Accepted \cup {p})
      BY <1>2, <2>1, FS_Subset
    <2> QED BY <2>1, <2>2, AcceptedFinite, FS_CardinalityType
  <1>5. QuotaIsKept'
    BY <1>3, <1>4, AcceptedFinite DEF QuotaIsKept
  <1>6. \A q \in Places : ~HoldsWorkspace(q)'
    <2>1. \A q \in Places : q # p => upload'[q] = upload[q] /\ ~HoldsWorkspace(q)
      BY DEF Stored, QInv, OneHolds, HoldsWorkspace, FInv, Shape
    <2>2. upload'[p].pc = to
      BY DEF FInv, Shape, UploadRecs
    <2> QED BY <2>1, <2>2 DEF HoldsWorkspace
  <1> QED BY <1>5, <1>6 DEF QInv, OneHolds, CountStands, HasRoom, HoldsWorkspace

LEMMA UploadsQuota ==
    ASSUME FInv, QInv, NEW p \in Places, UploadGoesOn(p) \/ FailUpload(p)
    PROVE  QInv'
  <1>0. upload \in [Places -> UploadRecs]
    BY DEF FInv, Shape
  <1>1. CASE Stored(p) /\ (CommitUpload(p) \/ FailUpload(p))
    <2>1. upload' = [upload EXCEPT ![p].pc = "stored"] \/ upload' = [upload EXCEPT ![p].pc = "undone"]
      BY <1>1 DEF CommitUpload, FailUpload, UploadGoes
    <2> QED BY <1>1, <2>1, StoredQuota
  <1>2. CASE UNCHANGED doc
    <2>1. \A q \in Places : q # p => upload'[q] = upload[q]
      BY <1>0 DEF UploadGoesOn, FailUpload, Place, Refuse, Insert, CommitUpload, Unlink, UploadGoes
    <2>2. /\ upload'[p].used = upload[p].used
          /\ \/ upload[p].pc = "counted" /\ upload'[p].pc = "placed" /\ upload[p].used + 1 <= Quota
             \/ upload[p].pc = "placed" /\ upload'[p].pc = "inserted"
             \/ upload'[p].pc \in {"refused", "undone", "stored"}
      BY <1>0 DEF UploadGoesOn, FailUpload, Place, Refuse, Insert, CommitUpload, Unlink, UploadGoes,
                  UploadRecs
    <2> QED BY <1>0, <1>2, <2>1, <2>2, QuotaStands DEF HoldsWorkspace
  <1> QED BY <1>1, <1>2 DEF UploadGoesOn, FailUpload, Place, Refuse, Insert, CommitUpload, Unlink, records

LEMMA OthersQuota ==
    ASSUME FInv, QInv, upload' = upload, \A q \in Places : Accepts(doc'[q]) => Accepts(doc[q])
    PROVE  QInv'
  BY QuotaStands DEF FInv, Shape, HoldsWorkspace

LEMMA SyncQuota == ASSUME FInv, QInv, SyncGoesOn \/ FailSync \/ StartIndexer PROVE QInv'
  <1>1. CASE UNCHANGED doc
    <2>1. upload' = upload
      BY DEF SyncGoesOn, FailSync, Scan, ReadDocuments, Look, Adopt, MarkMissing, CommitSync, GiveUp,
             StartIndexer, SyncGoes
    <2> QED BY <1>1, <2>1, OthersQuota
  <1>2. CASE CommitSync /\ ~GiveUp
    <2>1. ASSUME NEW q \in Places, Accepts(doc'[q]) PROVE Accepts(doc[q])
      <3>1. CASE LockedBySync(q)
        <4>1. doc'[q] = Written(q)
          BY <1>2, <3>1 DEF CommitSync
        <4>2. CASE doc[q] = NoFile
          BY <2>1, <4>1, <4>2 DEF Written, NewDoc, Accepts
        <4>3. CASE doc[q] # NoFile
          <5>1. doc[q] \in Docs
            BY <4>3 DEF FInv, Shape
          <5>2. doc'[q].version = doc[q].version + 1 /\ doc[q].version \in DocVersions
            BY <4>1, <4>3, <5>1 DEF Written, Docs
          <5> QED BY <2>1, <5>2 DEF Accepts, DocVersions
        <4> QED BY <4>2, <4>3
      <3>2. CASE ~LockedBySync(q) /\ q \in Missing
        <4>1. doc'[q] = [doc[q] EXCEPT !.status = "deleted", !.hidden = TRUE] /\ doc[q] \in Docs
          BY <1>2, <3>2 DEF CommitSync, Missing, Live, FInv, Known
        <4> QED BY <2>1, <4>1 DEF Accepts, Counts, Docs
      <3>3. CASE ~LockedBySync(q) /\ q \notin Missing
        BY <1>2, <2>1, <3>3 DEF CommitSync
      <3> QED BY <3>1, <3>2, <3>3
    <2>2. upload' = upload
      BY <1>2 DEF CommitSync, SyncGoes
    <2> QED BY <2>1, <2>2, OthersQuota
  <1> QED BY <1>1, <1>2 DEF SyncGoesOn, FailSync, Scan, ReadDocuments, Look, Adopt, MarkMissing,
                 GiveUp, StartIndexer, CommitSync, records

LEMMA RemovalsQuota ==
    ASSUME FInv, QInv, NEW r \in Removers, RemovalGoesOn(r) \/ FailRemoval(r)
    PROVE  QInv'
  <1>1. upload' = upload
    BY DEF RemovalGoesOn, FailRemoval, FindTask, FlushRemoval, MoveAway, CommitRemoval, PutBack, RemovalGoes
  <1>2. CASE UNCHANGED doc
    BY <1>1, <1>2, OthersQuota
  <1>3. CASE MarkDeleted(r) /\ (CommitRemoval(r) \/ FailRemoval(r))
    <2>1. /\ removal[r].place \in Places
          /\ doc[removal[r].place] \in Docs
      BY <1>3 DEF CommitRemoval, FailRemoval, RemovalGoes, FInv, Known
    <2>2. \A q \in Places : q # removal[r].place => doc'[q] = doc[q]
      BY <1>3 DEF MarkDeleted, FInv, Shape
    <2>3. doc'[removal[r].place].hidden = TRUE
      BY <1>3, <2>1 DEF MarkDeleted, FInv, Shape, Docs
    <2>4. \A q \in Places : Accepts(doc'[q]) => Accepts(doc[q])
      BY <2>2, <2>3 DEF Accepts, Counts
    <2> QED BY <1>1, <2>4, OthersQuota
  <1> QED BY <1>2, <1>3 DEF RemovalGoesOn, FailRemoval, FindTask, FlushRemoval, MoveAway, CommitRemoval,
                 PutBack, records

LEMMA QuotaBegins == ASSUME FilesInit PROVE QInv
  <1>1. Accepted = {}
    BY DEF FilesInit, Accepted, Nothing, Counts, Live
  <1>2. QuotaIsKept
    BY <1>1, FS_EmptySet, PersonalFilesAssumption DEF QuotaIsKept
  <1> QED BY <1>2 DEF FilesInit, QInv, OneHolds, CountStands, HasRoom, HoldsWorkspace

LEMMA QuotaKeeps == ASSUME FInv, QInv, [FilesNext]_fileVars PROVE QInv'
  <1>1. CASE UNCHANGED fileVars
    BY <1>1, OthersQuota DEF fileVars
  <1>2. ASSUME NEW p \in Places, Count(p) \/ UploadGoesOn(p) \/ FailUpload(p) \/ Outside(p) PROVE QInv'
    <2>1. CASE Outside(p)
      BY <2>1, OthersQuota DEF Outside, records
    <2> QED BY <1>2, <2>1, CountQuota, UploadsQuota
  <1>3. ASSUME NEW r \in Removers, Load(r) \/ RemovalGoesOn(r) \/ FailRemoval(r) PROVE QInv'
    <2>1. CASE Load(r)
      BY <2>1, OthersQuota DEF Load, records
    <2> QED BY <1>3, <2>1, RemovalsQuota
  <1>4. ASSUME NEW p \in Places, NEW v \in DocVersions, Index(p, v) PROVE QInv'
    <2>1. doc[p] \in Docs /\ upload' = upload
      BY <1>4 DEF Index, FInv, Known
    <2>2. \A q \in Places : Accepts(doc'[q]) => Accepts(doc[q])
      <3> DEFINE d == [doc[p] EXCEPT !.status = "indexed"]
      <3>1. CASE UNCHANGED doc
        BY <3>1
      <3>2. CASE /\ doc[p].status # "deleted" \/ v < doc[p].version
                 /\ doc' = [doc EXCEPT ![p].status = "indexed"]
        <4>1. doc'[p] = d /\ \A q \in Places : q # p => doc'[q] = doc[q]
          BY <3>2 DEF FInv, Shape
        <4>2. d.hidden = doc[p].hidden /\ d.source = doc[p].source /\ d.version = doc[p].version
          BY <2>1 DEF Docs
        <4>3. doc[p].version = 1 => doc[p].status # "deleted"
          BY <3>2 DEF DocVersions
        <4>4. doc[p] # NoFile
          BY <2>1, PersonalFilesAssumption
        <4> HIDE DEF d
        <4> QED BY <4>1, <4>2, <4>3, <4>4 DEF Accepts, Counts, Live
      <3> QED BY <1>4, <3>1, <3>2 DEF Index
    <2> QED BY <2>1, <2>2, OthersQuota
  <1>5. CASE Die
    <2>1. doc' = doc /\ \A q \in Places : HoldsWorkspace(q)' => upload'[q] = upload[q]
      BY <1>5 DEF Die, records, HoldsWorkspace, FInv, Shape, UploadRecs
    <2>2. upload \in [Places -> UploadRecs]
      BY DEF FInv, Shape
    <2> QED BY <2>1, <2>2, QuotaStands DEF HoldsWorkspace
  <1> QED BY <1>1, <1>2, <1>3, <1>4, <1>5, SyncQuota DEF FilesNext

\* Rows, tasks, requests and the reconciler keep their types, and what was found stays.
THEOREM FilesInvariant == FilesSpec => [](FInv /\ QInv)
  <1>1. FilesInit => FInv /\ QInv
    BY FilesBegin, QuotaBegins
  <1>2. FInv /\ QInv /\ [FilesNext]_fileVars => FInv' /\ QInv'
    BY FilesKeep, QuotaKeeps
  <1> QED BY <1>1, <1>2, PTL DEF FilesSpec

\* The types that the run checks.
THEOREM FilesTypes == FilesSpec => []FilesTypeOK
  <1>1. FInv => FilesTypeOK
    BY DEF FInv, Shape, Known, FilesTypeOK, TextsOrNone, Operations, UploadRecs, UploadStages, UploadEnds,
           SyncRecs
  <1> QED BY <1>1, FilesInvariant, PTL

\* The uploads that succeed do not exceed the quota (PersonalWorkspaceService.upload).
THEOREM QuotaHolds == FilesSpec => []QuotaIsKept
  <1>1. QInv => QuotaIsKept
    BY DEF QInv
  <1> QED BY <1>1, FilesInvariant, PTL

-------------------------------------------------------------------------------
(* The three parts together *)

\* A step of the indexer is a step of one part and leaves the others as they are.
LEMMA PartsMove ==
  ASSUME [IndexerNext]_allVars
  PROVE  [Next]_vars /\ [LexNext]_lexVars /\ [FilesNext]_fileVars
  <1>1. CASE InDocument(Next)
    BY <1>1 DEF InDocument
  <1>2. CASE InPublication(LexNext)
    BY <1>2 DEF InPublication
  <1>3. CASE InFiles(FilesNext)
    BY <1>3 DEF InFiles
  <1>4. CASE UNCHANGED allVars
    BY <1>4 DEF allVars
  <1> QED BY <1>1, <1>2, <1>3, <1>4 DEF IndexerNext

(***************************************************************************)
(* What TLC runs is each part, whatever the other two do: every theorem    *)
(* about a part is one about the indexer.                                  *)
(***************************************************************************)
THEOREM IndexerIsItsParts == IndexerSpec => Spec /\ LexSpec /\ FilesSpec
  <1>1. IndexerInit => Init /\ LexInit /\ FilesInit
    BY DEF IndexerInit
  <1>2. [IndexerNext]_allVars => [Next]_vars
    BY PartsMove
  <1>3. [IndexerNext]_allVars => [LexNext]_lexVars
    BY PartsMove
  <1>4. [IndexerNext]_allVars => [FilesNext]_fileVars
    BY PartsMove
  <1> QED BY <1>1, <1>2, <1>3, <1>4, PTL DEF IndexerSpec, Spec, LexSpec, FilesSpec

\* The document's tables, the threads and the personal files keep their shape.
THEOREM IndexerTypes == IndexerSpec => []Types
  <1>1. LInv => LexTypeOK
    BY DEF LInv, Pair
  <1>2. LexSpec => []LexTypeOK
    BY <1>1, PublicationInvariant, PTL
  <1>3. TypeOK /\ LexTypeOK /\ FilesTypeOK => Types
    BY DEF Types
  <1> QED BY <1>2, <1>3, IndexerIsItsParts, IndexingTypes, FilesTypes, PTL

===============================================================================
