------------------------- MODULE IndexQueue_proofs -------------------------
(***************************************************************************)
(* Proofs about IndexQueue, for any number of jobs, workers, assets and    *)
(* attempts.                                                               *)
(***************************************************************************)
EXTENDS IndexQueue, TLAPS

\* A producer only ever selected rows of its own asset.
SelectedOwn ==
    \A a \in Assets : selected[a] # NotOpen =>
        \A j \in selected[a] : AssetOf[j] = a /\ job[j].status # "absent"

IInv == TypeOK /\ Ownership /\ AttemptsLeft /\ SelectedOwn

-----------------------------------------------------------------------------
\* What the queue writes into the targets keeps their types.
LEMMA MarkTargetType ==
    ASSUME TypeOK, NEW j \in Jobs, MarkTarget(j, "indexing")
                                   \/ MarkTarget(j, "pending")
                                   \/ MarkTarget(j, "failed")
    PROVE  /\ document' \in [Documents -> DocumentRow]
           /\ note' \in [Notes -> NoteRow]
           /\ verified' \in SUBSET Versions
           /\ seen' \in [Jobs -> {"free", "live", "deleted"}]
BY DEF TypeOK, MarkTarget, DocumentUnder, NoteUnder, DocumentRow, NoteRow

LEMMA CompleteTargetType ==
    ASSUME TypeOK, QueueAssumption, NEW j \in Jobs, CompleteTarget(j)
    PROVE  /\ document' \in [Documents -> DocumentRow]
           /\ note' \in [Notes -> NoteRow]
           /\ verified' \in SUBSET Versions
           /\ seen' \in [Jobs -> {"free", "live", "deleted"}]
BY DEF TypeOK, CompleteTarget, DocumentRow, NoteRow, QueueAssumption

LEMMA TypeInit == QueueAssumption /\ Init => TypeOK
BY DEF QueueAssumption, Init, TypeOK, NewRow, JobRow, DocumentRow, NoteRow,
       Active, Waiting, InProgress, Terminal, Operations

LEMMA TypeNext == QueueAssumption /\ TypeOK /\ [Next]_vars => TypeOK'
<1> SUFFICES ASSUME QueueAssumption, TypeOK, [Next]_vars PROVE TypeOK'
  OBVIOUS
<1> USE DEF QueueAssumption
<1>1. ASSUME NEW w \in Workers, NEW j \in Jobs, Claim(w, j) PROVE TypeOK'
  <2>1. ClaimedRow(job[j], w) \in JobRow
    <3>1. job[j] \in JobRow
      BY DEF TypeOK
    <3>2. job[j].attempts + 1 \in Nat /\ LeaseTicks \in 0..LeaseTicks
      BY <3>1 DEF JobRow
    <3> QED
      BY <3>1, <3>2 DEF ClaimedRow, JobRow, Active, InProgress
  <2>2. job' \in [Jobs -> JobRow]
    BY <1>1, <2>1 DEF TypeOK, Claim
  <2> QED
    BY <1>1, <2>2, MarkTargetType DEF TypeOK, Claim
<1>2. ASSUME NEW w \in Workers, NEW j \in Jobs, NEW s \in InProgress,
             Transition(w, j, s)
      PROVE TypeOK'
  <2>1. job' \in [Jobs -> JobRow]
    <3>1. job[j] \in JobRow
      BY DEF TypeOK
    <3>2. [job[j] EXCEPT !.status = s, !.lease = LeaseTicks] \in JobRow
      <4>1. LeaseTicks \in 0..LeaseTicks
        OBVIOUS
      <4> QED
        BY <3>1, <4>1 DEF JobRow, Active
    <3>3. job' = [job EXCEPT ![j] = [@ EXCEPT !.status = s, !.lease = LeaseTicks]]
      BY <1>2 DEF Transition
    <3> QED
      BY <3>2, <3>3 DEF TypeOK
  <2> QED
    BY <1>2, <2>1, MarkTargetType DEF TypeOK, Transition
<1>3. ASSUME NEW w \in Workers, NEW j \in Jobs, Renew(w, j) PROVE TypeOK'
  BY <1>3 DEF TypeOK, Renew, JobRow
<1>4. ASSUME NEW w \in Workers, NEW j \in Jobs, Complete(w, j) PROVE TypeOK'
  BY <1>4, CompleteTargetType
  DEF TypeOK, Complete, Finish, JobRow, Active, Terminal
<1>5. ASSUME NEW w \in Workers, NEW j \in Jobs, Supersede(w, j) PROVE TypeOK'
  BY <1>5 DEF TypeOK, Supersede, Finish, JobRow, Active, Terminal
<1>6. ASSUME NEW w \in Workers, NEW j \in Jobs, FailRetry(w, j) PROVE TypeOK'
  <2>1. PICK d \in RetryDelays(job[j].attempts) :
            job' = [job EXCEPT ![j].status = "retry_wait", ![j].owner = NoWorker,
                               ![j].lease = 0, ![j].wait = d]
    BY <1>6 DEF FailRetry
  <2>2. d \in 0..MaxWait
    BY DEF RetryDelays
  <2>3. [job[j] EXCEPT !.status = "retry_wait", !.owner = NoWorker, !.lease = 0,
                       !.wait = d] \in JobRow
    <3>1. job[j] \in JobRow /\ 0 \in 0..LeaseTicks
      BY DEF TypeOK
    <3> QED
      BY <2>2, <3>1 DEF JobRow, Active, Waiting
  <2>4. job' = [job EXCEPT ![j] = [@ EXCEPT !.status = "retry_wait", !.owner = NoWorker,
                                            !.lease = 0, !.wait = d]]
    BY <2>1
  <2>5. job' \in [Jobs -> JobRow]
    BY <2>3, <2>4 DEF TypeOK
  <2> QED
    BY <1>6, <2>5, MarkTargetType DEF TypeOK, FailRetry
<1>7. ASSUME NEW w \in Workers, NEW j \in Jobs, FailForGood(w, j) PROVE TypeOK'
  BY <1>7, MarkTargetType DEF TypeOK, FailForGood, Finish, JobRow, Active, Terminal
<1>8. ASSUME NEW j \in Jobs, Recover(j) PROVE TypeOK'
  <2>1. job' \in [Jobs -> JobRow]
    BY <1>8 DEF TypeOK, Recover, JobRow, Active, Waiting, Terminal
  <2>2. MarkTarget(j, "failed") \/ MarkTarget(j, "pending")
    BY <1>8 DEF Recover
  <2> QED
    BY <1>8, <2>1, <2>2, MarkTargetType DEF TypeOK, Recover
<1>9. ASSUME NEW w \in Workers, Crash(w) PROVE TypeOK'
  BY <1>9 DEF TypeOK, Crash
<1>10. ASSUME NEW j \in Jobs, EnqueueControl(j) PROVE TypeOK'
  BY <1>10 DEF TypeOK, EnqueueControl, NewRow, JobRow, Active, Waiting, Operations
<1>11. ASSUME NEW a \in Assets, Select(a) PROVE TypeOK'
  BY <1>11 DEF TypeOK, Select
<1>12. ASSUME NEW d \in Documents, NEW j \in Jobs,
              NEW op \in {"upsert_version", "refresh_metadata", "delete_asset"},
              SyncDocument(d, j, op)
       PROVE TypeOK'
  <2>1. job' \in [Jobs -> JobRow]
    <3>1. CASE /\ Inserts(d, j)
               /\ job' = [job EXCEPT ![j] = NewRow(op, 0)]
      BY <3>1 DEF TypeOK, NewRow, JobRow, Active, Waiting, Operations
    <3>2. CASE job' = IF op = "delete_asset"
                      THEN [job EXCEPT ![j].operation = op] ELSE job
      BY <3>2 DEF TypeOK, JobRow, Operations
    <3> QED
      BY <1>12, <3>1, <3>2 DEF SyncDocument
  <2>2. document' \in [Documents -> DocumentRow]
    BY <1>12 DEF TypeOK, SyncDocument, DocumentRow
  <2> QED
    BY <1>12, <2>1, <2>2 DEF TypeOK, SyncDocument
<1>13. ASSUME NEW n \in Notes, NEW j \in Jobs,
              NEW op \in {"upsert_version", "delete_asset"}, ScheduleNote(n, j, op)
       PROVE TypeOK'
  <2>1. job' \in [Jobs -> JobRow]
    <3>1. NewRow(op, NoteDelay) \in JobRow
      BY DEF NewRow, JobRow, Active, Waiting, Operations
    <3>2. PICK attempts \in {0, job[j].attempts} :
              job' = [i \in Jobs |->
                  IF i = j
                  THEN IF Inserts(n, j) THEN NewRow(op, NoteDelay)
                       ELSE [job[j] EXCEPT !.operation = op, !.wait = NoteDelay,
                                           !.attempts = attempts]
                  ELSE IF i \in selected[n]
                       THEN [job[i] EXCEPT !.status = "superseded"]
                       ELSE job[i]]
      BY <1>13 DEF ScheduleNote
    <3>3. [job[j] EXCEPT !.operation = op, !.wait = NoteDelay,
                         !.attempts = attempts] \in JobRow
      <4>1. job[j] \in JobRow
        BY DEF TypeOK
      <4>2. attempts \in Nat
        BY <4>1, <3>2 DEF JobRow
      <4> QED
        BY <4>1, <4>2 DEF JobRow, Operations
    <3>4. \A i \in Jobs : [job[i] EXCEPT !.status = "superseded"] \in JobRow
      BY DEF TypeOK, JobRow, Active, Terminal
    <3> QED
      BY <3>1, <3>2, <3>3, <3>4 DEF TypeOK
  <2>2. note' \in [Notes -> NoteRow]
    BY <1>13 DEF TypeOK, ScheduleNote, NoteRow
  <2> QED
    BY <1>13, <2>1, <2>2 DEF TypeOK, ScheduleNote
<1>14. ASSUME Tick PROVE TypeOK'
  <2>1. \A j \in Jobs : [job[j] EXCEPT !.lease = IF @ > 0 THEN @ - 1 ELSE 0,
                                         !.wait = IF @ > 0 THEN @ - 1 ELSE 0]
                        \in JobRow
    <3> SUFFICES ASSUME NEW j \in Jobs
                 PROVE  [job[j] EXCEPT !.lease = IF @ > 0 THEN @ - 1 ELSE 0,
                                       !.wait = IF @ > 0 THEN @ - 1 ELSE 0]
                        \in JobRow
      OBVIOUS
    <3>1. job[j] \in JobRow
      BY DEF TypeOK
    <3>2. job[j].lease \in 0..LeaseTicks /\ job[j].wait \in 0..MaxWait
      BY <3>1 DEF JobRow
    <3>3. /\ (IF job[j].lease > 0 THEN job[j].lease - 1 ELSE 0) \in 0..LeaseTicks
          /\ (IF job[j].wait > 0 THEN job[j].wait - 1 ELSE 0) \in 0..MaxWait
      BY <3>2
    <3> QED
      BY <3>1, <3>3 DEF JobRow
  <2> QED
    BY <1>14, <2>1 DEF TypeOK, Tick
<1>15. CASE UNCHANGED vars
  BY <1>15 DEF TypeOK, vars
<1>16. ASSUME NEW j \in Jobs, ReadTarget(j) \/ Rollback(j) PROVE TypeOK'
  BY <1>16 DEF TypeOK, ReadTarget, Rollback
<1>17. ASSUME NEW d \in Documents, SyncAbort(d) PROVE TypeOK'
  BY <1>17 DEF TypeOK, SyncAbort
<1> QED
  BY <1>1, <1>2, <1>3, <1>4, <1>5, <1>6, <1>7, <1>8, <1>9, <1>10, <1>11, <1>12,
     <1>13, <1>14, <1>15, <1>16, <1>17
  DEF Next, Work, Heartbeat, Produce

\* Every row, target and selection keeps its type.
THEOREM TypeCorrect == Spec => []TypeOK
<1>1. QueueAssumption
  BY QueueAssumption
<1>2. Init => TypeOK
  BY <1>1, TypeInit
<1>3. TypeOK /\ [Next]_vars => TypeOK'
  BY <1>1, TypeNext
<1> QED
  BY <1>2, <1>3, PTL DEF Spec

-----------------------------------------------------------------------------
\* The claimant of a row under Finish and its like: a worker, so not nobody.
LEMMA OwnerIsWorker ==
    ASSUME QueueAssumption, NEW w \in Workers
    PROVE  w # NoWorker
BY DEF QueueAssumption

LEMMA InvInit == QueueAssumption /\ Init => IInv
<1> SUFFICES ASSUME QueueAssumption, Init PROVE IInv
  OBVIOUS
<1>1. TypeOK
  BY TypeInit
<1>2. Ownership /\ AttemptsLeft
  BY DEF Init, NewRow, Ownership, AttemptsLeft, InProgress, Waiting, QueueAssumption
<1>3. SelectedOwn
  BY DEF Init, SelectedOwn
<1> QED
  BY <1>1, <1>2, <1>3 DEF IInv

LEMMA InvNext == QueueAssumption /\ IInv /\ [Next]_vars => IInv'
<1> SUFFICES ASSUME QueueAssumption, IInv, [Next]_vars PROVE IInv'
  OBVIOUS
<1>0. TypeOK'
  BY TypeNext DEF IInv
<1> DEFINE Rest == Ownership' /\ AttemptsLeft' /\ SelectedOwn'
<1> USE DEF IInv, TypeOK
<1>1. ASSUME NEW w \in Workers, NEW j \in Jobs, Claim(w, j) PROVE Rest
  <2>1. job[j] \in JobRow /\ job[j].status \in Waiting
    BY <1>1 DEF Claim, Claimable
  <2>2. job' = [job EXCEPT ![j] = ClaimedRow(@, w)] /\ UNCHANGED selected
    BY <1>1 DEF Claim
  <2>3. /\ ClaimedRow(job[j], w).status = "claimed"
        /\ ClaimedRow(job[j], w).owner = w
        /\ ClaimedRow(job[j], w).attempts = job[j].attempts + 1
    BY <2>1 DEF ClaimedRow, JobRow
  <2>4. job[j].attempts < MaxAttempts
    BY <2>1 DEF AttemptsLeft
  <2>5. Ownership'
    BY <2>2, <2>3, OwnerIsWorker DEF Ownership, InProgress
  <2>6. AttemptsLeft'
    BY <2>1, <2>2, <2>3, <2>4 DEF AttemptsLeft, Waiting, JobRow, QueueAssumption
  <2>7. SelectedOwn'
    BY <2>2, <2>3 DEF SelectedOwn
  <2> QED
    BY <2>5, <2>6, <2>7
<1>2. ASSUME NEW w \in Workers, NEW j \in Jobs, NEW s \in InProgress,
             Transition(w, j, s)
      PROVE Rest
  <2>1. Ownership'
    BY <1>2, OwnerIsWorker DEF Transition, Ownership, JobRow
  <2>2. AttemptsLeft'
    BY <1>2 DEF Transition, AttemptsLeft, JobRow, InProgress, Waiting
  <2>3. SelectedOwn'
    BY <1>2 DEF Transition, SelectedOwn, JobRow, InProgress
  <2> QED
    BY <2>1, <2>2, <2>3
<1>3. ASSUME NEW w \in Workers, NEW j \in Jobs, Renew(w, j) PROVE Rest
  BY <1>3 DEF Renew, Ownership, AttemptsLeft, SelectedOwn, JobRow
<1>4. ASSUME NEW w \in Workers, NEW j \in Jobs,
             NEW s \in {"completed", "superseded", "failed"}, Finish(w, j, s)
      PROVE Rest
  BY <1>4 DEF Finish, Ownership, AttemptsLeft, SelectedOwn, JobRow, InProgress,
              Waiting
<1>5. ASSUME NEW w \in Workers, NEW j \in Jobs, FailRetry(w, j) PROVE Rest
  BY <1>5 DEF FailRetry, Ownership, AttemptsLeft, SelectedOwn, JobRow, InProgress,
              Waiting
<1>6. ASSUME NEW j \in Jobs, Recover(j) PROVE Rest
  BY <1>6 DEF Recover, Ownership, AttemptsLeft, SelectedOwn, JobRow, InProgress,
              Waiting, QueueAssumption
<1>7. ASSUME NEW j \in Jobs, EnqueueControl(j) PROVE Rest
  BY <1>7 DEF EnqueueControl, NewRow, Ownership, AttemptsLeft, SelectedOwn,
              JobRow, InProgress, Waiting, QueueAssumption
<1>8. ASSUME NEW a \in Assets, Select(a) PROVE Rest
  BY <1>8 DEF Select, Ownership, AttemptsLeft, SelectedOwn, Active, InProgress,
              Waiting
<1>9. ASSUME NEW d \in Documents, NEW j \in Jobs,
             NEW op \in {"upsert_version", "refresh_metadata", "delete_asset"},
             SyncDocument(d, j, op)
      PROVE Rest
  <2>1. SelectedOwn'
    BY <1>9 DEF SyncDocument, Inserts, NewRow, SelectedOwn, JobRow
  <2>2. \/ job' = [job EXCEPT ![j] = NewRow(op, 0)]
        \/ job' = IF op = "delete_asset" THEN [job EXCEPT ![j].operation = op] ELSE job
    BY <1>9 DEF SyncDocument
  <2>3. CASE job' = [job EXCEPT ![j] = NewRow(op, 0)]
    <3>1. /\ NewRow(op, 0).status = "pending" /\ NewRow(op, 0).owner = NoWorker
          /\ NewRow(op, 0).attempts = 0
      BY DEF NewRow
    <3>2. 0 < MaxAttempts /\ 0 <= MaxAttempts
      BY DEF QueueAssumption
    <3>3. \A i \in Jobs : IF i = j THEN job'[i] = NewRow(op, 0) ELSE job'[i] = job[i]
      BY <2>3
    <3> QED
      BY <2>1, <3>1, <3>2, <3>3 DEF Ownership, AttemptsLeft, InProgress
  <2>4. CASE job' = IF op = "delete_asset" THEN [job EXCEPT ![j].operation = op]
                    ELSE job
    <3>1. \A i \in Jobs : /\ job'[i].status = job[i].status
                          /\ job'[i].owner = job[i].owner
                          /\ job'[i].attempts = job[i].attempts
      BY <2>4
    <3> QED
      BY <2>1, <3>1 DEF Ownership, AttemptsLeft
  <2> QED
    BY <2>1, <2>2, <2>3, <2>4
<1>10. ASSUME NEW n \in Notes, NEW j \in Jobs,
              NEW op \in {"upsert_version", "delete_asset"}, ScheduleNote(n, j, op)
       PROVE Rest
  <2>1. PICK attempts \in {0, job[j].attempts} :
            /\ job[j].status \in Waiting => attempts = 0
            /\ job' = [i \in Jobs |->
                  IF i = j
                  THEN IF Inserts(n, j) THEN NewRow(op, NoteDelay)
                       ELSE [job[j] EXCEPT !.operation = op, !.wait = NoteDelay,
                                           !.attempts = attempts]
                  ELSE IF i \in selected[n]
                       THEN [job[i] EXCEPT !.status = "superseded"]
                       ELSE job[i]]
    BY <1>10 DEF ScheduleNote
  <2>2. /\ selected[n] # NotOpen
        /\ selected' = [selected EXCEPT ![n] = NotOpen]
        /\ n \in Assets
    BY <1>10 DEF ScheduleNote, Assets
  <2>3. \A i \in selected[n] : AssetOf[i] \in Notes
    BY <2>2 DEF SelectedOwn
  <2>4. Ownership'
    BY <2>1, <2>3 DEF Ownership, NewRow, JobRow, InProgress, Inserts
  <2>5. AttemptsLeft'
    BY <2>1 DEF AttemptsLeft, NewRow, JobRow, Waiting, Inserts, QueueAssumption
  <2>6. SelectedOwn'
    BY <2>1, <2>2 DEF SelectedOwn, NewRow, JobRow
  <2> QED
    BY <2>4, <2>5, <2>6
<1>11. ASSUME Tick PROVE Rest
  <2>1. \A j \in Jobs : /\ job'[j].status = job[j].status
                         /\ job'[j].owner = job[j].owner
                         /\ job'[j].attempts = job[j].attempts
    <3> SUFFICES ASSUME NEW j \in Jobs
                 PROVE  /\ job'[j].status = job[j].status
                        /\ job'[j].owner = job[j].owner
                        /\ job'[j].attempts = job[j].attempts
      OBVIOUS
    <3>1. job'[j] = [job[j] EXCEPT !.lease = IF @ > 0 THEN @ - 1 ELSE 0,
                                   !.wait = IF @ > 0 THEN @ - 1 ELSE 0]
      BY <1>11 DEF Tick
    <3>2. job[j] \in JobRow
      OBVIOUS
    <3> QED
      BY <3>1, <3>2 DEF JobRow
  <2>2. UNCHANGED selected
    BY <1>11 DEF Tick
  <2>3. Ownership' /\ AttemptsLeft'
    BY <2>1 DEF Ownership, AttemptsLeft
  <2>4. SelectedOwn'
    <3> SUFFICES ASSUME NEW a \in Assets, selected[a] # NotOpen, NEW j \in selected[a]
                 PROVE  AssetOf[j] = a /\ job'[j].status # "absent"
      BY <2>2 DEF SelectedOwn
    <3>1. j \in Jobs
      OBVIOUS
    <3> QED
      BY <2>1, <3>1 DEF SelectedOwn
  <2> QED
    BY <2>3, <2>4
<1>12. ASSUME NEW w \in Workers, Crash(w) PROVE Rest
  BY <1>12 DEF Crash, Ownership, AttemptsLeft, SelectedOwn
<1>13. CASE UNCHANGED vars
  BY <1>13 DEF vars, Ownership, AttemptsLeft, SelectedOwn
<1>14. ASSUME NEW j \in Jobs, ReadTarget(j) \/ Rollback(j) PROVE Rest
  BY <1>14 DEF ReadTarget, Rollback, Ownership, AttemptsLeft, SelectedOwn
<1>15. ASSUME NEW d \in Documents, SyncAbort(d) PROVE Rest
  BY <1>15 DEF SyncAbort, Ownership, AttemptsLeft, SelectedOwn
<1>16. Rest
  BY <1>1, <1>2, <1>3, <1>4, <1>5, <1>6, <1>7, <1>8, <1>9, <1>10, <1>11, <1>12,
     <1>13, <1>14, <1>15
  DEF Next, Work, Heartbeat, Produce, Complete, Supersede, FailForGood
<1> QED
  BY <1>0, <1>16 DEF IInv

\* The strengthened invariant holds of every reachable state.
THEOREM Inductive == Spec => []IInv
<1>1. QueueAssumption
  BY QueueAssumption
<1>2. Init => IInv
  BY <1>1, InvInit
<1>3. IInv /\ [Next]_vars => IInv'
  BY <1>1, InvNext
<1> QED
  BY <1>2, <1>3, PTL DEF Spec

\* A row in progress has a claimant, and a row with a claimant is in progress or
\* was superseded by a save after its claim: complete(), supersede() and fail()
\* may rely on claimed_by alone.
THEOREM OwnershipHolds == Spec => []Ownership
<1>1. IInv => Ownership
  BY DEF IInv
<1> QED
  BY <1>1, Inductive, PTL

\* No job is ever tried more than max_attempts times.
THEOREM AttemptsBounded == Spec => []AttemptsLeft
<1>1. IInv => AttemptsLeft
  BY DEF IInv
<1> QED
  BY <1>1, Inductive, PTL

-----------------------------------------------------------------------------
\* Each step of a job's row, seen from the job alone.  A step leaves status and
\* owner of job j as they are, or is one of the few that change them.
LEMMA Steps ==
    ASSUME QueueAssumption, IInv, [Next]_vars, NEW j \in Jobs
    PROVE  \/ UNCHANGED <<job[j].status, job[j].owner>>
           \/ job[j].status = "absent" /\ job'[j].status = "pending"
                                       /\ job'[j].owner = NoWorker
           \/ job[j].status \in Waiting /\ job'[j].status = "claimed"
           \/ job[j].owner # NoWorker
           \/ job'[j].status = "superseded" /\ job'[j].owner = job[j].owner
<1> USE DEF IInv, TypeOK
<1>1. ASSUME NEW w \in Workers, NEW i \in Jobs, Claim(w, i) PROVE
          \/ UNCHANGED <<job[j].status, job[j].owner>>
          \/ job[j].status \in Waiting /\ job'[j].status = "claimed"
  <2>1. CASE i = j
    <3>1. job[j] \in JobRow /\ job'[j] = ClaimedRow(job[j], w)
      BY <1>1, <2>1 DEF Claim
    <3> QED
      BY <1>1, <2>1, <3>1 DEF Claim, Claimable, ClaimedRow, JobRow
  <2>2. CASE i # j
    BY <1>1, <2>2 DEF Claim
  <2> QED
    BY <2>1, <2>2
<1>2. ASSUME NEW w \in Workers, NEW i \in Jobs,
             Work(w, i) \/ Heartbeat(w, i)
      PROVE  UNCHANGED <<job[j].status, job[j].owner>> \/ job[j].owner # NoWorker
  BY <1>2, OwnerIsWorker
  DEF Work, Heartbeat, Transition, Renew, Complete, Supersede, FailRetry,
      FailForGood, Finish
<1>3. ASSUME NEW i \in Jobs, Recover(i)
      PROVE  UNCHANGED <<job[j].status, job[j].owner>> \/ job[j].owner # NoWorker
  BY <1>3 DEF Recover, Ownership
<1>4. ASSUME NEW i \in Jobs, EnqueueControl(i)
      PROVE  \/ UNCHANGED <<job[j].status, job[j].owner>>
             \/ job[j].status = "absent" /\ job'[j].status = "pending"
                                         /\ job'[j].owner = NoWorker
  BY <1>4 DEF EnqueueControl, NewRow
<1>5. ASSUME NEW d \in Documents, NEW i \in Jobs,
             NEW op \in {"upsert_version", "refresh_metadata", "delete_asset"},
             SyncDocument(d, i, op)
      PROVE  \/ UNCHANGED <<job[j].status, job[j].owner>>
             \/ job[j].status = "absent" /\ job'[j].status = "pending"
                                         /\ job'[j].owner = NoWorker
  BY <1>5 DEF SyncDocument, Inserts, NewRow, JobRow
<1>6. ASSUME NEW n \in Notes, NEW i \in Jobs,
             NEW op \in {"upsert_version", "delete_asset"}, ScheduleNote(n, i, op)
      PROVE  \/ UNCHANGED <<job[j].status, job[j].owner>>
             \/ job[j].status = "absent" /\ job'[j].status = "pending"
                                         /\ job'[j].owner = NoWorker
             \/ job'[j].status = "superseded" /\ job'[j].owner = job[j].owner
  BY <1>6 DEF ScheduleNote, Inserts, NewRow, JobRow
<1>7. ASSUME Tick PROVE UNCHANGED <<job[j].status, job[j].owner>>
  <2>1. job'[j] = [job[j] EXCEPT !.lease = IF @ > 0 THEN @ - 1 ELSE 0,
                                 !.wait = IF @ > 0 THEN @ - 1 ELSE 0]
    BY <1>7 DEF Tick
  <2>2. job[j] \in JobRow
    OBVIOUS
  <2> QED
    BY <2>1, <2>2 DEF JobRow
<1>8. ASSUME UNCHANGED job PROVE UNCHANGED <<job[j].status, job[j].owner>>
  BY <1>8
<1> QED
  BY <1>1, <1>2, <1>3, <1>4, <1>5, <1>6, <1>7, <1>8
  DEF Next, Produce, Select, Crash, ReadTarget, Rollback, SyncAbort, vars

\* A job that is over and in nobody's hands stays over and in nobody's hands.
THEOREM OverStaysOver == Spec => OverIsOver
<1>1. QueueAssumption
  BY QueueAssumption
<1>2. IInv /\ [Next]_vars =>
        [\A j \in Jobs :
            job[j].status \in Terminal /\ job[j].owner = NoWorker =>
                job'[j].status \in Terminal /\ job'[j].owner = NoWorker]_vars
  <2> SUFFICES ASSUME IInv, [Next]_vars, NEW j \in Jobs,
                      job[j].status \in Terminal, job[j].owner = NoWorker
               PROVE  job'[j].status \in Terminal /\ job'[j].owner = NoWorker
    OBVIOUS
  <2> QED
    BY <1>1, Steps DEF Terminal, Waiting
<1> QED
  BY <1>2, Inductive, PTL DEF Spec, OverIsOver

-----------------------------------------------------------------------------
\* The refinement, one step at a time.  A change of one row is one step of the
\* life cycle of that job.
LEMMA InitRefines == QueueAssumption /\ Init => Lifecycle!Init
BY DEF Init, NewRow, Phase, Lifecycle!Init, Waiting

LEMMA NextRefines ==
    QueueAssumption /\ IInv /\ IInv' /\ [Next]_vars => [Lifecycle!Next]_(Lifecycle!lifecycle)
<1> SUFFICES ASSUME QueueAssumption, IInv, IInv', [Next]_vars
             PROVE  Lifecycle!Next \/ UNCHANGED Lifecycle!lifecycle
  OBVIOUS
<1> USE DEF IInv, TypeOK
<1>0. /\ 0 \in 0..LeaseTicks /\ 0 \in 0..MaxWait /\ 0 \in Nat
      /\ MaxAttempts \in Nat
  BY DEF QueueAssumption
<1>1. ASSUME NEW w \in Workers, NEW j \in Jobs, Claim(w, j)
      PROVE  Lifecycle!Take(w, j)
  <2>1. job[j] \in JobRow /\ job[j].status \in Waiting
    BY <1>1 DEF Claim, Claimable
  <2>2. job' = [job EXCEPT ![j] = ClaimedRow(@, w)]
    BY <1>1 DEF Claim
  <2>3. /\ ClaimedRow(job[j], w).status = "claimed"
        /\ ClaimedRow(job[j], w).owner = w
        /\ ClaimedRow(job[j], w).attempts = job[j].attempts + 1
    BY <2>1 DEF ClaimedRow, JobRow
  <2>4. w # NoWorker
    BY OwnerIsWorker
  <2>5. \A i \in Jobs : Phase(i)' = IF i = j THEN "held" ELSE Phase(i)
    BY <2>2, <2>3, <2>4 DEF Phase, Waiting
  <2>6. Phase(j) = "queued" /\ job[j].attempts < MaxAttempts
    BY <2>1 DEF Phase, AttemptsLeft
  <2> QED
    BY <2>2, <2>3, <2>5, <2>6 DEF Lifecycle!Take
<1>2. ASSUME NEW j \in Jobs, job[j].owner # NoWorker \/ job[j].status \in InProgress,
             NEW r, r \in JobRow, job' = [job EXCEPT ![j] = r],
             r.status \in Terminal, r.owner = NoWorker,
             r.attempts = job[j].attempts
      PROVE  Lifecycle!End(j)
  <2>1. job[j].owner # NoWorker
    BY <1>2 DEF Ownership
  <2>2. \A i \in Jobs : Phase(i)' = IF i = j THEN "over" ELSE Phase(i)
    BY <1>2 DEF Phase, Waiting, Terminal
  <2>3. Phase(j) = "held"
    BY <2>1 DEF Phase, Ownership, InProgress, Waiting
  <2> QED
    BY <1>2, <2>2, <2>3 DEF Lifecycle!End
<1>3. ASSUME NEW j \in Jobs, job[j].owner # NoWorker \/ job[j].status \in InProgress,
             NEW r, r \in JobRow, job' = [job EXCEPT ![j] = r],
             r.status \in Waiting, r.owner = NoWorker,
             r.attempts = job[j].attempts, job[j].attempts < MaxAttempts
      PROVE  Lifecycle!Release(j)
  <2>1. job[j].owner # NoWorker
    BY <1>3 DEF Ownership
  <2>2. \A i \in Jobs : Phase(i)' = IF i = j THEN "queued" ELSE Phase(i)
    BY <1>3 DEF Phase, Waiting
  <2>3. Phase(j) = "held"
    BY <2>1 DEF Phase, Ownership, InProgress, Waiting
  <2> QED
    BY <1>3, <2>2, <2>3 DEF Lifecycle!Release
<1>4. ASSUME NEW j \in Jobs, job[j].status = "absent",
             NEW r, r \in JobRow, job' = [job EXCEPT ![j] = r],
             r.status = "pending", r.owner = NoWorker, r.attempts = 0
      PROVE  Lifecycle!Next \/ UNCHANGED Lifecycle!lifecycle
  <2>1. \A i \in Jobs : Phase(i)' = IF i = j THEN "queued" ELSE Phase(i)
    BY <1>4 DEF Phase, Waiting
  <2>2. Phase(j) = "none" /\ job[j].owner = NoWorker
    BY <1>4 DEF Phase, Ownership, InProgress, Waiting
  <2>4. [i \in Jobs |-> job[i].owner]' = [i \in Jobs |-> job[i].owner]
    BY <1>4, <2>2
  <2>5. \A i \in Jobs : job'[i].attempts = IF i \in {j} THEN 0 ELSE job[i].attempts
    BY <1>4
  <2>6. /\ [i \in Jobs |-> Phase(i)]' =
              [i \in Jobs |-> IF i \in {} THEN "over"
                              ELSE IF i \in {j} THEN "queued"
                              ELSE [k \in Jobs |-> Phase(k)][i]]
        /\ [i \in Jobs |-> job[i].attempts]' =
              [i \in Jobs |-> IF i \in {j} THEN 0
                              ELSE [k \in Jobs |-> job[k].attempts][i]]
    BY <2>1, <2>5
  <2>7. /\ {j} \in SUBSET Jobs /\ {} \in SUBSET Jobs
        /\ \A i \in {} : [k \in Jobs |-> Phase(k)][i] = "queued"
        /\ \A i \in {j} : [k \in Jobs |-> Phase(k)][i] = "none"
    BY <2>2
  <2> QED
    BY <2>4, <2>6, <2>7 DEF Lifecycle!Revise, Lifecycle!Next
\* Steps the life cycle does not see.
<1>5. ASSUME \A j \in Jobs : /\ job'[j].owner = job[j].owner
                             /\ job'[j].attempts = job[j].attempts
                             /\ \/ job'[j].status = job[j].status
                                \/ /\ job[j].status \in InProgress
                                   /\ job'[j].status \in InProgress
      PROVE  UNCHANGED Lifecycle!lifecycle
  <2>1. \A j \in Jobs : Phase(j)' = Phase(j)
    BY <1>5 DEF Phase, Waiting, InProgress
  <2> QED
    BY <1>5, <2>1 DEF Lifecycle!lifecycle
<1>6. ASSUME NEW w \in Workers, NEW j \in Jobs, NEW s \in InProgress,
             Transition(w, j, s)
      PROVE  UNCHANGED Lifecycle!lifecycle
  BY <1>5, <1>6 DEF Transition, JobRow
<1>7. ASSUME NEW w \in Workers, NEW j \in Jobs, Renew(w, j)
      PROVE  UNCHANGED Lifecycle!lifecycle
  BY <1>5, <1>7 DEF Renew, JobRow
<1>8. ASSUME NEW w \in Workers, NEW j \in Jobs,
             NEW s \in {"completed", "superseded", "failed"}, Finish(w, j, s)
      PROVE  Lifecycle!End(j)
  <2>1. DEFINE r == [job[j] EXCEPT !.status = s, !.owner = NoWorker, !.lease = 0]
  <2>2. job[j] \in JobRow
    OBVIOUS
  <2>3. /\ r \in JobRow
        /\ r.status \in Terminal /\ r.owner = NoWorker
        /\ r.attempts = job[j].attempts
    BY <1>0, <2>2 DEF JobRow, Terminal
  <2>4. job' = [job EXCEPT ![j] = r]
    BY <1>8 DEF Finish
  <2>5. job[j].owner # NoWorker
    BY <1>8, OwnerIsWorker DEF Finish
  <2> QED
    BY <1>2, <2>3, <2>4, <2>5
<1>9. ASSUME NEW w \in Workers, NEW j \in Jobs, FailRetry(w, j)
      PROVE  Lifecycle!Release(j)
  <2>1. PICK d \in RetryDelays(job[j].attempts) :
            job' = [job EXCEPT ![j].status = "retry_wait", ![j].owner = NoWorker,
                               ![j].lease = 0, ![j].wait = d]
    BY <1>9 DEF FailRetry
  <2>2. DEFINE r == [job[j] EXCEPT !.status = "retry_wait", !.owner = NoWorker,
                                   !.lease = 0, !.wait = d]
  <2>3. job[j] \in JobRow
    OBVIOUS
  <2>4. /\ r \in JobRow
        /\ r.status \in Waiting /\ r.owner = NoWorker
        /\ r.attempts = job[j].attempts
    BY <1>0, <2>1, <2>3 DEF JobRow, Active, Waiting, RetryDelays
  <2>5. job' = [job EXCEPT ![j] = r]
    BY <2>1
  <2>6. job[j].owner # NoWorker /\ job[j].attempts < MaxAttempts
    BY <1>9, OwnerIsWorker DEF FailRetry
  <2> QED
    BY <1>3, <2>4, <2>5, <2>6
<1>10. ASSUME NEW j \in Jobs, Recover(j)
       PROVE  Lifecycle!Release(j) \/ Lifecycle!End(j)
  <2>1. job[j] \in JobRow /\ job[j].status \in InProgress
    BY <1>10 DEF Recover
  <2>2. CASE job[j].attempts >= MaxAttempts
    <3>1. DEFINE r == [job[j] EXCEPT !.status = "failed", !.owner = NoWorker]
    <3>2. /\ r \in JobRow
          /\ r.status \in Terminal /\ r.owner = NoWorker
          /\ r.attempts = job[j].attempts
      BY <2>1 DEF JobRow, Terminal
    <3>3. job' = [job EXCEPT ![j] = r]
      BY <1>10, <2>2 DEF Recover
    <3> QED
      BY <1>2, <2>1, <3>2, <3>3
  <2>3. CASE ~ (job[j].attempts >= MaxAttempts)
    <3>1. DEFINE r == [job[j] EXCEPT !.status = "retry_wait", !.owner = NoWorker,
                                     !.wait = 0]
    <3>2. /\ r \in JobRow
          /\ r.status \in Waiting /\ r.owner = NoWorker
          /\ r.attempts = job[j].attempts
      BY <1>0, <2>1 DEF JobRow, Active, Waiting
    <3>3. job' = [job EXCEPT ![j] = r]
      BY <1>10, <2>3 DEF Recover
    <3>4. job[j].attempts < MaxAttempts
      BY <1>0, <2>1, <2>3 DEF JobRow
    <3> QED
      BY <1>3, <2>1, <3>2, <3>3, <3>4
  <2> QED
    BY <2>2, <2>3
<1>11. ASSUME NEW j \in Jobs, EnqueueControl(j)
       PROVE  Lifecycle!Next \/ UNCHANGED Lifecycle!lifecycle
  <2>1. DEFINE r == NewRow("rebuild_scope", 0)
  <2>2. /\ r \in JobRow
        /\ r.status = "pending" /\ r.owner = NoWorker /\ r.attempts = 0
    BY <1>0 DEF NewRow, JobRow, Active, Waiting, Operations
  <2>3. job[j].status = "absent" /\ job' = [job EXCEPT ![j] = r]
    BY <1>11 DEF EnqueueControl
  <2> HIDE DEF r
  <2> QED
    BY <1>4, <2>2, <2>3
<1>12. ASSUME NEW d \in Documents, NEW j \in Jobs,
              NEW op \in {"upsert_version", "refresh_metadata", "delete_asset"},
              SyncDocument(d, j, op)
       PROVE  Lifecycle!Next \/ UNCHANGED Lifecycle!lifecycle
  <2>1. CASE Inserts(d, j) /\ job' = [job EXCEPT ![j] = NewRow(op, 0)]
    <3>1. DEFINE r == NewRow(op, 0)
    <3>2. /\ r \in JobRow
          /\ r.status = "pending" /\ r.owner = NoWorker /\ r.attempts = 0
      BY <1>0 DEF NewRow, JobRow, Active, Waiting, Operations
    <3>3. job[j].status = "absent" /\ job' = [job EXCEPT ![j] = r]
      BY <2>1 DEF Inserts
    <3> HIDE DEF r
    <3> QED
      BY <1>4, <3>2, <3>3
  <2>2. CASE job' = IF op = "delete_asset"
                    THEN [job EXCEPT ![j].operation = op] ELSE job
    BY <1>5, <2>2 DEF JobRow
  <2> QED
    BY <1>12, <2>1, <2>2 DEF SyncDocument
<1>13. ASSUME NEW n \in Notes, NEW j \in Jobs,
              NEW op \in {"upsert_version", "delete_asset"}, ScheduleNote(n, j, op)
       PROVE  Lifecycle!Revise
  <2>1. PICK attempts \in {0, job[j].attempts} :
            job' = [i \in Jobs |->
                  IF i = j
                  THEN IF Inserts(n, j) THEN NewRow(op, NoteDelay)
                       ELSE [job[j] EXCEPT !.operation = op, !.wait = NoteDelay,
                                           !.attempts = attempts]
                  ELSE IF i \in selected[n]
                       THEN [job[i] EXCEPT !.status = "superseded"]
                       ELSE job[i]]
    BY <1>13 DEF ScheduleNote
  <2>2. \A i \in selected[n] : job[i].status # "absent"
    BY <1>13 DEF ScheduleNote, SelectedOwn, Assets
  <2>3. DEFINE withdrawn == {i \in selected[n] \ {j} : job[i].status \in Waiting}
               submitted == IF Inserts(n, j) THEN {j} ELSE {}
               renewed == IF Inserts(n, j) \/ attempts = 0 THEN {j} ELSE {}
  <2>4. /\ withdrawn \in SUBSET Jobs /\ submitted \in SUBSET Jobs
        /\ renewed \in SUBSET Jobs
    BY <1>13 DEF ScheduleNote, Assets
  <2>5. \A i \in withdrawn : Phase(i) = "queued"
    BY DEF Phase
  <2>6. \A i \in submitted : Phase(i) = "none" /\ job[i].owner = NoWorker
    BY DEF Inserts, Phase, Ownership, InProgress, Waiting
  <2>7. \A i \in Jobs : Phase(i)' = IF i \in withdrawn THEN "over"
                                    ELSE IF i \in submitted THEN "queued"
                                    ELSE Phase(i)
    <3> SUFFICES ASSUME NEW i \in Jobs
                 PROVE  Phase(i)' = IF i \in withdrawn THEN "over"
                                    ELSE IF i \in submitted THEN "queued"
                                    ELSE Phase(i)
      OBVIOUS
    <3>1. job[i] \in JobRow
      OBVIOUS
    <3>2. CASE i = j
      BY <2>1, <3>1, <3>2 DEF Phase, NewRow, Waiting, JobRow
    <3>3. CASE i # j /\ i \in selected[n]
      <4>1. job'[i].status = "superseded" /\ job'[i].owner = job[i].owner
        BY <2>1, <3>1, <3>3 DEF JobRow
      <4>2. job[i].status # "absent"
        BY <2>2, <3>3
      <4>3. job[i].status \in Waiting => job[i].owner = NoWorker
        BY DEF Ownership, Waiting, InProgress
      <4> QED
        BY <3>3, <4>1, <4>2, <4>3 DEF Phase, Waiting
    <3>4. CASE i # j /\ i \notin selected[n]
      BY <2>1, <3>4 DEF Phase
    <3> QED
      BY <3>2, <3>3, <3>4
  <2>8. \A i \in Jobs : /\ job'[i].owner = job[i].owner
                        /\ job'[i].attempts = IF i \in renewed THEN 0
                                              ELSE job[i].attempts
    BY <2>1, <2>6 DEF NewRow, JobRow
  <2>9. /\ [i \in Jobs |-> Phase(i)]' =
              [i \in Jobs |-> IF i \in withdrawn THEN "over"
                              ELSE IF i \in submitted THEN "queued"
                              ELSE [k \in Jobs |-> Phase(k)][i]]
        /\ [i \in Jobs |-> job[i].owner]' = [i \in Jobs |-> job[i].owner]
        /\ [i \in Jobs |-> job[i].attempts]' =
              [i \in Jobs |-> IF i \in renewed THEN 0
                              ELSE [k \in Jobs |-> job[k].attempts][i]]
    BY <2>7, <2>8
  <2>10. /\ \A i \in withdrawn : [k \in Jobs |-> Phase(k)][i] = "queued"
         /\ \A i \in submitted : [k \in Jobs |-> Phase(k)][i] = "none"
    BY <2>4, <2>5, <2>6
  <2> HIDE DEF withdrawn, submitted, renewed
  <2> QED
    BY <2>4, <2>9, <2>10 DEF Lifecycle!Revise
<1>14. ASSUME Tick PROVE UNCHANGED Lifecycle!lifecycle
  <2> SUFFICES ASSUME NEW j \in Jobs
               PROVE  /\ job'[j].owner = job[j].owner
                      /\ job'[j].attempts = job[j].attempts
                      /\ job'[j].status = job[j].status
    BY <1>5
  <2>1. job'[j] = [job[j] EXCEPT !.lease = IF @ > 0 THEN @ - 1 ELSE 0,
                                 !.wait = IF @ > 0 THEN @ - 1 ELSE 0]
    BY <1>14 DEF Tick
  <2>2. job[j] \in JobRow
    OBVIOUS
  <2> QED
    BY <2>1, <2>2 DEF JobRow
<1>15. ASSUME UNCHANGED job PROVE UNCHANGED Lifecycle!lifecycle
  BY <1>5, <1>15
<1>16. ASSUME NEW w \in Workers, NEW j \in Jobs, Work(w, j)
       PROVE  Lifecycle!Next \/ UNCHANGED Lifecycle!lifecycle
  BY <1>6, <1>8, <1>9, <1>16
  DEF Work, Complete, Supersede, FailForGood, Lifecycle!Next
<1>17. ASSUME NEW w \in Workers, NEW j \in Jobs, Claim(w, j) \/ Heartbeat(w, j)
       PROVE  Lifecycle!Next \/ UNCHANGED Lifecycle!lifecycle
  BY <1>1, <1>7, <1>17 DEF Heartbeat, Lifecycle!Next
<1>18. ASSUME Produce
       PROVE  Lifecycle!Next \/ UNCHANGED Lifecycle!lifecycle
  BY <1>11, <1>12, <1>13, <1>15, <1>18 DEF Produce, Select, SyncAbort, Lifecycle!Next
<1>19. ASSUME NEW j \in Jobs, Recover(j)
       PROVE  Lifecycle!Next \/ UNCHANGED Lifecycle!lifecycle
  BY <1>10, <1>19 DEF Lifecycle!Next
<1> QED
  BY <1>14, <1>15, <1>16, <1>17, <1>18, <1>19 DEF Next, Crash, ReadTarget, Rollback, vars

\* The queue, its leases, its stages and its racing producers implement the life
\* cycle of JobLifecycle.
THEOREM QueueImplementsLifecycle == Spec => ImplementsLifecycle
<1>1. QueueAssumption
  BY QueueAssumption
<1>2. Init => Lifecycle!Init
  BY <1>1, InitRefines
<1>3. IInv /\ IInv' /\ [Next]_vars => [Lifecycle!Next]_(Lifecycle!lifecycle)
  BY <1>1, NextRefines
<1> QED
  BY <1>2, <1>3, Inductive, PTL DEF Spec, ImplementsLifecycle, Lifecycle!Spec

=============================================================================
