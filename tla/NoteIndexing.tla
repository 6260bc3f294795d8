----------------------------- MODULE NoteIndexing -----------------------------
(***************************************************************************)
(* One private note between its owner, who saves, archives, deletes and    *)
(* restores it, and the indexer, which puts the points of its current      *)
(* revision where a search finds them.                                     *)
(*                                                                         *)
(* A change is one transaction of NoteService: it reads the note without a *)
(* lock, locks it when it writes it, looks up the jobs that wait (without  *)
(* a lock again), and at its end rewrites one of them or inserts another.  *)
(* What it writes of the note goes into the row as it is now; the revision *)
(* for which it schedules a job is the one it has read.  The indexer       *)
(* prepares a batch on its main thread and writes it, in order, on its     *)
(* writer thread, where it locks the note for a moment before and after    *)
(* the points are written.                                                 *)
(*                                                                         *)
(* Deleting and restoring a note do not give it a new revision, so a job   *)
(* can be out of date though its revision is not.                          *)
(***************************************************************************)
EXTENDS Naturals, FiniteSets, Subsequences

CONSTANTS
    MaxRevision, MaxJobs,       \* bounds on revisions and job rows
    MaxAttempts,                \* max_attempts
    MaxDeletes, MaxRestores,    \* bounds on what the owner does
    MaxFaults, MaxCrashes       \* bounds on what goes wrong

ASSUME NoteAssumption ==
    /\ {MaxRevision, MaxJobs, MaxAttempts} \subseteq Nat \ {0}
    /\ {MaxDeletes, MaxRestores, MaxFaults, MaxCrashes} \subseteq Nat

Jobs == 1..MaxJobs
Revisions == 1..MaxRevision

VARIABLES
    note,       \* its row: revision, deleted, archived
    past,       \* every row the note has had: what a transaction may have read of it
    state,      \* note_index_states: status and indexed revision
    points,     \* the revisions of which there are points
    job,        \* the note's rows in indexing_jobs
    saving,     \* saving[s]: the owner's open transaction, or NoChange
    work,       \* work[j]: how far the indexer is with j, and what it took it for
    batch,      \* the jobs on the main thread, in order of their claim
    writes,     \* the jobs on the writer thread, in order
    spent       \* how much of the bounds is used up

noteVars == <<note, past, state, points, job, saving, work, batch, writes, spent>>

\* Of the transactions that have come to the jobs, one has written the note and holds its
\* lock; one that leaves the note as it is holds none.
Sessions == {"locked", "loose"}
NoChange == [kind |-> "none"]
Idle == [stage |-> "idle", action |-> "none"]

Hidden(n) == n.deleted \/ n.archived
Waiting == {j \in DOMAIN job : job[j].status = "queued"}
Active == {j \in DOMAIN job : job[j].status \in {"queued", "held"}}
AtRest == Active = {} /\ \A s \in Sessions : saving[s] = NoChange

----------------------------------------------------------------------------
(* The owner *)

\* A transaction up to its look-up of the jobs: it makes the row n, and schedules for r.
Begin(s, n, r, action) ==
    /\ saving[s] = NoChange
    /\ saving' = [saving EXCEPT ![s] =
                    [kind |-> "change", note |-> n, revision |-> r, action |-> action,
                     loaded |-> state.status, rows |-> Len(job), waiting |-> Waiting,
                     tried |-> {j \in Waiting : job[j].attempts > 0},
                     other |-> {j \in Waiting : job[j].action # action}]]
    /\ UNCHANGED <<note, past, state, points, job, work, batch, writes>>

SavedNote(archived) == [note EXCEPT !.revision = @ + 1, !.archived = archived]

\* update: a save, or one that sets or clears the archive flag.  One that has read an
\* older revision fails on the row of its version (uq_note_versions_note_revision).
Save ==
    /\ \E read \in past : ~read.deleted /\ read.revision = note.revision
    /\ note.revision < MaxRevision
    /\ \E archived \in BOOLEAN :
         Begin("locked", SavedNote(archived), note.revision + 1,
               IF archived THEN "remove" ELSE "index")
    /\ UNCHANGED spent

Delete ==
    /\ spent.deletes < MaxDeletes
    /\ \E read \in past :
         ~read.deleted /\ Begin("locked", [note EXCEPT !.deleted = TRUE], read.revision, "remove")
    /\ spent' = [spent EXCEPT !.deletes = @ + 1]

Restore ==
    /\ spent.restores < MaxRestores
    /\ \E read \in past :
         read.deleted /\ Begin("locked", [note EXCEPT !.deleted = FALSE], read.revision, "index")
    /\ spent' = [spent EXCEPT !.restores = @ + 1]

\* restore, of a note it has read as one that is not deleted: nothing of it is written.
RestoreLive ==
    /\ spent.restores < MaxRestores
    /\ \E read \in past : ~read.deleted /\ Begin("loose", note, read.revision, "index")
    /\ spent' = [spent EXCEPT !.restores = @ + 1]

\* One active job of a revision and an operation (uq_indexing_jobs_active_note_operation).
Unique(rows) ==
    \A i, j \in DOMAIN rows :
      /\ rows[i].status \in {"queued", "held"} /\ rows[j].status \in {"queued", "held"}
      /\ rows[i].revision = rows[j].revision /\ rows[i].action = rows[j].action
      => i = j

Superseding(rows, js) ==
    [j \in DOMAIN rows |-> IF j \in js THEN [rows[j] EXCEPT !.status = "superseded"] ELSE rows[j]]

\* Mutant: the reused job keeps the action it was scheduled for.
RescheduledAsWas(t, p) == Superseding(job, t.waiting \ {p})

\* The job found waiting for this revision gets the new action and starts afresh: what
\* it had so already is not written, nor is its status.  The others found waiting are
\* superseded, whatever they are now.
Rescheduled(t, p) ==
    [Superseding(job, t.waiting \ {p}) EXCEPT
        ![p].action = IF p \in t.other THEN t.action ELSE @,
        ![p].attempts = IF p \in t.tried THEN 0 ELSE @]

Scheduled(t) ==
    Append(Superseding(job, t.waiting),
           [revision |-> t.revision, action |-> t.action, status |-> "queued", attempts |-> 0])

\* The row of the note that is committed.
Written(s) == IF s = "locked" THEN saving[s].note ELSE note

\* What the transaction has read without a lock is not so any more: it schedules for a
\* revision that is not the note's, another one has added a job, one that waited has been
\* taken, or the state row has moved on that it will not write.
Overtaken(s) ==
    \/ saving[s].revision # Written(s).revision
    \/ saving[s].rows # Len(job)
    \/ \E j \in saving[s].waiting : job[j].status # "queued"
    \/ saving[s].loaded = "pending" /\ state.status # "pending"

\* _schedule_index from the look-up on, and the commit.
CommitChange(s) ==
    LET t == saving[s]
        own == {j \in t.waiting : job[j].revision = t.revision}
    IN
    /\ t # NoChange
    /\ \/ \E p \in own : job' = Rescheduled(t, p)
       \/ own = {} /\ Len(job) < MaxJobs /\ job' = Scheduled(t)
    /\ Unique(job')
    /\ note' = Written(s)
    /\ past' = past \cup {note'}
    /\ state' = IF t.loaded = "pending" THEN state ELSE [state EXCEPT !.status = "pending"]
    /\ spent' = IF Overtaken(s) THEN [spent EXCEPT !.races = 1] ELSE spent
    /\ saving' = [saving EXCEPT ![s] = NoChange]
    /\ UNCHANGED <<points, work, batch, writes>>

\* The transaction fails: on the unique index, or with its connection.
Abort(s) ==
    /\ saving[s] # NoChange
    /\ saving' = [saving EXCEPT ![s] = NoChange]
    /\ UNCHANGED <<note, past, state, points, job, work, batch, writes, spent>>

----------------------------------------------------------------------------
(* How the indexer lets go of a job *)

\* The writer lets go of the job it is writing, which is the first of its queue.
Release(j) ==
    /\ work' = [work EXCEPT ![j] = Idle]
    /\ batch' = Without(batch, j)
    /\ writes' = IF writes # <<>> /\ j = Head(writes) THEN Tail(writes) ELSE writes

\* _handle_failure and fail(), which does not ask what the job's status has become.
Fail(j, transient) ==
    LET retry == transient /\ job[j].attempts < MaxAttempts IN
    /\ job' = [job EXCEPT ![j].status = IF retry THEN "queued" ELSE "failed"]
    /\ state' = [state EXCEPT !.status = IF retry THEN "pending" ELSE "failed"]
    /\ Release(j)

\* supersede(), for a revision that is not the note's, or for a job whose row was
\* superseded under the indexer's hands ("superseded" is part of that error's text).
Supersede(j) ==
    /\ job' = [job EXCEPT ![j].status = "superseded"]
    /\ Release(j)

\* A transition is refused: the owner has superseded the row.
RefusedByQueue(j) == job[j].status # "held"

----------------------------------------------------------------------------
(* The main thread: drain_once *)

\* claim and _load_target, while the batch is being collected.
Claim(j) ==
    /\ j \in Waiting
    /\ \A i \in DOMAIN batch : work[batch[i]].stage = "claimed"
    /\ job' = [job EXCEPT ![j].status = "held", ![j].attempts = @ + 1]
    /\ work' = [work EXCEPT ![j] = [stage |-> "claimed", action |-> job[j].action]]
    /\ batch' = Append(batch, j)
    /\ state' = [state EXCEPT !.status = "indexing"]
    /\ UNCHANGED <<note, past, points, saving, writes, spent>>

\* The stage transitions around NoteIndexingService.prepare, which looks at the note
\* without a lock, and takes a note that is hidden for a removal.
Prepare(j) ==
    /\ work[j].stage = "claimed"
    /\ \A i \in DOMAIN batch : work[batch[i]].stage = "claimed" =>
         i >= CHOOSE k \in DOMAIN batch : batch[k] = j
    /\ IF RefusedByQueue(j)
       THEN Supersede(j) /\ UNCHANGED state
       ELSE /\ state' = [state EXCEPT !.status = "indexing"]
            /\ IF job[j].revision # note.revision
               THEN Supersede(j)
               ELSE /\ work' = [work EXCEPT ![j].stage = "prepared",
                                            ![j].action = IF Hidden(note) THEN "remove" ELSE @]
                    /\ UNCHANGED <<job, batch, writes>>
    /\ UNCHANGED <<note, past, points, saving, spent>>

\* _embed_and_write hands the batch to the writer thread.  A transition that is refused
\* here is caught by nobody: run() ends, its prepared jobs are abandoned, the writer
\* thread finishes what it has, and the indexer is started again.
Submit(j) ==
    /\ batch # <<>> /\ j = Head(batch) /\ work[j].stage = "prepared"
    /\ \A i \in DOMAIN batch : work[batch[i]].stage # "claimed"
    /\ IF RefusedByQueue(j)
       THEN /\ work' = [i \in Jobs |-> IF \E k \in DOMAIN batch : batch[k] = i
                                      THEN Idle ELSE work[i]]
            /\ batch' = <<>>
            /\ UNCHANGED <<state, writes>>
       ELSE /\ work' = [work EXCEPT ![j].stage = "submitted"]
            /\ batch' = Tail(batch)
            /\ writes' = Append(writes, j)
            /\ state' = [state EXCEPT !.status = "indexing"]
    /\ UNCHANGED <<note, past, points, job, saving, spent>>

----------------------------------------------------------------------------
(* The writer thread: NoteIndexingService.write_prepared *)

Writing(j, stage) == writes # <<>> /\ j = Head(writes) /\ work[j].stage = stage

\* The writer holds the note's lock in this step, so no transaction of the owner does.
Locked == saving["locked"] = NoChange
Current(j) == job[j].revision = note.revision

\* Mutant: what is stored of the note is cleared before the new revision is written.
MarkClearing(j) ==
    /\ Writing(j, "submitted") /\ Locked
    /\ state' = [state EXCEPT !.status = "indexing"]
    /\ points' = {}
    /\ work' = [work EXCEPT ![j].stage = "marked"]
    /\ UNCHANGED <<note, past, job, saving, batch, writes, spent>>

\* The first lock: the state row says that the note is being indexed.
Mark(j) ==
    /\ Writing(j, "submitted") /\ Locked
    /\ IF Current(j)
       THEN /\ state' = [state EXCEPT !.status = "indexing"]
            /\ work' = [work EXCEPT ![j].stage = "marked"]
            /\ UNCHANGED <<job, batch, writes>>
       ELSE Supersede(j) /\ UNCHANGED state
    /\ UNCHANGED <<note, past, points, saving, spent>>

\* The points of the revision are written and counted.
Upsert(j) ==
    /\ Writing(j, "marked") /\ work[j].action = "index"
    /\ points' = points \cup {job[j].revision}
    /\ work' = [work EXCEPT ![j].stage = "upserted"]
    /\ UNCHANGED <<note, past, state, job, saving, batch, writes, spent>>

\* Mutant: the filter of the stale points has lost its exception.
SweptAll(j) == {}

\* The points that the sweep of the stale ones leaves.
Swept(j) == points \cap {job[j].revision}

\* The second lock: the stale points go, or, if there is a newer revision, the new ones.
Finalize(j) ==
    /\ Writing(j, "upserted") /\ Locked
    /\ IF Current(j)
       THEN /\ points' = Swept(j)
            /\ state' = [status |-> "indexed", revision |-> job[j].revision]
            /\ work' = [work EXCEPT ![j].stage = "applied"]
            /\ UNCHANGED <<job, batch, writes>>
       ELSE /\ points' = points \ {job[j].revision}
            /\ Supersede(j)
            /\ UNCHANGED state
    /\ UNCHANGED <<note, past, saving, spent>>

\* The second lock of a removal.
FinalizeRemoval(j) ==
    /\ Writing(j, "marked") /\ work[j].action = "remove" /\ Locked
    /\ IF Current(j)
       THEN /\ points' = {}
            /\ state' = [status |-> "removed", revision |-> note.revision]
            /\ work' = [work EXCEPT ![j].stage = "applied"]
            /\ UNCHANGED <<job, batch, writes>>
       ELSE Supersede(j) /\ UNCHANGED <<points, state>>
    /\ UNCHANGED <<note, past, saving, spent>>

\* The last transition and complete(), which goes by what the job's row says now.
Complete(j) ==
    /\ Writing(j, "applied")
    /\ IF RefusedByQueue(j)
       THEN Supersede(j) /\ UNCHANGED state
       ELSE /\ job' = [job EXCEPT ![j].status = "completed"]
            /\ state' = [status |-> IF job[j].action = "remove" THEN "removed" ELSE "indexed",
                         revision |-> job[j].revision]
            /\ Release(j)
    /\ UNCHANGED <<note, past, points, saving, spent>>

----------------------------------------------------------------------------
(* What goes wrong *)

\* The points a step may leave that fails after its request to the store was carried out.
Left(j) ==
    LET own == {job[j].revision}
        stage == work[j].stage
    IN CASE stage = "marked" /\ work[j].action = "index" -> points \cup own
         [] stage = "marked" /\ work[j].action = "remove" /\ Locked /\ Current(j) -> {}
         [] stage = "upserted" /\ Locked -> IF Current(j) THEN Swept(j) ELSE points \ own
         [] OTHER -> points

\* An exception in a step.
Fault(j) ==
    /\ work[j].stage # "idle"
    /\ work[j].stage \in {"submitted", "marked", "upserted", "applied"} => j = Head(writes)
    /\ spent.faults < MaxFaults
    /\ \E transient \in BOOLEAN : Fail(j, transient)
    /\ points' \in {points, Left(j)}
    /\ spent' = [spent EXCEPT !.faults = @ + 1]
    /\ UNCHANGED <<note, past, saving>>

\* The indexer's process dies.
Crash ==
    /\ spent.crashes < MaxCrashes
    /\ \E j \in DOMAIN job : work[j] # Idle
    /\ work' = [j \in Jobs |-> Idle]
    /\ batch' = <<>>
    /\ writes' = <<>>
    /\ spent' = [spent EXCEPT !.crashes = @ + 1]
    /\ UNCHANGED <<note, past, state, points, job, saving>>

\* recover_expired: nobody renews the lease of a job that nobody works on.
Recover(j) ==
    /\ job[j].status = "held" /\ work[j] = Idle
    /\ LET retry == job[j].attempts < MaxAttempts IN
       /\ job' = [job EXCEPT ![j].status = IF retry THEN "queued" ELSE "failed"]
       /\ state' = [state EXCEPT !.status = IF retry THEN "pending" ELSE "failed"]
    /\ UNCHANGED <<note, past, points, saving, work, batch, writes, spent>>

----------------------------------------------------------------------------
\* create(): the first revision, and its job.
NoteInit ==
    /\ note = [revision |-> 1, deleted |-> FALSE, archived |-> FALSE]
    /\ past = {note}
    /\ state = [status |-> "pending", revision |-> 0]
    /\ points = {}
    /\ job = <<[revision |-> 1, action |-> "index", status |-> "queued", attempts |-> 0]>>
    /\ saving = [s \in Sessions |-> NoChange]
    /\ work = [j \in Jobs |-> Idle]
    /\ batch = <<>>
    /\ writes = <<>>
    /\ spent = [deletes |-> 0, restores |-> 0, faults |-> 0, crashes |-> 0, races |-> 0]

Owner ==
    \/ Save \/ Delete \/ Restore \/ RestoreLive
    \/ \E s \in Sessions : CommitChange(s) \/ Abort(s)

Indexer(j) ==
    \/ Claim(j) \/ Prepare(j) \/ Submit(j)
    \/ Mark(j) \/ Upsert(j) \/ Finalize(j) \/ FinalizeRemoval(j) \/ Complete(j)
    \/ Recover(j)

NoteNext ==
    \/ Owner
    \/ \E j \in DOMAIN job : Indexer(j) \/ Fault(j)
    \/ Crash

NoteSpec == NoteInit /\ [][NoteNext]_noteVars

----------------------------------------------------------------------------
(* Properties *)

\* The shape of the rows, the points and the indexer's hands on them.
NoteTypeOK ==
    /\ note \in [revision : Revisions, deleted : BOOLEAN, archived : BOOLEAN]
    /\ state \in [revision : {0} \cup Revisions,
                  status : {"pending", "indexing", "indexed", "removed", "failed"}]
    /\ points \subseteq Revisions
    /\ job \in Seq([revision : Revisions, action : {"index", "remove"}, attempts : 0..MaxAttempts,
                    status : {"queued", "held", "completed", "failed", "superseded"}])
    /\ work \in [Jobs -> [action : {"none", "index", "remove"},
                          stage : {"idle", "claimed", "prepared", "submitted", "marked",
                                   "upserted", "applied"}]]
    /\ batch \in Seq(Jobs) /\ writes \in Seq(Jobs)

\* refresh_published_query_identities: a note a search may look for.
Published == ~note.deleted /\ state.status = "indexed" /\ state.revision = note.revision

\* A note that searches look for has the points of its revision and no others, whatever
\* fails, and whatever is restored while it is being removed.
PublishedIsStored ==
    spent.races = 0 /\ Published /\ ~note.archived => points = {note.revision}

Undisturbed == spent.races + spent.faults + spent.crashes = 0

\* When no job is left, what is derived from the note is what its owner left: a hidden
\* note has no points, another is found with those of its last revision.
RestIsRight ==
    AtRest /\ Undisturbed =>
        IF Hidden(note) THEN points = {} ELSE Published /\ points = {note.revision}

\* "leave the last previously verified revision untouched": its points go in a removal,
\* or once those of the revision that takes its place are there.
VerifiedStays ==
    [][state.revision \in points \ points' /\ Undisturbed /\ spent.restores = 0 =>
         \/ \E j \in Jobs : work[j].action = "remove"
         \/ note.revision \in points' /\ note.revision # state.revision]_noteVars

(* A promise that the code does not keep: stated here, refuted by TLC without *)
(* the bound of MCNotes on what follows an overtaken transaction (README,     *)
(* section 8), and checked by no run.                                         *)

\* "Superseded by a newer committed note revision" (note_service.py:137) is said of jobs
\* that only look so to a deletion or restoration that overlaps a save: when nothing went
\* wrong in the indexer, rest is right.
OverlapsAreHarmless ==
    AtRest /\ spent.faults + spent.crashes = 0 =>
        IF Hidden(note) THEN points = {} ELSE Published /\ points = {note.revision}
=============================================================================
