---------------------------- MODULE PersonalFiles ----------------------------
(***************************************************************************)
(* The documents a user uploads to, and deletes from, the personal         *)
(* workspace: a file under the managed root and a row of `documents'.      *)
(*                                                                         *)
(* The two are not written together.  An upload puts its file in place and *)
(* then commits row, version and job; a deletion moves the file to the     *)
(* trash and then commits; each takes the file back when its commit fails. *)
(* Beside them the indexer's reconciler lists the files, then reads the    *)
(* rows, and then looks at one file after the other, and its rows become   *)
(* visible only at its end.  Sessions do not flush of themselves           *)
(* (autoflush=False), and an update writes only what differs from what was *)
(* loaded.                                                                 *)
(***************************************************************************)
EXTENDS Naturals, FiniteSets

CONSTANTS
    Places,         \* paths; an upload's is new (uuid4), so each has one upload at most
    Contents,       \* what a file may hold
    Uploaded,       \* and what users upload
    NoFile,         \* no file, or no row
    Removers,       \* requests to delete a document
    Quota,          \* workspace_quota_bytes, in files
    MaxVersions,    \* bound on the versions of a document
    MaxOutside,     \* bound on changes of files by other programs
    MaxMishaps      \* bound on failing statements, failing commits and deaths of processes

DocVersions == 1..MaxVersions
Status == {"pending", "indexed", "deleted"}     \* lifecycle_status
Docs == [status : Status, hidden : BOOLEAN, text : Contents, version : DocVersions,
         source : {"upload", "sync"}]

ASSUME PersonalFilesAssumption ==
    /\ IsFiniteSet(Places)
    /\ NoFile \notin Contents \cup Docs /\ Uploaded \subseteq Contents
    /\ {Quota, MaxOutside, MaxMishaps} \subseteq Nat /\ MaxVersions \in Nat \ {0}

VARIABLES
    disk,       \* the visible files; an upload's temporary file is seen by nobody
    trash,      \* .trash/<user>/<document>
    doc,        \* the row of the document at a path
    task,       \* task[p][v]: the operation of the open job of a version
    upload,     \* the request that uploads to p
    removal,    \* the requests that delete
    sync,       \* the reconciler
    touched,    \* paths another program has changed
    mishaps

fileVars == <<disk, trash, doc, task, upload, removal, sync, touched, mishaps>>
files == <<disk, trash>>
records == <<doc, task>>

Nothing == [p \in Places |-> NoFile]
Live(d) == d # NoFile /\ d.status # "deleted"
Counts(d) == Live(d) /\ ~d.hidden           \* deleted_at is null, as a list and the quota ask

NewDoc(text, source) ==
    [status |-> "pending", hidden |-> FALSE, text |-> text, version |-> 1, source |-> source]

\* Rows that a transaction has written and not yet committed are locked.
LockedByRemoval(p) ==
    \E r \in Removers : removal[r].place = p /\ removal[r].pc \in {"flushed", "moved new"}
LockedBySync(p) == sync.written[p] # NoFile
Free(p) == ~LockedByRemoval(p) /\ ~LockedBySync(p)

Smoothly == UNCHANGED mishaps
Mishap == mishaps < MaxMishaps /\ mishaps' = mishaps + 1

----------------------------------------------------------------------------
(* upload *)

UploadGoes(p, from, to) ==
    /\ upload[p].pc \in from /\ upload' = [upload EXCEPT ![p].pc = to]
    /\ UNCHANGED <<trash, removal, sync, touched>>

HoldsWorkspace(p) == upload[p].pc \in {"counted", "placed", "inserted"}

\* Mutant: the quota is asked without the lock.
CanCountUnlocked(p) == TRUE

CanCount(p) == ~\E q \in Places : HoldsWorkspace(q)

\* Locks the row of the workspace, to the end of the transaction, and then counts.
Count(p) ==
    /\ upload[p].pc = "new" /\ p \notin touched /\ CanCount(p)
    /\ \E text \in Uploaded :
         upload' = [upload EXCEPT ![p] =
             [pc |-> "counted", used |-> Cardinality({q \in Places : Counts(doc[q])}), text |-> text]]
    /\ Smoothly /\ UNCHANGED <<files, records, removal, sync, touched>>

\* The bytes are read into the temporary file, examined, and put in place.
Place(p) ==
    /\ UploadGoes(p, {"counted"}, "placed") /\ upload[p].used + 1 <= Quota
    /\ disk' = [disk EXCEPT ![p] = upload[p].text]
    /\ Smoothly /\ UNCHANGED records

\* Over the quota; or too large, empty, or not what its name says.
Refuse(p) == UploadGoes(p, {"counted"}, "refused") /\ Smoothly /\ UNCHANGED <<disk, records>>

\* The flush of the new row waits for a row of the same path that is not committed, and
\* fails on one that is (uq_documents_repository_relative_path).
Insert(p) ==
    /\ Free(p) /\ UploadGoes(p, {"placed"}, IF doc[p] = NoFile THEN "inserted" ELSE "undone")
    /\ Smoothly /\ UNCHANGED <<disk, records>>

Stored(p) ==
    /\ upload[p].pc = "inserted"
    /\ doc' = [doc EXCEPT ![p] = NewDoc(upload[p].text, "upload")]
    /\ task' = [task EXCEPT ![p][1] = "upsert_version"]

CommitUpload(p) ==
    UploadGoes(p, {"inserted"}, "stored") /\ Stored(p) /\ Smoothly /\ UNCHANGED disk

\* A statement fails, or the commit does, which may nevertheless have been carried out.
FailUpload(p) ==
    /\ Mishap /\ UploadGoes(p, {"placed", "inserted"}, "undone") /\ UNCHANGED disk
    /\ UNCHANGED records \/ Stored(p)

\* Mutant: only the temporary file is removed.
UnlinkForgetting(p) ==
    UploadGoes(p, {"undone"}, "refused") /\ Smoothly /\ UNCHANGED <<disk, records>>

\* After the rollback.
Unlink(p) ==
    /\ UploadGoes(p, {"undone"}, "refused") /\ disk' = [disk EXCEPT ![p] = NoFile]
    /\ Smoothly /\ UNCHANGED records

----------------------------------------------------------------------------
(* delete_document *)

RemovalGoes(r, from, to) ==
    /\ removal[r].pc \in from /\ removal' = [removal EXCEPT ![r].pc = to]
    /\ UNCHANGED <<upload, sync, touched>>

TaskOf(r) == task[removal[r].place][removal[r].version]

\* Any row of the owner, also one that is deleted already.
Load(r) ==
    /\ removal[r].pc = "new"
    /\ \E p \in Places :
         /\ doc[p] # NoFile
         /\ removal' = [removal EXCEPT ![r] =
                [pc |-> "loaded", place |-> p, status |-> doc[p].status, version |-> doc[p].version]]
    /\ Smoothly /\ UNCHANGED <<files, records, upload, sync, touched>>

FindTask(r) ==
    /\ RemovalGoes(r, {"loaded"}, IF TaskOf(r) # NoFile THEN "found" ELSE "missing")
    /\ Smoothly /\ UNCHANGED <<files, records>>

\* With no open job the row and a new job are flushed before the file moves; the job
\* collides with an open one of its kind (uq_indexing_jobs_active_document_operation).
FlushRemoval(r) ==
    /\ RemovalGoes(r, {"missing"}, IF TaskOf(r) = "delete_asset" THEN "failed" ELSE "flushed")
    /\ Free(removal[r].place)
    /\ Smoothly /\ UNCHANGED <<files, records>>

MoveAway(r) ==
    LET p == removal[r].place IN
    /\ RemovalGoes(r, {"found", "flushed"},
                   IF removal[r].pc = "found" THEN "moved" ELSE "moved new")
    /\ disk' = [disk EXCEPT ![p] = NoFile]
    /\ trash' = [trash EXCEPT ![p] = IF disk[p] = NoFile THEN @ ELSE disk[p]]
    /\ Smoothly /\ UNCHANGED records

\* The flush and commit, of a row that nobody else has.  The status is written if it was
\* not "deleted" when loaded.  A job that was found open becomes a deletion, if only in name
\* when it has ended since.
MarkDeleted(r) ==
    LET p == removal[r].place
        new == removal[r].pc = "moved new"
    IN
    /\ new \/ Free(p)
    /\ doc' = [doc EXCEPT ![p].hidden = TRUE,
                          ![p].status = IF removal[r].status = "deleted" THEN @ ELSE "deleted"]
    /\ task' = [task EXCEPT ![p][removal[r].version] =
                    IF new \/ @ # NoFile THEN "delete_asset" ELSE @]

CommitRemoval(r) ==
    /\ RemovalGoes(r, {"moved", "moved new"}, "gone") /\ MarkDeleted(r)
    /\ Smoothly /\ UNCHANGED files

FailRemoval(r) ==
    /\ Mishap /\ UNCHANGED files
    /\ \/ RemovalGoes(r, {"loaded", "found", "missing", "flushed"}, "failed") /\ UNCHANGED records
       \/ /\ RemovalGoes(r, {"moved", "moved new"}, "undone")
          /\ UNCHANGED records \/ MarkDeleted(r)

PutBack(r) ==
    LET p == removal[r].place IN
    /\ RemovalGoes(r, {"undone"}, "failed")
    /\ disk' = [disk EXCEPT ![p] = IF trash[p] = NoFile THEN @ ELSE trash[p]]
    /\ trash' = [trash EXCEPT ![p] = NoFile]
    /\ Smoothly /\ UNCHANGED records

UploadEnds == {"new", "stored", "refused", "cut off"}
RemovalEnds == {"new", "gone", "failed", "cut off"}

\* The backend dies with every request it serves.
Die ==
    /\ Mishap
    /\ upload' = [p \in Places |-> IF upload[p].pc \in UploadEnds THEN upload[p]
                                     ELSE [upload[p] EXCEPT !.pc = "cut off"]]
    /\ removal' = [r \in Removers |-> IF removal[r].pc \in RemovalEnds THEN removal[r]
                                        ELSE [removal[r] EXCEPT !.pc = "cut off"]]
    /\ <<upload, removal>>' # <<upload, removal>>
    /\ UNCHANGED <<files, records, sync, touched>>

----------------------------------------------------------------------------
(* The reconciler.  One runs at a time (pg_try_advisory_lock).  What it has flushed,
   `written', is seen by others when it commits.  The indexer makes a pass when it starts,
   on its timer and when an administrator asks for one. *)

SyncAtRest ==
    [pc |-> "idle", listed |-> {}, loaded |-> Nothing, todo |-> {}, hashed |-> NoFile,
     text |-> NoFile, written |-> Nothing, open |-> {}]

SyncGoes(pc, next) ==
    /\ sync.pc = pc /\ sync' = next
    /\ UNCHANGED <<files, upload, removal, touched>>

Ended == [SyncAtRest EXCEPT !.pc = "down"]

\* An exception on the way: all is rolled back.  It ends run() and the process, unless it
\* met a pass that was asked for.
GiveUp ==
    /\ sync.pc \notin {"idle", "down"} /\ UNCHANGED records
    /\ \E next \in {SyncAtRest, Ended} : SyncGoes(sync.pc, next)

\* Somebody starts the indexer again; nothing in the repository does.
StartIndexer == SyncGoes("down", SyncAtRest) /\ Smoothly /\ UNCHANGED records

Scan ==
    /\ SyncGoes("idle", [sync EXCEPT !.pc = "scanned", !.listed = {p \in Places : disk[p] # NoFile}])
    /\ Smoothly /\ UNCHANGED records

ReadDocuments ==
    /\ SyncGoes("scanned", [sync EXCEPT !.pc = "looking", !.loaded = doc, !.todo = sync.listed])
    /\ Smoothly /\ UNCHANGED records

\* Equal size and time of change save the hashing and decide what equal hashes decide.
Same(p) == Live(sync.loaded[p]) /\ sync.loaded[p].text = disk[p]

\* One file is looked at: it may have gone, be as the row says, or be hashed ...
Look(p) ==
    /\ p \in sync.todo /\ sync.hashed = NoFile /\ Smoothly /\ UNCHANGED records
    /\ \/ disk[p] = NoFile /\ GiveUp
       \/ /\ disk[p] # NoFile /\ Same(p)
          /\ SyncGoes("looking", [sync EXCEPT !.todo = @ \ {p}])
       \/ /\ disk[p] # NoFile /\ ~Same(p)
          /\ SyncGoes("looking", [sync EXCEPT !.todo = @ \ {p}, !.hashed = p, !.text = disk[p]])

\* ... and then its row and version are flushed.  That waits for whoever has the row, or
\* has inserted one of the same path, and fails on a row committed since they were read.
Adopt(p) ==
    LET collides == sync.loaded[p] = NoFile /\ doc[p] # NoFile IN
    /\ sync.hashed = p /\ ~LockedByRemoval(p) /\ upload[p].pc # "inserted"
    /\ Smoothly /\ UNCHANGED records
    /\ \/ collides /\ GiveUp
       \/ /\ ~collides
          /\ SyncGoes("looking", [sync EXCEPT !.hashed = NoFile, !.text = NoFile,
                                              !.written[p] = sync.text])

\* Rows whose file was not listed, and their jobs.
Missing == {p \in Places : Live(sync.loaded[p]) /\ p \notin sync.listed}
MissingTask(p) == task[p][sync.loaded[p].version]

MarkMissing ==
    /\ sync.todo = {} /\ sync.hashed = NoFile /\ Smoothly /\ UNCHANGED records
    /\ SyncGoes("looking", [sync EXCEPT !.pc = "marking",
                                        !.open = {p \in Missing : MissingTask(p) # NoFile}])

NextVersion(p) == IF doc[p] = NoFile THEN 1 ELSE doc[p].version + 1

\* What was loaded with the value that is assigned is not written.
Written(p) ==
    IF doc[p] = NoFile THEN NewDoc(sync.written[p], "sync")
    ELSE [doc[p] EXCEPT !.text = sync.written[p], !.version = @ + 1,
                        !.status = IF sync.loaded[p].status = "pending" THEN @ ELSE "pending",
                        !.hidden = IF sync.loaded[p].hidden THEN FALSE ELSE @]

\* The new job of a missing file collides with one that a removal has committed meanwhile;
\* a job that has ended since it was found is changed in vain.
CommitSync ==
    LET collides == \E p \in Missing \ sync.open : MissingTask(p) = "delete_asset" IN
    /\ \A p \in Missing : ~LockedByRemoval(p)
    /\ \A p \in Places : sync.written[p] # NoFile => NextVersion(p) \in DocVersions
    /\ sync.pc = "marking" /\ Smoothly
    /\ \/ collides /\ GiveUp
       \/ /\ ~collides /\ SyncGoes("marking", SyncAtRest)
          /\ doc' = [p \in Places |->
                 IF LockedBySync(p) THEN Written(p)
                 ELSE IF p \in Missing THEN [doc[p] EXCEPT !.status = "deleted", !.hidden = TRUE]
                 ELSE doc[p]]
          /\ task' = [p \in Places |->
                 IF LockedBySync(p) THEN [task[p] EXCEPT ![NextVersion(p)] = "upsert_version"]
                 ELSE IF p \in Missing /\ (p \in sync.open => MissingTask(p) # NoFile)
                   THEN [task[p] EXCEPT ![sync.loaded[p].version] = "delete_asset"]
                 ELSE task[p]]

FailSync == Mishap /\ GiveUp

----------------------------------------------------------------------------
(* What else happens *)

\* The indexer ends a job of p; a live document is then indexed (_set_target_completed), or
\* failed, which is the same here.  It has read the document without a lock: with the job of
\* an older version it may have done so before a deletion was committed, whose mark it
\* overwrites.  The job of the version that is deleted is locked, or inserted, by the
\* deletion.
Index(p, v) ==
    /\ sync.pc # "down" /\ task[p][v] # NoFile /\ Free(p)
    /\ task' = [task EXCEPT ![p][v] = NoFile]
    /\ \/ /\ doc[p].status # "deleted" \/ v < doc[p].version
          /\ doc' = [doc EXCEPT ![p].status = "indexed"]
       \/ doc[p].status = "deleted" /\ UNCHANGED doc
    /\ Smoothly /\ UNCHANGED <<files, upload, removal, sync, touched>>

\* Another program writes, replaces or removes a file that no upload is putting in place.
Outside(p) ==
    /\ Cardinality(touched) < MaxOutside /\ p \notin touched
    /\ upload[p].pc \in UploadEnds
    /\ \E there \in (Contents \cup {NoFile}) \ {disk[p]} : disk' = [disk EXCEPT ![p] = there]
    /\ touched' = touched \cup {p}
    /\ Smoothly /\ UNCHANGED <<trash, records, upload, removal, sync>>

FilesInit ==
    /\ disk = Nothing /\ trash = Nothing /\ doc = Nothing
    /\ task = [p \in Places |-> [v \in DocVersions |-> NoFile]]
    /\ upload = [p \in Places |-> [pc |-> "new", used |-> 0, text |-> NoFile]]
    /\ removal = [r \in Removers |-> [pc |-> "new", place |-> NoFile, status |-> NoFile, version |-> 0]]
    /\ sync = SyncAtRest /\ touched = {} /\ mishaps = 0

UploadGoesOn(p) == Place(p) \/ Refuse(p) \/ Insert(p) \/ CommitUpload(p) \/ Unlink(p)
RemovalGoesOn(r) == FindTask(r) \/ FlushRemoval(r) \/ MoveAway(r) \/ CommitRemoval(r) \/ PutBack(r)
SyncGoesOn ==
    Scan \/ ReadDocuments \/ (\E p \in Places : Look(p) \/ Adopt(p)) \/ MarkMissing \/ CommitSync

FilesNext ==
    \/ \E p \in Places : Count(p) \/ UploadGoesOn(p) \/ FailUpload(p) \/ Outside(p)
    \/ \E r \in Removers : Load(r) \/ RemovalGoesOn(r) \/ FailRemoval(r)
    \/ \E p \in Places, v \in DocVersions : Index(p, v)
    \/ Die \/ SyncGoesOn \/ FailSync \/ StartIndexer

FilesSpec == FilesInit /\ [][FilesNext]_fileVars

\* Requests that are being served go on, and so does the loop of an indexer that is up.
\* Nothing starts one that has ended.
FilesFairness ==
    /\ \A p \in Places : WF_fileVars(UploadGoesOn(p))
    /\ \A r \in Removers : WF_fileVars(RemovalGoesOn(r))
    /\ WF_fileVars(SyncGoesOn)

----------------------------------------------------------------------------
\* Properties.

FilesTypeOK ==
    /\ {disk, trash} \subseteq [Places -> Contents \cup {NoFile}]
    /\ \A p \in Places : doc[p] \in Docs \cup {NoFile}
    /\ task \in [Places -> [DocVersions -> {"upsert_version", "delete_asset", NoFile}]]
    /\ \A p \in Places : upload[p].pc \in UploadEnds \cup {"counted", "placed", "inserted", "undone"}
    /\ sync.listed \subseteq Places /\ sync.todo \subseteq sync.listed /\ touched \subseteq Places

\* What was uploaded and is still what was uploaded.
Accepted ==
    {p \in Places : Counts(doc[p]) /\ doc[p].source = "upload" /\ doc[p].version = 1}

(***************************************************************************)
(* However uploads overlap, are refused, fail or are cut off, those that   *)
(* succeed do not exceed the quota, which each asks before it knows of the *)
(* others.  (A document that the reconciler has taken for deleted and      *)
(* brought back, as a second version, was not counted in between.)         *)
(***************************************************************************)
QuotaIsKept == Cardinality(Accepted) <= Quota

RemoversOf(p) == {r \in Removers : removal[r].place = p}
LeftAlone(p) == p \notin touched /\ RemoversOf(p) = {}

\* There is a live row where there is a file, with its content, and nowhere else; and
\* what nobody tried to delete is shown to its owner.
Agrees(p) ==
    IF disk[p] = NoFile THEN ~Live(doc[p])
    ELSE Live(doc[p]) /\ doc[p].text = disk[p] /\ (LeftAlone(p) => Counts(doc[p]))

\* What the owner was told is so: a document stored is there, one refused is not, one
\* deleted is in the trash, and one whose deletion failed is still there.
KeepsItsWord(p) ==
    LET ends == {removal[r].pc : r \in RemoversOf(p)} IN
    p \notin touched =>
      /\ upload[p].pc = "refused" /\ ends = {} => disk[p] = NoFile
      /\ upload[p].pc = "stored" /\ ends \subseteq {"failed"} => disk[p] = upload[p].text
      /\ upload[p].pc = "stored" /\ ends = {"gone"} => disk[p] = NoFile /\ trash[p] = upload[p].text

(***************************************************************************)
(* Whatever fails or dies between file and row, however the reconciler,    *)
(* the requests and the queue misread each other on the way, and though    *)
(* the queue may overwrite the mark of a deletion: files, rows and what    *)
(* the owner was told come to agree, and stay so, if the indexer is        *)
(* started again whenever an exception has ended it                        *)
(* (continuous_indexer.py:305, 317; indexer_main.py:31-35).                *)
(***************************************************************************)
FilesSettle ==
    []<>(sync.pc # "down") => <>[](\A p \in Places : Agrees(p) /\ KeepsItsWord(p))

================================================================================
