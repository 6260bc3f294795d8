------------------------------ MODULE Notes_proofs ------------------------------
(***************************************************************************)
(* Theorems about notes, for all values of the constants.                  *)
(*                                                                         *)
(* Their editing (NoteAutosave), for any number of tabs and texts: the     *)
(* types are right, a save that nobody forced replaces the revision its    *)
(* tab was showing, and the hook of a tab is right about its one call and  *)
(* about the server.                                                       *)
(*                                                                         *)
(* The arguments: between the read and the commit of a call that is not    *)
(* forced, the revision it expects is the one it has read; the commit goes *)
(* through only when that is still the latest.  A hook that has a save in  *)
(* flight listens to exactly one call, and one that shows a conflict or an *)
(* error is blocked, listens to none, and holds the draft.                 *)
(*                                                                         *)
(* Their index (NoteIndexing), for any number of revisions, jobs, faults   *)
(* and crashes: a note that searches look for has its points; when nothing *)
(* has gone wrong, the index is at rest what the owner left.               *)
(*                                                                         *)
(* The argument: only the first job of the writer's queue has got as far   *)
(* as to touch the points, and while it does the note is not called        *)
(* indexed; once it is, the points are there until a newer revision is     *)
(* saved, which takes the word back.  A job that was carried out as a      *)
(* removal can be completed as an index only of a note that is hidden,     *)
(* because the unique index refuses the restoration a second job.          *)
(* Undisturbed, the two threads have the jobs in the order of their rows,  *)
(* and the latest row, which is never lost, is the last to be done.        *)
(***************************************************************************)
EXTENDS MCNotes, Subsequences_proofs, TLAPS

(***************************************************************************)
(* Editing: the invariant                                                  *)
(***************************************************************************)
\* What a call has seen: something, once it is answered; what it expects, once it is read.
CallsAreSound ==
    \A c \in calls :
      /\ c.phase \in {"saved", "conflict"} => c.seen # 0
      /\ c.phase = "read" /\ ~c.forced => c.seen = c.expected

\* What is stored has been tidied up, and stays as it is if it is saved once more.
TextsAreTidy == \A n \in 1..Latest : Normal[history[n].text] = history[n].text

IInv == TypeOK /\ CallsAreSound /\ NothingIsOverwrittenUnseen /\ TextsAreTidy

(***************************************************************************)
(* The helpers                                                             *)
(***************************************************************************)
\* A hook that sends what is pending stays a hook.
LEMMA RunningType ==
    ASSUME NEW E \in EditorState PROVE Running(E) \in EditorState
BY DEF Running, EditorState, Labels

\* Forgetting the calls of a tab keeps what is true of each call.
LEMMA ForgottenCalls ==
    ASSUME NEW e, calls \subseteq Call, CallsAreSound
    PROVE  /\ Forgotten(e) \subseteq Call
           /\ \A c \in Forgotten(e) :
                /\ c.phase \in {"saved", "conflict"} => c.seen # 0
                /\ c.phase = "read" /\ ~c.forced => c.seen = c.expected
BY DEF Forgotten, CallsAreSound, Call, Unfinished

\* A step that sends at most one new call from a typed hook keeps the hooks and the calls.
LEMMA RunKeeps ==
    ASSUME NEW e \in Editors, NEW E \in EditorState, NEW force \in BOOLEAN, NEW cs \in SUBSET calls,
           TypeOK, CallsAreSound, inputs' \in [Editors -> Nat], history' = history,
           Run(e, E, force, cs)
    PROVE  /\ editor' \in [Editors -> EditorState]
           /\ calls' \subseteq Call
           /\ CallsAreSound'
<1>1. Running(E) \in EditorState
  BY RunningType
<1>2. editor' \in [Editors -> EditorState]
  BY <1>1 DEF Run, TypeOK
<1> DEFINE new == [by |-> e, no |-> inputs'[e], text |-> E.pending, expected |-> E.revision,
                   forced |-> force, phase |-> "sent", seen |-> 0, live |-> TRUE]
<1>3. CanRun(E) => new \in Call
  BY DEF CanRun, EditorState, Call, TypeOK, Latest
<1>4. calls' \subseteq cs \cup {new} /\ (new \in calls' => new \in cs \/ CanRun(E))
  BY DEF Run
<1>5. calls' \subseteq Call
  BY <1>3, <1>4 DEF TypeOK
<1>6. CallsAreSound'
  BY <1>4 DEF CallsAreSound
<1> QED BY <1>2, <1>5, <1>6

(***************************************************************************)
(* The inductive invariant                                                 *)
(***************************************************************************)
\* The invariant holds at the start.
LEMMA InitInv == Init => IInv
<1> SUFFICES ASSUME Init PROVE IInv
  OBVIOUS
<1>1. PICK t \in {Normal[u] : u \in Texts} : history = <<[text |-> t, expected |-> 0, forced |-> FALSE]>>
                         /\ editor = [e \in Editors |->
           [open |-> FALSE, text |-> t, revision |-> 1, lastSaved |-> t, pending |-> None,
            timer |-> FALSE, inFlight |-> FALSE, blocked |-> FALSE, label |-> "idle",
            conflict |-> 0, local |-> None, removed |-> FALSE, deleting |-> FALSE]]
  BY DEF Init
<1>8. t \in Texts /\ Normal[t] = t
  BY EditingAssumption
<1>2. history \in Seq(Version) /\ Latest = 1 /\ history # <<>>
  BY <1>1, <1>8 DEF Version, Latest
<1>3. editor \in [Editors -> EditorState]
  BY <1>1, <1>2, <1>8 DEF EditorState, Labels
<1>4. /\ trashed = FALSE /\ calls = {}
      /\ listed = [e \in Editors |-> 1] /\ inputs = [e \in Editors |-> 0]
  BY DEF Init
<1>5. TypeOK
  <2>1. listed \in [Editors -> 1..Latest] /\ inputs \in [Editors -> Nat]
    BY <1>2, <1>4
  <2> QED BY <1>2, <1>3, <1>4, <2>1 DEF TypeOK
<1>6. CallsAreSound
  BY <1>4 DEF CallsAreSound
<1>7. NothingIsOverwrittenUnseen
  BY <1>2 DEF NothingIsOverwrittenUnseen
<1>9. TextsAreTidy
  BY <1>1, <1>2, <1>8 DEF TextsAreTidy
<1> QED BY <1>5, <1>6, <1>7, <1>9 DEF IInv

\* A step that stores nothing keeps what is true of the history.
LEMMA HistoryKept ==
    ASSUME NothingIsOverwrittenUnseen, TextsAreTidy, history' = history
    PROVE  NothingIsOverwrittenUnseen' /\ TextsAreTidy'
BY DEF NothingIsOverwrittenUnseen, TextsAreTidy, Latest

\* While nothing is stored, the types of the next state are those of this one.
LEMMA TypeKept ==
    ASSUME TypeOK, history' = history, trashed' \in BOOLEAN, listed' \in [Editors -> 1..Latest],
           inputs' \in [Editors -> Nat], editor' \in [Editors -> EditorState], calls' \subseteq Call
    PROVE  TypeOK'
<1>1. Latest' = Latest
  BY DEF Latest
<1>2. EditorState' = EditorState /\ Call' = Call
  BY <1>1 DEF EditorState, Call
<1> QED BY <1>1, <1>2 DEF TypeOK

\* The text that is typed is the draft to be saved.
LEMMA EnqueuedType ==
    ASSUME NEW F \in EditorState, NEW t \in Texts
    PROVE  Enqueued(F, t) \in EditorState
<1>1. F.label \in Labels
  BY DEF EditorState
<1>2. Enqueued(F, t).label \in Labels
  BY <1>1 DEF Enqueued, EditorState, Labels
<1> QED BY <1>2 DEF Enqueued, EditorState

\* What a tab does to itself and to its calls keeps the invariant.
LEMMA HookStep ==
    ASSUME IInv, NEW e \in Editors,
           \/ \E t \in Texts : Type(e, t)
           \/ Fire(e) \/ Flush(e) \/ ReviewServer(e) \/ KeepMine(e) \/ Retry(e)
           \/ Leave(e) \/ Open(e) \/ Reload(e) \/ MarkDeleted(e) \/ Removed(e)
    PROVE  IInv'
<1> USE DEF IInv
<1> DEFINE E == editor[e]
<1>0. E \in EditorState /\ Latest \in Nat \ {0} /\ history \in Seq(Version) /\ inputs[e] \in Nat
      /\ 0 \in 0..Latest
      /\ \A n \in 1..Latest : history[n].text \in Texts
  <2>1. E \in EditorState /\ history \in Seq(Version) /\ inputs[e] \in Nat /\ history # <<>>
    BY DEF TypeOK
  <2>2. Latest \in Nat \ {0}
    BY <2>1 DEF Latest
  <2>3. \A n \in 1..Latest : history[n] \in Version
    BY <2>1 DEF Latest
  <2> QED BY <2>1, <2>2, <2>3 DEF Version
<1>1. ASSUME NEW t \in Texts, Type(e, t) PROVE IInv'
  <2>1. [E EXCEPT !.text = t] \in EditorState
    BY <1>0 DEF EditorState
  <2>2. Enqueued([E EXCEPT !.text = t], t) \in EditorState
    BY <2>1, EnqueuedType
  <2>3. TypeOK'
    BY <1>1, <1>0, <2>2, TypeKept DEF Type, Clicked, TypeOK
  <2> QED BY <1>1, <2>3, HistoryKept DEF Type, CallsAreSound
<1>2. CASE Fire(e) \/ Flush(e)
  <2>1. inputs' = inputs /\ history' = history /\ Run(e, E, FALSE, calls)
    BY <1>2 DEF Fire, Flush
  <2>2. editor' \in [Editors -> EditorState] /\ calls' \subseteq Call /\ CallsAreSound'
    BY <1>0, <2>1, RunKeeps DEF TypeOK
  <2>3. TypeOK'
    BY <1>2, <2>1, <2>2, TypeKept DEF Fire, Flush, TypeOK
  <2> QED BY <2>1, <2>2, <2>3, HistoryKept
<1>3. CASE ReviewServer(e)
  <2> DEFINE R == E.conflict
  <2>1. R \in 1..Latest
    BY <1>0, <1>3 DEF ReviewServer, EditorState
  <2>2. [E EXCEPT !.blocked = FALSE, !.pending = None, !.revision = R,
                  !.lastSaved = history[R].text, !.text = history[R].text,
                  !.conflict = 0, !.local = None, !.label = "saved"] \in EditorState
    BY <1>0, <2>1 DEF EditorState, Labels
  <2>3. calls' \subseteq Call /\ CallsAreSound'
    BY <1>3, ForgottenCalls DEF ReviewServer, TypeOK, CallsAreSound
  <2>4. TypeOK'
    BY <1>3, <1>0, <2>1, <2>2, <2>3, TypeKept DEF ReviewServer, Clicked, TypeOK
  <2> QED BY <1>3, <2>3, <2>4, HistoryKept DEF ReviewServer
<1>4. CASE KeepMine(e)
  <2> DEFINE F == [E EXCEPT !.revision = E.conflict, !.pending = E.local, !.blocked = FALSE,
                            !.conflict = 0, !.local = None]
  <2>1. F \in EditorState
    <3>1. E.conflict \in 1..Latest
      BY <1>0, <1>4 DEF KeepMine, EditorState
    <3> QED BY <1>0, <3>1 DEF EditorState
  <2>2. /\ inputs' \in [Editors -> Nat] /\ history' = history /\ Run(e, F, TRUE, calls)
        /\ UNCHANGED <<trashed, listed>>
    <3>1. inputs' = [inputs EXCEPT ![e] = @ + 1]
      BY <1>4 DEF KeepMine, Clicked
    <3>2. inputs' \in [Editors -> Nat]
      BY <1>0, <3>1 DEF TypeOK
    <3> QED BY <1>4, <3>2 DEF KeepMine
  <2>3. editor' \in [Editors -> EditorState] /\ calls' \subseteq Call /\ CallsAreSound'
    BY <2>1, <2>2, RunKeeps
  <2>4. TypeOK'
    BY <2>2, <2>3, TypeKept DEF TypeOK
  <2> QED BY <2>2, <2>3, <2>4, HistoryKept
<1>5. CASE Retry(e)
  <2> DEFINE F == [E EXCEPT !.blocked = FALSE, !.label = "unsaved"]
  <2>1. F \in EditorState
    BY <1>0 DEF EditorState, Labels
  <2>2. /\ inputs' \in [Editors -> Nat] /\ history' = history /\ Run(e, F, FALSE, calls)
        /\ UNCHANGED <<trashed, listed>>
    <3>1. inputs' = [inputs EXCEPT ![e] = @ + 1]
      BY <1>5 DEF Retry, Clicked
    <3>2. inputs' \in [Editors -> Nat]
      BY <1>0, <3>1 DEF TypeOK
    <3> QED BY <1>5, <3>2 DEF Retry
  <2>3. editor' \in [Editors -> EditorState] /\ calls' \subseteq Call /\ CallsAreSound'
    BY <2>1, <2>2, RunKeeps
  <2>4. TypeOK'
    BY <2>2, <2>3, TypeKept DEF TypeOK
  <2> QED BY <2>2, <2>3, <2>4, HistoryKept
<1>6. CASE Leave(e)
  <2>1. Closed(E) \in EditorState
    BY <1>0 DEF Closed, EditorState, Labels
  <2>2. calls' \subseteq Call /\ CallsAreSound'
    BY <1>6, ForgottenCalls DEF Leave, TypeOK, CallsAreSound
  <2>3. TypeOK'
    BY <1>6, <2>1, <2>2, TypeKept DEF Leave, TypeOK
  <2> QED BY <1>6, <2>2, <2>3, HistoryKept DEF Leave
<1>7. CASE Open(e)
  <2>1. listed[e] \in 1..Latest /\ E.removed \in BOOLEAN
    BY <1>0 DEF TypeOK, EditorState
  <2>2. Shown(listed[e], E.removed) \in EditorState
    BY <1>0, <2>1 DEF Shown, EditorState, Labels
  <2>3. TypeOK'
    BY <1>7, <2>2, TypeKept DEF Open, TypeOK
  <2> QED BY <1>7, <2>3, HistoryKept DEF Open, CallsAreSound
<1>8. CASE Reload(e)
  <2>1. TypeOK'
    BY <1>0, <1>8, TypeKept DEF Reload, TypeOK
  <2> QED BY <1>8, <2>1, HistoryKept DEF Reload, CallsAreSound
<1>9. CASE MarkDeleted(e)
  <2>1. [E EXCEPT !.removed = TRUE, !.timer = FALSE, !.pending = None, !.blocked = TRUE,
                  !.label = "idle", !.deleting = TRUE] \in EditorState
    BY <1>0 DEF EditorState, Labels
  <2>2. calls' \subseteq Call /\ CallsAreSound'
    BY <1>9, ForgottenCalls DEF MarkDeleted, TypeOK, CallsAreSound
  <2>3. TypeOK'
    BY <1>9, <1>0, <2>1, <2>2, TypeKept DEF MarkDeleted, Clicked, TypeOK
  <2> QED BY <1>9, <2>2, <2>3, HistoryKept DEF MarkDeleted
<1>10. CASE Removed(e)
  <2>1. Closed(E) \in EditorState /\ [E EXCEPT !.deleting = FALSE] \in EditorState
    BY <1>0 DEF Closed, EditorState, Labels
  <2>2. TypeOK'
    BY <1>10, <2>1, TypeKept DEF Removed, TypeOK
  <2> QED BY <1>10, <2>2, HistoryKept DEF Removed, CallsAreSound
<1> QED BY <1>1, <1>2, <1>3, <1>4, <1>5, <1>6, <1>7, <1>8, <1>9, <1>10

\* A call that ends, for whatever reason, leaves the calls as sound as they were.
LEMMA FinishedCalls ==
    ASSUME calls \subseteq Call, CallsAreSound, NEW c \in calls,
           NEW phase \in {"saved", "conflict", "failed"}, NEW seen \in Nat,
           phase \in {"saved", "conflict"} => seen # 0
    PROVE  /\ \A d \in Finished(c, phase, seen) :
                /\ d \in calls \/ d = [c EXCEPT !.phase = phase, !.seen = seen]
                /\ d.phase \in {"saved", "conflict"} => d.seen # 0
                /\ d.phase = "read" /\ ~d.forced => d.seen = d.expected
<1> DEFINE new == [c EXCEPT !.phase = phase, !.seen = seen]
<1>1. new.phase = phase /\ new.seen = seen
  BY DEF Call
<1>2. \A d \in Finished(c, phase, seen) : d \in calls \/ d = new
  BY DEF Finished
<1> QED BY <1>1, <1>2 DEF CallsAreSound

\* Reading and committing a call keep the invariant.
LEMMA ServeStep ==
    ASSUME IInv, NEW c \in calls, ReadNote(c) \/ Commit(c)
    PROVE  IInv'
<1> USE DEF IInv
<1>0. /\ c \in Call /\ history \in Seq(Version) /\ Latest = Len(history) /\ Latest \in Nat \ {0}
      /\ 0 \in 0..Latest /\ Latest \in 0..Latest /\ Latest + 1 # 0 /\ Latest + 1 \in Nat
  <2>1. c \in Call /\ history \in Seq(Version) /\ history # <<>>
    BY DEF TypeOK
  <2>2. Latest \in Nat \ {0} /\ Latest = Len(history)
    BY <2>1 DEF Latest
  <2> QED BY <2>1, <2>2
<1>1. CASE ReadNote(c)
  <2>1. calls' \subseteq Call /\ CallsAreSound'
    <3>1. CASE trashed
      <4>1. calls' = Finished(c, "failed", 0)
        BY <1>1, <3>1 DEF ReadNote
      <4>2. \A d \in calls' : d \in calls \/ d = [c EXCEPT !.phase = "failed", !.seen = 0]
        BY <4>1, FinishedCalls DEF TypeOK
      <4>3. [c EXCEPT !.phase = "failed", !.seen = 0] \in Call
        BY <1>0 DEF Call
      <4> QED BY <4>1, <4>2, <4>3, FinishedCalls DEF TypeOK, CallsAreSound
    <3>2. CASE ~trashed /\ c.expected # Latest /\ ~c.forced
      <4>1. calls' = Finished(c, "conflict", Latest)
        BY <1>1, <3>2 DEF ReadNote
      <4>2. \A d \in calls' : d \in calls \/ d = [c EXCEPT !.phase = "conflict", !.seen = Latest]
        BY <1>0, <4>1, FinishedCalls DEF TypeOK
      <4>3. [c EXCEPT !.phase = "conflict", !.seen = Latest] \in Call
        BY <1>0 DEF Call
      <4> QED BY <1>0, <4>1, <4>2, <4>3, FinishedCalls DEF TypeOK, CallsAreSound
    <3>3. CASE ~trashed /\ (c.expected = Latest \/ c.forced)
      <4>1. calls' = (calls \ {c}) \cup {[c EXCEPT !.phase = "read", !.seen = Latest]}
        BY <1>1, <3>3 DEF ReadNote
      <4> DEFINE new == [c EXCEPT !.phase = "read", !.seen = Latest]
      <4>2. new \in Call /\ new.phase = "read" /\ new.seen = Latest
            /\ new.expected = c.expected /\ new.forced = c.forced
        BY <1>0 DEF Call
      <4> QED BY <3>3, <4>1, <4>2 DEF TypeOK, CallsAreSound
    <3> QED BY <3>1, <3>2, <3>3
  <2>2. TypeOK'
    BY <1>1, <2>1, TypeKept DEF ReadNote, TypeOK
  <2> QED BY <1>1, <2>1, <2>2, HistoryKept DEF ReadNote
<1>2. CASE Commit(c) /\ c.seen # Latest
  <2>1. calls' = Finished(c, "failed", 0) /\ UNCHANGED <<history, trashed, listed, editor, inputs>>
    BY <1>2 DEF Commit
  <2>2. calls' \subseteq Call /\ CallsAreSound'
    <3>1. \A d \in calls' : d \in calls \/ d = [c EXCEPT !.phase = "failed", !.seen = 0]
      BY <2>1, FinishedCalls DEF TypeOK
    <3>2. [c EXCEPT !.phase = "failed", !.seen = 0] \in Call
      BY <1>0 DEF Call
    <3> QED BY <2>1, <3>1, <3>2, FinishedCalls DEF TypeOK, CallsAreSound
  <2>3. TypeOK'
    BY <2>1, <2>2, TypeKept DEF TypeOK
  <2> QED BY <2>1, <2>2, <2>3, HistoryKept
<1>3. CASE Commit(c) /\ c.seen = Latest
  <2> DEFINE new == [text |-> Normal[c.text], expected |-> c.expected, forced |-> c.forced]
  <2>1. /\ history' = Append(history, new) /\ calls' = Finished(c, "saved", Latest + 1)
        /\ UNCHANGED <<trashed, listed, editor, inputs>>
    BY <1>3 DEF Commit
  <2>2. new \in Version /\ Normal[new.text] = new.text
    BY <1>0, EditingAssumption DEF Call, Version
  <2>3. history' \in Seq(Version) /\ Latest' = Latest + 1 /\ history' # <<>>
    BY <1>0, <2>1, <2>2 DEF Latest
  <2>4. calls' \subseteq Call'
    <3> DEFINE saved == [c EXCEPT !.phase = "saved", !.seen = Latest + 1]
    <3>1. \A d \in calls' : d \in calls \/ d = saved
      BY <2>1 DEF Finished
    <3>2. Call \subseteq Call'
      BY <1>0, <2>3 DEF Call
    <3>3. saved \in Call'
      <4>1. c \in Call' /\ Latest + 1 \in 0..Latest'
        BY <1>0, <2>3, <3>2
      <4> QED BY <4>1 DEF Call
    <3> QED BY <3>1, <3>2, <3>3 DEF TypeOK
  <2>5. CallsAreSound'
    BY <1>0, <2>1, FinishedCalls DEF TypeOK, CallsAreSound
  <2>6. EditorState \subseteq EditorState'
    BY <1>0, <2>3 DEF EditorState
  <2>7. TypeOK'
    BY <1>0, <2>1, <2>3, <2>4, <2>6 DEF TypeOK
  <2>8. ~c.forced => c.expected = Latest
    BY <1>3 DEF Commit, CallsAreSound
  <2>9. NothingIsOverwrittenUnseen'
    <3> SUFFICES ASSUME NEW i \in 2..(Latest + 1)
                 PROVE  history'[i].forced \/ history'[i].expected = i - 1
      BY <2>3 DEF NothingIsOverwrittenUnseen
    <3>1. CASE i \in 2..Latest
      <4>1. history'[i] = history[i]
        BY <1>0, <2>1, <2>2, <3>1
      <4> QED BY <3>1, <4>1 DEF NothingIsOverwrittenUnseen
    <3>2. CASE i = Latest + 1
      <4>1. history'[i] = new
        BY <1>0, <2>1, <2>2, <3>2
      <4> QED BY <1>0, <2>8, <3>2, <4>1
    <3> QED BY <1>0, <3>1, <3>2
  <2>10. TextsAreTidy'
    <3>1. \A n \in 1..Latest : history'[n] = history[n]
      BY <1>0, <2>1, <2>2
    <3>2. history'[Latest + 1] = new
      BY <1>0, <2>1, <2>2
    <3>3. \A n \in 1..(Latest + 1) : n \in 1..Latest \/ n = Latest + 1
      BY <1>0
    <3> QED BY <2>2, <2>3, <3>1, <3>2, <3>3 DEF TextsAreTidy
  <2> QED BY <2>5, <2>7, <2>9, <2>10
<1> QED BY <1>1, <1>2, <1>3

\* The answer to a save leaves a hook a hook, and tells whether a newer draft waits.
LEMMA SavedType ==
    ASSUME NEW E \in EditorState, NEW c, c.text \in Texts, c.seen \in 1..Latest, 0 \in 0..Latest
    PROVE  /\ Saved(E, c) \in EditorState
           /\ Saved(E, c).label = IF HasNewerDraft(E, c) THEN "unsaved" ELSE "saved"
           /\ \E t \in Texts :
                Saved(E, c) = [E EXCEPT !.revision = c.seen, !.lastSaved = c.text, !.conflict = 0,
                                        !.local = None, !.inFlight = FALSE, !.text = t,
                                        !.label = IF HasNewerDraft(E, c) THEN "unsaved" ELSE "saved"]
<1> DEFINE t == IF HasNewerDraft(E, c) \/ E.text # c.text THEN E.text ELSE Normal[c.text]
           label == IF HasNewerDraft(E, c) THEN "unsaved" ELSE "saved"
<1>1. t \in Texts /\ label \in Labels
  BY EditingAssumption DEF EditorState, Labels
<1>2. Saved(E, c) = [E EXCEPT !.revision = c.seen, !.lastSaved = c.text, !.conflict = 0,
                              !.local = None, !.inFlight = FALSE, !.text = t, !.label = label]
  BY DEF Saved
<1> HIDE DEF t, label
<1>3. Saved(E, c) \in EditorState /\ Saved(E, c).label = label
  BY <1>1, <1>2 DEF EditorState
<1> QED BY <1>1, <1>2, <1>3 DEF label

\* What a tab does when a call of its is answered, or its connection breaks, keeps the
\* invariant.
LEMMA AnswerStep ==
    ASSUME IInv, NEW c \in calls,
           AnswerSaved(c) \/ AnswerConflict(c) \/ AnswerFailed(c) \/ LoseAnswer(c)
    PROVE  IInv'
<1> USE DEF IInv
<1> DEFINE e == c.by
           E == editor[e]
<1>0. /\ c \in Call /\ e \in Editors /\ E \in EditorState
      /\ c.text \in Texts /\ c.seen \in 0..Latest /\ Latest \in Nat \ {0} /\ 0 \in 0..Latest
      /\ calls \ {c} \in SUBSET calls
  <2>1. c \in Call /\ history \in Seq(Version) /\ history # <<>> /\ editor \in [Editors -> EditorState]
    BY DEF TypeOK
  <2>2. Latest \in Nat \ {0}
    BY <2>1 DEF Latest
  <2>3. e \in Editors /\ c.text \in Texts /\ c.seen \in 0..Latest
    BY <2>1 DEF Call
  <2> QED BY <2>1, <2>2, <2>3
<1>1. \A label \in Labels : Refused(E, c, label) \in EditorState
  BY <1>0 DEF Refused, Kept, EditorState
<1>2. CASE AnswerSaved(c)
  <2>1. c.seen \in 1..Latest
    BY <1>0, <1>2 DEF AnswerSaved, CallsAreSound
  <2>2. Saved(E, c) \in EditorState
    BY <1>0, <2>1, SavedType
  <2>3. /\ inputs' = inputs /\ history' = history /\ trashed' = trashed
        /\ listed' \in [Editors -> 1..Latest]
        /\ Run(e, Saved(E, c), FALSE, calls \ {c})
    BY <1>2, <2>1 DEF AnswerSaved, TypeOK
  <2>4. editor' \in [Editors -> EditorState] /\ calls' \subseteq Call /\ CallsAreSound'
    BY <1>0, <2>2, <2>3, RunKeeps DEF TypeOK
  <2>5. TypeOK'
    BY <2>3, <2>4, TypeKept DEF TypeOK
  <2> QED BY <2>3, <2>4, <2>5, HistoryKept
<1>3. CASE AnswerConflict(c)
  <2>1. Refused(E, c, "conflict") \in EditorState
    BY <1>1 DEF Labels
  <2>2. Kept(E, c) \in Texts \cup {None}
    BY <1>0 DEF Kept, EditorState
  <2>3. [Refused(E, c, "conflict") EXCEPT !.conflict = c.seen, !.local = Kept(E, c)] \in EditorState
    BY <1>0, <2>1, <2>2 DEF EditorState
  <2>4. TypeOK'
    BY <1>0, <1>3, <2>3, TypeKept DEF AnswerConflict, TypeOK
  <2> QED BY <1>3, <2>4, HistoryKept DEF AnswerConflict, CallsAreSound
<1>4. CASE AnswerFailed(c)
  <2>1. TypeOK'
    BY <1>0, <1>1, <1>4, TypeKept DEF AnswerFailed, TypeOK, Labels
  <2> QED BY <1>4, <2>1, HistoryKept DEF AnswerFailed, CallsAreSound
<1>5. CASE LoseAnswer(c)
  <2> DEFINE deaf == [c EXCEPT !.live = FALSE]
  <2>1. /\ deaf \in Call /\ deaf.phase = c.phase /\ deaf.seen = c.seen
        /\ deaf.forced = c.forced /\ deaf.expected = c.expected
    BY <1>0 DEF Call
  <2>2. calls' \subseteq (calls \ {c}) \cup {deaf}
    BY <1>5 DEF LoseAnswer
  <2>3. calls' \subseteq Call /\ CallsAreSound'
    BY <2>1, <2>2 DEF TypeOK, CallsAreSound
  <2>4. TypeOK'
    BY <1>0, <1>1, <1>5, <2>3, TypeKept DEF LoseAnswer, TypeOK, Labels
  <2> QED BY <1>5, <2>3, <2>4, HistoryKept DEF LoseAnswer
<1> QED BY <1>2, <1>3, <1>4, <1>5

\* Every step keeps the invariant.
LEMMA StepInv == IInv /\ [Next]_vars => IInv'
<1> SUFFICES ASSUME IInv, [Next]_vars PROVE IInv'
  OBVIOUS
<1>1. CASE UNCHANGED vars
  BY <1>1 DEF vars, IInv, TypeOK, CallsAreSound, NothingIsOverwrittenUnseen, TextsAreTidy,
               EditorState, Call, Latest
<1>2. CASE Next
  BY <1>2, HookStep, ServeStep, AnswerStep DEF Next, Serve, Answer
<1> QED BY <1>1, <1>2

(***************************************************************************)
(* The hook                                                                *)
(***************************************************************************)
\* The calls of a tab that it listens to.
LiveOf(e) == {c \in calls : c.by = e /\ c.live}

\* How the state E of a hook and the calls L it listens to hang together.
HookIn(E, L) ==
    /\ \A c, d \in L : c = d
    /\ L # {} => E.inFlight /\ ~E.removed /\ E.open
    /\ E.inFlight /\ ~E.removed => L # {} /\ ~E.blocked
    /\ E.conflict # 0 => E.open /\ E.blocked /\ ~E.inFlight /\ E.local # None
    /\ E.label \in {"unsaved", "saving", "error", "conflict"} => E.open /\ ~E.removed
    /\ E.label \in {"unsaved", "saving"} => ~E.blocked
    /\ E.label = "unsaved" => E.pending # None /\ (E.timer \/ E.inFlight)
    /\ E.label = "saving" => E.inFlight
    /\ E.label \in {"error", "conflict"} => E.pending # None /\ ~E.inFlight
    /\ E.label = "error" => E.conflict = 0
    /\ E.deleting => E.removed

\* A hook at rest is right about the server.
RightIn(E) ==
    E.open /\ ~E.inFlight /\ ~E.blocked /\ ~E.removed =>
      Normal[E.lastSaved] = history[E.revision].text

HooksAreSound == \A e \in Editors : HookIn(editor[e], LiveOf(e)) /\ RightIn(editor[e])

\* A call that has an answer is waited for, and a save has stored the text it was sent with.
AnswersAreSound ==
    \A c \in calls :
      /\ c.phase \notin Unfinished => c.live
      /\ c.phase = "saved" => c.seen \in 1..Latest /\ history[c.seen].text = Normal[c.text]

HInv == IInv /\ HooksAreSound /\ AnswersAreSound

\* A hook that starts a save, or cannot.
LEMMA RunningIsSound ==
    ASSUME NEW E \in EditorState, NEW L, NEW c,
           \/ CanRun(E) /\ E.conflict = 0 /\ ~E.deleting /\ L = {c}
           \/ ~CanRun(E) /\ HookIn([E EXCEPT !.timer = FALSE], L) /\ RightIn(E)
    PROVE  HookIn(Running(E), L) /\ RightIn(Running(E))
<1>1. CASE CanRun(E) /\ E.conflict = 0 /\ ~E.deleting /\ L = {c}
  <2> DEFINE F == Running(E)
  <2>1. /\ F.open /\ F.inFlight /\ ~F.blocked /\ ~F.removed /\ F.label = "saving"
        /\ F.conflict = 0 /\ ~F.deleting
    BY <1>1 DEF CanRun, Running, EditorState
  <2> QED BY <1>1, <2>1 DEF HookIn, RightIn
<1>2. CASE ~CanRun(E) /\ HookIn([E EXCEPT !.timer = FALSE], L) /\ RightIn(E)
  BY <1>2 DEF Running, RightIn, EditorState
<1> QED BY <1>1, <1>2

\* A step of one tab that stores nothing and leaves the calls of the others alone.
LEMMA OneHookMoves ==
    ASSUME HInv, NEW e \in Editors, NEW F \in EditorState, editor' = [editor EXCEPT ![e] = F],
           history' = history, \A f \in Editors \ {e} : LiveOf(f)' = LiveOf(f),
           HookIn(F, LiveOf(e)'), RightIn(F)
    PROVE  HooksAreSound'
<1>1. editor \in [Editors -> EditorState]
  BY DEF HInv, IInv, TypeOK
<1>2. RightIn(F)'
  BY DEF RightIn
<1>3. ASSUME NEW f \in Editors, f # e PROVE editor'[f] = editor[f] /\ LiveOf(f)' = LiveOf(f)
  BY <1>1, <1>3
<1>4. ASSUME NEW f \in Editors, f # e PROVE HookIn(editor'[f], LiveOf(f)')
  BY <1>3, <1>4 DEF HInv, HooksAreSound
<1>5. ASSUME NEW f \in Editors, f # e PROVE RightIn(editor[f])'
  BY <1>3, <1>5 DEF HInv, HooksAreSound, RightIn
<1>6. editor'[e] = F
  BY <1>1
<1>7. RightIn(editor[e])'
  BY <1>6 DEF RightIn
<1> QED BY <1>4, <1>5, <1>6, <1>7 DEF HooksAreSound

\* Calls that are forgotten are listened to no more; those of the others stay.
LEMMA ForgottenLive ==
    ASSUME NEW e \in Editors, calls \subseteq Call, AnswersAreSound, calls' = Forgotten(e),
           history' = history
    PROVE  /\ LiveOf(e)' = {} /\ \A f \in Editors \ {e} : LiveOf(f)' = LiveOf(f)
           /\ AnswersAreSound'
<1>1. \A c \in calls' : \/ c \in calls /\ c.by # e
                        \/ c.by = e /\ ~c.live /\ c.phase \in Unfinished
  BY DEF Forgotten, Call
<1>2. \A c \in calls : c.by # e => c \in calls'
  BY DEF Forgotten
<1>3. LiveOf(e)' = {}
  BY <1>1 DEF LiveOf
<1>4. ASSUME NEW f \in Editors \ {e} PROVE LiveOf(f)' = LiveOf(f)
  BY <1>1, <1>2 DEF LiveOf
<1>5. AnswersAreSound'
  BY <1>1 DEF AnswersAreSound, Unfinished, Latest
<1> QED BY <1>3, <1>4, <1>5

\* Sending what is pending, from a state F of the hook of e in which cs are the calls.
LEMMA RunIsSound ==
    ASSUME HInv, NEW e \in Editors, NEW F \in EditorState, NEW force \in BOOLEAN,
           NEW cs \in SUBSET calls, Run(e, F, force, cs), history' = history,
           \A c \in calls \ cs : c.by = e,
           \/ /\ CanRun(F) /\ F.conflict = 0 /\ ~F.deleting
              /\ \A c \in cs : ~(c.by = e /\ c.live)
           \/ /\ ~CanRun(F) /\ RightIn(F)
              /\ HookIn([F EXCEPT !.timer = FALSE], {c \in cs : c.by = e /\ c.live})
    PROVE  HooksAreSound' /\ AnswersAreSound'
<1> DEFINE new == [by |-> e, no |-> inputs'[e], text |-> F.pending, expected |-> F.revision,
                   forced |-> force, phase |-> "sent", seen |-> 0, live |-> TRUE]
           L == {c \in cs : c.by = e /\ c.live}
<1>1. Running(F) \in EditorState /\ editor' = [editor EXCEPT ![e] = Running(F)]
  BY RunningType DEF Run
<1>2. calls' = cs \cup {c \in {new} : CanRun(F)}
  BY DEF Run
<1>3. ASSUME NEW f \in Editors \ {e} PROVE LiveOf(f)' = LiveOf(f)
  BY <1>2 DEF LiveOf
<1>4. AnswersAreSound'
  <2>1. \A c \in calls' : c \in calls \/ (c.phase = "sent" /\ c.live)
    BY <1>2
  <2> QED BY <2>1 DEF HInv, AnswersAreSound, Unfinished, Latest
<1>5. CASE CanRun(F) /\ F.conflict = 0 /\ ~F.deleting /\ \A c \in cs : ~(c.by = e /\ c.live)
  <2>1. LiveOf(e)' = {new}
    BY <1>2, <1>5 DEF LiveOf
  <2> QED BY <1>1, <1>3, <1>4, <1>5, <2>1, RunningIsSound, OneHookMoves
<1>6. CASE ~CanRun(F) /\ RightIn(F) /\ HookIn([F EXCEPT !.timer = FALSE], L)
  <2>1. LiveOf(e)' = L
    BY <1>2, <1>6 DEF LiveOf
  <2> QED BY <1>1, <1>3, <1>4, <1>6, <2>1, RunningIsSound, OneHookMoves
<1> QED BY <1>5, <1>6

\* What is known of a hook before a step.
LEMMA HookFacts ==
    ASSUME HInv, NEW e \in Editors
    PROVE  /\ editor[e] \in EditorState /\ HookIn(editor[e], LiveOf(e)) /\ RightIn(editor[e])
           /\ calls \subseteq Call /\ history \in Seq(Version) /\ None \notin Texts
           /\ (~editor[e].inFlight \/ editor[e].removed => LiveOf(e) = {})
<1>1. editor[e] \in EditorState /\ calls \subseteq Call /\ history \in Seq(Version)
  BY DEF HInv, IInv, TypeOK
<1>2. HookIn(editor[e], LiveOf(e)) /\ RightIn(editor[e])
  BY DEF HInv, HooksAreSound
<1>3. ~editor[e].inFlight \/ editor[e].removed => LiveOf(e) = {}
  BY <1>2 DEF HookIn
<1> QED BY <1>1, <1>2, <1>3, EditingAssumption

\* What a tab does to itself and to its calls keeps the hooks sound.
LEMMA HookStaysSound ==
    ASSUME HInv, NEW e \in Editors,
           \/ \E t \in Texts : Type(e, t)
           \/ Fire(e) \/ Flush(e) \/ ReviewServer(e) \/ KeepMine(e) \/ Retry(e)
           \/ Leave(e) \/ Open(e) \/ Reload(e) \/ MarkDeleted(e) \/ Removed(e)
    PROVE  HInv'
<1> DEFINE E == editor[e]
<1>0. IInv'
  BY HookStep DEF HInv
<1>e. /\ E \in EditorState /\ HookIn(E, LiveOf(e)) /\ RightIn(E)
      /\ calls \subseteq Call /\ history \in Seq(Version) /\ None \notin Texts
      /\ (~E.inFlight \/ E.removed => LiveOf(e) = {})
      /\ (\A n \in 1..Latest : /\ history[n].text \in Texts
                              /\ Normal[history[n].text] = history[n].text)
      /\ 0 \in 0..Latest
  <2>1. \A n \in 1..Latest : history[n] \in Version
    BY HookFacts DEF Latest
  <2>2. 0 \in 0..Latest
    BY HookFacts DEF Latest
  <2>3. TextsAreTidy
    BY DEF HInv, IInv
  <2> QED BY <2>1, <2>2, <2>3, HookFacts DEF Version, TextsAreTidy
<1> DEFINE Calm(F) == /\ F \in EditorState /\ editor' = [editor EXCEPT ![e] = F]
                      /\ history' = history
<1>c. ASSUME NEW F, Calm(F), calls' = calls, HookIn(F, LiveOf(e)), RightIn(F)
      PROVE  HInv'
  <2>1. \A f \in Editors : LiveOf(f)' = LiveOf(f)
    BY <1>c DEF LiveOf
  <2>2. HooksAreSound'
    BY <1>c, <2>1, OneHookMoves
  <2>3. AnswersAreSound'
    BY <1>c DEF HInv, AnswersAreSound, Latest
  <2> QED BY <1>0, <2>2, <2>3 DEF HInv
<1>f. ASSUME NEW F, Calm(F), calls' = Forgotten(e), HookIn(F, {}), RightIn(F)
      PROVE  HInv'
  <2>1. LiveOf(e)' = {} /\ (\A f \in Editors \ {e} : LiveOf(f)' = LiveOf(f)) /\ AnswersAreSound'
    BY <1>e, <1>f, ForgottenLive DEF HInv
  <2>2. HooksAreSound'
    BY <1>f, <2>1, OneHookMoves
  <2> QED BY <1>0, <2>1, <2>2 DEF HInv
<1>r. ASSUME NEW F \in EditorState, NEW force \in BOOLEAN, Run(e, F, force, calls), history' = history,
             \/ CanRun(F) /\ F.conflict = 0 /\ ~F.deleting /\ LiveOf(e) = {}
             \/ ~CanRun(F) /\ RightIn(F) /\ HookIn([F EXCEPT !.timer = FALSE], LiveOf(e))
      PROVE  HInv'
  <2>1. CASE CanRun(F) /\ F.conflict = 0 /\ ~F.deleting /\ LiveOf(e) = {}
    <3>1. \A c \in calls : ~(c.by = e /\ c.live)
      BY <2>1 DEF LiveOf
    <3>2. calls \in SUBSET calls /\ \A c \in calls \ calls : c.by = e
      OBVIOUS
    <3>3. CanRun(F) /\ F.conflict = 0 /\ ~F.deleting
      BY <2>1
    <3>4. history' = history /\ (Run(e, F, TRUE, calls) \/ Run(e, F, FALSE, calls))
      BY <1>r
    <3>5. HooksAreSound' /\ AnswersAreSound'
      BY <3>1, <3>2, <3>3, <3>4, RunIsSound
    <3> QED BY <1>0, <3>5 DEF HInv
  <2>2. CASE ~CanRun(F) /\ RightIn(F) /\ HookIn([F EXCEPT !.timer = FALSE], LiveOf(e))
    BY <1>0, <1>r, <2>2, RunIsSound DEF HInv, LiveOf
  <2> QED BY <1>r, <2>1, <2>2
<1>1. ASSUME NEW t \in Texts, Type(e, t) PROVE HInv'
  <2> DEFINE F == [E EXCEPT !.text = t]
             G == Enqueued(F, t)
  <2>1. F \in EditorState
    BY <1>e DEF EditorState
  <2>2. G \in EditorState
    BY <2>1, EnqueuedType
  <2>3. HookIn(F, LiveOf(e)) /\ RightIn(F) /\ F.open
    BY <1>1, <1>e DEF HookIn, RightIn, EditorState, Type
  <2>4. HookIn(G, LiveOf(e)) /\ RightIn(G)
    BY <1>e, <2>1, <2>3 DEF Enqueued, HookIn, RightIn, EditorState
  <2> QED BY <1>1, <1>c, <2>2, <2>4 DEF Type
<1>2. CASE Fire(e) \/ Flush(e)
  <2>1. history' = history /\ Run(e, E, FALSE, calls)
    BY <1>2 DEF Fire, Flush
  <2>2. CASE CanRun(E)
    <3>1. E.conflict = 0 /\ ~E.deleting /\ ~E.inFlight
      BY <1>e, <2>2 DEF CanRun, HookIn
    <3>2. LiveOf(e) = {}
      BY <1>e, <3>1
    <3> QED BY <1>e, <1>r, <2>1, <2>2, <3>1, <3>2
  <2>3. CASE ~CanRun(E)
    <3>1. HookIn([E EXCEPT !.timer = FALSE], LiveOf(e))
      BY <1>e, <2>3 DEF CanRun, HookIn, EditorState
    <3> QED BY <1>e, <1>r, <2>1, <2>3, <3>1
  <2> QED BY <2>2, <2>3
<1>3. CASE ReviewServer(e)
  <2> DEFINE R == E.conflict
             F == [E EXCEPT !.blocked = FALSE, !.pending = None, !.revision = R,
                            !.lastSaved = history[R].text, !.text = history[R].text,
                            !.conflict = 0, !.local = None, !.label = "saved"]
  <2>1. R \in 1..Latest /\ ~E.inFlight /\ E.open
    BY <1>3, <1>e DEF ReviewServer, EditorState, HookIn
  <2>2. F \in EditorState
    BY <1>e, <2>1 DEF EditorState, Labels
  <2>3. HookIn(F, {}) /\ RightIn(F)
    BY <1>e, <2>1 DEF HookIn, RightIn, EditorState
  <2> QED BY <1>3, <1>f, <2>2, <2>3 DEF ReviewServer
<1>4. CASE KeepMine(e)
  <2> DEFINE F == [E EXCEPT !.revision = E.conflict, !.pending = E.local, !.blocked = FALSE,
                            !.conflict = 0, !.local = None]
  <2>1. E.conflict \in 1..Latest /\ ~E.inFlight /\ E.open /\ E.local # None /\ LiveOf(e) = {}
    BY <1>4, <1>e DEF KeepMine, EditorState, HookIn
  <2>2. F \in EditorState
    BY <1>e, <2>1 DEF EditorState
  <2>3. history' = history /\ Run(e, F, TRUE, calls)
    BY <1>4 DEF KeepMine
  <2>4. CASE E.removed
    <3>1. ~CanRun(F) /\ RightIn(F)
      BY <1>e, <2>4 DEF CanRun, RightIn, EditorState
    <3>2. HookIn([F EXCEPT !.timer = FALSE], LiveOf(e))
      BY <1>e, <2>1, <2>4 DEF HookIn, EditorState
    <3> QED BY <1>r, <2>2, <2>3, <3>1, <3>2
  <2>5. CASE ~E.removed
    <3>0. ~E.deleting
      BY <1>e, <2>5 DEF HookIn
    <3>1. CanRun(F) /\ F.conflict = 0 /\ ~F.deleting
      BY <1>e, <2>1, <2>5, <3>0 DEF CanRun, EditorState
    <3> QED BY <1>r, <2>1, <2>2, <2>3, <3>1
  <2> QED BY <1>e, <2>4, <2>5 DEF EditorState
<1>5. CASE Retry(e)
  <2> DEFINE F == [E EXCEPT !.blocked = FALSE, !.label = "unsaved"]
  <2>1. F \in EditorState
    BY <1>e DEF EditorState, Labels
  <2>2. history' = history /\ Run(e, F, FALSE, calls)
    BY <1>5 DEF Retry
  <2>3. CanRun(F) /\ F.conflict = 0 /\ ~F.deleting /\ LiveOf(e) = {}
    BY <1>5, <1>e DEF Retry, CanRun, HookIn, EditorState
  <2> QED BY <1>r, <2>1, <2>2, <2>3
<1>6. CASE Leave(e)
  <2>1. Closed(E) \in EditorState
    BY <1>e DEF Closed, EditorState, Labels
  <2>2. HookIn(Closed(E), {}) /\ RightIn(Closed(E))
    BY <1>e DEF Closed, HookIn, RightIn, EditorState
  <2> QED BY <1>6, <1>f, <2>1, <2>2 DEF Leave
<1>7. CASE Open(e)
  <2> DEFINE F == Shown(listed[e], E.removed)
  <2>1. listed[e] \in 1..Latest /\ E.removed \in BOOLEAN /\ LiveOf(e) = {}
    BY <1>7, <1>e DEF Open, HInv, IInv, TypeOK, EditorState, HookIn
  <2>2. F \in EditorState
    BY <1>e, <2>1 DEF Shown, EditorState, Labels
  <2>3. HookIn(F, LiveOf(e)) /\ RightIn(F)
    BY <1>e, <2>1 DEF Shown, HookIn, RightIn
  <2> QED BY <1>7, <1>c, <2>2, <2>3 DEF Open
<1>8. CASE Reload(e)
  <2>1. UNCHANGED <<history, editor, calls>>
    BY <1>8 DEF Reload
  <2> QED BY <1>0, <2>1 DEF HInv, HooksAreSound, AnswersAreSound, RightIn, LiveOf, Latest
<1>9. CASE MarkDeleted(e)
  <2> DEFINE F == [E EXCEPT !.removed = TRUE, !.timer = FALSE, !.pending = None, !.blocked = TRUE,
                            !.label = "idle", !.deleting = TRUE]
  <2>1. F \in EditorState
    BY <1>e DEF EditorState, Labels
  <2>2. HookIn(F, {}) /\ RightIn(F)
    BY <1>9, <1>e DEF MarkDeleted, HookIn, RightIn, EditorState
  <2> QED BY <1>9, <1>f, <2>1, <2>2 DEF MarkDeleted
<1>10. CASE Removed(e)
  <2> DEFINE F == [E EXCEPT !.deleting = FALSE]
  <2>1. E.removed /\ LiveOf(e) = {}
    BY <1>10, <1>e DEF Removed, HookIn
  <2>2. Closed(E) \in EditorState /\ F \in EditorState
    BY <1>e DEF Closed, EditorState, Labels
  <2>3. HookIn(Closed(E), LiveOf(e)) /\ RightIn(Closed(E))
    BY <1>e, <2>1 DEF Closed, HookIn, RightIn, EditorState
  <2>4. HookIn(F, LiveOf(e)) /\ RightIn(F)
    BY <1>e, <2>1 DEF HookIn, RightIn, EditorState
  <2>5. Calm(Closed(E)) \/ Calm(F)
    BY <1>10, <2>2 DEF Removed
  <2>6. calls' = calls
    BY <1>10 DEF Removed
  <2> QED BY <1>c, <2>3, <2>4, <2>5, <2>6
<1> QED BY <1>1, <1>2, <1>3, <1>4, <1>5, <1>6, <1>7, <1>8, <1>9, <1>10

\* A call that is served, with or without an answer to wait for, and what it is of.
LEMMA FinishedLive ==
    ASSUME HInv, NEW c \in calls, c.phase \in Unfinished,
           NEW phase \in {"saved", "conflict", "failed"}, NEW seen \in Nat,
           calls' = Finished(c, phase, seen),
           \A n \in 1..Latest : n \in 1..Latest' /\ history'[n].text = history[n].text,
           phase = "saved" => seen \in 1..Latest' /\ history'[seen].text = Normal[c.text]
    PROVE  /\ AnswersAreSound'
           /\ \A e \in Editors : \A L : HookIn(editor[e], LiveOf(e)) => HookIn(editor[e], LiveOf(e)')
<1> DEFINE new == [c EXCEPT !.phase = phase, !.seen = seen]
<1>0. c \in Call /\ calls \subseteq Call
  BY DEF HInv, IInv, TypeOK
<1>1. /\ new.phase = phase /\ new.seen = seen /\ new.text = c.text /\ new.by = c.by
      /\ new.live = c.live
  BY <1>0 DEF Call
<1>2. \A d \in calls' : d \in calls \/ (d = new /\ c.live)
  BY DEF Finished
<1>3. AnswersAreSound'
  <2> SUFFICES ASSUME NEW d \in calls'
               PROVE  /\ d.phase \notin Unfinished => d.live
                      /\ d.phase = "saved" => d.seen \in 1..Latest' /\ history'[d.seen].text = Normal[d.text]
    BY DEF AnswersAreSound
  <2>1. CASE d \in calls
    BY <2>1 DEF HInv, AnswersAreSound
  <2>2. CASE d = new /\ c.live
    BY <1>1, <2>2
  <2> QED BY <1>2, <2>1, <2>2
<1>4. ASSUME NEW e \in Editors, HookIn(editor[e], LiveOf(e)) PROVE HookIn(editor[e], LiveOf(e)')
  <2>1. CASE c \in LiveOf(e)
    <3>1. LiveOf(e) = {c}
      BY <1>4, <2>1 DEF HookIn
    <3>2. LiveOf(e)' = {new}
      BY <1>1, <1>2, <2>1, <3>1 DEF LiveOf, Finished
    <3> QED BY <1>4, <3>1, <3>2 DEF HookIn
  <2>2. CASE c \notin LiveOf(e)
    <3>1. LiveOf(e)' = LiveOf(e)
      BY <1>1, <1>2, <2>2 DEF LiveOf, Finished
    <3> QED BY <1>4, <3>1
  <2> QED BY <2>1, <2>2
<1> QED BY <1>3, <1>4

\* Reading and committing a call keep the hooks sound.
LEMMA ServeStaysSound ==
    ASSUME HInv, NEW c \in calls, ReadNote(c) \/ Commit(c)
    PROVE  HInv'
<1>0. IInv'
  BY ServeStep DEF HInv
<1>e. /\ c \in Call /\ history \in Seq(Version) /\ Latest = Len(history) /\ Latest \in Nat \ {0}
      /\ c.phase \in Unfinished /\ editor' = editor /\ editor \in [Editors -> EditorState]
  <2>1. c \in Call /\ history \in Seq(Version) /\ history # <<>> /\ editor \in [Editors -> EditorState]
    BY DEF HInv, IInv, TypeOK
  <2>2. Latest = Len(history) /\ Latest \in Nat \ {0}
    BY <2>1 DEF Latest
  <2> QED BY <2>1, <2>2 DEF ReadNote, Commit, Unfinished
<1>h. ASSUME AnswersAreSound', \A n \in 1..Latest : history'[n].text = history[n].text,
             \A e \in Editors : HookIn(editor[e], LiveOf(e)) => HookIn(editor[e], LiveOf(e)')
      PROVE  HInv'
  <2>1. ASSUME NEW e \in Editors PROVE HookIn(editor'[e], LiveOf(e)')
    BY <1>e, <1>h DEF HInv, HooksAreSound
  <2>2. ASSUME NEW e \in Editors PROVE RightIn(editor[e])'
    <3>1. editor[e].revision \in 1..Latest /\ RightIn(editor[e])
      BY <1>e DEF EditorState, HInv, HooksAreSound
    <3> QED BY <1>e, <1>h, <3>1 DEF RightIn
  <2> QED BY <1>0, <1>h, <2>1, <2>2 DEF HInv, HooksAreSound
<1>1. CASE history' = history /\ \E phase \in {"conflict", "failed"}, seen \in Nat :
                                    calls' = Finished(c, phase, seen)
  <2>1. \A n \in 1..Latest : n \in 1..Latest' /\ history'[n].text = history[n].text
    BY <1>1 DEF Latest
  <2> QED BY <1>1, <1>e, <1>h, <2>1, FinishedLive
<1>2. CASE ReadNote(c)
  <2>1. history' = history
    BY <1>2 DEF ReadNote
  <2>2. CASE trashed \/ (c.expected # Latest /\ ~c.forced)
    BY <1>1, <1>2, <1>e, <2>1, <2>2 DEF ReadNote
  <2>3. CASE ~trashed /\ ~(c.expected # Latest /\ ~c.forced)
    <3> DEFINE new == [c EXCEPT !.phase = "read", !.seen = Latest]
    <3>1. calls' = (calls \ {c}) \cup {new}
      BY <1>2, <2>3 DEF ReadNote
    <3>2. new.phase = "read" /\ new.by = c.by /\ new.live = c.live
      BY <1>e DEF Call
    <3>3. AnswersAreSound'
      BY <2>1, <3>1, <3>2 DEF HInv, AnswersAreSound, Unfinished, Latest
    <3>4. ASSUME NEW e \in Editors, HookIn(editor[e], LiveOf(e))
          PROVE  HookIn(editor[e], LiveOf(e)')
      <4>1. CASE c \in LiveOf(e)
        <5>1. LiveOf(e) = {c}
          BY <3>4, <4>1 DEF HookIn
        <5>2. LiveOf(e)' = {new}
          BY <3>1, <3>2, <4>1, <5>1 DEF LiveOf
        <5> QED BY <3>4, <5>1, <5>2 DEF HookIn
      <4>2. CASE c \notin LiveOf(e)
        <5>1. LiveOf(e)' = LiveOf(e)
          BY <3>1, <3>2, <4>2 DEF LiveOf
        <5> QED BY <3>4, <5>1
      <4> QED BY <4>1, <4>2
    <3> QED BY <1>h, <2>1, <3>3, <3>4
  <2> QED BY <2>2, <2>3
<1>3. CASE Commit(c) /\ c.seen # Latest
  BY <1>1, <1>3 DEF Commit
<1>4. CASE Commit(c) /\ c.seen = Latest
  <2> DEFINE new == [text |-> Normal[c.text], expected |-> c.expected, forced |-> c.forced]
  <2>1. history' = Append(history, new) /\ calls' = Finished(c, "saved", Latest + 1)
    BY <1>4 DEF Commit
  <2>2. new \in Version
    BY <1>e, EditingAssumption DEF Call, Version
  <2>3. Latest' = Latest + 1 /\ history'[Latest + 1] = new
    BY <1>e, <2>1, <2>2 DEF Latest
  <2>4. \A n \in 1..Latest : n \in 1..Latest' /\ history'[n] = history[n]
    BY <1>e, <2>1, <2>2, <2>3
  <2>5. Latest + 1 \in 1..Latest' /\ Latest + 1 \in Nat /\ history'[Latest + 1].text = Normal[c.text]
    BY <1>e, <2>3
  <2>6. \A n \in 1..Latest : n \in 1..Latest' /\ history'[n].text = history[n].text
    BY <2>4
  <2> QED BY <1>e, <1>h, <2>1, <2>5, <2>6, FinishedLive
<1> QED BY <1>2, <1>3, <1>4

\* What a tab does with an answer, or without one, keeps it sound.
LEMMA AnswerStaysSound ==
    ASSUME HInv, NEW c \in calls,
           AnswerSaved(c) \/ AnswerConflict(c) \/ AnswerFailed(c) \/ LoseAnswer(c)
    PROVE  HInv'
<1> DEFINE e == c.by
           E == editor[e]
<1>0. IInv'
  BY AnswerStep DEF HInv
<1>e. /\ c \in Call /\ e \in Editors /\ calls \subseteq Call /\ c.live /\ history' = history
  <2>1. c \in Call /\ calls \subseteq Call
    BY DEF HInv, IInv, TypeOK
  <2>2. c.live
    BY DEF AnswerSaved, AnswerConflict, AnswerFailed, LoseAnswer, HInv, AnswersAreSound, Unfinished
  <2>3. history' = history
    BY DEF AnswerSaved, AnswerConflict, AnswerFailed, LoseAnswer
  <2> QED BY <2>1, <2>2, <2>3 DEF Call
<1>h. /\ E \in EditorState /\ HookIn(E, LiveOf(e)) /\ RightIn(E) /\ None \notin Texts
      /\ c.text \in Texts /\ c.seen \in 0..Latest /\ 0 \in 0..Latest
  BY <1>e, HookFacts DEF Call, Latest
<1>l. LiveOf(e) = {c} /\ E.inFlight /\ ~E.removed /\ E.open /\ ~E.blocked /\ E.conflict = 0
      /\ ~E.deleting
  BY <1>e, <1>h DEF HookIn, LiveOf
<1>k. Kept(E, c) \in Texts
  BY <1>h DEF Kept, EditorState
<1>1. CASE AnswerSaved(c)
  <2> DEFINE F == Saved(E, c)
  <2>1. c.seen \in 1..Latest /\ history[c.seen].text = Normal[c.text]
    BY <1>1 DEF AnswerSaved, HInv, AnswersAreSound
  <2>2. F \in EditorState
    BY <1>h, <2>1, SavedType
  <2>6. PICK t \in Texts :
          F = [E EXCEPT !.revision = c.seen, !.lastSaved = c.text, !.conflict = 0,
                        !.local = None, !.inFlight = FALSE, !.text = t,
                        !.label = IF HasNewerDraft(E, c) THEN "unsaved" ELSE "saved"]
    BY <1>h, <2>1, SavedType
  <2> HIDE DEF F
  <2>3. Run(e, F, FALSE, calls \ {c})
    BY <1>1 DEF AnswerSaved, F
  <2>4. \A d \in calls \ {c} : ~(d.by = e /\ d.live)
    BY <1>l DEF LiveOf
  <2>5. HooksAreSound' /\ AnswersAreSound'
    <3>0. calls \ {c} \in SUBSET calls /\ \A d \in calls \ (calls \ {c}) : d.by = e
      OBVIOUS
    <3>1. CASE CanRun(F)
      <4>1. F.conflict = 0 /\ ~F.deleting
        BY <1>h, <1>l, <2>6 DEF EditorState
      <4> QED BY <1>e, <2>2, <2>3, <2>4, <3>0, <3>1, <4>1, RunIsSound
    <3>2. CASE ~CanRun(F)
      <4>1. F.pending = None /\ F.label = "saved"
        BY <1>h, <1>l, <2>6, <3>2 DEF HasNewerDraft, CanRun, EditorState
      <4>2. RightIn(F)
        BY <1>h, <2>1, <2>6 DEF RightIn, EditorState
      <4>3. HookIn([F EXCEPT !.timer = FALSE], {})
        BY <1>h, <1>l, <2>2, <2>6, <4>1 DEF HookIn, EditorState
      <4>4. {d \in calls \ {c} : d.by = e /\ d.live} = {}
        BY <2>4
      <4> QED BY <1>e, <2>2, <2>3, <3>0, <3>2, <4>2, <4>3, <4>4, RunIsSound
    <3> QED BY <3>1, <3>2
  <2> QED BY <1>0, <2>5 DEF HInv
<1>m. ASSUME NEW F \in EditorState, editor' = [editor EXCEPT ![e] = F], HookIn(F, {}), F.blocked,
             \/ calls' = calls \ {c}
             \/ /\ c.phase \in Unfinished
                /\ calls' = (calls \ {c}) \cup {[c EXCEPT !.live = FALSE]}
      PROVE  HInv'
  <2> DEFINE deaf == [c EXCEPT !.live = FALSE]
  <2>1. deaf.by = e /\ ~deaf.live /\ deaf.phase = c.phase
    BY <1>e DEF Call
  <2>2. LiveOf(e)' = {}
    BY <1>l, <1>m, <2>1 DEF LiveOf
  <2>3. \A f \in Editors \ {e} : LiveOf(f)' = LiveOf(f)
    BY <1>m, <2>1 DEF LiveOf
  <2>4. AnswersAreSound'
    BY <1>e, <1>m, <2>1 DEF HInv, AnswersAreSound, Unfinished, Latest
  <2>5. RightIn(F)
    BY <1>m DEF RightIn
  <2>6. HooksAreSound'
    BY <1>e, <1>m, <2>2, <2>3, <2>5, OneHookMoves
  <2> QED BY <1>0, <2>4, <2>6 DEF HInv
<1>2. CASE AnswerConflict(c)
  <2> DEFINE F == [Refused(E, c, "conflict") EXCEPT !.conflict = c.seen, !.local = Kept(E, c)]
  <2>1. F \in EditorState
    BY <1>h, <1>k DEF Refused, EditorState, Labels
  <2>2. HookIn(F, {}) /\ F.blocked
    BY <1>h, <1>k, <1>l DEF Refused, HookIn, EditorState
  <2> QED BY <1>2, <1>m, <2>1, <2>2 DEF AnswerConflict
<1>r. LET F == Refused(E, c, "error") IN F \in EditorState /\ HookIn(F, {}) /\ F.blocked
  <2>1. Refused(E, c, "error") \in EditorState
    BY <1>h, <1>k DEF Refused, EditorState, Labels
  <2> QED BY <1>h, <1>k, <1>l, <2>1 DEF Refused, HookIn, EditorState
<1>3. CASE AnswerFailed(c)
  BY <1>3, <1>m, <1>r DEF AnswerFailed
<1>4. CASE LoseAnswer(c)
  BY <1>4, <1>m, <1>r DEF LoseAnswer
<1> QED BY <1>1, <1>2, <1>3, <1>4

\* In the first state nobody has opened the note.
LEMMA HooksBegin == Init => HInv
<1> SUFFICES ASSUME Init PROVE HInv
  OBVIOUS
<1>1. IInv
  BY InitInv
<1>2. calls = {} /\ \A e \in Editors :
        /\ ~editor[e].open /\ ~editor[e].inFlight /\ ~editor[e].removed /\ ~editor[e].deleting
        /\ editor[e].conflict = 0 /\ editor[e].label = "idle"
  BY DEF Init
<1>3. \A e \in Editors : HookIn(editor[e], LiveOf(e)) /\ RightIn(editor[e])
  BY <1>2 DEF HookIn, RightIn, LiveOf
<1> QED BY <1>1, <1>2, <1>3 DEF HInv, HooksAreSound, AnswersAreSound

\* Every step keeps the hooks sound.
LEMMA HooksStep == HInv /\ [Next]_vars => HInv'
<1> SUFFICES ASSUME HInv, [Next]_vars PROVE HInv'
  OBVIOUS
<1>1. CASE UNCHANGED vars
  <2>1. IInv'
    BY <1>1, StepInv DEF HInv
  <2>2. \A e \in Editors : LiveOf(e)' = LiveOf(e) /\ RightIn(editor[e])' = RightIn(editor[e])
    BY <1>1 DEF vars, LiveOf, RightIn
  <2> QED BY <1>1, <2>1, <2>2 DEF vars, HInv, HooksAreSound, AnswersAreSound, Latest
<1>2. CASE Next
  BY <1>2, HookStaysSound, ServeStaysSound, AnswerStaysSound DEF Next, Serve, Answer
<1> QED BY <1>1, <1>2

(***************************************************************************)
(* The theorems                                                            *)
(***************************************************************************)
\* Every behaviour keeps the invariant.
THEOREM Invariant == Spec => []IInv
BY InitInv, StepInv, PTL DEF Spec

\* The state of every tab, call and revision has its shape, whatever the tabs and the
\* texts: a revision that a tab or a call refers to has been stored.
THEOREM TypesHold == Spec => []TypeOK
<1>1. IInv => TypeOK
  BY DEF IInv
<1> QED BY <1>1, Invariant, PTL

\* A save nobody forced replaces the very revision its tab was showing, for any number
\* of tabs, calls in flight and broken connections.
THEOREM NobodyOverwritesUnseen == Spec => []NothingIsOverwrittenUnseen
<1>1. IInv => NothingIsOverwrittenUnseen
  BY DEF IInv
<1> QED BY <1>1, Invariant, PTL

\* The hooks of all tabs are sound in every state, for any of them and any user.
THEOREM HooksInvariant == Spec => []HInv
BY HooksBegin, HooksStep, PTL DEF Spec

\* A tab at rest is right about what is stored under the revision it will send, but for
\* the blanks of the title, though answers come late, twice or never, and other tabs
\* save in between.
THEOREM RestIsRightAboutServer == Spec => []SavedTextIsOfRevision
<1>1. HInv => SavedTextIsOfRevision
  BY DEF HInv, HooksAreSound, RightIn, SavedTextIsOfRevision
<1> QED BY <1>1, HooksInvariant, PTL

\* Two saves of a tab are never on their way together, whichever of the timer, Ctrl+S,
\* an answer, "keep mine" and "retry" starts them.
THEOREM SavesAreSerialized == Spec => []OneSaveAtATime
<1>1. HInv => OneSaveAtATime
  <2> SUFFICES ASSUME HInv, NEW c \in calls, NEW d \in calls, c.by = d.by, c.live, d.live
               PROVE  c = d
    BY DEF OneSaveAtATime
  <2>1. c.by \in Editors
    BY DEF HInv, IInv, TypeOK, Call
  <2>2. c \in LiveOf(c.by) /\ d \in LiveOf(c.by)
    BY DEF LiveOf
  <2> QED BY <2>1, <2>2 DEF HInv, HooksAreSound, HookIn
<1> QED BY <1>1, HooksInvariant, PTL

\* What a label says will be done is being done, for any number of tabs.
THEOREM LabelsHold == Spec => []LabelsAreHonest
<1>1. HInv => LabelsAreHonest
  <2> SUFFICES ASSUME HInv, NEW e \in Editors
               PROVE  LET E == editor[e] IN
                      /\ E.label = "unsaved" => E.pending # None /\ (E.timer \/ E.inFlight)
                      /\ E.label = "saving" => E.inFlight
                      /\ E.inFlight /\ ~E.removed => \E c \in calls : c.by = e /\ c.live
                      /\ E.label \in {"error", "conflict"} => E.pending # None
    BY DEF LabelsAreHonest
  <2>1. HookIn(editor[e], LiveOf(e))
    BY DEF HInv, HooksAreSound
  <2> QED BY <2>1 DEF HookIn, LiveOf
<1> QED BY <1>1, HooksInvariant, PTL

(***************************************************************************)
(* Indexing: the invariant                                                 *)
(***************************************************************************)
NoteRow == [revision : Revisions, deleted : BOOLEAN, archived : BOOLEAN]
JobRow == [revision : Revisions, action : {"index", "remove"}, attempts : Nat,
           status : {"queued", "held", "completed", "failed", "superseded"}]

\* The shape of what the argument is about; attempts are counted elsewhere.
NoteShape ==
    /\ note \in NoteRow
    /\ state \in [revision : {0} \cup Revisions,
                  status : {"pending", "indexing", "indexed", "removed", "failed"}]
    /\ points \subseteq Revisions
    /\ job \in Seq(JobRow) /\ Len(job) <= MaxJobs
    /\ work \in [Jobs -> [action : {"none", "index", "remove"},
                          stage : {"idle", "claimed", "prepared", "submitted", "marked",
                                   "upserted", "applied"}]]
    /\ writes \in Seq(Jobs)
    /\ spent \in [deletes : Nat, restores : Nat, faults : Nat, crashes : Nat, races : {0, 1}]

\* A transaction t in the place s: it writes a new revision, or hides the note, or has it
\* indexed, or does the last without writing it; it schedules for no revision to come.
Sound(s, t) ==
    /\ t.note \in NoteRow /\ t.revision \in Revisions /\ t.revision <= t.note.revision
    /\ t.action \in {"index", "remove"}
    /\ t.waiting \subseteq DOMAIN job
    /\ IF s = "locked"
       THEN /\ \/ t.note.revision = note.revision + 1
               \/ t.note.revision = note.revision /\ (Hidden(t.note) \/ t.action = "index")
            /\ t.action = "index" => \A j \in t.waiting \ t.other : job[j].action = "index"
       ELSE t.revision <= note.revision /\ t.action = "index"

ChangeIsSound ==
    /\ saving = [s \in Sessions |-> saving[s]]
    /\ \A s \in Sessions : saving[s] # NoChange => Sound(s, saving[s])

\* Nobody works on a job that does not exist, or waits; no job is ahead of the note.
HandsAreSound ==
    /\ \A j \in Jobs : work[j].stage # "idle" => j \in DOMAIN job
    /\ \A j \in DOMAIN job :
         /\ job[j].revision <= note.revision
         /\ job[j].status = "queued" => work[j].stage = "idle"

\* What the writer thread knows at each stage of the first job of its queue.
WriterKnows ==
    \A j \in Jobs :
      /\ work[j].stage \in {"marked", "upserted", "applied"} => writes # <<>> /\ j = Head(writes)
      /\ work[j].stage \in {"marked", "upserted"} => state.status # "indexed"
      /\ work[j].stage = "upserted" => work[j].action = "index" /\ job[j].revision \in points
      /\ work[j].stage # "idle" => work[j].action # "none"
      /\ work[j].stage = "applied" /\ work[j].action = "index" /\ job[j].revision = note.revision
         => points = {note.revision}

\* A job that is carried out as a removal, and completed as the index it is now, is one
\* of a note that is hidden, or of an older revision.
RemovalsAreSeen ==
    spent.races = 0 =>
      \A j \in DOMAIN job :
        /\ work[j].stage # "idle" /\ work[j].action = "remove"
        /\ job[j].status = "held" /\ job[j].action = "index"
        /\ job[j].revision = note.revision
        => Hidden(note)

\* What may have been read of the note is not ahead of it.
PastIsBehind ==
    /\ note \in past
    /\ \A n \in past : n \in NoteRow /\ n.revision <= note.revision

NInv ==
    NoteShape /\ ChangeIsSound /\ HandsAreSound /\ WriterKnows /\ RemovalsAreSeen /\ PublishedIsStored

\* The first revision of a note, which waits to be indexed, satisfies it.
LEMMA NotesBegin == NoteInit => NInv /\ PastIsBehind
<1> SUFFICES ASSUME NoteInit PROVE NInv /\ PastIsBehind
  OBVIOUS
<1> USE NoteAssumption
<1> DEFINE r == [revision |-> 1, action |-> "index", status |-> "queued", attempts |-> 0]
<1>1. 1 \in Revisions /\ r \in JobRow
  BY DEF Revisions, JobRow
<1>2. job = <<r>> /\ job \in Seq(JobRow) /\ Len(job) = 1
  BY <1>1 DEF NoteInit
<1>3. NoteShape
  BY <1>1, <1>2 DEF NoteInit, NoteShape, NoteRow, Idle, Jobs
<1>4. ChangeIsSound
  BY DEF NoteInit, ChangeIsSound
<1>5. HandsAreSound
  BY <1>2 DEF NoteInit, HandsAreSound, Idle, Jobs
<1>6. WriterKnows /\ RemovalsAreSeen /\ PublishedIsStored
  BY DEF NoteInit, WriterKnows, RemovalsAreSeen, PublishedIsStored, Published, Idle, Jobs
<1>7. PastIsBehind
  BY <1>1 DEF NoteInit, PastIsBehind, NoteRow, Revisions
<1> QED BY <1>3, <1>4, <1>5, <1>6, <1>7 DEF NInv

\* The rows are numbered from 1, within the bound.
LEMMA DomainIsOfJobs ==
    ASSUME NoteShape PROVE DOMAIN job \subseteq Jobs /\ DOMAIN job = 1..Len(job) /\ Len(job) \in Nat
BY NoteAssumption DEF NoteShape, Jobs

\* A row of the sequence has the shape of a row.
LEMMA RowsAreTyped ==
    ASSUME NoteShape, NEW j \in DOMAIN job
    PROVE  /\ job[j] \in JobRow
           /\ job[j].revision \in Revisions /\ job[j].action \in {"index", "remove"}
           /\ job[j].attempts \in Nat
<1>1. job[j] \in JobRow
  BY DEF NoteShape
<1> QED BY <1>1 DEF JobRow

\* The job rows that one step changes at one place.
LEMMA OneJob ==
    ASSUME NoteShape, NEW j \in DOMAIN job, NEW r \in JobRow, job' = [job EXCEPT ![j] = r]
    PROVE  /\ job' \in Seq(JobRow) /\ Len(job') = Len(job) /\ DOMAIN job' = DOMAIN job
           /\ j \in Jobs
           /\ job'[j] = r
           /\ \A i \in DOMAIN job : i # j => job'[i] = job[i]
BY NoteAssumption DEF NoteShape, Jobs

\* Letting go of a job.
LEMMA Released ==
    ASSUME NoteShape, WriterKnows, NEW j \in Jobs, Release(j)
    PROVE  /\ writes' \in Seq(Jobs)
           /\ work'[j] = Idle
           /\ \A i \in Jobs : i # j => work'[i] = work[i]
           /\ \A i \in Jobs : work'[i].stage \in {"marked", "upserted", "applied"} =>
                writes' # <<>> /\ i = Head(writes')
BY DEF NoteShape, WriterKnows, Release, Idle

\* A step that lets go of job j, gives it a status, and touches points or state only so
\* that nothing is published by it.
LEMMA LettingGo ==
    ASSUME NInv, NEW j \in DOMAIN job, Release(j),
           NEW s \in {"queued", "held", "completed", "failed", "superseded"},
           job' = [job EXCEPT ![j].status = s],
           UNCHANGED <<note, saving>>, NoteShape',
           work[j].stage # "idle",
           \/ UNCHANGED state
           \/ state'.status # "indexed"
           \/ /\ state' = [status |-> "indexed", revision |-> job[j].revision]
              /\ work[j].stage = "applied" /\ job[j].status = "held" /\ job[j].action = "index",
           \/ UNCHANGED points
           \/ /\ points' \subseteq points \cup {job[j].revision}
              /\ work[j].stage \in {"marked", "upserted"},
           spent'.races = spent.races
    PROVE  NInv'
<1> USE NoteAssumption
<1> USE DEF NInv
<1> DEFINE r == [job[j] EXCEPT !.status = s]
<1>1. r \in JobRow /\ job' = [job EXCEPT ![j] = r] /\ job[j] \in JobRow
  <2>1. job[j] \in JobRow
    <3>1. NoteShape
      OBVIOUS
    <3>2. job \in Seq(JobRow)
      BY ONLY <3>1 DEF NoteShape
    <3> QED BY ONLY <3>2
  <2>2. r \in JobRow
    BY <2>1 DEF JobRow
  <2> QED BY <2>1, <2>2
<1>2. /\ DOMAIN job' = DOMAIN job /\ j \in Jobs
      /\ job'[j] = r /\ r.revision = job[j].revision /\ r.action = job[j].action
      /\ \A i \in DOMAIN job : i # j => job'[i] = job[i]
  BY <1>1, OneJob DEF JobRow
<1>3. /\ work'[j] = Idle
      /\ \A i \in Jobs : i # j => work'[i] = work[i]
      /\ \A i \in Jobs : work'[i].stage \in {"marked", "upserted", "applied"} =>
           writes' # <<>> /\ i = Head(writes')
  BY <1>2, Released
<1>4. /\ \A i \in Jobs : work[i].stage = "idle" \/ i \in DOMAIN job
      /\ DOMAIN job \subseteq Jobs
  <2>1. DOMAIN job \subseteq Jobs
    BY DomainIsOfJobs
  <2> QED BY <2>1 DEF HandsAreSound
<1>5. ChangeIsSound'
  BY <1>2 DEF ChangeIsSound, Sound, Hidden
<1>6. HandsAreSound'
  BY <1>2, <1>3, <1>4 DEF HandsAreSound, Idle
<1>7. WriterKnows'
  <2> SUFFICES ASSUME NEW i \in Jobs, i # j, work'[i].stage \in {"marked", "upserted", "applied"}
               PROVE  /\ work[i].stage \in {"marked", "upserted"} => state'.status # "indexed"
                      /\ work[i].stage = "upserted" =>
                           work[i].action = "index" /\ job[i].revision \in points'
                      /\ work[i].stage = "applied" /\ work[i].action = "index"
                           /\ job[i].revision = note.revision => points' = {note.revision}
    BY <1>2, <1>3, <1>4 DEF WriterKnows, Idle
  <2>1. i = Head(writes) /\ work[i].stage \in {"marked", "upserted", "applied"}
    BY <1>3 DEF WriterKnows
  <2>2. work[j].stage \notin {"marked", "upserted", "applied"}
    BY <2>1, <1>2 DEF WriterKnows
  <2> QED BY <2>1, <2>2 DEF WriterKnows
<1>8. RemovalsAreSeen'
  BY <1>2, <1>3, <1>4 DEF RemovalsAreSeen, Hidden, Idle
<1>9. PublishedIsStored'
  <2>1. CASE /\ state' = [status |-> "indexed", revision |-> job[j].revision]
             /\ work[j].stage = "applied" /\ job[j].status = "held" /\ job[j].action = "index"
    <3>1. points' = points
      BY <2>1
    <3>2. work[j].action # "remove" => work[j].action = "index" \/ work[j].action = "none"
      BY <1>2 DEF NoteShape
    <3> QED BY <2>1, <3>1, <1>2
      DEF PublishedIsStored, Published, WriterKnows, RemovalsAreSeen, Hidden, NoteShape
  <2>2. CASE state'.status # "indexed"
    BY <2>2 DEF PublishedIsStored, Published
  <2>3. CASE UNCHANGED state
    BY <2>3, <1>2 DEF PublishedIsStored, Published, WriterKnows
  <2> QED BY <2>1, <2>2, <2>3
<1> QED BY <1>5, <1>6, <1>7, <1>8, <1>9

(***************************************************************************)
(* Shapes                                                                  *)
(***************************************************************************)
\* A step that changes one job's status and lets go of it keeps the shapes of both.
LEMMA ReleasedShape ==
    ASSUME NInv, NEW j \in DOMAIN job, Release(j),
           NEW s \in {"queued", "held", "completed", "failed", "superseded"},
           job' = [job EXCEPT ![j].status = s]
    PROVE  /\ job' \in Seq(JobRow) /\ Len(job') <= MaxJobs
           /\ work' \in [Jobs -> [action : {"none", "index", "remove"},
                                  stage : {"idle", "claimed", "prepared", "submitted", "marked",
                                           "upserted", "applied"}]]
           /\ writes' \in Seq(Jobs)
<1> DEFINE r == [job[j] EXCEPT !.status = s]
<1>1. job[j] \in JobRow
  BY DEF NInv, NoteShape
<1>2. r \in JobRow
  BY <1>1 DEF JobRow
<1>3. job' \in Seq(JobRow) /\ Len(job') = Len(job) /\ j \in Jobs
  BY <1>2, OneJob DEF NInv
<1>4. writes' \in Seq(Jobs)
  BY <1>3, Released DEF NInv
<1>5. work' \in [Jobs -> [action : {"none", "index", "remove"},
                          stage : {"idle", "claimed", "prepared", "submitted", "marked",
                                   "upserted", "applied"}]]
  BY <1>3 DEF NInv, NoteShape, Release, Idle
<1> QED BY <1>3, <1>4, <1>5 DEF NInv, NoteShape

\* Superseding a job, whatever is done to the points of a revision that is not the note's.
LEMMA SupersedeStep ==
    ASSUME NInv, NEW j \in DOMAIN job, Supersede(j), work[j].stage # "idle",
           note' = note, saving' = saving, spent' = spent,
           \/ state' = state
           \/ state' = [state EXCEPT !.status = "indexing"],
           \/ points' = points
           \/ points' = points \ {job[j].revision} /\ work[j].stage \in {"marked", "upserted"}
    PROVE  NInv'
<1>1. Release(j) /\ job' = [job EXCEPT ![j].status = "superseded"]
  BY DEF Supersede
<1>2. NoteShape'
  BY <1>1, ReleasedShape DEF NInv, NoteShape
<1>3. state' = state \/ state'.status # "indexed"
  BY DEF NInv, NoteShape
<1> QED BY <1>1, <1>2, <1>3, LettingGo

\* A failure, whatever part of its request to the store was carried out.
LEMMA FailStep ==
    ASSUME NInv, NEW j \in DOMAIN job, NEW transient \in BOOLEAN, Fail(j, transient),
           work[j].stage # "idle", UNCHANGED <<note, saving>>,
           spent' = [spent EXCEPT !.faults = @ + 1],
           points' = points
             \/ /\ points' \subseteq points \cup {job[j].revision}
                /\ work[j].stage \in {"marked", "upserted"}
    PROVE  NInv'
<1>1. PICK s \in {"queued", "failed"} : job' = [job EXCEPT ![j].status = s]
  BY DEF Fail
<1>2. Release(j)
  BY DEF Fail
<1>3. state' = [state EXCEPT !.status = "pending"] \/ state' = [state EXCEPT !.status = "failed"]
  BY DEF Fail
<1>4. job[j].revision \in Revisions
  BY RowsAreTyped DEF NInv
<1>5. spent'.races = spent.races /\ spent' \in [deletes : Nat, restores : Nat, faults : Nat,
                                               crashes : Nat, races : {0, 1}]
  <2>1. spent \in [deletes : Nat, restores : Nat, faults : Nat, crashes : Nat, races : {0, 1}]
    BY DEF NInv, NoteShape
  <2> QED BY <2>1
<1>6. state'.status # "indexed"
      /\ state' \in [revision : {0} \cup Revisions,
                     status : {"pending", "indexing", "indexed", "removed", "failed"}]
  BY <1>3 DEF NInv, NoteShape
<1>7. NoteShape'
  BY <1>1, <1>2, <1>4, <1>5, <1>6, ReleasedShape DEF NInv, NoteShape
<1> QED BY <1>1, <1>2, <1>5, <1>6, <1>7, LettingGo

\* A step of the indexer that fails, before or after the store did as it was told.
LEMMA FaultStep == ASSUME NInv, NEW j \in DOMAIN job, Fault(j) PROVE NInv'
<1>1. PICK transient \in BOOLEAN : Fail(j, transient)
  BY DEF Fault
<1>2. points' = points
        \/ /\ points' \subseteq points \cup {job[j].revision}
           /\ work[j].stage \in {"marked", "upserted"}
  BY DEF Fault, Left, Swept
<1> QED BY <1>1, <1>2, FailStep DEF Fault

(***************************************************************************)
(* The steps of a job                                                      *)
(***************************************************************************)
\* A job is claimed for what its row says.
LEMMA ClaimStep == ASSUME NInv, NEW j \in DOMAIN job, Claim(j) PROVE NInv'
<1> USE DEF NInv
<1> DEFINE r == [job[j] EXCEPT !.status = "held", !.attempts = @ + 1]
           w == [stage |-> "claimed", action |-> job[j].action]
<1>1. job[j] \in JobRow /\ job[j].status = "queued" /\ work[j].stage = "idle"
  BY DEF NoteShape, Claim, Waiting, HandsAreSound
<1>2. r \in JobRow /\ r.revision = job[j].revision /\ r.action = job[j].action
      /\ r.status = "held"
  <2>1. job[j].attempts + 1 \in Nat
    BY RowsAreTyped
  <2> QED BY <1>1, <2>1 DEF JobRow
<1>3. job' = [job EXCEPT ![j] = r] /\ work' = [work EXCEPT ![j] = w]
  BY DEF Claim
<1>4. /\ job' \in Seq(JobRow) /\ Len(job') = Len(job) /\ DOMAIN job' = DOMAIN job
      /\ j \in Jobs /\ DOMAIN job \subseteq Jobs
      /\ job'[j] = r
      /\ \A i \in DOMAIN job : i # j => job'[i] = job[i]
  BY <1>2, <1>3, OneJob, DomainIsOfJobs
<1>5. w.action \in {"index", "remove"} /\ w.stage = "claimed"
  BY <1>1 DEF JobRow
<1>6. /\ work'[j] = w /\ \A i \in Jobs : i # j => work'[i] = work[i]
      /\ work' \in [Jobs -> [action : {"none", "index", "remove"},
                             stage : {"idle", "claimed", "prepared", "submitted", "marked",
                                      "upserted", "applied"}]]
  BY <1>3, <1>4, <1>5 DEF NoteShape
<1>7. state'.status = "indexing"
      /\ state' \in [revision : {0} \cup Revisions,
                     status : {"pending", "indexing", "indexed", "removed", "failed"}]
  BY DEF Claim, NoteShape
<1>8. UNCHANGED <<note, points, saving, writes, spent>>
  BY DEF Claim
<1>9. NoteShape'
  BY <1>4, <1>6, <1>7, <1>8 DEF NoteShape
<1>10. ChangeIsSound'
  <2>1. saving' = saving /\ note' = note /\ DOMAIN job' = DOMAIN job
        /\ \A i \in DOMAIN job : job'[i].action = job[i].action
    BY <1>2, <1>4, <1>8
  <2>2. ASSUME NEW s \in Sessions, saving[s] # NoChange PROVE Sound(s, saving[s])'
    <3>1. Sound(s, saving[s])
      BY <2>2 DEF ChangeIsSound
    <3> QED BY <2>1, <3>1 DEF Sound, Hidden
  <2> QED BY <2>1, <2>2 DEF ChangeIsSound
<1>11. HandsAreSound'
  <2>1. HandsAreSound /\ w.stage # "idle" /\ r.status # "queued"
    OBVIOUS
  <2> HIDE DEF w, r, NInv
  <2> QED BY <2>1, <1>2, <1>4, <1>6, <1>8 DEF HandsAreSound
<1>12. WriterKnows'
  BY <1>2, <1>4, <1>5, <1>6, <1>7, <1>8 DEF WriterKnows, HandsAreSound
<1>13. RemovalsAreSeen'
  <2>1. RemovalsAreSeen /\ w.action = r.action
    BY <1>2
  <2> HIDE DEF w, r, NInv
  <2> QED BY <2>1, <1>2, <1>4, <1>5, <1>6, <1>8 DEF RemovalsAreSeen, Hidden
<1>14. PublishedIsStored'
  BY <1>7 DEF PublishedIsStored, Published
<1> QED BY <1>9, <1>10, <1>11, <1>12, <1>13, <1>14

\* The part of a step that moves one job from stage to stage and leaves the rows alone.
LEMMA Moving ==
    ASSUME NInv, NEW j \in DOMAIN job, UNCHANGED <<note, job, saving, spent>>, NoteShape',
           work[j].stage # "idle",
           work'[j].stage # "idle", work'[j].action # "none",
           \A i \in Jobs : i # j => work'[i] = work[i] \/ work'[i] = Idle,
           job[j].status # "queued",
           work'[j].action = work[j].action \/ Hidden(note),
           WriterKnows', PublishedIsStored'
    PROVE  NInv'
<1> USE DEF NInv
<1>1. DOMAIN job \subseteq Jobs
  BY DomainIsOfJobs
<1>2. ChangeIsSound'
  BY DEF ChangeIsSound, Sound, Hidden
<1>3. HandsAreSound'
  BY <1>1 DEF HandsAreSound, Idle
<1>4. RemovalsAreSeen'
  BY <1>1 DEF RemovalsAreSeen, Hidden, Idle
<1> QED BY <1>2, <1>3, <1>4

Works == [action : {"none", "index", "remove"},
          stage : {"idle", "claimed", "prepared", "submitted", "marked", "upserted", "applied"}]
States == [revision : {0} \cup Revisions,
           status : {"pending", "indexing", "indexed", "removed", "failed"}]

\* Jobs are dropped, and nothing else is changed but the writer's queue with them.
LEMMA Dropping ==
    ASSUME NInv, UNCHANGED <<note, state, points, job, saving>>, NoteShape',
           spent'.races = spent.races,
           \A i \in Jobs : work'[i] = work[i] \/ work'[i] = Idle,
           writes' = writes \/ \A i \in Jobs : work'[i] = Idle
    PROVE  NInv'
<1> USE DEF NInv
<1>1. DOMAIN job \subseteq Jobs
  BY DomainIsOfJobs
<1>2. ChangeIsSound' /\ PublishedIsStored'
  BY DEF ChangeIsSound, Sound, Hidden, PublishedIsStored, Published
<1>3. HandsAreSound'
  BY <1>1 DEF HandsAreSound, Idle
<1>4. WriterKnows'
  BY DEF WriterKnows, Idle
<1>5. RemovalsAreSeen'
  BY <1>1 DEF RemovalsAreSeen, Hidden, Idle
<1> QED BY <1>2, <1>3, <1>4, <1>5

\* The indexer dies, and with it what it knew of its jobs.
LEMMA CrashStep == ASSUME NInv, Crash PROVE NInv'
<1>1. \A i \in Jobs : work'[i] = Idle
  BY DEF Crash
<1>2. spent'.races = spent.races /\ spent' \in [deletes : Nat, restores : Nat, faults : Nat,
                                               crashes : Nat, races : {0, 1}]
  <2>1. spent \in [deletes : Nat, restores : Nat, faults : Nat, crashes : Nat, races : {0, 1}]
    BY DEF NInv, NoteShape
  <2> QED BY <2>1 DEF Crash
<1>3. work' \in [Jobs -> Works] /\ writes' \in Seq(Jobs)
  BY DEF Crash, Idle, Works
<1>4. UNCHANGED <<note, state, points, job, saving>>
  BY DEF Crash
<1>5. NoteShape'
  BY <1>2, <1>3, <1>4 DEF NInv, NoteShape, Works
<1> QED BY <1>1, <1>2, <1>4, <1>5, Dropping

\* A job whose lease ran out waits again or has failed; nobody works on it.
LEMMA RecoverStep == ASSUME NInv, NEW j \in DOMAIN job, Recover(j) PROVE NInv'
<1>1. PICK s \in {"queued", "failed"} : job' = [job EXCEPT ![j].status = s]
  BY DEF Recover
<1> DEFINE r == [job[j] EXCEPT !.status = s]
<1>2. r \in JobRow /\ r.revision = job[j].revision /\ r.status # "held" /\ r.action = job[j].action
  <2>1. job[j] \in JobRow
    BY RowsAreTyped DEF NInv
  <2> QED BY <2>1 DEF JobRow
<1>3. job' = [job EXCEPT ![j] = r]
  BY <1>1
<1> HIDE DEF r
<1>4. /\ job' \in Seq(JobRow) /\ Len(job') = Len(job) /\ DOMAIN job' = DOMAIN job
      /\ DOMAIN job \subseteq Jobs
      /\ job'[j] = r
      /\ \A i \in DOMAIN job : i # j => job'[i] = job[i]
  BY <1>2, <1>3, OneJob, DomainIsOfJobs DEF NInv
<1>5. state'.status # "indexed" /\ state' \in States
  BY DEF Recover, NInv, NoteShape, States
<1>6. work[j].stage = "idle" /\ UNCHANGED <<note, points, saving, work, writes, spent>>
  BY DEF Recover, Idle
<1>7. NoteShape'
  BY <1>4, <1>5, <1>6 DEF NInv, NoteShape, States
<1>8. ChangeIsSound'
  BY <1>2, <1>4, <1>6 DEF NInv, ChangeIsSound, Sound, Hidden
<1>9. HandsAreSound'
  BY <1>2, <1>4, <1>6 DEF NInv, HandsAreSound
<1>10. WriterKnows'
  BY <1>4, <1>5, <1>6 DEF NInv, WriterKnows, HandsAreSound
<1>11. RemovalsAreSeen'
  BY <1>2, <1>4, <1>6 DEF NInv, RemovalsAreSeen, Hidden
<1>12. PublishedIsStored'
  BY <1>5 DEF PublishedIsStored, Published
<1> QED BY <1>7, <1>8, <1>9, <1>10, <1>11, <1>12 DEF NInv

Actions == {"none", "index", "remove"}
Stages == {"idle", "claimed", "prepared", "submitted", "marked", "upserted", "applied"}

\* The shape after a step that moves one job.
LEMMA MovedShape ==
    ASSUME NInv, NEW j \in DOMAIN job, UNCHANGED <<note, job, spent>>,
           NEW s \in Stages, NEW a \in Actions,
           \/ work' = [work EXCEPT ![j].stage = s, ![j].action = a]
           \/ work' = [work EXCEPT ![j].stage = s] /\ a = work[j].action,
           state' \in States, points' \subseteq Revisions, writes' \in Seq(Jobs)
    PROVE  /\ NoteShape' /\ j \in Jobs /\ work'[j].stage = s /\ work'[j].action = a
           /\ \A i \in Jobs : i # j => work'[i] = work[i]
<1>1. j \in Jobs /\ work \in [Jobs -> Works]
  BY DomainIsOfJobs DEF NInv, NoteShape, Works
<1>2. work' \in [Jobs -> Works] /\ \A i \in Jobs : i # j => work'[i] = work[i]
  BY <1>1 DEF Works, Stages, Actions
<1>3. work'[j].stage = s /\ work'[j].action = a
  BY <1>1 DEF Works
<1> QED BY <1>1, <1>2, <1>3 DEF NInv, NoteShape, Works, States

\* The same of a step that leaves what is to be done with it.
LEMMA StagedShape ==
    ASSUME NInv, NEW j \in DOMAIN job, UNCHANGED <<note, job, spent>>,
           NEW s \in Stages, work' = [work EXCEPT ![j].stage = s],
           state' \in States, points' \subseteq Revisions, writes' \in Seq(Jobs)
    PROVE  /\ NoteShape' /\ j \in Jobs /\ work'[j].stage = s
           /\ work'[j].action = work[j].action
           /\ \A i \in Jobs : i # j => work'[i] = work[i]
<1>1. j \in Jobs /\ work \in [Jobs -> Works]
  BY DomainIsOfJobs DEF NInv, NoteShape, Works
<1>2. PICK a \in Actions : a = work[j].action
  BY <1>1 DEF Works, Actions
<1> QED BY <1>2, MovedShape

\* A job is prepared, as a removal if the note is hidden, or superseded.
LEMMA PrepareStep == ASSUME NInv, NEW j \in DOMAIN job, Prepare(j) PROVE NInv'
<1>1. CASE Supersede(j)
  <2>1. /\ work[j].stage # "idle" /\ note' = note /\ saving' = saving /\ spent' = spent
        /\ points' = points
        /\ state' = state \/ state' = [state EXCEPT !.status = "indexing"]
    BY DEF Prepare
  <2> QED BY <1>1, <2>1, SupersedeStep
<1>2. CASE ~Supersede(j)
  <2> DEFINE a == IF Hidden(note) THEN "remove" ELSE work[j].action
  <2>1. /\ job[j].status = "held" /\ work[j].stage = "claimed"
        /\ state' = [state EXCEPT !.status = "indexing"]
        /\ work' = [work EXCEPT ![j].stage = "prepared", ![j].action = a]
        /\ UNCHANGED <<note, points, job, saving, writes, spent>>
    BY <1>2 DEF Prepare, RefusedByQueue
  <2>2. state' \in States /\ state'.status = "indexing"
    BY <2>1 DEF NInv, NoteShape, States
  <2>3. j \in Jobs /\ work[j].action \in Actions \ {"none"}
    BY <2>1, DomainIsOfJobs DEF NInv, NoteShape, WriterKnows, Actions
  <2>4. a \in Actions \ {"none"} /\ (a = work[j].action \/ Hidden(note))
    BY <2>3 DEF Actions
  <2> HIDE DEF a
  <2>5. points' \subseteq Revisions /\ writes' \in Seq(Jobs)
    BY <2>1 DEF NInv, NoteShape
  <2>6. /\ NoteShape' /\ work'[j].stage = "prepared" /\ work'[j].action = a
        /\ \A i \in Jobs : i # j => work'[i] = work[i]
    BY <2>1, <2>2, <2>4, <2>5, MovedShape DEF Stages
  <2>7. WriterKnows'
    BY <2>1, <2>2, <2>4, <2>6 DEF NInv, WriterKnows
  <2>8. PublishedIsStored'
    BY <2>2 DEF PublishedIsStored, Published
  <2> QED BY <2>1, <2>4, <2>6, <2>7, <2>8, Moving
<1> QED BY <1>1, <1>2

\* A job goes to the end of the writer's queue, or the batch is abandoned.
LEMMA SubmitStep == ASSUME NInv, NEW j \in DOMAIN job, Submit(j) PROVE NInv'
<1>1. CASE RefusedByQueue(j)
  <2>1. \A i \in Jobs : work'[i] = work[i] \/ work'[i] = Idle
    BY <1>1 DEF Submit
  <2>2. work' \in [Jobs -> Works]
    <3>1. work \in [Jobs -> Works] /\ Idle \in Works
      BY DEF NInv, NoteShape, Works, Idle
    <3> QED BY <1>1, <3>1 DEF Submit
  <2>3. UNCHANGED <<note, state, points, job, saving, writes, spent>>
    BY <1>1 DEF Submit
  <2>4. NoteShape'
    BY <2>2, <2>3 DEF NInv, NoteShape, Works
  <2> QED BY <2>1, <2>3, <2>4, Dropping
<1>2. CASE ~RefusedByQueue(j)
  <2>1. /\ job[j].status = "held" /\ work[j].stage = "prepared"
        /\ state' = [state EXCEPT !.status = "indexing"]
        /\ work' = [work EXCEPT ![j].stage = "submitted"]
        /\ writes' = Append(writes, j)
        /\ UNCHANGED <<note, points, job, saving, spent>>
    BY <1>2 DEF Submit, RefusedByQueue
  <2>2. state' \in States /\ state'.status = "indexing"
    BY <2>1 DEF NInv, NoteShape, States
  <2>3. j \in Jobs /\ work[j].action \in Actions \ {"none"}
    BY <2>1, DomainIsOfJobs DEF NInv, NoteShape, WriterKnows, Actions
  <2>4. /\ writes' \in Seq(Jobs) /\ writes' # <<>> /\ points' \subseteq Revisions
        /\ writes # <<>> => Head(writes') = Head(writes)
    BY <2>1, <2>3 DEF NInv, NoteShape
  <2>5. /\ NoteShape' /\ work'[j].stage = "submitted" /\ work'[j].action = work[j].action
        /\ \A i \in Jobs : i # j => work'[i] = work[i]
    BY <2>1, <2>2, <2>3, <2>4, MovedShape DEF Stages
  <2>6. WriterKnows'
    BY <2>1, <2>2, <2>3, <2>4, <2>5 DEF NInv, WriterKnows
  <2>7. PublishedIsStored'
    BY <2>2 DEF PublishedIsStored, Published
  <2> QED BY <2>1, <2>3, <2>5, <2>6, <2>7, Moving
<1> QED BY <1>1, <1>2

\* The job the writer thread has under its hands, and what is known of the others.
LEMMA WritingFacts ==
    ASSUME NInv, NEW j \in DOMAIN job, NEW s \in {"submitted", "marked", "upserted", "applied"},
           Writing(j, s)
    PROVE  /\ j \in Jobs /\ work[j].stage = s /\ work[j].action \in Actions \ {"none"}
           /\ job[j].status # "queued" /\ job[j].revision \in Revisions
           /\ writes # <<>> /\ j = Head(writes)
           /\ \A i \in Jobs : i # j => work[i].stage \notin {"marked", "upserted", "applied"}
<1>1. j \in Jobs /\ work[j].stage = s
  BY DomainIsOfJobs DEF NInv, Writing
<1>2. work[j].action \in Actions \ {"none"}
  BY <1>1 DEF NInv, NoteShape, WriterKnows, Actions
<1>3. job[j].revision \in Revisions
  BY RowsAreTyped DEF NInv
<1>4. job[j].status # "queued"
  BY <1>1 DEF NInv, HandsAreSound
<1>5. writes # <<>> /\ j = Head(writes)
  BY DEF Writing
<1>6. \A i \in Jobs : i # j => work[i].stage \notin {"marked", "upserted", "applied"}
  BY <1>5 DEF NInv, WriterKnows
<1> QED BY <1>1, <1>2, <1>3, <1>4, <1>5, <1>6

\* The first job of the queue marks the note as being indexed.
LEMMA MarkStep == ASSUME NInv, NEW j \in DOMAIN job, Mark(j) PROVE NInv'
<1>1. Writing(j, "submitted")
  BY DEF Mark
<1>2. CASE ~Current(j)
  <2>1. /\ Supersede(j) /\ note' = note /\ saving' = saving /\ spent' = spent
        /\ points' = points /\ state' = state
    BY <1>2 DEF Mark
  <2> QED BY <1>1, <2>1, WritingFacts, SupersedeStep
<1>3. CASE Current(j)
  <2>1. /\ state' = [state EXCEPT !.status = "indexing"]
        /\ work' = [work EXCEPT ![j].stage = "marked"]
        /\ UNCHANGED <<note, points, job, saving, writes, spent>>
    BY <1>3 DEF Mark
  <2>2. state' \in States /\ state'.status = "indexing"
    BY <2>1 DEF NInv, NoteShape, States
  <2>3. /\ points' \subseteq Revisions /\ writes' \in Seq(Jobs)
        /\ j \in Jobs /\ work[j].stage = "submitted" /\ work[j].action \in Actions \ {"none"}
        /\ writes # <<>> /\ j = Head(writes)
    BY <1>1, <2>1, WritingFacts DEF NInv, NoteShape
  <2>4. /\ NoteShape' /\ work'[j].stage = "marked" /\ work'[j].action = work[j].action
        /\ \A i \in Jobs : i # j => work'[i] = work[i]
    <3>1. UNCHANGED <<note, job, spent>> /\ "marked" \in Stages /\ work[j].action \in Actions
      BY <2>1, <2>3 DEF Stages
    <3>2. work' = [work EXCEPT ![j].stage = "marked"]
      BY <2>1
    <3> QED BY <2>2, <2>3, <3>1, <3>2, StagedShape
  <2>5. WriterKnows'
    BY <2>1, <2>2, <2>3, <2>4 DEF NInv, WriterKnows
  <2>6. PublishedIsStored'
    BY <2>2 DEF PublishedIsStored, Published
  <2>7. job[j].status # "queued"
    BY <1>1, WritingFacts
  <2> QED BY <2>1, <2>3, <2>4, <2>5, <2>6, <2>7, Moving
<1> QED BY <1>2, <1>3

\* The points of its revision are written; the note is not called indexed.
LEMMA UpsertStep == ASSUME NInv, NEW j \in DOMAIN job, Upsert(j) PROVE NInv'
<1>1. Writing(j, "marked") /\ work[j].action = "index"
  BY DEF Upsert
<1>2. /\ points' = points \cup {job[j].revision}
      /\ work' = [work EXCEPT ![j].stage = "upserted"]
      /\ UNCHANGED <<note, state, job, saving, writes, spent>>
  BY DEF Upsert
<1>3. /\ j \in Jobs /\ work[j].stage = "marked" /\ job[j].status # "queued"
      /\ job[j].revision \in Revisions /\ writes # <<>> /\ j = Head(writes)
      /\ \A i \in Jobs : i # j => work[i].stage \notin {"marked", "upserted", "applied"}
  BY <1>1, WritingFacts
<1>4. /\ points' \subseteq Revisions /\ writes' \in Seq(Jobs) /\ state' \in States
      /\ state.status # "indexed"
  BY <1>2, <1>3 DEF NInv, NoteShape, States, WriterKnows
<1>5. /\ NoteShape' /\ work'[j].stage = "upserted" /\ work'[j].action = "index"
      /\ \A i \in Jobs : i # j => work'[i] = work[i]
  BY <1>1, <1>2, <1>4, MovedShape DEF Stages, Actions
<1>6. WriterKnows'
  BY <1>2, <1>3, <1>4, <1>5 DEF NInv, WriterKnows
<1>7. PublishedIsStored'
  BY <1>2, <1>4 DEF PublishedIsStored, Published
<1> QED BY <1>1, <1>2, <1>3, <1>5, <1>6, <1>7, Moving

\* The points of all other revisions go and the note is called indexed.
LEMMA FinalizeStep == ASSUME NInv, NEW j \in DOMAIN job, Finalize(j) PROVE NInv'
<1>1. Writing(j, "upserted")
  BY DEF Finalize
<1>2. CASE ~Current(j)
  <2>1. /\ Supersede(j) /\ note' = note /\ saving' = saving /\ spent' = spent
        /\ points' = points \ {job[j].revision} /\ state' = state
    BY <1>2 DEF Finalize
  <2>2. work[j].stage = "upserted"
    BY <1>1, WritingFacts
  <2> QED BY <2>1, <2>2, SupersedeStep
<1>3. CASE Current(j)
  <2>1. /\ state' = [status |-> "indexed", revision |-> job[j].revision]
        /\ work' = [work EXCEPT ![j].stage = "applied"]
        /\ points' = points \cap {job[j].revision}
        /\ UNCHANGED <<note, job, saving, writes, spent>>
    BY <1>3 DEF Finalize, Swept
  <2>2. /\ j \in Jobs /\ work[j].stage = "upserted" /\ job[j].status # "queued"
        /\ job[j].revision \in Revisions /\ writes # <<>> /\ j = Head(writes)
        /\ \A i \in Jobs : i # j => work[i].stage \notin {"marked", "upserted", "applied"}
    BY <1>1, WritingFacts
  <2>3. /\ job[j].revision = note.revision /\ job[j].revision \in points
        /\ work[j].action = "index"
    BY <1>3, <2>2 DEF Current, NInv, WriterKnows
  <2>4. points' = {note.revision}
    BY <2>1, <2>3
  <2>5. /\ points' \subseteq Revisions /\ writes' \in Seq(Jobs) /\ state' \in States
    BY <2>1, <2>2 DEF NInv, NoteShape, States
  <2>6. /\ NoteShape' /\ work'[j].stage = "applied" /\ work'[j].action = "index"
        /\ \A i \in Jobs : i # j => work'[i] = work[i]
    BY <2>1, <2>3, <2>5, MovedShape DEF Stages, Actions
  <2>7. WriterKnows'
    BY <2>1, <2>2, <2>4, <2>6 DEF NInv, WriterKnows
  <2>8. PublishedIsStored'
    BY <2>1, <2>4 DEF PublishedIsStored
  <2> QED BY <2>1, <2>2, <2>3, <2>6, <2>7, <2>8, Moving
<1> QED BY <1>2, <1>3

\* All points go and the note is called removed.
LEMMA RemovalStep == ASSUME NInv, NEW j \in DOMAIN job, FinalizeRemoval(j) PROVE NInv'
<1>1. Writing(j, "marked") /\ work[j].action = "remove"
  BY DEF FinalizeRemoval
<1>2. CASE ~Current(j)
  <2>1. /\ Supersede(j) /\ note' = note /\ saving' = saving /\ spent' = spent
        /\ points' = points /\ state' = state
    BY <1>2 DEF FinalizeRemoval
  <2>2. work[j].stage = "marked"
    BY <1>1, WritingFacts
  <2> QED BY <2>1, <2>2, SupersedeStep
<1>3. CASE Current(j)
  <2>1. /\ state' = [status |-> "removed", revision |-> note.revision]
        /\ work' = [work EXCEPT ![j].stage = "applied"]
        /\ points' = {}
        /\ UNCHANGED <<note, job, saving, writes, spent>>
    BY <1>3 DEF FinalizeRemoval
  <2>2. /\ j \in Jobs /\ work[j].stage = "marked" /\ job[j].status # "queued"
        /\ writes # <<>> /\ j = Head(writes)
        /\ \A i \in Jobs : i # j => work[i].stage \notin {"marked", "upserted", "applied"}
    BY <1>1, WritingFacts
  <2>3. /\ points' \subseteq Revisions /\ writes' \in Seq(Jobs) /\ state' \in States
        /\ state'.status = "removed"
    BY <2>1, <2>2 DEF NInv, NoteShape, NoteRow, States
  <2>4. /\ NoteShape' /\ work'[j].stage = "applied" /\ work'[j].action = "remove"
        /\ \A i \in Jobs : i # j => work'[i] = work[i]
    BY <1>1, <2>1, <2>3, MovedShape DEF Stages, Actions
  <2>5. WriterKnows'
    BY <2>1, <2>2, <2>3, <2>4 DEF NInv, WriterKnows
  <2>6. PublishedIsStored'
    BY <2>3 DEF PublishedIsStored, Published
  <2> QED BY <1>1, <2>1, <2>2, <2>4, <2>5, <2>6, Moving
<1> QED BY <1>2, <1>3

\* A job ends as what its row says now, which may not be what was done.
LEMMA CompleteStep == ASSUME NInv, NEW j \in DOMAIN job, Complete(j) PROVE NInv'
<1>1. work[j].stage = "applied" /\ Writing(j, "applied")
  BY DEF Complete, Writing
<1>2. CASE RefusedByQueue(j)
  <2>1. /\ Supersede(j) /\ note' = note /\ saving' = saving /\ spent' = spent
        /\ points' = points /\ state' = state
    BY <1>2 DEF Complete
  <2> QED BY <1>1, <2>1, SupersedeStep
<1>3. CASE ~RefusedByQueue(j)
  <2>1. /\ job' = [job EXCEPT ![j].status = "completed"]
        /\ state' = [status |-> IF job[j].action = "remove" THEN "removed" ELSE "indexed",
                     revision |-> job[j].revision]
        /\ Release(j) /\ job[j].status = "held"
        /\ UNCHANGED <<note, points, saving, spent>>
    BY <1>3 DEF Complete, RefusedByQueue
  <2>2. job[j].action \in {"index", "remove"} /\ job[j].revision \in Revisions
    BY RowsAreTyped DEF NInv
  <2>3. \/ state'.status = "removed"
        \/ /\ state' = [status |-> "indexed", revision |-> job[j].revision]
           /\ job[j].action = "index"
    BY <2>1, <2>2
  <2>4. state' \in States
    BY <2>1, <2>2 DEF States
  <2>5. NoteShape'
    BY <2>1, <2>4, ReleasedShape DEF NInv, NoteShape, States
  <2> QED BY <1>1, <2>1, <2>3, <2>5, LettingGo
<1> QED BY <1>2, <1>3

(***************************************************************************)
(* The owner's steps                                                       *)
(***************************************************************************)
\* A transaction that is opened, or given up, touches no row.
LEMMA OnlySaving ==
    ASSUME NInv, UNCHANGED <<note, state, points, job, work, writes>>, ChangeIsSound',
           spent'.races = spent.races, NoteShape'
    PROVE  NInv'
<1>1. HandsAreSound'
  BY DEF NInv, HandsAreSound
<1>2. WriterKnows'
  BY DEF NInv, WriterKnows
<1>3. RemovalsAreSeen'
  BY DEF NInv, RemovalsAreSeen, Hidden
<1>4. PublishedIsStored'
  BY DEF NInv, PublishedIsStored, Published
<1> QED BY <1>1, <1>2, <1>3, <1>4 DEF NInv

Counters == [deletes : Nat, restores : Nat, faults : Nat, crashes : Nat, races : {0, 1}]

\* Opening a transaction that saves, hides or shows the note, or leaves it.
LEMMA BeginStep ==
    ASSUME NInv, NEW s \in Sessions, NEW n \in NoteRow, NEW r \in Revisions,
           NEW action \in {"index", "remove"}, Begin(s, n, r, action),
           r <= n.revision,
           IF s = "locked"
           THEN \/ n.revision = note.revision + 1
                \/ n.revision = note.revision /\ (Hidden(n) \/ action = "index")
           ELSE r <= note.revision /\ action = "index",
           spent' \in Counters, spent'.races = spent.races
    PROVE  NInv'
<1>1. UNCHANGED <<note, state, points, job, work, writes>>
  BY DEF Begin
<1>2. PICK t : /\ t.note = n /\ t.revision = r /\ t.action = action /\ t.waiting = Waiting
               /\ t.other = {j \in Waiting : job[j].action # action}
               /\ saving' = [saving EXCEPT ![s] = t]
  BY DEF Begin
<1>3. Waiting \subseteq DOMAIN job
  BY DEF Waiting
<1>4. Sound(s, t)'
  BY <1>1, <1>2, <1>3 DEF Sound, Hidden
<1>5. ASSUME NEW u \in Sessions, saving[u] # NoChange PROVE Sound(u, saving[u])'
             \/ u = s
  <2>1. saving[u] # NoChange => Sound(u, saving[u])
    BY DEF NInv, ChangeIsSound
  <2>2. u # s => saving'[u] = saving[u]
    BY <1>2 DEF NInv, ChangeIsSound
  <2> QED BY <1>1, <1>5, <2>1, <2>2 DEF Sound, Hidden
<1>6. ChangeIsSound'
  <2>1. /\ saving' = [u \in Sessions |-> saving'[u]] /\ saving'[s] = t
        /\ \A u \in Sessions : u # s => saving'[u] = saving[u]
    BY <1>2 DEF NInv, ChangeIsSound
  <2> QED BY <1>4, <1>5, <2>1 DEF ChangeIsSound
<1>7. NoteShape'
  BY <1>1 DEF NInv, NoteShape, Counters
<1> QED BY <1>1, <1>6, <1>7, OnlySaving

\* A save, a deletion and a restoration, up to their look-up of the jobs.
LEMMA OpeningSteps ==
    ASSUME NInv, PastIsBehind, Save \/ Delete \/ Restore \/ RestoreLive
    PROVE  NInv'
<1>1. /\ note \in NoteRow /\ spent \in Counters /\ note.revision \in Revisions
      /\ Revisions \subseteq Nat
      /\ \A n \in past : n.revision \in Revisions /\ n.revision <= note.revision
  BY NoteAssumption DEF NInv, NoteShape, Counters, PastIsBehind, NoteRow, Revisions
<1>2. CASE Save
  <2>1. PICK archived \in BOOLEAN :
          Begin("locked", SavedNote(archived), note.revision + 1,
                IF archived THEN "remove" ELSE "index")
    BY <1>2 DEF Save
  <2>2. note.revision < MaxRevision /\ spent' = spent
    BY <1>2 DEF Save
  <2>3. /\ SavedNote(archived) \in NoteRow /\ SavedNote(archived).revision = note.revision + 1
        /\ note.revision + 1 \in Revisions /\ note.revision + 1 <= note.revision + 1
    <3>1. note.revision \in 1..MaxRevision /\ MaxRevision \in Nat
      BY <1>1, NoteAssumption DEF NoteRow, Revisions
    <3>2. note.revision + 1 \in 1..MaxRevision
      BY <2>2, <3>1
    <3>3. note.revision + 1 \in Revisions
      BY <3>2 DEF Revisions
    <3>4. SavedNote(archived) = [note EXCEPT !.revision = note.revision + 1, !.archived = archived]
      BY DEF SavedNote
    <3>5. SavedNote(archived) \in NoteRow /\ SavedNote(archived).revision = note.revision + 1
      BY <1>1, <3>3, <3>4 DEF NoteRow
    <3>6. note.revision + 1 \in Nat
      BY <3>1
    <3> QED BY <3>3, <3>5, <3>6
  <2>4. (IF archived THEN "remove" ELSE "index") \in {"index", "remove"} /\ "locked" \in Sessions
    BY DEF Sessions
  <2> QED BY <1>1, <2>1, <2>2, <2>3, <2>4, BeginStep
<1>3. CASE Delete
  <2> DEFINE n == [note EXCEPT !.deleted = TRUE]
  <2>1. PICK read \in past : Begin("locked", n, read.revision, "remove")
    BY <1>3 DEF Delete
  <2>2. n \in NoteRow /\ n.revision = note.revision /\ Hidden(n) /\ "locked" \in Sessions
    BY <1>1 DEF NoteRow, Hidden, Sessions
  <2>3. spent' \in Counters /\ spent'.races = spent.races
    BY <1>1, <1>3 DEF Counters, Delete
  <2> HIDE DEF n
  <2> QED BY <1>1, <2>1, <2>2, <2>3, BeginStep
<1>4. CASE Restore
  <2> DEFINE n == [note EXCEPT !.deleted = FALSE]
  <2>1. PICK read \in past : Begin("locked", n, read.revision, "index")
    BY <1>4 DEF Restore
  <2>2. n \in NoteRow /\ n.revision = note.revision /\ "locked" \in Sessions
    BY <1>1 DEF NoteRow, Sessions
  <2>3. spent' \in Counters /\ spent'.races = spent.races
    BY <1>1, <1>4 DEF Counters, Restore
  <2> HIDE DEF n
  <2> QED BY <1>1, <2>1, <2>2, <2>3, BeginStep
<1>5. CASE RestoreLive
  <2>1. PICK read \in past : Begin("loose", note, read.revision, "index")
    BY <1>5 DEF RestoreLive
  <2>2. spent' \in Counters /\ spent'.races = spent.races /\ "loose" \in Sessions
    BY <1>1, <1>5 DEF Counters, RestoreLive, Sessions
  <2> QED BY <1>1, <2>1, <2>2, BeginStep
<1> QED BY <1>2, <1>3, <1>4, <1>5

\* A transaction of the owner that is given up.
LEMMA AbortStep == ASSUME NInv, NEW s \in Sessions, Abort(s) PROVE NInv'
<1>1. UNCHANGED <<note, state, points, job, work, writes, spent>>
      /\ saving' = [saving EXCEPT ![s] = NoChange]
  BY DEF Abort
<1>2. ChangeIsSound'
  <2>1. /\ saving' = [u \in Sessions |-> saving'[u]] /\ saving'[s] = NoChange
        /\ \A u \in Sessions : u # s => saving'[u] = saving[u]
    BY <1>1 DEF NInv, ChangeIsSound
  <2> QED BY <1>1, <2>1 DEF NInv, ChangeIsSound, Sound, Hidden
<1>3. NoteShape'
  BY <1>1 DEF NInv, NoteShape
<1> QED BY <1>1, <1>2, <1>3, OnlySaving

\* Superseding rows changes nothing of them but their status.
LEMMA SupersededRows ==
    ASSUME NoteShape, NEW js
    PROVE  /\ Superseding(job, js) \in Seq(JobRow) /\ Len(Superseding(job, js)) = Len(job)
           /\ DOMAIN Superseding(job, js) = DOMAIN job
           /\ \A j \in DOMAIN job :
                Superseding(job, js)[j] =
                  IF j \in js THEN [job[j] EXCEPT !.status = "superseded"] ELSE job[j]
<1>1. \A j \in DOMAIN job : /\ job[j] \in JobRow
                            /\ [job[j] EXCEPT !.status = "superseded"] \in JobRow
  BY RowsAreTyped DEF JobRow
<1>2. DOMAIN job = 1..Len(job) /\ Len(job) \in Nat
  BY DomainIsOfJobs
<1>3. Superseding(job, js) \in [1..Len(job) -> JobRow]
  BY <1>1, <1>2 DEF Superseding
<1> QED BY <1>2, <1>3 DEF Superseding

\* A row that is superseded keeps everything but its status.
LEMMA SupersededRow ==
    ASSUME NoteShape, NEW j \in DOMAIN job
    PROVE  /\ [job[j] EXCEPT !.status = "superseded"].status = "superseded"
           /\ [job[j] EXCEPT !.status = "superseded"].revision = job[j].revision
           /\ [job[j] EXCEPT !.status = "superseded"].action = job[j].action
           /\ [job[j] EXCEPT !.status = "superseded"].attempts = job[j].attempts
BY RowsAreTyped DEF JobRow

\* The rows when the one of the changed note is given the new action: it starts afresh
\* if it was tried before, and the others found waiting have lost their turn.
LEMMA RescheduledRows ==
    ASSUME NInv, NEW s, NEW t, Sound(s, t), NEW p \in t.waiting,
           job[p].revision = t.revision, job' = Rescheduled(t, p)
    PROVE  /\ job' \in Seq(JobRow) /\ Len(job') = Len(job) /\ DOMAIN job' = DOMAIN job
           /\ p \in DOMAIN job
           /\ job'[p].revision = job[p].revision
           /\ job'[p].action = IF p \in t.other THEN t.action ELSE job[p].action
           /\ job'[p].status = job[p].status /\ job'[p].attempts \in {0, job[p].attempts}
           /\ \A j \in DOMAIN job : j # p =>
                job'[j] = IF j \in t.waiting THEN [job[j] EXCEPT !.status = "superseded"]
                          ELSE job[j]
<1> DEFINE rows == Superseding(job, t.waiting \ {p})
           n == IF p \in t.tried THEN 0 ELSE rows[p].attempts
           a == IF p \in t.other THEN t.action ELSE rows[p].action
           r == [job[p] EXCEPT !.action = a, !.attempts = n]
<1>1. NoteShape /\ t.action \in {"index", "remove"} /\ p \in DOMAIN job
  BY DEF NInv, Sound
<1>2. /\ rows \in Seq(JobRow) /\ Len(rows) = Len(job) /\ DOMAIN rows = DOMAIN job
      /\ \A j \in DOMAIN job :
           rows[j] = IF j \in t.waiting \ {p} THEN [job[j] EXCEPT !.status = "superseded"]
                     ELSE job[j]
  BY <1>1, SupersededRows
<1>3. rows[p] = job[p] /\ job[p] \in JobRow /\ job[p].attempts \in Nat
  BY <1>1, <1>2, RowsAreTyped
<1>4. /\ n \in {0, job[p].attempts} /\ n \in Nat
      /\ a = (IF p \in t.other THEN t.action ELSE job[p].action) /\ a \in {"index", "remove"}
  <2>1. job[p].action \in {"index", "remove"}
    BY <1>1, RowsAreTyped
  <2> QED BY <1>1, <1>3, <2>1
<1>5. /\ r \in JobRow /\ r.revision = job[p].revision /\ r.action = a
      /\ r.status = job[p].status /\ r.attempts = n
  <2> HIDE DEF n, a
  <2> QED BY <1>1, <1>3, <1>4 DEF JobRow
<1>6. job' = [rows EXCEPT ![p] = r]
  BY <1>1, <1>2, <1>3 DEF Rescheduled
<1> HIDE DEF rows, r, n, a
<1>7. /\ job' \in Seq(JobRow) /\ Len(job') = Len(rows) /\ DOMAIN job' = DOMAIN rows
      /\ job'[p] = r /\ \A j \in DOMAIN rows : j # p => job'[j] = rows[j]
  BY <1>1, <1>2, <1>5, <1>6
<1>8. \A j \in DOMAIN job : j # p =>
        job'[j] = IF j \in t.waiting THEN [job[j] EXCEPT !.status = "superseded"]
                  ELSE job[j]
  BY <1>2, <1>7
<1> QED BY <1>1, <1>2, <1>4, <1>5, <1>7, <1>8

\* The rows with a new one at the end, which waits, while those found waiting have lost
\* their turn.
LEMMA AppendedRows ==
    ASSUME NInv, NEW s, NEW t, Sound(s, t), Len(job) < MaxJobs, job' = Scheduled(t)
    PROVE  /\ job' \in Seq(JobRow) /\ Len(job') = Len(job) + 1 /\ Len(job') <= MaxJobs
           /\ DOMAIN job' = DOMAIN job \cup {Len(job) + 1} /\ Len(job) + 1 \notin DOMAIN job
           /\ job'[Len(job) + 1].revision = t.revision
           /\ job'[Len(job) + 1].action = t.action
           /\ job'[Len(job) + 1].status = "queued" /\ job'[Len(job) + 1].attempts = 0
           /\ \A j \in DOMAIN job :
                job'[j] = IF j \in t.waiting THEN [job[j] EXCEPT !.status = "superseded"]
                          ELSE job[j]
<1> DEFINE rows == Superseding(job, t.waiting)
           r == [revision |-> t.revision, action |-> t.action,
                 status |-> "queued", attempts |-> 0]
<1>1. /\ NoteShape
      /\ t.revision \in Revisions /\ t.action \in {"index", "remove"}
  BY DEF NInv, Sound
<1>2. /\ rows \in Seq(JobRow) /\ Len(rows) = Len(job) /\ DOMAIN rows = DOMAIN job
      /\ \A j \in DOMAIN job :
           rows[j] = IF j \in t.waiting THEN [job[j] EXCEPT !.status = "superseded"]
                     ELSE job[j]
  BY <1>1, SupersededRows
<1>3. /\ r \in JobRow /\ r.revision = t.revision /\ r.action = t.action
      /\ r.status = "queued" /\ r.attempts = 0
  BY <1>1 DEF JobRow
<1>4. job' = Append(rows, r)
  BY DEF Scheduled
<1>5. DOMAIN job = 1..Len(job) /\ Len(job) \in Nat
  BY <1>1, DomainIsOfJobs
<1> HIDE DEF rows, r
<1>6. /\ job' \in Seq(JobRow) /\ Len(job') = Len(job) + 1 /\ DOMAIN job' = 1..(Len(job) + 1)
      /\ job'[Len(job) + 1] = r
      /\ \A j \in 1..Len(job) : job'[j] = rows[j]
  BY <1>2, <1>3, <1>4, <1>5
<1>7. Len(job) + 1 <= MaxJobs
  BY <1>5, NoteAssumption
<1>8. DOMAIN job' = DOMAIN job \cup {Len(job) + 1} /\ Len(job) + 1 \notin DOMAIN job
  BY <1>5, <1>6
<1>9. \A j \in DOMAIN job :
        job'[j] = IF j \in t.waiting THEN [job[j] EXCEPT !.status = "superseded"]
                  ELSE job[j]
  BY <1>2, <1>5, <1>6
<1> QED BY <1>3, <1>6, <1>7, <1>8, <1>9

\* What the commit of transaction t makes of the rows.
ScheduledBy(t) ==
    \/ \E p \in t.waiting : job[p].revision = t.revision /\ job' = Rescheduled(t, p)
    \/ Len(job) < MaxJobs /\ job' = Scheduled(t)

\* What else it does.
LEMMA Committed ==
    ASSUME NInv, NEW s \in Sessions, CommitChange(s), NEW t, t = saving[s]
    PROVE  /\ Sound(s, t) /\ ScheduledBy(t) /\ Unique(job')
           /\ saving' = [saving EXCEPT ![s] = NoChange] /\ t # NoChange
           /\ saving' = [u \in Sessions |-> saving'[u]] /\ saving'[s] = NoChange
           /\ \A u \in Sessions : u # s => saving'[u] = saving[u]
           /\ note' = IF s = "locked" THEN t.note ELSE note
           /\ past' = past \cup {note'}
           /\ state' = IF t.loaded = "pending" THEN state ELSE [state EXCEPT !.status = "pending"]
           /\ spent' = IF Overtaken(s) THEN [spent EXCEPT !.races = 1] ELSE spent
           /\ UNCHANGED <<points, work, batch, writes>>
<1>1. t # NoChange /\ Sound(s, t) /\ saving = [u \in Sessions |-> saving[u]]
  BY DEF NInv, ChangeIsSound, CommitChange
<1>2. ScheduledBy(t)
  BY DEF CommitChange, ScheduledBy
<1>3. /\ saving' = [saving EXCEPT ![s] = NoChange]
      /\ note' = Written(s)
      /\ past' = past \cup {note'} /\ Unique(job')
      /\ state' = IF t.loaded = "pending" THEN state ELSE [state EXCEPT !.status = "pending"]
      /\ spent' = IF Overtaken(s) THEN [spent EXCEPT !.races = 1] ELSE spent
      /\ UNCHANGED <<points, work, batch, writes>>
  BY DEF CommitChange
<1>4. /\ saving' = [u \in Sessions |-> saving'[u]] /\ saving'[s] = NoChange
      /\ \A u \in Sessions : u # s => saving'[u] = saving[u]
  BY <1>1, <1>3
<1> QED BY <1>1, <1>2, <1>3, <1>4 DEF Written

\* The rows after a change: those found waiting have lost their turn or, one of them,
\* got the new action; there may be one more, of the changed note, which waits.
LEMMA ScheduledRows ==
    ASSUME NInv, NEW s, NEW t, Sound(s, t), ScheduledBy(t)
    PROVE  /\ job' \in Seq(JobRow) /\ Len(job') <= MaxJobs
           /\ DOMAIN job \subseteq DOMAIN job'
           /\ \A j \in DOMAIN job : job'[j].revision = job[j].revision
           /\ \A j \in DOMAIN job \ t.waiting : job'[j] = job[j]
           /\ \A j \in t.waiting :
                job'[j].status = "superseded" \/ job'[j].status = job[j].status
           /\ \A j \in DOMAIN job' \ DOMAIN job :
                job'[j].revision = t.revision /\ job'[j].status = "queued"
           /\ \A j \in DOMAIN job : job'[j].action \in {t.action, job[j].action}
           /\ \E p \in DOMAIN job' :
                /\ p \in t.waiting \/ p \notin DOMAIN job
                /\ job'[p].revision = t.revision
                /\ job'[p].action = IF p \in t.waiting \ t.other THEN job[p].action
                                   ELSE t.action
                /\ job'[p].status = IF p \in t.waiting THEN job[p].status ELSE "queued"
<1>1. NoteShape /\ t.waiting \subseteq DOMAIN job
  BY DEF NInv, Sound
<1>2. \A j \in DOMAIN job : /\ [job[j] EXCEPT !.status = "superseded"].status = "superseded"
                            /\ [job[j] EXCEPT !.status = "superseded"].revision = job[j].revision
                            /\ [job[j] EXCEPT !.status = "superseded"].action = job[j].action
  BY <1>1, SupersededRow
<1>3. \/ \E p \in t.waiting : job[p].revision = t.revision /\ job' = Rescheduled(t, p)
      \/ Len(job) < MaxJobs /\ job' = Scheduled(t)
  BY DEF ScheduledBy
<1>4. ASSUME NEW p \in t.waiting, job[p].revision = t.revision,
             job' = Rescheduled(t, p)
      PROVE  /\ job' \in Seq(JobRow) /\ Len(job') = Len(job) /\ DOMAIN job' = DOMAIN job
             /\ p \in DOMAIN job
             /\ job'[p].revision = job[p].revision
             /\ job'[p].action = IF p \in t.other THEN t.action ELSE job[p].action
             /\ job'[p].status = job[p].status
             /\ \A j \in DOMAIN job : j # p =>
                  job'[j] = IF j \in t.waiting THEN [job[j] EXCEPT !.status = "superseded"]
                            ELSE job[j]
  BY <1>1, <1>4, RescheduledRows
<1>5. CASE \E p \in t.waiting : job[p].revision = t.revision /\ job' = Rescheduled(t, p)
  <2>1. PICK p \in t.waiting :
               job[p].revision = t.revision /\ job' = Rescheduled(t, p)
    BY <1>5
  <2>2. Len(job') <= MaxJobs
    BY <1>1, <1>4, <2>1 DEF NoteShape
  <2>3. \A j \in DOMAIN job : /\ job'[j].revision = job[j].revision
                              /\ j \notin t.waiting => job'[j] = job[j]
                              /\ job'[j].status = "superseded" \/ job'[j].status = job[j].status
                              /\ job'[j].action \in {t.action, job[j].action}
    BY <1>2, <1>4, <2>1
  <2> QED BY <1>1, <1>4, <2>1, <2>2, <2>3
<1>6. CASE Len(job) < MaxJobs /\ job' = Scheduled(t)
  <2>1. /\ job' \in Seq(JobRow) /\ Len(job') <= MaxJobs
        /\ DOMAIN job' = DOMAIN job \cup {Len(job) + 1} /\ Len(job) + 1 \notin DOMAIN job
        /\ job'[Len(job) + 1].revision = t.revision
        /\ job'[Len(job) + 1].action = t.action
        /\ job'[Len(job) + 1].status = "queued"
        /\ \A j \in DOMAIN job :
             job'[j] = IF j \in t.waiting THEN [job[j] EXCEPT !.status = "superseded"]
                       ELSE job[j]
    BY <1>1, <1>6, AppendedRows
  <2>2. \A j \in DOMAIN job : /\ job'[j].revision = job[j].revision
                              /\ j \notin t.waiting => job'[j] = job[j]
                              /\ job'[j].status = "superseded" \/ job'[j].status = job[j].status
                              /\ job'[j].action \in {t.action, job[j].action}
    BY <1>2, <2>1
  <2> QED BY <1>1, <2>1, <2>2
<1> QED BY <1>3, <1>5, <1>6

\* The row that is committed is one, and not older than the last.
LEMMA CommittedRow ==
    ASSUME NInv, NEW s \in Sessions, NEW t, Sound(s, t),
           note' = IF s = "locked" THEN t.note ELSE note
    PROVE  /\ note' \in NoteRow /\ note.revision \in Nat /\ note'.revision \in Nat
           /\ t.revision \in Nat /\ t.revision <= note'.revision
           /\ note.revision <= note'.revision
           /\ note'.revision = note.revision =>
                Hidden(note)' \/ note' = note \/ (s = "locked" /\ t.action = "index")
<1>1. Revisions \subseteq Nat
  BY NoteAssumption DEF Revisions
<1>2. note \in NoteRow /\ note' \in NoteRow
  BY DEF NInv, NoteShape, Sound
<1>3. note.revision \in Nat /\ note'.revision \in Nat /\ t.revision \in Nat
  BY <1>1, <1>2 DEF NoteRow, Sound
<1>4. CASE s = "locked"
  BY <1>2, <1>3, <1>4 DEF Sound, Hidden
<1>5. CASE s # "locked"
  BY <1>2, <1>3, <1>5 DEF Sound
<1> QED BY <1>4, <1>5

\* A change takes back the word that the note is indexed, unless it was pending.
LEMMA CommitStep ==
    ASSUME NInv, NEW s \in Sessions, CommitChange(s), NEW t, t = saving[s]
    PROVE  NInv'
<1>1. /\ Sound(s, t) /\ ScheduledBy(t) /\ Unique(job') /\ t.waiting \subseteq DOMAIN job
      /\ saving' = [u \in Sessions |-> saving'[u]] /\ saving'[s] = NoChange
      /\ \A u \in Sessions : u # s => saving'[u] = saving[u]
      /\ note' = IF s = "locked" THEN t.note ELSE note
      /\ UNCHANGED <<points, work, writes>>
  BY Committed DEF Sound
<1>2. /\ job' \in Seq(JobRow) /\ Len(job') <= MaxJobs
      /\ DOMAIN job \subseteq DOMAIN job'
      /\ \A j \in DOMAIN job : job'[j].revision = job[j].revision
      /\ \A j \in DOMAIN job \ t.waiting : job'[j] = job[j]
      /\ \A j \in t.waiting :
           job'[j].status = "superseded" \/ job'[j].status = job[j].status
      /\ \A j \in DOMAIN job' \ DOMAIN job :
           job'[j].revision = t.revision /\ job'[j].status = "queued"
      /\ \A j \in DOMAIN job : job'[j].action \in {t.action, job[j].action}
  BY <1>1, ScheduledRows
<1>3. PICK p \in DOMAIN job' :
        /\ p \in t.waiting \/ p \notin DOMAIN job
        /\ job'[p].revision = t.revision
        /\ job'[p].action = IF p \in t.waiting \ t.other THEN job[p].action ELSE t.action
        /\ job'[p].status = IF p \in t.waiting THEN job[p].status ELSE "queued"
  BY <1>1, ScheduledRows
<1>4. /\ note' \in NoteRow /\ note.revision \in Nat /\ note'.revision \in Nat
      /\ t.revision \in Nat /\ t.revision <= note'.revision
      /\ note.revision <= note'.revision
      /\ note'.revision = note.revision =>
           Hidden(note)' \/ note' = note \/ (s = "locked" /\ t.action = "index")
      /\ \A j \in DOMAIN job : job[j].revision \in Nat
  <2>1. ASSUME NEW j \in DOMAIN job PROVE job[j].revision \in Nat
    <3>1. NoteShape /\ Revisions \subseteq Nat
      BY NoteAssumption DEF NInv, Revisions
    <3> QED BY <3>1, RowsAreTyped
  <2> QED BY <1>1, <2>1, CommittedRow
<1>5. state' = IF t.loaded = "pending" THEN state ELSE [state EXCEPT !.status = "pending"]
  BY Committed
<1>6. /\ state' \in States
      /\ state'.status = "indexed" => state.status = "indexed" /\ t.loaded = "pending"
  BY <1>5 DEF NInv, NoteShape, States
<1>7. /\ spent' \in Counters
      /\ spent'.races = 0 => ~Overtaken(s) /\ spent.races = 0
  <2>1. spent' = IF Overtaken(s) THEN [spent EXCEPT !.races = 1] ELSE spent
    BY Committed
  <2> QED BY <2>1 DEF NInv, NoteShape, Counters
<1>8. NoteShape'
  BY <1>1, <1>2, <1>4, <1>6, <1>7 DEF NInv, NoteShape, States, Counters
<1>9. ChangeIsSound'
  <2>1. ASSUME NEW u \in Sessions, saving'[u] # NoChange PROVE Sound(u, saving[u])'
    <3>1. u # s /\ saving'[u] = saving[u] /\ Sound(u, saving[u])
      BY <1>1, <2>1 DEF NInv, ChangeIsSound
    <3>2. CASE s = "locked"
      <4>1. u # "locked"
        BY <3>1, <3>2
      <4>2. saving[u].revision \in Nat
        BY <3>1, NoteAssumption DEF Sound, Revisions
      <4> QED BY <1>2, <1>4, <3>1, <4>1, <4>2 DEF Sound
    <3>3. CASE s # "locked"
      <4>1. note' = note /\ t.action = "index"
        BY <1>1, <3>3 DEF Sound
      <4> QED BY <1>2, <3>1, <4>1 DEF Sound, Hidden
    <3> QED BY <3>2, <3>3
  <2> QED BY <1>1, <2>1 DEF ChangeIsSound
<1>10. HandsAreSound'
  <2>1. \A j \in Jobs : work[j].stage # "idle" => j \in DOMAIN job
    BY DEF NInv, HandsAreSound
  <2>2. ASSUME NEW j \in DOMAIN job'
        PROVE  /\ job'[j].revision <= note'.revision
               /\ job'[j].status = "queued" => work'[j].stage = "idle"
    <3>1. CASE j \in DOMAIN job
      <4>1. job[j].revision <= note.revision /\ (job[j].status = "queued" => work[j].stage = "idle")
        BY <3>1 DEF NInv, HandsAreSound
      <4>2. job'[j].revision <= note'.revision
        BY <1>2, <1>4, <3>1, <4>1
      <4>3. job'[j].status = "queued" => job[j].status = "queued"
        BY <1>2, <3>1
      <4> QED BY <1>1, <4>1, <4>2, <4>3
    <3>2. CASE j \notin DOMAIN job
      <4>1. j \in Jobs /\ work[j] \in Works
        <5>1. DOMAIN job' = 1..Len(job') /\ Len(job') \in Nat /\ MaxJobs \in Nat
          BY <1>2, NoteAssumption
        <5>2. j \in Jobs
          BY <1>2, <5>1 DEF Jobs
        <5> QED BY <5>2 DEF NInv, NoteShape, Works
      <4> QED BY <1>1, <1>2, <1>4, <2>1, <3>2, <4>1
    <3> QED BY <3>1, <3>2
  <2> QED BY <1>1, <1>2, <2>1, <2>2 DEF HandsAreSound
<1>11. WriterKnows'
  <2>1. \A j \in Jobs : work[j].stage # "idle" =>
          j \in DOMAIN job /\ job[j].revision <= note.revision /\ job'[j].revision = job[j].revision
    BY <1>2 DEF NInv, HandsAreSound
  <2>2. \A j \in Jobs : work[j].stage # "idle" /\ job'[j].revision = note'.revision
          => job[j].revision = note.revision /\ note'.revision = note.revision
    BY <1>4, <2>1
  <2> QED BY <1>1, <1>6, <2>1, <2>2 DEF NInv, WriterKnows
<1>12. RemovalsAreSeen'
  <2> SUFFICES ASSUME spent'.races = 0, NEW j \in DOMAIN job',
                      work[j].stage # "idle", work[j].action = "remove",
                      job'[j].status = "held", job'[j].action = "index",
                      job'[j].revision = note'.revision, ~Hidden(note)'
               PROVE  FALSE
    BY <1>1 DEF RemovalsAreSeen
  <2>1. ~Overtaken(s) /\ spent.races = 0
    BY <1>7
  <2>2. (\A i \in t.waiting : job[i].status = "queued") /\ t.revision = note'.revision
    BY <1>1, <2>1 DEF Overtaken, Written
  <2>3. j \in DOMAIN job /\ j \notin t.waiting
    BY <1>2, <2>2
  <2>4. job'[j] = job[j] /\ job[j].revision <= note.revision
    BY <1>2, <2>3 DEF NInv, HandsAreSound
  <2>5. note'.revision = note.revision
    BY <1>4, <2>3, <2>4
  <2>6. note' # note
    BY <2>1, <2>3, <2>4 DEF NInv, RemovalsAreSeen, Hidden
  <2>7. s = "locked" /\ t.action = "index"
    BY <1>4, <2>5, <2>6
  <2>8. job'[p].status = "queued" /\ p # j
    BY <1>3, <2>2, <2>3
  <2>9. job'[p].revision = job'[j].revision /\ job'[p].action = job'[j].action
    <3>1. \A i \in t.waiting \ t.other : job[i].action = "index"
      BY <1>1, <2>7 DEF Sound
    <3> QED BY <1>3, <2>2, <2>7, <3>1
  <2> QED BY <1>1, <2>8, <2>9 DEF Unique
<1>13. PublishedIsStored'
  <2>1. spent'.races = 0 => t.loaded # "pending" \/ state.status = "pending"
    BY <1>7 DEF Overtaken
  <2> QED BY <1>6, <2>1 DEF PublishedIsStored, Published
<1> QED BY <1>8, <1>9, <1>10, <1>11, <1>12, <1>13 DEF NInv

(***************************************************************************)
(* Every step, and the theorem                                             *)
(***************************************************************************)
\* What may have been read stays behind the note.
LEMMA OwnerPast ==
    ASSUME NInv, PastIsBehind, Owner
    PROVE  PastIsBehind'
<1>1. CASE Save \/ Delete \/ Restore \/ RestoreLive \/ \E s \in Sessions : Abort(s)
  BY <1>1 DEF Save, Delete, Restore, RestoreLive, Begin, Abort, PastIsBehind
<1>2. ASSUME NEW s \in Sessions, CommitChange(s) PROVE PastIsBehind'
  <2>1. PICK t : t = saving[s]
    OBVIOUS
  <2>2. Sound(s, t) /\ note' = (IF s = "locked" THEN t.note ELSE note) /\ past' = past \cup {note'}
    BY <1>2, <2>1, Committed
  <2>3. note' \in NoteRow /\ note.revision \in Nat /\ note'.revision \in Nat
        /\ note.revision <= note'.revision
    BY <2>2, CommittedRow
  <2>4. \A n \in past : n \in NoteRow /\ n.revision \in Nat /\ n.revision <= note.revision
    BY NoteAssumption DEF PastIsBehind, NoteRow, Revisions
  <2> QED BY <2>2, <2>3, <2>4 DEF PastIsBehind
<1> QED BY <1>1, <1>2 DEF Owner

LEMMA IndexerPast ==
    ASSUME PastIsBehind, NEW j \in DOMAIN job, Indexer(j) \/ Fault(j)
    PROVE  PastIsBehind'
<1>1. note' = note /\ past' = past
  BY DEF Indexer, Claim, Prepare, Submit, Mark, Upsert, Finalize, FinalizeRemoval, Complete,
         Recover, Fault
<1> QED BY <1>1 DEF PastIsBehind

\* Every step of the owner and the indexer, and every stutter.
LEMMA NotesStep == NInv /\ PastIsBehind /\ [NoteNext]_noteVars => NInv' /\ PastIsBehind'
<1> SUFFICES ASSUME NInv, PastIsBehind, [NoteNext]_noteVars PROVE NInv' /\ PastIsBehind'
  OBVIOUS
<1>1. CASE Owner
  BY <1>1, OpeningSteps, CommitStep, AbortStep, OwnerPast DEF Owner
<1>2. ASSUME NEW j \in DOMAIN job, Indexer(j) PROVE NInv' /\ PastIsBehind'
  BY <1>2, ClaimStep, PrepareStep, SubmitStep, MarkStep, UpsertStep, FinalizeStep,
     RemovalStep, CompleteStep, RecoverStep, IndexerPast DEF Indexer
<1>3. ASSUME NEW j \in DOMAIN job, Fault(j) PROVE NInv' /\ PastIsBehind'
  BY <1>3, FaultStep, IndexerPast
<1>4. CASE Crash
  BY <1>4, CrashStep DEF Crash, PastIsBehind
<1>5. CASE UNCHANGED noteVars
  <2>1. UNCHANGED <<note, past, state, points, job, saving, work, writes, spent>>
    BY <1>5 DEF noteVars
  <2>2. NoteShape' /\ ChangeIsSound'
    BY <2>1 DEF NInv, NoteShape, ChangeIsSound, Sound, Hidden
  <2> QED BY <2>1, <2>2, OnlySaving DEF PastIsBehind
<1> QED BY <1>1, <1>2, <1>3, <1>4, <1>5 DEF NoteNext

\* Every behaviour of the owner and the indexer keeps the invariant.
THEOREM NotesInvariant == NoteSpec => [](NInv /\ PastIsBehind)
BY NotesBegin, NotesStep, PTL DEF NoteSpec

\* A note a search may look for has the points of its revision and no others, for any
\* number of revisions, jobs, attempts, deletions, faults and crashes.
THEOREM WhatIsPublishedIsStored == NoteSpec => []PublishedIsStored
<1>1. NInv => PublishedIsStored
  BY DEF NInv
<1> QED BY <1>1, NotesInvariant, PTL

(***************************************************************************)
(* Indexing: jobs in the order of their rows                               *)
(***************************************************************************)
Ascends(s) == \A i, k \in 1..Len(s) : i < k => s[i] < s[k]

\* A sequence that ascends has no job twice.
LEMMA AscendsOnce ==
    ASSUME NEW s \in Seq(Jobs), Ascends(s)
    PROVE  /\ IsInjective(s)
           /\ \A u, v \in Jobs : u < v => Ahead(s, u, v)
<1>1. Len(s) \in Nat /\ DOMAIN s = 1..Len(s) /\ \A i \in 1..Len(s) : s[i] \in Jobs
  OBVIOUS
<1>2. \A u \in Jobs : u \in Int
  BY DEF Jobs
<1>3. \A i, k \in 1..Len(s) : i < k \/ k < i \/ i = k
  BY <1>1
<1>4. \A u \in Jobs : ~(u < u)
  BY <1>2
<1>5. \A u, v \in Jobs : u < v => ~(v < u)
  BY <1>2
<1>6. IsInjective(s)
  BY <1>1, <1>3, <1>4 DEF IsInjective, Ascends
<1>7. ASSUME NEW u \in Jobs, NEW v \in Jobs, u < v PROVE Ahead(s, u, v)
  BY <1>1, <1>3, <1>4, <1>5, <1>7 DEF Ahead, Ascends
<1> QED BY <1>6, <1>7

\* Appending a job later than all in it.
LEMMA LineAppends ==
    ASSUME NEW s \in Seq(Jobs), Ascends(s), NEW j \in Jobs, \A u \in Range(s) : u < j
    PROVE  /\ Append(s, j) \in Seq(Jobs) /\ Ascends(Append(s, j))
           /\ Range(Append(s, j)) = Range(s) \cup {j}
<1>1. j \notin Range(s)
  BY DEF Jobs
<1>2. Append(s, j) \in Seq(Jobs) /\ Range(Append(s, j)) = Range(s) \cup {j}
  BY <1>1, AppendedOnce
<1> DEFINE r == Append(s, j)
<1>3. /\ Len(s) \in Nat /\ Len(r) = Len(s) + 1
      /\ r[Len(r)] = j /\ \A i \in 1..Len(s) : r[i] = s[i] /\ s[i] \in Range(s)
  BY DEF Range
<1> HIDE DEF r
<1>4. ASSUME NEW i \in 1..Len(r), NEW k \in 1..Len(r), i < k PROVE r[i] < r[k]
  <2>1. i \in 1..Len(s) /\ (k \in 1..Len(s) \/ k = Len(r))
    BY <1>3, <1>4
  <2> QED BY <1>3, <1>4, <2>1 DEF Ascends
<1>5. Ascends(r)
  BY <1>4 DEF Ascends
<1> QED BY <1>2, <1>5 DEF r

\* Taking the first job away, which is before all the others.
LEMMA LineTail ==
    ASSUME NEW s \in Seq(Jobs), Ascends(s), s # <<>>
    PROVE  /\ Tail(s) \in Seq(Jobs) /\ Ascends(Tail(s))
           /\ Head(s) \in Jobs /\ Head(s) \in Range(s)
           /\ Range(Tail(s)) = Range(s) \ {Head(s)}
           /\ \A u \in Range(s) : u # Head(s) => Head(s) < u
<1>1. IsInjective(s)
  BY AscendsOnce
<1>2. /\ Tail(s) \in Seq(Jobs) /\ Head(s) \in Jobs /\ Head(s) \in Range(s) /\ Head(s) = s[1]
      /\ Range(Tail(s)) = Range(s) \ {Head(s)}
  BY <1>1, TailOnce
<1> DEFINE r == Tail(s)
<1>3. /\ Len(s) \in Nat /\ Len(s) >= 1 /\ DOMAIN s = 1..Len(s) /\ Len(r) = Len(s) - 1
      /\ \A i \in 1..Len(r) : r[i] = s[i + 1]
  OBVIOUS
<1> HIDE DEF r
<1>4. ASSUME NEW i \in 1..Len(r), NEW k \in 1..Len(r), i < k PROVE r[i] < r[k]
  <2>1. i + 1 \in 1..Len(s) /\ k + 1 \in 1..Len(s) /\ i + 1 < k + 1
    BY <1>3, <1>4
  <2> QED BY <1>3, <2>1 DEF Ascends
<1>5. Ascends(r)
  BY <1>4 DEF Ascends
<1>6. ASSUME NEW u \in Range(s), u # Head(s) PROVE Head(s) < u
  <2>1. PICK k \in 1..Len(s) : s[k] = u
    BY <1>3 DEF Range
  <2>2. 1 \in 1..Len(s) /\ 1 < k
    BY <1>2, <1>3, <1>6, <2>1
  <2> QED BY <1>2, <2>1, <2>2 DEF Ascends
<1> QED BY <1>2, <1>5, <1>6 DEF r

\* Taking any job out.
LEMMA LineWithout ==
    ASSUME NEW s \in Seq(Jobs), Ascends(s), NEW j
    PROVE  /\ Without(s, j) \in Seq(Jobs) /\ Ascends(Without(s, j))
           /\ Range(Without(s, j)) = Range(s) \ {j}
<1>1. IsInjective(s) /\ \A u, v \in Jobs : u < v => Ahead(s, u, v)
  BY AscendsOnce
<1>2. PICK r : r = Without(s, j)
  OBVIOUS
<1>3. /\ r \in Seq(Jobs) /\ Range(r) = Range(s) \ {j} /\ IsInjective(r)
      /\ \A u, v : Ahead(s, u, v) => Ahead(r, u, v)
  BY <1>1, <1>2, WithoutProperties
<1>4. Len(r) \in Nat /\ DOMAIN r = 1..Len(r) /\ \A i \in 1..Len(r) : r[i] \in Jobs
  BY <1>3
<1>5. ASSUME NEW i \in 1..Len(r), NEW k \in 1..Len(r), i < k PROVE r[i] < r[k]
  <2>1. r[i] # r[k] /\ i # k /\ ~(k < i)
    BY <1>3, <1>4, <1>5 DEF IsInjective
  <2>2. ~(r[k] < r[i])
    <3>1. ASSUME r[k] < r[i] PROVE k < i
      <4>1. Ahead(r, r[k], r[i])
        BY <1>1, <1>3, <1>4, <3>1
      <4> QED BY <4>1 DEF Ahead
    <3> QED BY <2>1, <3>1
  <2>3. r[i] \in Int /\ r[k] \in Int
    BY <1>4 DEF Jobs
  <2> QED BY <2>1, <2>2, <2>3
<1>6. Ascends(r)
  BY <1>5 DEF Ascends
<1> QED BY <1>2, <1>3, <1>6

(***************************************************************************)
(* Attempts                                                                *)
(***************************************************************************)
\* A sequence of what all is in R.
LEMMA Retyped ==
    ASSUME NEW T, NEW R, NEW s \in Seq(T), \A i \in DOMAIN s : s[i] \in R
    PROVE  s \in Seq(R)
<1>1. Len(s) \in Nat /\ DOMAIN s = 1..Len(s) /\ s = [i \in 1..Len(s) |-> s[i]]
  OBVIOUS
<1>2. [i \in 1..Len(s) |-> s[i]] \in [1..Len(s) -> R]
  BY <1>1
<1> QED BY <1>1, <1>2

\* A job that waits has an attempt left.
AttemptsCount ==
    /\ batch \in Seq(Jobs)
    /\ \A j \in DOMAIN job : /\ job[j].attempts <= MaxAttempts
                             /\ job[j].status = "queued" => job[j].attempts < MaxAttempts

TInv == NInv /\ PastIsBehind /\ AttemptsCount

\* A step that changes the status of a job at most, and makes it wait only if it has an
\* attempt left, counts right.
LEMMA AttemptsStand ==
    ASSUME TInv, NEW j \in DOMAIN job,
           NEW s \in {"queued", "held", "completed", "failed", "superseded"},
           s = "queued" => job[j].attempts < MaxAttempts,
           job' = [job EXCEPT ![j].status = s],
           batch' \in Seq(Jobs)
    PROVE  AttemptsCount'
<1>1. job[j] \in JobRow
  BY RowsAreTyped DEF TInv, NInv
<1> DEFINE r == [job[j] EXCEPT !.status = s]
<1>2. r \in JobRow /\ r.attempts = job[j].attempts /\ r.status = s /\ job' = [job EXCEPT ![j] = r]
  BY <1>1 DEF JobRow
<1>3. /\ DOMAIN job' = DOMAIN job /\ job'[j] = r
      /\ \A i \in DOMAIN job : i # j => job'[i] = job[i]
  BY <1>2, OneJob DEF TInv, NInv
<1> HIDE DEF r
<1> QED BY <1>2, <1>3 DEF TInv, AttemptsCount

\* The same for a step that leaves the rows as they are.
LEMMA AttemptsUntouched ==
    ASSUME AttemptsCount, job' = job, batch' \in Seq(Jobs)
    PROVE  AttemptsCount'
BY DEF AttemptsCount

\* The batch without a job, without its first, with another, or abandoned.
LEMMA Batches ==
    ASSUME batch \in Seq(Jobs)
    PROVE  /\ \A j \in Jobs : Without(batch, j) \in Seq(Jobs) /\ Append(batch, j) \in Seq(Jobs)
           /\ batch # <<>> => Tail(batch) \in Seq(Jobs)
           /\ <<>> \in Seq(Jobs)
<1>1. \A j \in Jobs : Without(batch, j) \in Seq(Jobs)
  BY WithoutProperties
<1> QED BY <1>1

\* A step of the indexer that lets go of a job.
LEMMA LettingGoCounts ==
    ASSUME TInv, NEW j \in DOMAIN job, Release(j),
           NEW s \in {"queued", "held", "completed", "failed", "superseded"},
           s = "queued" => job[j].attempts < MaxAttempts,
           job' = [job EXCEPT ![j].status = s]
    PROVE  AttemptsCount'
<1>1. j \in Jobs /\ batch \in Seq(Jobs) /\ batch' = Without(batch, j)
  BY DomainIsOfJobs DEF TInv, NInv, AttemptsCount, Release
<1>2. batch' \in Seq(Jobs)
  BY <1>1, Batches
<1> QED BY <1>2, AttemptsStand

\* A change makes rows of no attempts wait, and lets others start afresh.
LEMMA CommitCounts ==
    ASSUME TInv, NEW s \in Sessions, CommitChange(s), NEW t, t = saving[s]
    PROVE  AttemptsCount'
<1>1. NInv /\ NoteShape /\ Sound(s, t) /\ ScheduledBy(t) /\ batch' = batch /\ batch \in Seq(Jobs)
      /\ t.waiting \subseteq DOMAIN job
  BY Committed DEF TInv, NInv, Sound, AttemptsCount
<1>2. \A j \in DOMAIN job : /\ [job[j] EXCEPT !.status = "superseded"].status = "superseded"
                            /\ [job[j] EXCEPT !.status = "superseded"].attempts = job[j].attempts
  BY <1>1, SupersededRow
<1>3. MaxAttempts \in Nat /\ 0 < MaxAttempts
  BY NoteAssumption
<1>4. CASE \E p \in t.waiting : job[p].revision = t.revision /\ job' = Rescheduled(t, p)
  <2>1. PICK p \in t.waiting :
               job[p].revision = t.revision /\ job' = Rescheduled(t, p)
    BY <1>4
  <2>2. /\ DOMAIN job' = DOMAIN job /\ p \in DOMAIN job
        /\ job'[p].status = job[p].status /\ job'[p].attempts \in {0, job[p].attempts}
        /\ \A j \in DOMAIN job : j # p =>
             job'[j] = IF j \in t.waiting THEN [job[j] EXCEPT !.status = "superseded"]
                       ELSE job[j]
    BY <1>1, <2>1, RescheduledRows
  <2>3. ASSUME NEW j \in DOMAIN job
        PROVE  job'[j].attempts \in {0, job[j].attempts}
               /\ (job'[j].status = "queued" => job[j].status = "queued")
    BY <1>2, <2>2
  <2> QED BY <1>1, <1>3, <2>2, <2>3 DEF TInv, AttemptsCount
<1>5. CASE Len(job) < MaxJobs /\ job' = Scheduled(t)
  <2>1. /\ DOMAIN job' = DOMAIN job \cup {Len(job) + 1}
        /\ job'[Len(job) + 1].attempts = 0
        /\ \A j \in DOMAIN job :
             job'[j] = IF j \in t.waiting THEN [job[j] EXCEPT !.status = "superseded"]
                       ELSE job[j]
    BY <1>1, <1>5, AppendedRows
  <2>2. ASSUME NEW j \in DOMAIN job
        PROVE  job'[j].attempts = job[j].attempts
               /\ (job'[j].status = "queued" => job[j].status = "queued")
    BY <1>2, <2>1
  <2>3. DOMAIN job' = DOMAIN job'
    OBVIOUS
  <2> QED BY <1>1, <1>3, <2>1, <2>2 DEF TInv, AttemptsCount
<1> QED BY <1>1, <1>4, <1>5 DEF ScheduledBy

\* The claim of a job uses one of its attempts.
LEMMA ClaimCounts == ASSUME TInv, NEW j \in DOMAIN job, Claim(j) PROVE AttemptsCount'
<1> DEFINE r == [job[j] EXCEPT !.status = "held", !.attempts = @ + 1]
<1>1. /\ job[j] \in JobRow /\ job[j].attempts \in Nat /\ job[j].status = "queued" /\ j \in Jobs
      /\ job[j].attempts < MaxAttempts
  BY RowsAreTyped, DomainIsOfJobs DEF TInv, NInv, Claim, Waiting, AttemptsCount
<1>2. r \in JobRow /\ r.attempts = job[j].attempts + 1 /\ r.status = "held"
  <2>1. job[j].attempts + 1 \in Nat
    BY <1>1
  <2> QED BY <1>1, <2>1 DEF JobRow
<1>3. job' = [job EXCEPT ![j] = r] /\ batch' = Append(batch, j) /\ batch \in Seq(Jobs)
  BY DEF Claim, TInv, AttemptsCount
<1> HIDE DEF r
<1>4. /\ DOMAIN job' = DOMAIN job /\ job'[j] = r
      /\ \A i \in DOMAIN job : i # j => job'[i] = job[i]
  BY <1>2, <1>3, OneJob DEF TInv, NInv
<1>5. batch' \in Seq(Jobs)
  BY <1>1, <1>3
<1>6. r.attempts <= MaxAttempts
  BY <1>1, <1>2, NoteAssumption
<1> QED BY <1>2, <1>4, <1>5, <1>6 DEF TInv, AttemptsCount

\* Every other step of the indexer.
LEMMA IndexerCounts ==
    ASSUME TInv, NEW j \in DOMAIN job, Indexer(j) \/ Fault(j)
    PROVE  AttemptsCount'
<1>1. AttemptsCount /\ batch \in Seq(Jobs) /\ j \in Jobs
  BY DomainIsOfJobs DEF TInv, NInv, AttemptsCount
<1>2. ASSUME Supersede(j) PROVE AttemptsCount'
  BY <1>2, LettingGoCounts DEF Supersede
<1>3. ASSUME NEW transient \in BOOLEAN, Fail(j, transient) PROVE AttemptsCount'
  <2>1. PICK s \in {"queued", "failed"} : /\ job' = [job EXCEPT ![j].status = s]
                                          /\ s = "queued" => job[j].attempts < MaxAttempts
    BY <1>3 DEF Fail
  <2> QED BY <1>3, <2>1, LettingGoCounts DEF Fail
<1>4. ASSUME job' = job, batch' = batch \/ (batch # <<>> /\ batch' = Tail(batch)) \/ batch' = <<>>
      PROVE  AttemptsCount'
  BY <1>1, <1>4, Batches, AttemptsUntouched
<1>5. CASE Claim(j)
  BY <1>5, ClaimCounts
<1>6. CASE Prepare(j)
  BY <1>2, <1>4, <1>6 DEF Prepare
<1>7. CASE Submit(j)
  BY <1>4, <1>7 DEF Submit
<1>8. CASE Mark(j)
  BY <1>2, <1>4, <1>8 DEF Mark
<1>9. CASE Upsert(j)
  BY <1>4, <1>9 DEF Upsert
<1>10. CASE Finalize(j)
  BY <1>2, <1>4, <1>10 DEF Finalize
<1>11. CASE FinalizeRemoval(j)
  BY <1>2, <1>4, <1>11 DEF FinalizeRemoval
<1>12. CASE Complete(j)
  <2>1. CASE Supersede(j)
    BY <1>2, <2>1
  <2>2. CASE Release(j) /\ job' = [job EXCEPT ![j].status = "completed"]
    BY <2>2, LettingGoCounts
  <2> QED BY <1>12, <2>1, <2>2 DEF Complete
<1>13. CASE Recover(j)
  <2>1. PICK s \in {"queued", "failed"} : /\ job' = [job EXCEPT ![j].status = s]
                                          /\ s = "queued" => job[j].attempts < MaxAttempts
    BY <1>13 DEF Recover
  <2>2. batch' \in Seq(Jobs)
    BY <1>1, <1>13 DEF Recover
  <2> QED BY <2>1, <2>2, AttemptsStand
<1>14. CASE Fault(j)
  BY <1>3, <1>14 DEF Fault
<1> QED BY <1>5, <1>6, <1>7, <1>8, <1>9, <1>10, <1>11, <1>12, <1>13, <1>14 DEF Indexer

\* Every step counts right.
LEMMA AttemptsStep == TInv /\ [NoteNext]_noteVars => AttemptsCount'
<1> SUFFICES ASSUME TInv, [NoteNext]_noteVars PROVE AttemptsCount'
  OBVIOUS
<1>1. AttemptsCount /\ batch \in Seq(Jobs)
  BY DEF TInv, AttemptsCount
<1>2. CASE Owner
  <2>1. CASE \E s \in Sessions : CommitChange(s)
    BY <2>1, CommitCounts
  <2>2. CASE Save \/ Delete \/ Restore \/ RestoreLive \/ \E s \in Sessions : Abort(s)
    BY <1>1, <2>2, AttemptsUntouched DEF Save, Delete, Restore, RestoreLive, Abort, Begin
  <2> QED BY <1>2, <2>1, <2>2 DEF Owner
<1>3. ASSUME NEW j \in DOMAIN job, Indexer(j) \/ Fault(j) PROVE AttemptsCount'
  BY <1>3, IndexerCounts
<1>4. CASE Crash
  BY <1>1, <1>4, Batches, AttemptsUntouched DEF Crash
<1>5. CASE UNCHANGED noteVars
  BY <1>1, <1>5, AttemptsUntouched DEF noteVars
<1> QED BY <1>2, <1>3, <1>4, <1>5 DEF NoteNext

\* The shape of the rows, the points and the indexer's hands on them (indexing_jobs,
\* note_index_states), with no job tried more often than max_attempts.
THEOREM NoteTypesHold == NoteSpec => []NoteTypeOK
<1>1. NoteInit => TInv
  <2>1. ASSUME NoteInit PROVE AttemptsCount
    BY <2>1, NoteAssumption DEF NoteInit, AttemptsCount
  <2> QED BY <2>1, NotesBegin DEF TInv
<1>2. TInv /\ [NoteNext]_noteVars => TInv'
  BY AttemptsStep, NotesStep DEF TInv
<1>3. TInv => NoteTypeOK
  <2> SUFFICES ASSUME TInv PROVE NoteTypeOK
    OBVIOUS
  <2>1. \A j \in DOMAIN job : job[j] \in JobRow /\ job[j].attempts \in 0..MaxAttempts
    BY RowsAreTyped, NoteAssumption DEF TInv, NInv, AttemptsCount
  <2> DEFINE Row == [revision : Revisions, action : {"index", "remove"}, attempts : 0..MaxAttempts,
                     status : {"queued", "held", "completed", "failed", "superseded"}]
  <2>2. \A j \in DOMAIN job : job[j] \in Row
    BY <2>1 DEF JobRow
  <2>3. job \in Seq(JobRow)
    BY DEF TInv, NInv, NoteShape
  <2>4. job \in Seq(Row)
    <3> HIDE DEF Row
    <3> QED BY <2>2, <2>3, Retyped
  <2> QED BY <2>4 DEF NoteTypeOK, TInv, NInv, NoteShape, NoteRow, AttemptsCount
<1> QED BY <1>1, <1>2, <1>3, PTL DEF NoteSpec

(***************************************************************************)
(* Order                                                                   *)
(***************************************************************************)
BatchStages == {"claimed", "prepared"}
WriteStages == {"submitted", "marked", "upserted", "applied"}
LastRow == Len(job)

\* The threads have the jobs they work on, in the order of their rows; the writer thread
\* has the earlier ones.
InLine ==
    /\ Ascends(batch) /\ Ascends(writes)
    /\ \A u \in Range(writes), v \in Range(batch) : u < v
    /\ \A j \in Jobs : /\ j \in Range(batch) <=> work[j].stage \in BatchStages
                       /\ j \in Range(writes) <=> work[j].stage \in WriteStages

\* Only the latest job may wait; it is of the note's revision, and none is lost.
RowsAreKept ==
    /\ LastRow \in DOMAIN job
    /\ \A j \in DOMAIN job : /\ job[j].status # "failed"
                             /\ job[j].status = "queued" => j = LastRow
                             /\ job[j].status = "held" <=> work[j].stage # "idle"
    /\ job[LastRow].status # "superseded" /\ job[LastRow].revision = note.revision
    /\ job[LastRow].action = "remove" => Hidden(note)

\* A change has found what waits, unless another has added a job since or what it found
\* has been claimed, and removes what is hidden.
First(s, t) ==
    /\ t.rows \in Nat /\ t.rows <= LastRow
    /\ t.rows = LastRow => Waiting \subseteq t.waiting /\ t.waiting \subseteq {LastRow}
    /\ s = "locked" /\ t.action = "remove" => Hidden(t.note)

ChangeIsFirst == \A s \in Sessions : saving[s] # NoChange => First(s, saving[s])

\* The latest job, once prepared, is done as the note is now.
LatestIsKnown ==
    /\ work[LastRow].stage = "claimed" => work[LastRow].action = job[LastRow].action
    /\ work[LastRow].stage \notin {"idle", "claimed"} =>
         work[LastRow].action = IF Hidden(note) THEN "remove" ELSE "index"

PointsAreRight == points = IF Hidden(note) THEN {} ELSE {note.revision}

\* When the latest job is done, the points are what they should be; when it is over, the
\* state is, and no other job can change it any more.
LatestIsRight ==
    /\ work[LastRow].stage = "applied" \/ job[LastRow].status = "completed" => PointsAreRight
    /\ job[LastRow].status = "completed" =>
         /\ \A j \in Jobs : work[j].stage = "idle"
         /\ ~Hidden(note) => state = [status |-> "indexed", revision |-> note.revision]

\* Without restorations a later job has a newer revision, unless it is a removal, and the
\* state row has none that a job is still to bring.
RevisionsGrow ==
    /\ state.revision <= note.revision
    /\ spent.restores = 0 =>
         /\ \A i, j \in DOMAIN job : i < j =>
              \/ job[i].revision < job[j].revision
              \/ job[i].revision = job[j].revision /\ job[j].action = "remove"
         /\ \A j \in Active :
              /\ state.revision <= job[j].revision
              /\ work[j].stage # "applied" /\ state.revision = job[j].revision =>
                   job[j].action = "remove"
         /\ \A s \in Sessions : saving[s] # NoChange =>
              s = "locked" /\ (saving[s].note.revision = note.revision => saving[s].action = "remove")

Calm == InLine /\ RowsAreKept /\ ChangeIsFirst /\ LatestIsKnown /\ LatestIsRight /\ RevisionsGrow

\* What is typed.
LEMMA Typed ==
    ASSUME TInv
    PROVE  /\ DOMAIN job \subseteq Jobs /\ DOMAIN job = 1..Len(job) /\ LastRow \in Nat
           /\ LastRow = Len(job) /\ \A j \in DOMAIN job : j <= LastRow /\ j \in Nat
           /\ \A j \in DOMAIN job : job[j].revision \in Nat /\ job[j].revision <= note.revision
           /\ batch \in Seq(Jobs) /\ writes \in Seq(Jobs)
           /\ work \in [Jobs -> Works]
           /\ \A j \in Jobs : work[j].stage \in Stages /\ work[j].action \in Actions
           /\ \A j \in Jobs : work[j].stage # "idle" => j \in DOMAIN job
           /\ state.revision \in Nat /\ note.revision \in Nat
           /\ Jobs \subseteq Nat
<1>1. NoteShape /\ HandsAreSound /\ batch \in Seq(Jobs)
  BY DEF TInv, NInv, AttemptsCount
<1>2. DOMAIN job \subseteq Jobs /\ DOMAIN job = 1..Len(job) /\ Len(job) \in Nat
  BY <1>1, DomainIsOfJobs
<1>3. \A j \in DOMAIN job : job[j].revision \in Nat /\ job[j].revision <= note.revision
  BY <1>1, RowsAreTyped DEF HandsAreSound, Revisions
<1>4. work \in [Jobs -> Works] /\ writes \in Seq(Jobs)
  BY <1>1 DEF NoteShape, Works
<1>5. \A j \in Jobs : work[j].stage \in Stages /\ work[j].action \in Actions
  BY <1>4 DEF Works, Stages, Actions
<1>6. state.revision \in Nat /\ note.revision \in Nat /\ Jobs \subseteq Nat
  BY <1>1 DEF NoteShape, NoteRow, Revisions, Jobs
<1>7. batch \in Seq(Jobs) /\ \A j \in Jobs : work[j].stage # "idle" => j \in DOMAIN job
  BY <1>1 DEF HandsAreSound
<1>8. LastRow = Len(job) /\ \A j \in DOMAIN job : j <= LastRow /\ j \in Nat
  BY <1>2 DEF LastRow
<1> QED BY <1>2, <1>3, <1>4, <1>5, <1>6, <1>7, <1>8

(***************************************************************************)
(* The threads                                                             *)
(***************************************************************************)
\* A step that moves no job from thread to thread.
LEMMA LineStays ==
    ASSUME InLine, batch' = batch, writes' = writes, NEW j \in Jobs,
           \A i \in Jobs : i # j => work'[i] = work[i],
           work'[j].stage \in BatchStages <=> work[j].stage \in BatchStages,
           work'[j].stage \in WriteStages <=> work[j].stage \in WriteStages
    PROVE  InLine'
<1>1. /\ Ascends(batch') /\ Ascends(writes')
      /\ \A u \in Range(writes'), v \in Range(batch') : u < v
  BY DEF InLine
<1>2. \A i \in Jobs : /\ i \in Range(batch') <=> work'[i].stage \in BatchStages
                      /\ i \in Range(writes') <=> work'[i].stage \in WriteStages
  BY DEF InLine
<1> QED BY <1>1, <1>2 DEF InLine

\* The latest job is claimed.
LEMMA LineGrows ==
    ASSUME TInv, InLine, NEW j \in Jobs, \A i \in Jobs : work[i].stage # "idle" => i < j,
           work[j].stage = "idle",
           batch' = Append(batch, j), writes' = writes,
           work'[j].stage = "claimed", \A i \in Jobs : i # j => work'[i] = work[i]
    PROVE  InLine'
<1>1. batch \in Seq(Jobs) /\ writes \in Seq(Jobs) /\ Range(batch) \subseteq Jobs
      /\ Range(writes) \subseteq Jobs
  BY Typed, RangeOfSequence
<1>2. \A u \in Range(batch) \cup Range(writes) : u < j /\ u # j
  BY <1>1 DEF InLine, BatchStages, WriteStages
<1>3. Ascends(batch') /\ Range(batch') = Range(batch) \cup {j}
  BY <1>1, <1>2, LineAppends DEF InLine
<1>4. \A i \in Jobs : /\ i \in Range(batch') <=> work'[i].stage \in BatchStages
                      /\ i \in Range(writes') <=> work'[i].stage \in WriteStages
  BY <1>2, <1>3 DEF InLine, BatchStages, WriteStages
<1> QED BY <1>2, <1>3, <1>4 DEF InLine

\* The first of the batch goes to the writer thread.
LEMMA LinePasses ==
    ASSUME TInv, InLine, NEW j \in Jobs, batch # <<>>, j = Head(batch),
           batch' = Tail(batch), writes' = Append(writes, j),
           work'[j].stage = "submitted", \A i \in Jobs : i # j => work'[i] = work[i]
    PROVE  InLine'
<1>1. batch \in Seq(Jobs) /\ writes \in Seq(Jobs) /\ Ascends(batch) /\ Ascends(writes)
  BY Typed DEF InLine
<1>2. /\ Ascends(batch') /\ j \in Range(batch) /\ Range(batch') = Range(batch) \ {j}
      /\ \A u \in Range(batch) : u # j => j < u
  BY <1>1, LineTail
<1>3. \A u \in Range(writes) : u < j /\ u # j
  BY <1>2, RangeOfSequence DEF InLine, BatchStages, WriteStages, Jobs
<1>4. Ascends(writes') /\ Range(writes') = Range(writes) \cup {j}
  BY <1>1, <1>3, LineAppends
<1>5. \A u \in Range(writes'), v \in Range(batch') : u < v
  BY <1>2, <1>4 DEF InLine
<1>6. \A i \in Jobs : /\ i \in Range(batch') <=> work'[i].stage \in BatchStages
                      /\ i \in Range(writes') <=> work'[i].stage \in WriteStages
  BY <1>2, <1>4 DEF InLine, BatchStages, WriteStages
<1> QED BY <1>2, <1>4, <1>5, <1>6 DEF InLine

\* A job is let go of, by the thread that has it.
LEMMA LineReleases ==
    ASSUME TInv, InLine, NEW j \in Jobs, Release(j),
           work[j].stage \in WriteStages => j = Head(writes)
    PROVE  /\ InLine'
           /\ work'[j] = Idle /\ \A i \in Jobs : i # j => work'[i] = work[i]
<1>1. batch \in Seq(Jobs) /\ writes \in Seq(Jobs) /\ Ascends(batch) /\ Ascends(writes)
  BY Typed DEF InLine
<1>2. work'[j] = Idle /\ \A i \in Jobs : i # j => work'[i] = work[i]
  BY Typed DEF Release
<1>3. batch' = Without(batch, j)
  BY DEF Release
<1>4. Ascends(batch') /\ Range(batch') = Range(batch) \ {j}
  BY <1>1, <1>3, LineWithout
<1>5. Ascends(writes') /\ Range(writes') = Range(writes) \ {j}
  <2>1. CASE work[j].stage \in WriteStages
    <3>1. j \in Range(writes)
      BY <2>1 DEF InLine
    <3>2. writes # <<>>
      BY <1>1, <3>1, RangeOfSequence
    <3>3. writes' = Tail(writes)
      BY <2>1, <3>2 DEF Release
    <3> QED BY <1>1, <2>1, <3>2, <3>3, LineTail
  <2>2. CASE work[j].stage \notin WriteStages
    <3>1. j \notin Range(writes)
      BY <2>2 DEF InLine
    <3>2. writes # <<>> => Head(writes) \in Range(writes)
      BY <1>1, LineTail
    <3>3. writes' = writes
      BY <3>1, <3>2 DEF Release
    <3> QED BY <1>1, <3>1, <3>3
  <2> QED BY <2>1, <2>2
<1>6. \A u \in Range(writes'), v \in Range(batch') : u < v
  BY <1>4, <1>5 DEF InLine
<1>7. \A i \in Jobs : /\ i \in Range(batch') <=> work'[i].stage \in BatchStages
                      /\ i \in Range(writes') <=> work'[i].stage \in WriteStages
  BY <1>2, <1>4, <1>5 DEF InLine, BatchStages, WriteStages, Idle
<1> QED BY <1>2, <1>4, <1>5, <1>6, <1>7 DEF InLine

\* The first job of the writer thread is the first of all.
LEMMA HeadIsFirst ==
    ASSUME TInv, InLine, writes # <<>>
    PROVE  /\ Head(writes) \in DOMAIN job /\ work[Head(writes)].stage \in WriteStages
           /\ \A k \in Jobs : work[k].stage # "idle" /\ k # Head(writes) => Head(writes) < k
<1>1. writes \in Seq(Jobs) /\ Ascends(writes)
  BY Typed DEF InLine
<1>2. /\ Head(writes) \in Jobs /\ Head(writes) \in Range(writes)
      /\ \A u \in Range(writes) : u # Head(writes) => Head(writes) < u
  BY <1>1, LineTail
<1>3. work[Head(writes)].stage \in WriteStages
  BY <1>2 DEF InLine
<1>4. Head(writes) \in DOMAIN job
  BY <1>2, <1>3, Typed DEF WriteStages
<1>5. ASSUME NEW k \in Jobs, work[k].stage # "idle", k # Head(writes) PROVE Head(writes) < k
  <2>1. work[k].stage \in BatchStages \cup WriteStages
    BY <1>5, Typed DEF BatchStages, WriteStages, Stages
  <2> QED BY <1>2, <1>5, <2>1 DEF InLine
<1> QED BY <1>3, <1>4, <1>5

(***************************************************************************)
(* What a step of the indexer does to one job                              *)
(***************************************************************************)
\* The rows after a step that gives job j the status s.
RowsWith(j, s) ==
    /\ Len(job') = Len(job) /\ DOMAIN job' = DOMAIN job
    /\ \A i \in DOMAIN job :
         /\ job'[i].revision = job[i].revision /\ job'[i].action = job[i].action
         /\ job'[i].status = IF i = j THEN s ELSE job[i].status

Statuses == {"queued", "held", "completed", "failed", "superseded"}

\* A status is written and nothing else.
LEMMA StatusWritten ==
    ASSUME TInv, NEW j \in DOMAIN job, NEW s \in Statuses, job' = [job EXCEPT ![j].status = s]
    PROVE  RowsWith(j, s)
<1> DEFINE r == [job[j] EXCEPT !.status = s]
<1>1. job[j] \in JobRow
  BY RowsAreTyped DEF TInv, NInv
<1>2. /\ r \in JobRow /\ r.revision = job[j].revision /\ r.action = job[j].action
      /\ r.status = s /\ job' = [job EXCEPT ![j] = r]
  BY <1>1 DEF JobRow, Statuses
<1>3. /\ Len(job') = Len(job) /\ DOMAIN job' = DOMAIN job /\ job'[j] = r
      /\ \A i \in DOMAIN job : i # j => job'[i] = job[i]
  BY <1>2, OneJob DEF TInv, NInv
<1> HIDE DEF r
<1> QED BY <1>2, <1>3 DEF RowsWith

\* No row is written.
LEMMA StatusKept ==
    ASSUME NEW j \in DOMAIN job, job' = job
    PROVE  RowsWith(j, job[j].status)
BY DEF RowsWith

\* Who works on a job holds it, and the latest is not over.
LEMMA Busy ==
    ASSUME TInv, Calm, NEW j \in DOMAIN job, work[j].stage # "idle"
    PROVE  job[j].status = "held" /\ job[LastRow].status # "completed"
BY Typed DEF Calm, RowsAreKept, LatestIsRight

\* Job j is worked on, and a step gives it the status s and perhaps another stage.
Handled(j, s) ==
    /\ work[j].stage # "idle"
    /\ note' = note /\ saving' = saving /\ spent' = spent
    /\ RowsWith(j, s)
    /\ \A i \in Jobs : i # j => work'[i] = work[i]
    /\ s \in {"held", "completed", "superseded"}
    /\ s = "held" <=> work'[j].stage # "idle"
    /\ s = "superseded" => job[j].revision # note.revision
    /\ work'[j].stage # "claimed"

\* Such a step keeps what is said of the rows, of the owner and of the latest job.
LEMMA RowsMove ==
    ASSUME TInv, Calm, NEW j \in DOMAIN job, NEW s, Handled(j, s),
           work'[j].stage # "idle" /\ j = LastRow =>
             work'[j].action = IF Hidden(note) THEN "remove" ELSE "index"
    PROVE  /\ LastRow' = LastRow /\ Active' \subseteq Active
           /\ RowsAreKept' /\ ChangeIsFirst' /\ LatestIsKnown'
<1>1. LastRow' = LastRow /\ LastRow \in DOMAIN job /\ DOMAIN job' = DOMAIN job /\ j \in Jobs
      /\ DOMAIN job \subseteq Jobs
  BY Typed DEF Handled, RowsWith, LastRow, Calm, RowsAreKept
<1>2. \A i \in DOMAIN job :
        /\ job'[i].revision = job[i].revision /\ job'[i].action = job[i].action
        /\ job'[i].status = IF i = j THEN s ELSE job[i].status
        /\ i # j => work'[i] = work[i]
  BY <1>1 DEF Handled, RowsWith
<1>3. s \in {"held", "completed", "superseded"} /\ (s = "held" <=> work'[j].stage # "idle")
      /\ (s = "superseded" => j # LastRow) /\ work'[j].stage # "claimed"
      /\ note' = note /\ saving' = saving
  BY DEF Handled, Calm, RowsAreKept
<1>4. job[j].status = "held"
  BY Busy DEF Handled
<1>5. Active' \subseteq Active
  BY <1>1, <1>2, <1>3, <1>4 DEF Active
<1>6. Waiting' = Waiting
  BY <1>1, <1>2, <1>3, <1>4 DEF Waiting
<1>7. RowsAreKept'
  <2>1. RowsAreKept
    BY DEF Calm
  <2> QED BY <1>1, <1>2, <1>3, <2>1 DEF RowsAreKept, Hidden
<1>8. ChangeIsFirst'
  <2>1. ChangeIsFirst
    BY DEF Calm
  <2> QED BY <1>1, <1>3, <1>6, <2>1 DEF ChangeIsFirst, First, Hidden
<1>9. LatestIsKnown'
  <2>1. LatestIsKnown
    BY DEF Calm
  <2> QED BY <1>1, <1>2, <1>3, <2>1 DEF LatestIsKnown, Hidden
<1> QED BY <1>1, <1>5, <1>7, <1>8, <1>9

\* The points are touched only by the writer, of a job before the latest is done.
LEMMA RightStays ==
    ASSUME TInv, Calm, NEW j \in DOMAIN job, NEW s, Handled(j, s), s # "completed",
           points' = points \/ work[j].stage \in {"marked", "upserted"},
           work'[j].stage = "applied" /\ j = LastRow => PointsAreRight'
    PROVE  LatestIsRight'
<1>1. LastRow' = LastRow /\ LastRow \in DOMAIN job /\ DOMAIN job \subseteq Jobs
  BY Typed DEF Handled, RowsWith, LastRow, Calm, RowsAreKept
<1>2. job[j].status = "held" /\ job[LastRow].status # "completed"
  BY Busy DEF Handled
<1>3. job'[LastRow].status # "completed"
  BY <1>1, <1>2 DEF Handled, RowsWith
<1>4. ASSUME work'[LastRow].stage = "applied" PROVE PointsAreRight'
  <2>1. CASE j = LastRow
    BY <1>4, <2>1
  <2>2. CASE j # LastRow
    <3>1. work[LastRow].stage = "applied"
      BY <1>1, <1>4, <2>2 DEF Handled
    <3>2. points' = points
      BY <1>1, <2>2, <3>1 DEF TInv, NInv, WriterKnows
    <3>3. PointsAreRight /\ note' = note
      BY <3>1 DEF Calm, LatestIsRight, Handled
    <3> QED BY <3>2, <3>3 DEF PointsAreRight, Hidden
  <2> QED BY <2>1, <2>2
<1> QED BY <1>1, <1>3, <1>4 DEF LatestIsRight

\* The state keeps its revision, and the job is not done yet, or is given up.
LEMMA RevisionsStay ==
    ASSUME TInv, Calm, NEW j \in DOMAIN job, NEW s, Handled(j, s),
           state'.revision = state.revision, work[j].stage = "applied" => s # "held",
           Active' \subseteq Active
    PROVE  RevisionsGrow'
<1>1. /\ DOMAIN job' = DOMAIN job /\ note' = note /\ saving' = saving /\ spent' = spent
      /\ \A i \in DOMAIN job :
           job'[i].revision = job[i].revision /\ job'[i].action = job[i].action
      /\ \A i \in DOMAIN job : i # j => work'[i] = work[i]
      /\ DOMAIN job \subseteq Jobs /\ Active \subseteq DOMAIN job
      /\ (s = "held" <=> work'[j].stage # "idle")
  BY Typed DEF Handled, RowsWith, Active
<1>2. RevisionsGrow
  BY DEF Calm
<1>3. j \in Active' => work[j].stage # "applied"
  <2>1. j \in Active' => s = "held"
    BY <1>1 DEF Handled, RowsWith, Active
  <2> QED BY <2>1
<1>4. ASSUME spent.restores = 0, NEW k \in Active'
      PROVE  /\ state'.revision <= job'[k].revision
             /\ work'[k].stage # "applied" /\ state'.revision = job'[k].revision =>
                  job'[k].action = "remove"
  <2>1. /\ k \in Active /\ k \in DOMAIN job
        /\ work'[k].stage # "applied" => work[k].stage # "applied"
    BY <1>1, <1>3
  <2> QED BY <1>1, <1>2, <1>4, <2>1 DEF RevisionsGrow
<1> QED BY <1>1, <1>2, <1>4 DEF RevisionsGrow

\* The state takes the revision of the first job of the writer, which is done.
LEMMA RevisionsReach ==
    ASSUME TInv, Calm, NEW j \in DOMAIN job, NEW s, Handled(j, s),
           writes # <<>>, j = Head(writes), state'.revision = job[j].revision,
           s = "held" => work'[j].stage = "applied",
           Active' \subseteq Active
    PROVE  RevisionsGrow'
<1>1. /\ DOMAIN job' = DOMAIN job /\ note' = note /\ saving' = saving /\ spent' = spent
      /\ \A i \in DOMAIN job :
           job'[i].revision = job[i].revision /\ job'[i].action = job[i].action
      /\ DOMAIN job \subseteq Jobs /\ Active \subseteq DOMAIN job
  BY Typed DEF Handled, RowsWith, Active
<1>2. RevisionsGrow
  BY DEF Calm
<1>3. job[j].revision \in Nat /\ job[j].revision <= note.revision
      /\ \A k \in DOMAIN job : job[k].revision \in Nat /\ k \in Nat /\ k <= LastRow
  BY Typed
<1>4. ASSUME NEW k \in Active', k # j PROVE j < k
  <2>1. k \in DOMAIN job /\ job[k].status \in {"queued", "held"}
    BY <1>1, <1>4 DEF Active
  <2>2. CASE job[k].status = "queued"
    BY <1>3, <1>4, <2>1, <2>2 DEF Calm, RowsAreKept
  <2>3. CASE job[k].status = "held"
    <3>1. work[k].stage # "idle"
      BY <2>1, <2>3 DEF Calm, RowsAreKept
    <3> QED BY <1>1, <1>4, <2>1, <3>1, HeadIsFirst DEF Calm
  <2> QED BY <2>1, <2>2, <2>3
<1>5. j \in Active' => work'[j].stage = "applied"
  BY <1>1 DEF Handled, RowsWith, Active
<1>6. ASSUME spent.restores = 0, NEW k \in Active'
      PROVE  /\ state'.revision <= job'[k].revision
             /\ work'[k].stage # "applied" /\ state'.revision = job'[k].revision =>
                  job'[k].action = "remove"
  <2>1. k \in DOMAIN job
    BY <1>1
  <2>2. CASE k = j
    BY <1>1, <1>3, <1>5, <2>2
  <2>3. CASE k # j
    <3>1. \/ job[j].revision < job[k].revision
          \/ job[j].revision = job[k].revision /\ job[k].action = "remove"
      BY <1>2, <1>4, <1>6, <2>1, <2>3 DEF RevisionsGrow
    <3> QED BY <1>1, <1>3, <2>1, <3>1
  <2> QED BY <2>2, <2>3
<1> QED BY <1>1, <1>2, <1>3, <1>6 DEF RevisionsGrow

\* A job is superseded because the note has a newer revision.
LEMMA SupersededCalmly ==
    ASSUME TInv, Calm, NEW j \in DOMAIN job, Supersede(j), work[j].stage # "idle",
           job[j].revision # note.revision,
           note' = note, saving' = saving, spent' = spent,
           work[j].stage \in WriteStages => j = Head(writes),
           points' = points \/ work[j].stage \in {"marked", "upserted"},
           state'.revision = state.revision
    PROVE  Calm'
<1>1. j \in Jobs /\ Release(j) /\ job' = [job EXCEPT ![j].status = "superseded"]
  BY Typed DEF Supersede
<1>2. InLine' /\ work'[j] = Idle /\ \A i \in Jobs : i # j => work'[i] = work[i]
  BY <1>1, LineReleases DEF Calm
<1>3. RowsWith(j, "superseded")
  BY <1>1, StatusWritten DEF Statuses
<1>4. work'[j].stage = "idle"
  BY <1>2 DEF Idle
<1>5. Handled(j, "superseded")
  BY <1>2, <1>3, <1>4 DEF Handled
<1>6. Active' \subseteq Active /\ RowsAreKept' /\ ChangeIsFirst' /\ LatestIsKnown'
  BY <1>4, <1>5, RowsMove
<1>7. LatestIsRight'
  BY <1>4, <1>5, RightStays
<1>8. RevisionsGrow'
  BY <1>5, <1>6, RevisionsStay
<1> QED BY <1>2, <1>6, <1>7, <1>8 DEF Calm

\* A job goes on to another stage before its points are put right.
LEMMA MovedCalmly ==
    ASSUME TInv, Calm, NEW j \in DOMAIN job, work[j].stage # "idle",
           note' = note, saving' = saving, spent' = spent, job' = job,
           NEW stage \in Stages \ {"idle", "claimed", "applied"},
           work'[j].stage = stage, \A i \in Jobs : i # j => work'[i] = work[i],
           j = LastRow => work'[j].action = IF Hidden(note) THEN "remove" ELSE "index",
           points' = points \/ work[j].stage \in {"marked", "upserted"},
           state'.revision = state.revision,
           work[j].stage # "applied",
           InLine'
    PROVE  Calm'
<1>1. job[j].status = "held"
  BY Busy
<1>2. RowsWith(j, "held")
  BY <1>1, StatusKept
<1>3. Handled(j, "held")
  BY <1>2 DEF Handled
<1>4. Active' \subseteq Active /\ RowsAreKept' /\ ChangeIsFirst' /\ LatestIsKnown'
  BY <1>3, RowsMove
<1>5. LatestIsRight'
  BY <1>3, RightStays
<1>6. RevisionsGrow'
  BY <1>3, <1>4, RevisionsStay
<1> QED BY <1>4, <1>5, <1>6 DEF Calm

\* What is prepared is done as the note is now.
LEMMA ActionIsKnown ==
    ASSUME Calm, work[LastRow].stage \notin {"idle", "claimed"}
    PROVE  work[LastRow].action = IF Hidden(note) THEN "remove" ELSE "index"
BY DEF Calm, LatestIsKnown

\* A transition is refused to nobody.
LEMMA NobodyRefused ==
    ASSUME TInv, Calm, NEW j \in DOMAIN job, work[j].stage # "idle"
    PROVE  ~RefusedByQueue(j)
BY Busy DEF RefusedByQueue

\* A state row that is written but for its revision.
LEMMA StateWritten ==
    ASSUME TInv, NEW s, state' = [state EXCEPT !.status = s]
    PROVE  state'.revision = state.revision
BY DEF TInv, NInv, NoteShape

\* A job is prepared as the note is now.
LEMMA PrepareCalm == ASSUME TInv, Calm, NEW j \in DOMAIN job, Prepare(j) PROVE Calm'
<1>1. /\ j \in Jobs /\ work[j].stage = "claimed" /\ work[j].stage # "idle"
      /\ note' = note /\ saving' = saving /\ spent' = spent /\ points' = points
      /\ state' = [state EXCEPT !.status = "indexing"]
  <2>1. work[j].stage = "claimed" /\ j \in Jobs
    BY Typed DEF Prepare
  <2>2. ~RefusedByQueue(j)
    BY <2>1, NobodyRefused
  <2> QED BY <2>1, <2>2 DEF Prepare
<1>2. state'.revision = state.revision /\ ~RefusedByQueue(j)
  BY <1>1, StateWritten, NobodyRefused
<1>3. CASE job[j].revision # note.revision
  <2>1. Supersede(j)
    BY <1>2, <1>3 DEF Prepare
  <2>2. work[j].stage \notin WriteStages
    BY <1>1 DEF WriteStages
  <2> QED BY <1>1, <1>2, <1>3, <2>1, <2>2, SupersededCalmly
<1>4. CASE job[j].revision = note.revision
  <2>1. /\ work' = [work EXCEPT ![j].stage = "prepared",
                                ![j].action = IF Hidden(note) THEN "remove" ELSE @]
        /\ job' = job /\ batch' = batch /\ writes' = writes
    BY <1>2, <1>4 DEF Prepare
  <2>2. work \in [Jobs -> Works]
    BY Typed
  <2>3. /\ work'[j].stage = "prepared"
        /\ work'[j].action = IF Hidden(note) THEN "remove" ELSE work[j].action
        /\ \A i \in Jobs : i # j => work'[i] = work[i]
    BY <1>1, <2>1, <2>2 DEF Works
  <2>4. InLine'
    BY <1>1, <2>1, <2>3, LineStays DEF Calm, BatchStages, WriteStages
  <2>5. j = LastRow => work'[j].action = IF Hidden(note) THEN "remove" ELSE "index"
    <3>1. job[j].action \in {"index", "remove"}
      BY RowsAreTyped DEF TInv, NInv
    <3> QED BY <1>1, <2>3, <3>1 DEF Calm, LatestIsKnown, RowsAreKept
  <2>6. "prepared" \in Stages \ {"idle", "claimed", "applied"}
    BY DEF Stages
  <2> QED BY <1>1, <1>2, <2>1, <2>3, <2>4, <2>5, <2>6, MovedCalmly
<1> QED BY <1>3, <1>4

\* The first job of the batch is handed to the writer thread.
LEMMA SubmitCalm == ASSUME TInv, Calm, NEW j \in DOMAIN job, Submit(j) PROVE Calm'
<1>1. /\ j \in Jobs /\ work[j].stage = "prepared" /\ work[j].stage # "idle"
      /\ batch # <<>> /\ j = Head(batch)
      /\ note' = note /\ saving' = saving /\ spent' = spent /\ points' = points /\ job' = job
  BY Typed DEF Submit
<1>2. ~RefusedByQueue(j)
  BY <1>1, NobodyRefused
<1>3. /\ work' = [work EXCEPT ![j].stage = "submitted"]
      /\ batch' = Tail(batch) /\ writes' = Append(writes, j)
      /\ state' = [state EXCEPT !.status = "indexing"]
  BY <1>2 DEF Submit
<1>4. work \in [Jobs -> Works]
  BY Typed
<1>5. /\ work'[j].stage = "submitted" /\ work'[j].action = work[j].action
      /\ \A i \in Jobs : i # j => work'[i] = work[i]
  BY <1>1, <1>3, <1>4 DEF Works
<1>6. InLine'
  BY <1>1, <1>3, <1>5, LinePasses DEF Calm
<1>7. state'.revision = state.revision
  BY <1>3, StateWritten
<1>8. j = LastRow => work'[j].action = IF Hidden(note) THEN "remove" ELSE "index"
  BY <1>1, <1>5, ActionIsKnown
<1>9. "submitted" \in Stages \ {"idle", "claimed", "applied"}
  BY DEF Stages
<1> QED BY <1>1, <1>5, <1>6, <1>7, <1>8, <1>9, MovedCalmly

\* What is common to the steps of the writer thread.
LEMMA WriterHas ==
    ASSUME TInv, NEW j \in DOMAIN job, NEW stage \in WriteStages, Writing(j, stage)
    PROVE  /\ j \in Jobs /\ work[j].stage = stage /\ work[j].stage # "idle"
           /\ writes # <<>> /\ j = Head(writes) /\ stage \in WriteStages
           /\ work \in [Jobs -> Works]
BY Typed DEF Writing, WriteStages

\* The first job of the writer is marked, or superseded.
LEMMA MarkCalm == ASSUME TInv, Calm, NEW j \in DOMAIN job, Mark(j) PROVE Calm'
<1>1. "submitted" \in WriteStages /\ Writing(j, "submitted")
  BY DEF Mark, WriteStages
<1>2. /\ j \in Jobs /\ work[j].stage = "submitted" /\ work[j].stage # "idle"
      /\ writes # <<>> /\ j = Head(writes) /\ work \in [Jobs -> Works]
  BY <1>1, WriterHas
<1>3. note' = note /\ saving' = saving /\ spent' = spent /\ points' = points
  BY DEF Mark
<1>4. CASE ~Current(j)
  BY <1>2, <1>3, <1>4, SupersededCalmly DEF Mark, Current
<1>5. CASE Current(j)
  <2>1. /\ state' = [state EXCEPT !.status = "indexing"]
        /\ work' = [work EXCEPT ![j].stage = "marked"]
        /\ job' = job /\ batch' = batch /\ writes' = writes
    BY <1>5 DEF Mark
  <2>2. /\ work'[j].stage = "marked" /\ work'[j].action = work[j].action
        /\ \A i \in Jobs : i # j => work'[i] = work[i]
    BY <1>2, <2>1 DEF Works
  <2>3. InLine'
    BY <1>2, <2>1, <2>2, LineStays DEF Calm, BatchStages, WriteStages
  <2>4. state'.revision = state.revision
    BY <2>1, StateWritten
  <2>5. j = LastRow => work'[j].action = IF Hidden(note) THEN "remove" ELSE "index"
    BY <1>2, <2>2, ActionIsKnown
  <2>6. "marked" \in Stages \ {"idle", "claimed", "applied"}
    BY DEF Stages
  <2> QED BY <1>2, <1>3, <2>1, <2>2, <2>3, <2>4, <2>5, <2>6, MovedCalmly
<1> QED BY <1>4, <1>5

\* Its points are written beside the others.
LEMMA UpsertCalm == ASSUME TInv, Calm, NEW j \in DOMAIN job, Upsert(j) PROVE Calm'
<1>1. "marked" \in WriteStages /\ Writing(j, "marked")
  BY DEF Upsert, WriteStages
<1>2. /\ j \in Jobs /\ work[j].stage = "marked" /\ work[j].stage # "idle"
      /\ writes # <<>> /\ j = Head(writes) /\ work \in [Jobs -> Works]
  BY <1>1, WriterHas
<1>3. /\ note' = note /\ saving' = saving /\ spent' = spent /\ job' = job /\ state' = state
      /\ work' = [work EXCEPT ![j].stage = "upserted"]
      /\ batch' = batch /\ writes' = writes
  BY DEF Upsert
<1>4. /\ work'[j].stage = "upserted" /\ work'[j].action = work[j].action
      /\ \A i \in Jobs : i # j => work'[i] = work[i]
  BY <1>2, <1>3 DEF Works
<1>5. InLine'
  BY <1>2, <1>3, <1>4, LineStays DEF Calm, BatchStages, WriteStages
<1>6. j = LastRow => work'[j].action = IF Hidden(note) THEN "remove" ELSE "index"
  BY <1>2, <1>4, ActionIsKnown
<1>7. "upserted" \in Stages \ {"idle", "claimed", "applied"}
  BY DEF Stages
<1> QED BY <1>2, <1>3, <1>4, <1>5, <1>6, <1>7, MovedCalmly

\* The writer puts the points right.
LEMMA AppliedCalmly ==
    ASSUME TInv, Calm, NEW j \in DOMAIN job, j \in Jobs,
           work[j].stage \in {"marked", "upserted"},
           writes # <<>>, j = Head(writes), work \in [Jobs -> Works],
           note' = note, saving' = saving, spent' = spent, job' = job,
           batch' = batch, writes' = writes,
           work' = [work EXCEPT ![j].stage = "applied"],
           state'.revision = job[j].revision,
           j = LastRow => PointsAreRight'
    PROVE  Calm'
<1>1. /\ work'[j].stage = "applied" /\ work'[j].action = work[j].action
      /\ \A i \in Jobs : i # j => work'[i] = work[i]
  BY DEF Works
<1>2. InLine'
  BY <1>1, LineStays DEF Calm, BatchStages, WriteStages
<1>3. job[j].status = "held"
  BY Busy
<1>4. RowsWith(j, "held")
  BY <1>3, StatusKept
<1>5. Handled(j, "held")
  BY <1>1, <1>4 DEF Handled
<1>6. j = LastRow => work'[j].action = IF Hidden(note) THEN "remove" ELSE "index"
  BY <1>1, ActionIsKnown
<1>7. Active' \subseteq Active /\ RowsAreKept' /\ ChangeIsFirst' /\ LatestIsKnown'
  BY <1>5, <1>6, RowsMove
<1>8. LatestIsRight'
  BY <1>5, RightStays
<1>9. RevisionsGrow'
  BY <1>1, <1>5, <1>7, RevisionsReach
<1> QED BY <1>2, <1>7, <1>8, <1>9 DEF Calm

\* The points of all other revisions go.
LEMMA FinalizeCalm == ASSUME TInv, Calm, NEW j \in DOMAIN job, Finalize(j) PROVE Calm'
<1>1. "upserted" \in WriteStages /\ Writing(j, "upserted")
  BY DEF Finalize, WriteStages
<1>2. /\ j \in Jobs /\ work[j].stage = "upserted" /\ work[j].stage # "idle"
      /\ writes # <<>> /\ j = Head(writes) /\ work \in [Jobs -> Works]
  BY <1>1, WriterHas
<1>3. note' = note /\ saving' = saving /\ spent' = spent
  BY DEF Finalize
<1>4. CASE ~Current(j)
  <2>1. Supersede(j) /\ state' = state /\ job[j].revision # note.revision
    BY <1>4 DEF Finalize, Current
  <2> QED BY <1>2, <1>3, <2>1, SupersededCalmly
<1>5. CASE Current(j)
  <2>1. /\ points' = Swept(j) /\ state' = [status |-> "indexed", revision |-> job[j].revision]
        /\ work' = [work EXCEPT ![j].stage = "applied"]
        /\ job' = job /\ batch' = batch /\ writes' = writes /\ job[j].revision = note.revision
    BY <1>5 DEF Finalize, Current
  <2>2. work[j].action = "index" /\ job[j].revision \in points
    BY <1>2 DEF TInv, NInv, WriterKnows
  <2>3. points' = {note.revision}
    BY <2>1, <2>2 DEF Swept
  <2>4. j = LastRow => PointsAreRight'
    BY <1>2, <1>3, <2>2, <2>3, ActionIsKnown DEF PointsAreRight, Hidden
  <2>5. state'.revision = job[j].revision
    BY <2>1
  <2> QED BY <1>2, <1>3, <2>1, <2>4, <2>5, AppliedCalmly
<1> QED BY <1>4, <1>5

\* All points go.
LEMMA RemovalCalm == ASSUME TInv, Calm, NEW j \in DOMAIN job, FinalizeRemoval(j) PROVE Calm'
<1>1. "marked" \in WriteStages /\ Writing(j, "marked") /\ work[j].action = "remove"
  BY DEF FinalizeRemoval, WriteStages
<1>2. /\ j \in Jobs /\ work[j].stage = "marked" /\ work[j].stage # "idle"
      /\ writes # <<>> /\ j = Head(writes) /\ work \in [Jobs -> Works]
  BY <1>1, WriterHas
<1>3. note' = note /\ saving' = saving /\ spent' = spent
  BY DEF FinalizeRemoval
<1>4. CASE ~Current(j)
  <2>1. Supersede(j) /\ state' = state /\ points' = points /\ job[j].revision # note.revision
    BY <1>4 DEF FinalizeRemoval, Current
  <2> QED BY <1>2, <1>3, <2>1, SupersededCalmly
<1>5. CASE Current(j)
  <2>1. /\ points' = {} /\ state' = [status |-> "removed", revision |-> note.revision]
        /\ work' = [work EXCEPT ![j].stage = "applied"]
        /\ job' = job /\ batch' = batch /\ writes' = writes /\ job[j].revision = note.revision
    BY <1>5 DEF FinalizeRemoval, Current
  <2>2. j = LastRow => PointsAreRight'
    BY <1>1, <1>2, <1>3, <2>1, ActionIsKnown DEF PointsAreRight, Hidden
  <2>3. state'.revision = job[j].revision
    BY <2>1
  <2> QED BY <1>2, <1>3, <2>1, <2>2, <2>3, AppliedCalmly
<1> QED BY <1>4, <1>5

\* A job ends as what its row says, and the latest leaves nobody behind it.
LEMMA CompleteCalm == ASSUME TInv, Calm, NEW j \in DOMAIN job, Complete(j) PROVE Calm'
<1>1. "applied" \in WriteStages /\ Writing(j, "applied")
  BY DEF Complete, WriteStages
<1>2. /\ j \in Jobs /\ work[j].stage = "applied" /\ work[j].stage # "idle"
      /\ writes # <<>> /\ j = Head(writes) /\ work \in [Jobs -> Works]
  BY <1>1, WriterHas
<1>3. ~RefusedByQueue(j)
  BY <1>2, NobodyRefused
<1>4. /\ note' = note /\ saving' = saving /\ spent' = spent /\ points' = points
      /\ job' = [job EXCEPT ![j].status = "completed"]
      /\ state' = [status |-> IF job[j].action = "remove" THEN "removed" ELSE "indexed",
                   revision |-> job[j].revision]
      /\ Release(j)
  BY <1>3 DEF Complete
<1>5. InLine' /\ work'[j] = Idle /\ \A i \in Jobs : i # j => work'[i] = work[i]
  BY <1>2, <1>4, LineReleases DEF Calm
<1>6. work'[j].stage = "idle"
  BY <1>5 DEF Idle
<1>7. RowsWith(j, "completed")
  BY <1>4, StatusWritten DEF Statuses
<1>8. Handled(j, "completed")
  BY <1>2, <1>4, <1>5, <1>6, <1>7 DEF Handled
<1>9. /\ LastRow' = LastRow /\ Active' \subseteq Active
      /\ RowsAreKept' /\ ChangeIsFirst' /\ LatestIsKnown'
  BY <1>6, <1>8, RowsMove
<1>10. LatestIsRight'
  <2>1. LastRow \in DOMAIN job /\ LastRow \in Jobs /\ job[LastRow].status # "completed"
        /\ \A i \in Jobs : work[i].stage # "idle" => i \in Nat /\ i <= LastRow
    BY <1>2, Busy, Typed DEF Calm, RowsAreKept
  <2>2. CASE j # LastRow
    <3>1. work[LastRow].stage # "applied"
      BY <1>2, <2>1, <2>2 DEF TInv, NInv, WriterKnows
    <3>2. work'[LastRow].stage # "applied" /\ job'[LastRow].status # "completed"
      BY <1>5, <1>7, <2>1, <2>2, <3>1 DEF RowsWith
    <3> QED BY <1>9, <3>2 DEF LatestIsRight
  <2>3. CASE j = LastRow
    <3>1. PointsAreRight'
      <4>1. PointsAreRight
        BY <1>2, <2>3 DEF Calm, LatestIsRight
      <4> QED BY <1>4, <4>1 DEF PointsAreRight, Hidden
    <3>2. \A i \in Jobs : work'[i].stage = "idle"
      <4>1. \A i \in Jobs : i # j => work[i].stage = "idle"
        <5>0. j \in Nat
          BY <1>2, Typed
        <5>1. \A i \in Jobs : work[i].stage # "idle" /\ i # j => j < i
          BY <1>2, HeadIsFirst DEF Calm
        <5> QED BY <2>1, <2>3, <5>0, <5>1
      <4> QED BY <1>5, <1>6, <4>1
    <3>3. ~Hidden(note) => state' = [status |-> "indexed", revision |-> note.revision]
      BY <1>4, <2>3 DEF Calm, RowsAreKept
    <3> QED BY <1>4, <3>1, <3>2, <3>3 DEF LatestIsRight, Hidden
  <2> QED BY <2>2, <2>3
<1>11. RevisionsGrow'
  <2>1. state'.revision = job[j].revision
    BY <1>4
  <2> QED BY <1>2, <1>8, <1>9, <2>1, RevisionsReach
<1> QED BY <1>5, <1>9, <1>10, <1>11 DEF Calm

\* The latest job is claimed, as what its row says.
LEMMA ClaimCalm == ASSUME TInv, Calm, NEW j \in DOMAIN job, Claim(j) PROVE Calm'
<1> DEFINE r == [job[j] EXCEPT !.status = "held", !.attempts = @ + 1]
<1>1. /\ job[j] \in JobRow /\ job[j].attempts \in Nat /\ job[j].status = "queued" /\ j \in Jobs
      /\ DOMAIN job \subseteq Jobs /\ work \in [Jobs -> Works]
  BY RowsAreTyped, Typed DEF TInv, NInv, Claim, Waiting
<1>2. j = LastRow /\ work[j].stage = "idle"
  BY <1>1 DEF Calm, RowsAreKept, TInv, NInv, HandsAreSound
<1>3. /\ r \in JobRow /\ r.status = "held" /\ r.revision = job[j].revision
      /\ r.action = job[j].action
  <2>1. job[j].attempts + 1 \in Nat
    BY <1>1
  <2> QED BY <1>1, <2>1 DEF JobRow
<1>4. /\ job' = [job EXCEPT ![j] = r] /\ batch' = Append(batch, j) /\ writes' = writes
      /\ work' = [work EXCEPT ![j] = [stage |-> "claimed", action |-> job[j].action]]
      /\ state' = [state EXCEPT !.status = "indexing"]
      /\ note' = note /\ saving' = saving /\ points' = points /\ spent' = spent
  BY DEF Claim
<1>5. RowsWith(j, "held")
  <2>1. /\ Len(job') = Len(job) /\ DOMAIN job' = DOMAIN job /\ job'[j] = r
        /\ \A i \in DOMAIN job : i # j => job'[i] = job[i]
    BY <1>3, <1>4, OneJob DEF TInv, NInv
  <2> HIDE DEF r
  <2> QED BY <1>3, <2>1 DEF RowsWith
<1>6. /\ work'[j].stage = "claimed" /\ work'[j].action = job[j].action
      /\ \A i \in Jobs : i # j => work'[i] = work[i]
  BY <1>1, <1>4
<1>7. LastRow' = LastRow /\ DOMAIN job' = DOMAIN job
      /\ \A i \in DOMAIN job :
           /\ job'[i].revision = job[i].revision /\ job'[i].action = job[i].action
           /\ job'[i].status = IF i = j THEN "held" ELSE job[i].status
  BY <1>5 DEF RowsWith, LastRow
<1> HIDE DEF r
<1>8. InLine'
  <2>1. \A i \in Jobs : work[i].stage # "idle" => i < j
    BY <1>2, Typed
  <2> QED BY <1>1, <1>2, <1>4, <1>6, <2>1, LineGrows DEF Calm
<1>9. RowsAreKept'
  BY <1>1, <1>2, <1>4, <1>6, <1>7 DEF Calm, RowsAreKept, Hidden
<1>10. ChangeIsFirst'
  <2>1. Waiting' \subseteq Waiting
    BY <1>7 DEF Waiting
  <2> QED BY <1>4, <1>7, <2>1 DEF Calm, ChangeIsFirst, First, Hidden
<1>11. LatestIsKnown'
  BY <1>2, <1>6, <1>7 DEF LatestIsKnown
<1>12. LatestIsRight'
  BY <1>2, <1>6, <1>7 DEF LatestIsRight, Calm, RowsAreKept
<1>13. RevisionsGrow'
  <2>1. state'.revision = state.revision
    BY <1>4, StateWritten
  <2>2. Active' = Active
    BY <1>1, <1>7 DEF Active
  <2>3. \A k \in Active : k \in DOMAIN job /\ work[k].stage = "applied" <=>
                          k \in DOMAIN job /\ work'[k].stage = "applied"
    BY <1>1, <1>2, <1>6
  <2>4. Active \subseteq DOMAIN job
    BY DEF Active
  <2> QED BY <1>4, <1>7, <2>1, <2>2, <2>3, <2>4 DEF RevisionsGrow, Calm
<1> QED BY <1>8, <1>9, <1>10, <1>11, <1>12, <1>13 DEF Calm

(***************************************************************************)
(* What the owner does                                                     *)
(***************************************************************************)
\* The threads know nothing of the owner.
LEMMA LineUntouched ==
    ASSUME InLine, work' = work, batch' = batch, writes' = writes
    PROVE  InLine'
BY DEF InLine

\* A change begins, and finds what waits.
LEMMA BegunCalmly ==
    ASSUME TInv, Calm, NEW s \in Sessions, NEW n, NEW r, NEW action, Begin(s, n, r, action),
           s = "locked" /\ action = "remove" => Hidden(n),
           spent'.restores = 0 =>
             spent.restores = 0 /\ s = "locked" /\ (n.revision = note.revision => action = "remove")
    PROVE  Calm'
<1>1. /\ note' = note /\ state' = state /\ points' = points /\ job' = job /\ work' = work
      /\ batch' = batch /\ writes' = writes
  BY DEF Begin
<1>2. PICK t : /\ t.note = n /\ t.action = action /\ t.waiting = Waiting /\ t.rows = Len(job)
               /\ saving' = [saving EXCEPT ![s] = t]
  BY DEF Begin
<1>3. /\ saving'[s] = t
      /\ \A u \in Sessions : u # s => saving'[u] = saving[u]
  BY <1>2 DEF TInv, NInv, ChangeIsSound
<1>4. InLine'
  BY <1>1, LineUntouched DEF Calm
<1>5. RowsAreKept' /\ LatestIsKnown' /\ LatestIsRight'
  BY <1>1 DEF Calm, RowsAreKept, LatestIsKnown, LatestIsRight, PointsAreRight, LastRow, Hidden
<1>6. ChangeIsFirst'
  <2>1. Waiting \subseteq {LastRow} /\ Waiting' = Waiting /\ LastRow' = LastRow
    BY <1>1 DEF Calm, RowsAreKept, Waiting, LastRow
  <2>2. LastRow = Len(job) /\ LastRow \in Nat
    BY Typed
  <2>3. First(s, t)'
    BY <1>1, <1>2, <2>1, <2>2 DEF First, Hidden
  <2>4. ASSUME NEW u \in Sessions, u # s, saving[u] # NoChange PROVE First(u, saving[u])'
    BY <1>1, <1>3, <2>1, <2>4 DEF Calm, ChangeIsFirst, First, Hidden
  <2> QED BY <1>3, <2>3, <2>4 DEF ChangeIsFirst, First
<1>7. RevisionsGrow'
  BY <1>1, <1>2, <1>3 DEF Calm, RevisionsGrow, Active
<1> QED BY <1>4, <1>5, <1>6, <1>7 DEF Calm

\* A save makes a new revision, a deletion hides the note, a restoration is counted.
LEMMA OwnerBeginsCalmly ==
    ASSUME TInv, Calm, Save \/ Delete \/ Restore \/ RestoreLive
    PROVE  Calm'
<1>1. note \in NoteRow /\ spent \in Counters /\ note.revision \in Nat
      /\ "locked" \in Sessions /\ "loose" \in Sessions
  BY Typed DEF TInv, NInv, NoteShape, Counters, Sessions
<1>2. CASE Save
  <2>1. PICK archived \in BOOLEAN :
               Begin("locked", SavedNote(archived), note.revision + 1,
                     IF archived THEN "remove" ELSE "index")
    BY <1>2 DEF Save
  <2>2. /\ SavedNote(archived).revision = note.revision + 1
        /\ SavedNote(archived).archived = archived
    BY <1>1 DEF SavedNote, NoteRow
  <2>3. SavedNote(archived).revision # note.revision
    BY <1>1, <2>2
  <2>4. (IF archived THEN "remove" ELSE "index") = "remove" => Hidden(SavedNote(archived))
    BY <2>2 DEF Hidden
  <2>5. spent' = spent
    BY <1>2 DEF Save
  <2> HIDE DEF SavedNote
  <2> QED BY <1>1, <2>1, <2>3, <2>4, <2>5, BegunCalmly
<1>3. CASE Delete
  <2> DEFINE n == [note EXCEPT !.deleted = TRUE]
  <2>1. PICK read \in past : Begin("locked", n, read.revision, "remove")
    BY <1>3 DEF Delete
  <2>2. Hidden(n) /\ spent'.restores = spent.restores
    BY <1>1, <1>3 DEF Hidden, Counters, Delete, NoteRow
  <2> HIDE DEF n
  <2> QED BY <1>1, <2>1, <2>2, BegunCalmly
<1>4. ASSUME Restore \/ RestoreLive PROVE spent'.restores # 0
  BY <1>1, <1>4 DEF Restore, RestoreLive, Counters
<1>5. CASE Restore
  <2> DEFINE n == [note EXCEPT !.deleted = FALSE]
  <2>1. PICK read \in past : Begin("locked", n, read.revision, "index")
    BY <1>5 DEF Restore
  <2> HIDE DEF n
  <2> QED BY <1>1, <1>4, <1>5, <2>1, BegunCalmly
<1>6. CASE RestoreLive
  <2>1. PICK read \in past : Begin("loose", note, read.revision, "index")
    BY <1>6 DEF RestoreLive
  <2> QED BY <1>1, <1>4, <1>6, <2>1, BegunCalmly
<1> QED BY <1>2, <1>3, <1>5, <1>6

\* A change that is given up.
LEMMA AbortCalm == ASSUME TInv, Calm, NEW s \in Sessions, Abort(s) PROVE Calm'
<1>1. /\ note' = note /\ state' = state /\ points' = points /\ job' = job /\ work' = work
      /\ batch' = batch /\ writes' = writes /\ spent' = spent
  BY DEF Abort
<1>2. /\ saving'[s] = NoChange
      /\ \A u \in Sessions : u # s => saving'[u] = saving[u]
  BY DEF Abort, TInv, NInv, ChangeIsSound
<1>3. InLine'
  BY <1>1, LineUntouched DEF Calm
<1>4. RowsAreKept' /\ LatestIsKnown' /\ LatestIsRight'
  BY <1>1 DEF Calm, RowsAreKept, LatestIsKnown, LatestIsRight, PointsAreRight, LastRow, Hidden
<1>5. ChangeIsFirst'
  BY <1>1, <1>2 DEF Calm, ChangeIsFirst, First, Hidden, Waiting, LastRow
<1>6. RevisionsGrow'
  BY <1>1, <1>2 DEF Calm, RevisionsGrow, Active
<1> QED BY <1>3, <1>4, <1>5, <1>6 DEF Calm

\* A change is committed that nobody has overtaken: what it found still waits.
LEMMA CommitCalm ==
    ASSUME TInv, Calm, NEW s \in Sessions, CommitChange(s), ~Overtaken(s), NEW t, t = saving[s]
    PROVE  Calm'
<1>1. /\ t # NoChange /\ Sound(s, t) /\ ScheduledBy(t) /\ saving'[s] = NoChange
      /\ \A u \in Sessions : u # s => saving'[u] = saving[u]
      /\ note' = (IF s = "locked" THEN t.note ELSE note)
      /\ points' = points /\ work' = work /\ batch' = batch /\ writes' = writes
      /\ spent' = spent
      /\ t.waiting \subseteq DOMAIN job
      /\ t.revision = note'.revision /\ t.rows = LastRow /\ First(s, t)
  <2>1. NInv
    BY DEF TInv
  <2>2. t.revision = Written(s).revision /\ t.rows = LastRow
    BY DEF Overtaken, LastRow
  <2> QED BY <2>1, <2>2, Committed DEF Calm, ChangeIsFirst, Sound, Written
<1>2. NInv /\ NoteShape /\ state'.revision = state.revision
  <2>1. NInv /\ NoteShape
    BY DEF TInv, NInv
  <2>2. state' = IF t.loaded = "pending" THEN state ELSE [state EXCEPT !.status = "pending"]
    BY <2>1, Committed
  <2> QED BY <2>1, <2>2, StateWritten
<1>3. \A j \in t.waiting : job[j].status = "queued" /\ j = LastRow
  BY <1>1 DEF Overtaken, First
<1>4. /\ LastRow \in DOMAIN job /\ DOMAIN job \subseteq Jobs
      /\ \A j \in DOMAIN job : job[j].revision \in Nat /\ job[j].revision <= note.revision
                               /\ j \in Nat /\ j <= LastRow
      /\ LastRow = Len(job) /\ LastRow \in Nat
      /\ \A j \in Jobs : work[j].stage # "idle" => j \in DOMAIN job
      /\ state.revision \in Nat /\ note.revision \in Nat
      /\ Jobs \subseteq Nat
  BY Typed DEF Calm, RowsAreKept
<1>5. InLine'
  BY <1>1, LineUntouched DEF Calm
<1>6. /\ note' \in NoteRow /\ note'.revision \in Nat /\ note.revision <= note'.revision
      /\ note'.revision # note.revision => s = "locked" /\ t.note.revision = note'.revision
  BY <1>1, <1>2, CommittedRow
<1>7. \A j \in DOMAIN job : job[j].status = "queued" => j \in t.waiting
  BY <1>1 DEF First, Waiting
<1>8. /\ \A j \in DOMAIN job : /\ job[j].status # "failed"
                               /\ job[j].status = "held" <=> work[j].stage # "idle"
      /\ job[LastRow].revision = note.revision
  BY DEF Calm, RowsAreKept
<1>9. \A j \in DOMAIN job : /\ [job[j] EXCEPT !.status = "superseded"].status = "superseded"
                            /\ [job[j] EXCEPT !.status = "superseded"].revision = job[j].revision
                            /\ [job[j] EXCEPT !.status = "superseded"].action = job[j].action
  BY <1>2, SupersededRow
<1>10. /\ state.revision <= note.revision
       /\ spent.restores = 0 =>
            /\ note'.revision = note.revision => t.action = "remove"
            /\ \A i, j \in DOMAIN job : i < j =>
                 \/ job[i].revision < job[j].revision
                 \/ job[i].revision = job[j].revision /\ job[j].action = "remove"
            /\ \A j \in DOMAIN job : job[j].status \in {"queued", "held"} =>
                 /\ state.revision <= job[j].revision
                 /\ work[j].stage # "applied" /\ state.revision = job[j].revision =>
                      job[j].action = "remove"
  BY <1>1 DEF Calm, RevisionsGrow, Active
<1>11. CASE \E p \in t.waiting : job[p].revision = t.revision /\ job' = Rescheduled(t, p)
  <2>1. PICK p \in t.waiting : job[p].revision = t.revision /\ job' = Rescheduled(t, p)
    BY <1>11
  <2>2. /\ Len(job') = Len(job) /\ DOMAIN job' = DOMAIN job
        /\ job'[p].revision = job[p].revision
        /\ job'[p].action = IF p \in t.other THEN t.action ELSE job[p].action
        /\ job'[p].status = job[p].status
        /\ \A j \in DOMAIN job : j # p =>
             job'[j] = IF j \in t.waiting THEN [job[j] EXCEPT !.status = "superseded"]
                       ELSE job[j]
    BY <1>1, <1>2, <2>1, RescheduledRows
  <2>3. p = LastRow /\ job[p].status = "queued" /\ work[p].stage = "idle" /\ LastRow' = LastRow
        /\ \A j \in DOMAIN job : j # p => job'[j] = job[j]
    BY <1>3, <1>4, <1>8, <2>1, <2>2 DEF LastRow
  <2>4. \A j \in DOMAIN job :
          job'[j].revision = job[j].revision /\ job'[j].status = job[j].status
    BY <2>2, <2>3
  <2>5. note'.revision = note.revision
    BY <1>1, <1>8, <2>1, <2>3
  <2>6. job'[p].action = "remove" => Hidden(note)'
    <3>1. CASE s = "locked" /\ t.action = "remove"
      BY <1>1, <3>1 DEF First, Hidden
    <3>2. CASE s = "locked" /\ t.action = "index"
      BY <1>1, <2>1, <2>2, <3>2 DEF Sound
    <3>3. CASE s # "locked"
      <4>1. note' = note /\ t.action = "index"
        BY <1>1, <3>3 DEF Sound
      <4>2. job[p].action = "remove" => Hidden(note)
        BY <2>3 DEF Calm, RowsAreKept
      <4> QED BY <2>2, <4>1, <4>2 DEF Hidden
    <3> QED BY <1>1, <3>1, <3>2, <3>3 DEF Sound
  <2>7. RowsAreKept'
    BY <1>1, <1>3, <1>4, <1>7, <1>8, <2>1, <2>2, <2>3, <2>4, <2>6 DEF RowsAreKept, Hidden
  <2>8. LatestIsKnown' /\ LatestIsRight'
    BY <1>1, <2>2, <2>3 DEF LatestIsKnown, LatestIsRight
  <2>9. ChangeIsFirst'
    <3>1. Waiting' \subseteq Waiting
      BY <2>2, <2>4 DEF Waiting
    <3>2. ASSUME NEW u \in Sessions, u # s, saving[u] # NoChange PROVE First(u, saving[u])'
      BY <1>1, <2>3, <3>1, <3>2 DEF Calm, ChangeIsFirst, First, Hidden
    <3> QED BY <1>1, <3>2 DEF ChangeIsFirst
  <2>10. RevisionsGrow'
    <3>1. Active' = Active /\ Active \subseteq DOMAIN job
      BY <2>2, <2>4 DEF Active
    <3>2. ASSUME spent.restores = 0, NEW j \in DOMAIN job, job[j].action = "remove"
          PROVE  job'[j].action = "remove"
      BY <1>10, <2>2, <2>3, <2>5, <3>2
    <3>3. ASSUME spent.restores = 0, NEW k \in Active'
          PROVE  /\ state'.revision <= job'[k].revision
                 /\ work'[k].stage # "applied" /\ state'.revision = job'[k].revision =>
                      job'[k].action = "remove"
      <4>1. k \in DOMAIN job /\ job[k].status \in {"queued", "held"}
        BY <3>1, <3>3 DEF Active
      <4> QED BY <1>1, <1>2, <1>10, <2>4, <3>2, <3>3, <4>1
    <3>4. ASSUME spent.restores = 0, NEW i \in DOMAIN job', NEW j \in DOMAIN job', i < j
          PROVE  \/ job'[i].revision < job'[j].revision
                 \/ job'[i].revision = job'[j].revision /\ job'[j].action = "remove"
      BY <1>10, <2>2, <2>4, <3>2, <3>4
    <3>5. ASSUME spent.restores = 0, NEW u \in Sessions, saving'[u] # NoChange
          PROVE  /\ u = "locked"
                 /\ saving'[u].note.revision = note'.revision => saving'[u].action = "remove"
      BY <1>1, <2>5, <3>5 DEF Calm, RevisionsGrow
    <3> QED BY <1>1, <1>2, <1>10, <2>5, <3>3, <3>4, <3>5 DEF RevisionsGrow
  <2> QED BY <1>5, <2>7, <2>8, <2>9, <2>10 DEF Calm
<1>12. CASE Len(job) < MaxJobs /\ job' = Scheduled(t)
  <2> DEFINE q == Len(job) + 1
  <2>1. /\ Len(job') = q /\ DOMAIN job' = DOMAIN job \cup {q} /\ q \notin DOMAIN job
        /\ Len(job') <= MaxJobs /\ job' \in Seq(JobRow)
        /\ job'[q].revision = t.revision /\ job'[q].action = t.action
        /\ job'[q].status = "queued"
        /\ \A j \in DOMAIN job :
             job'[j] = IF j \in t.waiting THEN [job[j] EXCEPT !.status = "superseded"]
                       ELSE job[j]
    BY <1>1, <1>2, <1>12, AppendedRows
  <2>2. q = LastRow + 1 /\ LastRow' = q /\ q \in Nat /\ \A j \in DOMAIN job : j < q
    BY <1>4, <2>1 DEF LastRow
  <2>3. q \in Jobs /\ work[q].stage = "idle"
    <3>1. q \in Jobs
      BY <1>4, <2>1, <2>2, NoteAssumption DEF Jobs
    <3> QED BY <1>4, <2>1, <3>1
  <2> HIDE DEF q
  <2>4. \A j \in DOMAIN job :
          /\ job'[j].revision = job[j].revision /\ job'[j].action = job[j].action
          /\ job'[j].status # "failed" /\ job'[j].status # "queued"
          /\ job'[j].status = "held" <=> work[j].stage # "idle"
          /\ job'[j].status = "held" => job[j].status = "held"
    <3> SUFFICES ASSUME NEW j \in DOMAIN job
                 PROVE  /\ job'[j].revision = job[j].revision /\ job'[j].action = job[j].action
                        /\ job'[j].status # "failed" /\ job'[j].status # "queued"
                        /\ job'[j].status = "held" <=> work[j].stage # "idle"
                        /\ job'[j].status = "held" => job[j].status = "held"
      OBVIOUS
    <3>1. CASE j \in t.waiting
      BY <1>3, <1>7, <1>8, <1>9, <2>1, <3>1
    <3>2. CASE j \notin t.waiting
      BY <1>3, <1>7, <1>8, <1>9, <2>1, <3>2
    <3> QED BY <3>1, <3>2
  <2>5. RowsAreKept'
    <3>1. t.action = "remove" => Hidden(note)'
      BY <1>1 DEF First, Sound, Hidden
    <3> QED BY <1>1, <1>7, <2>1, <2>2, <2>3, <2>4, <3>1 DEF RowsAreKept, Hidden
  <2>6. LatestIsKnown' /\ LatestIsRight'
    BY <1>1, <2>1, <2>2, <2>3 DEF LatestIsKnown, LatestIsRight
  <2>7. ChangeIsFirst'
    <3>1. ASSUME NEW u \in Sessions, u # s, saving[u] # NoChange PROVE First(u, saving[u])'
      <4>1. First(u, saving[u])
        BY <3>1 DEF Calm, ChangeIsFirst
      <4>2. saving'[u] = saving[u] /\ saving[u].rows \in Nat /\ saving[u].rows <= LastRow
        BY <1>1, <3>1, <4>1 DEF First
      <4>3. saving[u].rows # LastRow' /\ saving[u].rows <= LastRow'
        BY <1>4, <2>2, <4>2
      <4> QED BY <4>1, <4>2, <4>3 DEF First, Hidden
    <3> QED BY <1>1, <3>1 DEF ChangeIsFirst
  <2>8. RevisionsGrow'
    <3>1. state'.revision <= note'.revision
      BY <1>2, <1>4, <1>6, <1>10
    <3>2. ASSUME spent.restores = 0, NEW i \in DOMAIN job', NEW j \in DOMAIN job', i < j
          PROVE  \/ job'[i].revision < job'[j].revision
                 \/ job'[i].revision = job'[j].revision /\ job'[j].action = "remove"
      <4>1. i \in DOMAIN job
        <5>1. i # q
          BY <1>4, <2>1, <2>2, <3>2
        <5> QED BY <2>1, <5>1
      <4>2. CASE j \in DOMAIN job
        BY <1>10, <2>4, <3>2, <4>1, <4>2
      <4>3. CASE j = q
        <5>1. /\ job'[i].revision = job[i].revision /\ job[i].revision \in Nat
              /\ job[i].revision <= note.revision /\ job'[j].revision = note'.revision
              /\ job'[j].action = t.action
          BY <1>1, <1>4, <2>1, <2>4, <4>1, <4>3
        <5> QED BY <1>4, <1>6, <1>10, <3>2, <5>1
      <4> QED BY <2>1, <4>2, <4>3
    <3>3. ASSUME spent.restores = 0, NEW k \in Active'
          PROVE  /\ state'.revision <= job'[k].revision
                 /\ work'[k].stage # "applied" /\ state'.revision = job'[k].revision =>
                      job'[k].action = "remove"
      <4>1. k \in DOMAIN job \/ k = q
        BY <2>1 DEF Active
      <4>2. CASE k \in DOMAIN job
        <5>1. job[k].status = "held"
          BY <2>4, <4>2 DEF Active
        <5> QED BY <1>1, <1>2, <1>10, <2>4, <3>3, <4>2, <5>1
      <4>3. CASE k = q
        <5>1. job'[k].revision = note'.revision /\ job'[k].action = t.action
          BY <1>1, <2>1, <4>3
        <5> QED BY <1>2, <1>4, <1>6, <1>10, <3>1, <3>3, <5>1
      <4> QED BY <4>1, <4>2, <4>3
    <3>4. ASSUME spent.restores = 0, NEW u \in Sessions, saving'[u] # NoChange PROVE FALSE
      <4>1. s = "locked" /\ u # s
        BY <1>1, <3>4 DEF Calm, RevisionsGrow
      <4> QED BY <1>1, <3>4, <4>1 DEF Calm, RevisionsGrow
    <3> QED BY <1>1, <3>1, <3>2, <3>3, <3>4 DEF RevisionsGrow
  <2> QED BY <1>5, <2>5, <2>6, <2>7, <2>8 DEF Calm
<1> QED BY <1>1, <1>11, <1>12 DEF ScheduledBy

(***************************************************************************)
(* Every step, and what follows                                            *)
(***************************************************************************)
\* What is to be removed is being removed.
RemovalsRemain ==
    spent.races = 0 =>
      \A j \in DOMAIN job :
        work[j].stage # "idle" /\ job[j].action = "remove" => work[j].action = "remove"

CInv == TInv /\ RemovalsRemain /\ (Undisturbed => Calm)

\* The action a job is carried out with is the one it was claimed with, or a removal.
LEMMA RemovalsStep == TInv /\ RemovalsRemain /\ [NoteNext]_noteVars => RemovalsRemain'
<1> SUFFICES ASSUME TInv, RemovalsRemain, [NoteNext]_noteVars PROVE RemovalsRemain'
  OBVIOUS
<1>1. /\ NInv /\ NoteShape /\ DOMAIN job \subseteq Jobs /\ work \in [Jobs -> Works]
      /\ \A j \in Jobs : work[j].stage # "idle" => j \in DOMAIN job
  BY Typed DEF TInv, NInv
<1>2. ASSUME job' = job, spent'.races = spent.races,
             \A i \in Jobs : work'[i] = work[i] \/ work'[i].stage = "idle"
                            \/ (work[i].stage # "idle" /\ work'[i].action \in {"remove", work[i].action})
      PROVE  RemovalsRemain'
  BY <1>1, <1>2 DEF RemovalsRemain
<1>3. ASSUME NEW j \in DOMAIN job, NEW x \in Statuses, job' = [job EXCEPT ![j].status = x],
             spent'.races = spent.races,
             \A i \in Jobs : work'[i] = work[i] \/ work'[i].stage = "idle"
      PROVE  RemovalsRemain'
  <2>1. RowsWith(j, x)
    BY <1>3, StatusWritten
  <2> QED BY <1>1, <1>3, <2>1 DEF RemovalsRemain, RowsWith
<1>4. ASSUME NEW j \in DOMAIN job, Release(j)
      PROVE  \A i \in Jobs : work'[i] = work[i] \/ work'[i].stage = "idle"
  BY <1>1, <1>4 DEF Release, Idle
<1>5. ASSUME NEW j \in DOMAIN job, Supersede(j), spent' = spent PROVE RemovalsRemain'
  BY <1>3, <1>4, <1>5 DEF Supersede, Statuses
<1>6. CASE Save \/ Delete \/ Restore \/ RestoreLive \/ \E s \in Sessions : Abort(s)
  <2>1. job' = job /\ work' = work /\ spent'.races = spent.races
    <3>1. spent \in Counters
      BY <1>1 DEF NoteShape, Counters
    <3> QED BY <1>6, <3>1 DEF Save, Delete, Restore, RestoreLive, Begin, Abort, Counters
  <2> QED BY <1>2, <2>1
<1>7. ASSUME NEW s \in Sessions, CommitChange(s) PROVE RemovalsRemain'
  <2>1. PICK t : t = saving[s]
    OBVIOUS
  <2>2. Sound(s, t) /\ ScheduledBy(t) /\ work' = work
        /\ spent' = IF Overtaken(s) THEN [spent EXCEPT !.races = 1] ELSE spent
    BY <1>1, <1>7, <2>1, Committed
  <2>3. spent'.races = 0 => ~Overtaken(s) /\ spent.races = 0
    BY <1>1, <2>2 DEF NoteShape
  <2>4. spent'.races = 0 => \A i \in t.waiting : work[i].stage = "idle"
    BY <1>1, <2>1, <2>2, <2>3 DEF Overtaken, NInv, HandsAreSound, Sound
  <2>5. \A j \in DOMAIN job \ t.waiting : job'[j] = job[j]
    BY <1>1, <2>2, ScheduledRows
  <2>6. DOMAIN job' \subseteq Jobs
    <3>1. NInv'
      BY <1>1, <1>7, <2>1, CommitStep
    <3> QED BY <3>1, NoteAssumption DEF NInv, NoteShape, Jobs
  <2> QED BY <1>1, <2>2, <2>3, <2>4, <2>5, <2>6 DEF RemovalsRemain
<1>8. ASSUME NEW j \in DOMAIN job, Indexer(j) PROVE RemovalsRemain'
  <2>1. CASE Claim(j)
    <3>1. /\ \A i \in DOMAIN job : job'[i].action = job[i].action
          /\ DOMAIN job' = DOMAIN job
          /\ work'[j].action = job[j].action /\ \A i \in Jobs : i # j => work'[i] = work[i]
      BY <1>1, <2>1, RowsAreTyped DEF Claim, NoteShape
    <3> QED BY <1>1, <2>1, <3>1 DEF RemovalsRemain, Claim
  <2>2. CASE Prepare(j)
    <3>1. CASE Supersede(j)
      BY <1>5, <2>2, <3>1 DEF Prepare
    <3>2. CASE ~Supersede(j)
      <4>1. /\ job' = job /\ spent' = spent /\ work[j].stage = "claimed"
            /\ work' = [work EXCEPT ![j].stage = "prepared",
                                    ![j].action = IF Hidden(note) THEN "remove" ELSE @]
        BY <2>2, <3>2 DEF Prepare
      <4>2. work'[j].action \in {"remove", work[j].action} /\ \A i \in Jobs : i # j => work'[i] = work[i]
        BY <1>1, <4>1 DEF Works
      <4> QED BY <1>2, <4>1, <4>2
    <3> QED BY <3>1, <3>2
  <2>3. CASE Submit(j)
    <3>1. job' = job /\ spent' = spent
      BY <2>3 DEF Submit
    <3>2. CASE RefusedByQueue(j)
      BY <1>2, <2>3, <3>1, <3>2 DEF Submit, Idle
    <3>3. CASE ~RefusedByQueue(j)
      <4>1. work' = [work EXCEPT ![j].stage = "submitted"] /\ work[j].stage # "idle"
        BY <2>3, <3>3 DEF Submit
      <4>2. work'[j].action = work[j].action /\ \A i \in Jobs : i # j => work'[i] = work[i]
        BY <1>1, <4>1 DEF Works
      <4> QED BY <1>2, <3>1, <4>1, <4>2
    <3> QED BY <3>2, <3>3
  <2>4. ASSUME spent' = spent, work[j].stage # "idle",
               \/ Supersede(j)
               \/ job' = job /\ \E x \in Stages : work' = [work EXCEPT ![j].stage = x]
        PROVE  RemovalsRemain'
    <3>1. CASE Supersede(j)
      BY <1>5, <2>4, <3>1
    <3>2. CASE job' = job /\ \E x \in Stages : work' = [work EXCEPT ![j].stage = x]
      <4>1. work'[j].action = work[j].action /\ \A i \in Jobs : i # j => work'[i] = work[i]
        BY <1>1, <3>2 DEF Works
      <4> QED BY <1>2, <2>4, <3>2, <4>1
    <3> QED BY <2>4, <3>1, <3>2
  <2>5. CASE Mark(j)
    BY <2>4, <2>5 DEF Mark, Writing, Stages
  <2>6. CASE Upsert(j)
    BY <2>4, <2>6 DEF Upsert, Writing, Stages
  <2>7. CASE Finalize(j)
    BY <2>4, <2>7 DEF Finalize, Writing, Stages
  <2>8. CASE FinalizeRemoval(j)
    BY <2>4, <2>8 DEF FinalizeRemoval, Writing, Stages
  <2>9. CASE Complete(j)
    <3>1. spent' = spent /\ (Supersede(j) \/ (Release(j) /\ job' = [job EXCEPT ![j].status = "completed"]))
      BY <2>9 DEF Complete
    <3> QED BY <1>3, <1>4, <1>5, <3>1 DEF Statuses
  <2>10. CASE Recover(j)
    <3>1. \E x \in {"queued", "failed"} : job' = [job EXCEPT ![j].status = x]
      BY <2>10 DEF Recover
    <3> QED BY <1>3, <2>10, <3>1 DEF Recover, Statuses
  <2> QED BY <1>8, <2>1, <2>2, <2>3, <2>5, <2>6, <2>7, <2>8, <2>9, <2>10 DEF Indexer
<1>9. ASSUME NEW j \in DOMAIN job, Fault(j) PROVE RemovalsRemain'
  <2>1. PICK transient \in BOOLEAN : Fail(j, transient)
    BY <1>9 DEF Fault
  <2>2. \E x \in {"queued", "failed"} : job' = [job EXCEPT ![j].status = x]
    BY <2>1 DEF Fail
  <2>3. Release(j)
    BY <2>1 DEF Fail
  <2>4. spent'.races = spent.races
    BY <1>1, <1>9 DEF Fault, NoteShape
  <2> QED BY <1>3, <1>4, <2>2, <2>3, <2>4 DEF Statuses
<1>10. CASE Crash
  <2>1. spent'.races = spent.races
    BY <1>1, <1>10 DEF Crash, NoteShape
  <2> QED BY <1>2, <1>10, <2>1 DEF Crash, Idle
<1>11. CASE UNCHANGED noteVars
  BY <1>2, <1>11 DEF noteVars
<1> QED BY <1>6, <1>7, <1>8, <1>9, <1>10, <1>11 DEF NoteNext, Owner

\* Whatever disturbs is counted, and no count goes back.
LEMMA Quiet ==
    ASSUME TInv
    PROVE  Undisturbed <=> spent.races = 0 /\ spent.faults = 0 /\ spent.crashes = 0
<1>1. spent \in Counters
  BY DEF TInv, NInv, NoteShape, Counters
<1> QED BY <1>1 DEF Undisturbed, Counters

\* The first revision waits to be indexed, and nothing is in anybody's hands.
LEMMA CalmBegins == NoteInit => CInv
<1> SUFFICES ASSUME NoteInit PROVE CInv
  OBVIOUS
<1> DEFINE r == [revision |-> 1, action |-> "index", status |-> "queued", attempts |-> 0]
<1>1. AttemptsCount
  BY NoteAssumption DEF NoteInit, AttemptsCount
<1>2. TInv
  BY <1>1, NotesBegin DEF TInv
<1>3. /\ job = <<r>> /\ Len(job) = 1 /\ DOMAIN job = {1} /\ job[1] = r
      /\ r.revision = 1 /\ r.action = "index" /\ r.status = "queued"
  BY DEF NoteInit
<1>4. /\ note.revision = 1 /\ state.revision = 0
      /\ \A s \in Sessions : saving[s] = NoChange
      /\ batch = <<>> /\ writes = <<>>
      /\ \A j \in Jobs : work[j].stage = "idle"
      /\ 1 \in Jobs
  BY NoteAssumption DEF NoteInit, Idle, Jobs
<1> HIDE DEF r
<1>5. InLine
  <2>1. Range(batch) = {} /\ Range(writes) = {}
    BY <1>4, RangeOfSequence, <1>2, Typed
  <2> QED BY <1>4, <2>1 DEF InLine, Ascends, BatchStages, WriteStages
<1>6. RowsAreKept
  BY <1>3, <1>4 DEF RowsAreKept, LastRow
<1>7. ChangeIsFirst /\ LatestIsKnown /\ LatestIsRight
  BY <1>3, <1>4 DEF ChangeIsFirst, LatestIsKnown, LatestIsRight, LastRow
<1>8. RevisionsGrow
  BY <1>3, <1>4 DEF RevisionsGrow, Active
<1>9. RemovalsRemain
  BY <1>3, <1>4 DEF RemovalsRemain
<1> QED BY <1>2, <1>5, <1>6, <1>7, <1>8, <1>9 DEF CInv, Calm

\* Every step that is not a disturbance keeps the order.
LEMMA CalmStep == CInv /\ [NoteNext]_noteVars => CInv'
<1> SUFFICES ASSUME CInv, [NoteNext]_noteVars PROVE CInv'
  OBVIOUS
<1>1. TInv /\ TInv'
  BY AttemptsStep, NotesStep DEF CInv, TInv
<1>2. spent \in Counters
  BY <1>1 DEF TInv, NInv, NoteShape, Counters
<1>3. Undisturbed' => spent'.races = 0 /\ spent'.faults = 0 /\ spent'.crashes = 0
  <2>1. spent' \in Counters
    BY <1>1 DEF TInv, NInv, NoteShape, Counters
  <2> QED BY <2>1 DEF Undisturbed, Counters
<1> SUFFICES ASSUME Undisturbed' PROVE Calm'
  BY <1>1, RemovalsStep DEF CInv
<1>4. spent'.races = 0 /\ spent'.faults = 0 /\ spent'.crashes = 0
  BY <1>3
<1>5. ASSUME spent'.races = spent.races, spent'.faults = spent.faults,
             spent'.crashes = spent.crashes
      PROVE  Calm
  BY <1>1, <1>4, <1>5, Quiet DEF CInv
<1>6. CASE Save \/ Delete \/ Restore \/ RestoreLive
  <2>1. spent'.races = spent.races /\ spent'.faults = spent.faults /\ spent'.crashes = spent.crashes
    BY <1>2, <1>6 DEF Save, Delete, Restore, RestoreLive, Counters
  <2> QED BY <1>1, <1>5, <1>6, <2>1, OwnerBeginsCalmly
<1>7. ASSUME NEW s \in Sessions, CommitChange(s) PROVE Calm'
  <2>1. ~Overtaken(s) /\ spent' = spent
    BY <1>2, <1>4, <1>7 DEF CommitChange, Counters
  <2> QED BY <1>1, <1>5, <1>7, <2>1, CommitCalm
<1>8. ASSUME NEW s \in Sessions, Abort(s) PROVE Calm'
  <2>1. spent' = spent
    BY <1>8 DEF Abort
  <2> QED BY <1>1, <1>5, <1>8, <2>1, AbortCalm
<1>9. ASSUME NEW j \in DOMAIN job, Indexer(j) PROVE Calm'
  <2>1. spent' = spent
    BY <1>9 DEF Indexer, Claim, Prepare, Submit, Mark, Upsert, Finalize, FinalizeRemoval,
                Complete, Recover
  <2>2. Calm
    BY <1>5, <2>1
  <2>3. ~Recover(j)
    BY <2>2 DEF Recover, Calm, RowsAreKept, Idle
  <2> QED BY <1>1, <1>9, <2>2, <2>3, ClaimCalm, PrepareCalm, SubmitCalm, MarkCalm, UpsertCalm,
             FinalizeCalm, RemovalCalm, CompleteCalm DEF Indexer
<1>10. ASSUME NEW j \in DOMAIN job, Fault(j) PROVE FALSE
  <2>1. spent'.faults = spent.faults + 1 /\ spent.faults \in Nat
    BY <1>2, <1>10 DEF Fault, Counters
  <2> QED BY <1>4, <2>1
<1>11. ~Crash
  <2>1. Crash => spent'.crashes = spent.crashes + 1 /\ spent.crashes \in Nat
    BY <1>2 DEF Crash, Counters
  <2> QED BY <1>4, <2>1
<1>12. CASE UNCHANGED noteVars
  <2>1. /\ note' = note /\ state' = state /\ points' = points /\ job' = job /\ work' = work
        /\ batch' = batch /\ writes' = writes /\ spent' = spent /\ saving' = saving
    BY <1>12 DEF noteVars
  <2>2. Calm
    BY <1>5, <2>1
  <2> QED BY <2>1, <2>2
    DEF Calm, InLine, RowsAreKept, ChangeIsFirst, LatestIsKnown, LatestIsRight, RevisionsGrow,
        PointsAreRight, LastRow, Hidden, Waiting, Active, First
<1> QED BY <1>6, <1>7, <1>8, <1>9, <1>10, <1>11, <1>12 DEF NoteNext, Owner

\* The invariant with the order.
THEOREM CalmInvariant == NoteSpec => []CInv
BY CalmBegins, CalmStep, PTL DEF NoteSpec

\* When no job is left, the index is what the owner left.
THEOREM RestIsOwners == NoteSpec => []RestIsRight
<1>1. CInv => RestIsRight
  <2> SUFFICES ASSUME CInv, AtRest, Undisturbed
               PROVE  IF Hidden(note) THEN points = {} ELSE Published /\ points = {note.revision}
    BY DEF RestIsRight
  <2>1. Calm /\ LastRow \in DOMAIN job /\ job[LastRow] \in JobRow
    BY RowsAreTyped DEF CInv, Calm, RowsAreKept, TInv, NInv
  <2>2. job[LastRow].status = "completed"
    BY <2>1 DEF Calm, RowsAreKept, AtRest, Active, JobRow
  <2>3. PointsAreRight /\ (~Hidden(note) => state = [status |-> "indexed", revision |-> note.revision])
    BY <2>1, <2>2 DEF Calm, LatestIsRight
  <2> QED BY <2>3 DEF PointsAreRight, Hidden, Published
<1> QED BY <1>1, CalmInvariant, PTL

\* What a fault of the writer may leave of the points.
LEMMA VerifiedIsKept ==
    ASSUME CInv, Undisturbed, spent.restores = 0, [NoteNext]_noteVars,
           state.revision \in points \ points'
    PROVE  \/ \E j \in Jobs : work[j].action = "remove"
           \/ note.revision \in points' /\ note.revision # state.revision
<1>1. TInv /\ Calm
  BY DEF CInv
<1>2. DOMAIN job \subseteq Jobs
  BY <1>1, Typed
<1>3. ASSUME NEW j \in DOMAIN job, work[j].stage = "upserted"
      PROVE  /\ job[j].revision \in points
             /\ job[j].revision # state.revision
  <2>1. j \in Jobs /\ job[j].status = "held"
    BY <1>1, <1>2, <1>3, Busy
  <2>2. j \in Active
    BY <2>1 DEF Active
  <2>3. job[j].revision \in points /\ work[j].action = "index"
    BY <1>1, <1>3, <2>1 DEF TInv, NInv, WriterKnows
  <2>4. job[j].action # "remove"
    BY <1>1, <1>3, <2>3, Quiet DEF CInv, RemovalsRemain
  <2> QED BY <1>1, <1>3, <2>2, <2>3, <2>4 DEF Calm, RevisionsGrow
<1>4. ASSUME NEW j \in DOMAIN job, Finalize(j)
      PROVE  note.revision \in points' /\ note.revision # state.revision
  <2>1. work[j].stage = "upserted"
    BY <1>4 DEF Finalize, Writing
  <2> QED BY <1>3, <1>4, <2>1 DEF Finalize, Current, Swept
<1>5. ASSUME NEW j \in DOMAIN job, FinalizeRemoval(j)
      PROVE  \E i \in Jobs : work[i].action = "remove"
  BY <1>2, <1>5 DEF FinalizeRemoval
<1>6. ASSUME NEW j \in DOMAIN job, Fault(j)
      PROVE  \/ \E i \in Jobs : work[i].action = "remove"
             \/ note.revision \in points' /\ note.revision # state.revision
  <2>1. points' = Left(j)
    BY <1>6 DEF Fault
  <2>2. CASE work[j].stage = "marked"
    <3>1. work[j].action = "index" => points' = points \cup {job[j].revision}
      BY <2>1, <2>2 DEF Left
    <3>2. work[j].action \in {"index", "remove"}
      BY <1>1, <1>2, <2>2, Typed DEF TInv, NInv, WriterKnows, Actions
    <3> QED BY <1>2, <3>1, <3>2
  <2>3. CASE work[j].stage = "upserted"
    <3>1. points' = points \/ points' = IF Current(j) THEN Swept(j) ELSE points \ {job[j].revision}
      BY <2>1, <2>3 DEF Left
    <3> QED BY <1>3, <2>3, <3>1 DEF Current, Swept
  <2>4. CASE work[j].stage \notin {"marked", "upserted"}
    BY <2>1, <2>4 DEF Left
  <2> QED BY <2>2, <2>3, <2>4
<1>7. ASSUME NEW j \in DOMAIN job, Indexer(j), ~Finalize(j), ~FinalizeRemoval(j) PROVE FALSE
  <2>1. points \subseteq points'
    BY <1>7 DEF Indexer, Claim, Prepare, Submit, Mark, Upsert, Complete, Recover
  <2> QED BY <2>1
<1>8. ~Owner /\ ~Crash /\ ~UNCHANGED noteVars
  BY DEF Owner, Save, Delete, Restore, RestoreLive, Begin, CommitChange, Abort, Crash, noteVars
<1> QED BY <1>4, <1>5, <1>6, <1>7, <1>8 DEF NoteNext

\* The points of the last verified revision stay until its successor has its own.
THEOREM LastVerifiedStays == NoteSpec => VerifiedStays
<1>1. CInv /\ [NoteNext]_noteVars =>
        [state.revision \in points \ points' /\ Undisturbed /\ spent.restores = 0 =>
           \/ \E j \in Jobs : work[j].action = "remove"
           \/ note.revision \in points' /\ note.revision # state.revision]_noteVars
  BY VerifiedIsKept
<1> QED BY <1>1, CalmInvariant, PTL DEF NoteSpec, VerifiedStays

(***************************************************************************)
(* Editing and indexing together                                           *)
(***************************************************************************)
\* A step of the notes is a step of one part and leaves the other as it is.
LEMMA PartsMove ==
    ASSUME [NotesNext]_notesVars
    PROVE  [Next]_vars /\ [NoteNext]_noteVars
<1>1. CASE InEditing(Next /\ Spelled)
  BY <1>1 DEF InEditing
<1>2. CASE InIndexing(NoteNext /\ Few)
  BY <1>2 DEF InIndexing
<1>3. CASE UNCHANGED notesVars
  BY <1>3 DEF notesVars
<1> QED BY <1>1, <1>2, <1>3 DEF NotesNext

\* What TLC runs is each part, whatever the other does: every theorem about one of them
\* is one about the notes.
THEOREM NotesAreTheirParts == NotesSpec => Spec /\ NoteSpec
<1>1. NotesInit => Init /\ NoteInit
  BY DEF NotesInit
<1>2. [NotesNext]_notesVars => [Next]_vars
  BY PartsMove
<1>3. [NotesNext]_notesVars => [NoteNext]_noteVars
  BY PartsMove
<1> QED BY <1>1, <1>2, <1>3, PTL DEF NotesSpec, Spec, NoteSpec

\* The tabs, the calls and the revisions, and the rows, the points and the indexer's hands
\* keep their types.
THEOREM NotesTypes == NotesSpec => []Types
<1>1. TypeOK /\ NoteTypeOK => Types
  BY DEF Types
<1> QED BY <1>1, NotesAreTheirParts, TypesHold, NoteTypesHold, PTL

=================================================================================
