---------------------------- MODULE NoteAutosave ----------------------------
(***************************************************************************)
(* One note that several editors (browser tabs) keep open, and the service *)
(* that stores its revisions.                                              *)
(*                                                                         *)
(* Each editor runs useSerializedNoteAutosave: what is typed waits for a   *)
(* pause in `pending', one save at a time is in flight, and a save carries *)
(* the revision it was based on.  The service accepts it when that is the  *)
(* note's revision or when it is forced, reads and commits in two steps,   *)
(* and relies on the uniqueness of (note, revision) in between.            *)
(*                                                                         *)
(* A call whose editor has gone on without it (the note was left, deleted, *)
(* or the connection broke) is no longer `live': the service still serves  *)
(* it, and nobody hears the answer.                                        *)
(***************************************************************************)
EXTENDS Naturals, Sequences

CONSTANTS
    Editors,    \* the tabs that show the note
    Texts,      \* what the note may say, its title included
    Normal,     \* what the service makes of a text: the blanks of its title are joined
    None,       \* no draft
    MaxInputs   \* bound: how often the user of each tab types or clicks

ASSUME EditingAssumption ==
    /\ MaxInputs \in [Editors -> Nat] /\ Texts # {} /\ None \notin Texts
    /\ Normal \in [Texts -> Texts] /\ \A t \in Texts : Normal[Normal[t]] = Normal[t]

VARIABLES
    history,    \* the stored revisions: text, the revision the save expected, forced or not
    trashed,    \* whether the note has been deleted
    listed,     \* per editor: the revision its list of notes was loaded at
    editor,     \* per editor: the state of the hook and the text on screen
    inputs,     \* per editor: how much its user has typed or clicked
    calls       \* the saves that the service has still to finish or to answer

vars == <<history, trashed, listed, editor, inputs, calls>>

Labels == {"idle", "unsaved", "saving", "saved", "conflict", "error"}
Latest == Len(history)

\* The hook when it is given the note: nothing pending, nothing in flight.
Shown(revision, removed) ==
    [open |-> TRUE, text |-> history[revision].text, revision |-> revision,
     lastSaved |-> history[revision].text, pending |-> None, timer |-> FALSE,
     inFlight |-> FALSE, blocked |-> FALSE, label |-> "saved", conflict |-> 0,
     local |-> None, removed |-> removed, deleting |-> FALSE]

\* The hook when it is given no note.
Closed(E) ==
    [E EXCEPT !.open = FALSE, !.pending = None, !.timer = FALSE, !.inFlight = FALSE,
              !.blocked = FALSE, !.label = "idle", !.conflict = 0, !.local = None,
              !.deleting = FALSE]

Unfinished == {"sent", "read"}

\* A generation ends: the answers of its calls will be ignored.
Forgotten(e) ==
    {c \in calls : c.by # e} \cup
    {[c EXCEPT !.live = FALSE] : c \in {d \in calls : d.by = e /\ d.phase \in Unfinished}}

----------------------------------------------------------------------------
(* The hook *)

CanRunTwice(E) == E.open /\ E.pending # None /\ ~E.blocked /\ ~E.removed

CanRun(E) == E.open /\ E.pending # None /\ ~E.inFlight /\ ~E.blocked /\ ~E.removed

Running(E) ==
    IF CanRun(E)
    THEN [E EXCEPT !.timer = FALSE, !.pending = None, !.inFlight = TRUE, !.label = "saving"]
    ELSE [E EXCEPT !.timer = FALSE]

\* runRef.current(force), from state E of editor e with the calls cs outstanding.
Run(e, E, force, cs) ==
    /\ editor' = [editor EXCEPT ![e] = Running(E)]
    /\ calls' = cs \cup
         {c \in {[by |-> e, no |-> inputs'[e], text |-> E.pending, expected |-> E.revision,
                  forced |-> force, phase |-> "sent", seen |-> 0, live |-> TRUE]} : CanRun(E)}

Clicked(e) ==
    /\ inputs[e] < MaxInputs[e]
    /\ inputs' = [inputs EXCEPT ![e] = @ + 1]

EnqueuedUnscheduled(E, t) ==
    IF E.removed \/ E.blocked THEN E
    ELSE IF t = E.lastSaved /\ ~E.inFlight THEN [E EXCEPT !.label = "saved"]
    ELSE [E EXCEPT !.pending = t, !.label = "unsaved"]

Enqueued(E, t) ==
    IF E.removed \/ E.blocked THEN E
    ELSE IF t = E.lastSaved /\ ~E.inFlight THEN [E EXCEPT !.label = "saved"]
    ELSE [E EXCEPT !.pending = t, !.label = "unsaved", !.timer = @ \/ ~E.inFlight]

\* The user types; the draft waits for a pause unless the hook is blocked.
Type(e, t) ==
    /\ editor[e].open /\ t # editor[e].text /\ Clicked(e)
    /\ editor' = [editor EXCEPT ![e] = Enqueued([editor[e] EXCEPT !.text = t], t)]
    /\ UNCHANGED <<history, trashed, listed, calls>>

\* The debounce timer fires.
Fire(e) ==
    /\ editor[e].timer
    /\ UNCHANGED inputs
    /\ Run(e, editor[e], FALSE, calls)
    /\ UNCHANGED <<history, trashed, listed>>

\* Ctrl+S, or a pin or archive click, saves what is pending at once.
Flush(e) ==
    /\ ~editor[e].blocked /\ CanRun(editor[e])
    /\ UNCHANGED inputs
    /\ Run(e, editor[e], FALSE, calls)
    /\ UNCHANGED <<history, trashed, listed>>

\* "Review server version": the server's text replaces the draft.
ReviewServer(e) ==
    LET R == editor[e].conflict IN
    /\ R # 0 /\ Clicked(e)
    /\ editor' = [editor EXCEPT ![e] =
         [@ EXCEPT !.blocked = FALSE, !.pending = None, !.revision = R,
                   !.lastSaved = history[R].text, !.text = history[R].text,
                   !.conflict = 0, !.local = None, !.label = "saved"]]
    /\ listed' = [listed EXCEPT ![e] = R]
    /\ calls' = Forgotten(e)
    /\ UNCHANGED <<history, trashed>>

\* "Keep mine": the draft the conflict was about is saved whatever the server holds.
KeepMine(e) ==
    LET E == editor[e] IN
    /\ E.conflict # 0 /\ Clicked(e)
    /\ Run(e, [E EXCEPT !.revision = E.conflict, !.pending = E.local, !.blocked = FALSE,
                        !.conflict = 0, !.local = None], TRUE, calls)
    /\ UNCHANGED <<history, trashed, listed>>

\* "Retry" after an error.
Retry(e) ==
    /\ editor[e].label = "error" /\ Clicked(e)
    /\ Run(e, [editor[e] EXCEPT !.blocked = FALSE, !.label = "unsaved"], FALSE, calls)
    /\ UNCHANGED <<history, trashed, listed>>

\* Another note is selected, or the page is left: what waits for the pause is dropped.
Leave(e) ==
    /\ editor[e].open /\ ~editor[e].deleting
    /\ editor' = [editor EXCEPT ![e] = Closed(@)]
    /\ calls' = Forgotten(e)
    /\ UNCHANGED <<history, trashed, listed, inputs>>

\* The note is selected again, as the list has it.
Open(e) ==
    /\ ~editor[e].open /\ (editor[e].removed => ~trashed)
    /\ editor' = [editor EXCEPT ![e] = Shown(listed[e], @.removed)]
    /\ UNCHANGED <<history, trashed, listed, inputs, calls>>

\* The list of notes is fetched again; a note that is on screen keeps its draft.
Reload(e) ==
    /\ ~trashed
    /\ listed' = [listed EXCEPT ![e] = Latest]
    /\ UNCHANGED <<history, trashed, editor, inputs, calls>>

\* "Move to Trash": the hook is told first, then the service is asked.
MarkDeleted(e) ==
    /\ editor[e].open /\ ~editor[e].deleting /\ Clicked(e)
    /\ editor' = [editor EXCEPT ![e] =
         [@ EXCEPT !.removed = TRUE, !.timer = FALSE, !.pending = None,
                   !.blocked = TRUE, !.label = "idle", !.deleting = TRUE]]
    /\ calls' = Forgotten(e)
    /\ UNCHANGED <<history, trashed, listed>>

\* The deletion is answered, or fails after or before it was done.
Removed(e) ==
    /\ editor[e].deleting
    /\ \/ /\ ~trashed /\ trashed' = TRUE
          /\ editor' = [editor EXCEPT ![e] = Closed(@)]
       \/ /\ trashed' \in {trashed, TRUE}
          /\ editor' = [editor EXCEPT ![e].deleting = FALSE]
    /\ UNCHANGED <<history, listed, inputs, calls>>

----------------------------------------------------------------------------
(* The service *)

\* A call has reached its end; an answer nobody waits for is dropped.
Finished(c, phase, seen) ==
    (calls \ {c}) \cup {d \in {[c EXCEPT !.phase = phase, !.seen = seen]} : c.live}

\* update reads the note: it must not be deleted, and its revision must be the expected one.
ReadNote(c) ==
    /\ c \in calls /\ c.phase = "sent"
    /\ calls' =
         IF trashed THEN Finished(c, "failed", 0)
         ELSE IF c.expected # Latest /\ ~c.forced THEN Finished(c, "conflict", Latest)
         ELSE (calls \ {c}) \cup {[c EXCEPT !.phase = "read", !.seen = Latest]}
    /\ UNCHANGED <<history, trashed, listed, editor, inputs>>

CommitBlindly(c) ==
    /\ c \in calls /\ c.phase = "read"
    /\ history' = Append(history, [text |-> Normal[c.text], expected |-> c.expected, forced |-> c.forced])
    /\ calls' = Finished(c, "saved", Latest + 1)
    /\ UNCHANGED <<trashed, listed, editor, inputs>>

CommitSkipping(c) ==
    /\ c \in calls /\ c.phase = "read" /\ c.seen = Latest
    /\ history' = Append(history, [text |-> Normal[c.text], expected |-> c.expected, forced |-> c.forced])
    /\ calls' = Finished(c, "saved", Latest + 2)
    /\ UNCHANGED <<trashed, listed, editor, inputs>>

\* The next revision, with its title tidied up, and its version row are committed,
\* unless another save has stored a version of that number.
Commit(c) ==
    /\ c \in calls /\ c.phase = "read"
    /\ IF c.seen = Latest
       THEN /\ history' = Append(history, [text |-> Normal[c.text], expected |-> c.expected,
                                           forced |-> c.forced])
            /\ calls' = Finished(c, "saved", Latest + 1)
       ELSE /\ calls' = Finished(c, "failed", 0)
            /\ UNCHANGED history
    /\ UNCHANGED <<trashed, listed, editor, inputs>>

----------------------------------------------------------------------------
(* The answers *)

HasNewerDraft(E, c) == E.pending \notin {None, c.text}

SavedTyped(E, c) ==
    [E EXCEPT !.revision = c.seen, !.lastSaved = E.text, !.conflict = 0, !.local = None,
              !.inFlight = FALSE,
              !.text = IF HasNewerDraft(E, c) \/ @ # c.text THEN @ ELSE Normal[c.text],
              !.label = IF HasNewerDraft(E, c) THEN "unsaved" ELSE "saved"]

\* The hook remembers the draft as it was sent; a screen that still shows it gets
\* what the service has made of it.
Saved(E, c) ==
    [E EXCEPT !.revision = c.seen, !.lastSaved = c.text, !.conflict = 0, !.local = None,
              !.inFlight = FALSE,
              !.text = IF HasNewerDraft(E, c) \/ @ # c.text THEN @ ELSE Normal[c.text],
              !.label = IF HasNewerDraft(E, c) THEN "unsaved" ELSE "saved"]

Kept(E, c) == IF E.pending = None THEN c.text ELSE E.pending

RefusedLosing(E, c, label) ==
    [E EXCEPT !.blocked = TRUE, !.inFlight = FALSE, !.label = label]

\* The draft goes back to what is pending, behind anything newer, and the hook blocks.
Refused(E, c, label) ==
    [E EXCEPT !.pending = Kept(E, c), !.blocked = TRUE, !.inFlight = FALSE, !.label = label]

\* The save has succeeded; what was typed meanwhile is sent at once.
AnswerSaved(c) ==
    /\ c \in calls /\ c.phase = "saved"
    /\ listed' = [listed EXCEPT ![c.by] = c.seen]
    /\ UNCHANGED inputs
    /\ Run(c.by, Saved(editor[c.by], c), FALSE, calls \ {c})
    /\ UNCHANGED <<history, trashed>>

\* The save was based on another revision than the note's.
AnswerConflict(c) ==
    LET E == editor[c.by] IN
    /\ c \in calls /\ c.phase = "conflict"
    /\ editor' = [editor EXCEPT ![c.by] =
         [Refused(E, c, "conflict") EXCEPT !.conflict = c.seen, !.local = Kept(E, c)]]
    /\ calls' = calls \ {c}
    /\ UNCHANGED <<history, trashed, listed, inputs>>

\* The save has failed.
AnswerFailed(c) ==
    /\ c \in calls /\ c.phase = "failed"
    /\ editor' = [editor EXCEPT ![c.by] = Refused(@, c, "error")]
    /\ calls' = calls \ {c}
    /\ UNCHANGED <<history, trashed, listed, inputs>>

\* The connection breaks; the service may have saved, or may still save.
LoseAnswer(c) ==
    /\ c \in calls /\ c.live
    /\ editor' = [editor EXCEPT ![c.by] = Refused(@, c, "error")]
    /\ calls' = (calls \ {c}) \cup
         {d \in {[c EXCEPT !.live = FALSE]} : c.phase \in Unfinished}
    /\ UNCHANGED <<history, trashed, listed, inputs>>

----------------------------------------------------------------------------
Init ==
    \E t \in {Normal[u] : u \in Texts} :
      /\ history = <<[text |-> t, expected |-> 0, forced |-> FALSE]>>
      /\ trashed = FALSE
      /\ listed = [e \in Editors |-> 1]
      /\ editor = [e \in Editors |->
           [open |-> FALSE, text |-> t, revision |-> 1, lastSaved |-> t, pending |-> None,
            timer |-> FALSE, inFlight |-> FALSE, blocked |-> FALSE, label |-> "idle",
            conflict |-> 0, local |-> None, removed |-> FALSE, deleting |-> FALSE]]
      /\ inputs = [e \in Editors |-> 0]
      /\ calls = {}

Serve == \E c \in calls : ReadNote(c) \/ Commit(c)
Answer == \E c \in calls : AnswerSaved(c) \/ AnswerConflict(c) \/ AnswerFailed(c)

Next ==
    \/ \E e \in Editors :
         \/ \E t \in Texts : Type(e, t)
         \/ Fire(e) \/ Flush(e) \/ ReviewServer(e) \/ KeepMine(e) \/ Retry(e)
         \/ Leave(e) \/ Open(e) \/ Reload(e) \/ MarkDeleted(e) \/ Removed(e)
    \/ Serve
    \/ Answer
    \/ \E c \in calls : LoseAnswer(c)

Spec == Init /\ [][Next]_vars

\* Timers fire and calls are served and answered; users and connections promise nothing.
FairSpec ==
    Spec /\ WF_vars(Serve) /\ WF_vars(Answer) /\ \A e \in Editors : WF_vars(Fire(e))

----------------------------------------------------------------------------
(* Properties *)

Version == [text : Texts, expected : Nat, forced : BOOLEAN]

EditorState ==
    [open : BOOLEAN, text : Texts, revision : 1..Latest, lastSaved : Texts,
     pending : Texts \cup {None}, timer : BOOLEAN, inFlight : BOOLEAN, blocked : BOOLEAN,
     label : Labels, conflict : 0..Latest, local : Texts \cup {None},
     removed : BOOLEAN, deleting : BOOLEAN]

Call ==
    [by : Editors, no : Nat, text : Texts, expected : 1..Latest, forced : BOOLEAN,
     phase : {"sent", "read", "saved", "conflict", "failed"}, seen : 0..Latest, live : BOOLEAN]

\* The shape of the state: a revision somebody refers to has been stored.
TypeOK ==
    /\ history \in Seq(Version) /\ history # <<>>
    /\ trashed \in BOOLEAN
    /\ listed \in [Editors -> 1..Latest]
    /\ inputs \in [Editors -> Nat]
    /\ editor \in [Editors -> EditorState]
    /\ calls \subseteq Call

\* A save nobody forced replaces the very revision its editor was showing: nobody's
\* text is overwritten unseen (note_service.update and the uniqueness of a revision).
NothingIsOverwrittenUnseen ==
    \A i \in 2..Latest : history[i].forced \/ history[i].expected = i - 1

\* An editor at rest is right about the server: what it takes for saved is the draft
\* that was stored under the revision it will send (the hook's lastSaved and revision),
\* which the service keeps with its title tidied up.
SavedTextIsOfRevision ==
    \A e \in Editors :
      LET E == editor[e] IN
      E.open /\ ~E.inFlight /\ ~E.blocked /\ ~E.removed =>
        Normal[E.lastSaved] = history[E.revision].text

\* A label never promises work that nobody does: "Unsaved" has a timer or a save
\* that will take the draft along, "Saving" has a live call, and "Error" and
\* "Conflict" still hold the draft they speak of (the hook's runRef and enqueue).
LabelsAreHonest ==
    \A e \in Editors :
      LET E == editor[e] IN
      /\ E.label = "unsaved" => E.pending # None /\ (E.timer \/ E.inFlight)
      /\ E.label = "saving" => E.inFlight
      /\ E.inFlight /\ ~E.removed => \E c \in calls : c.by = e /\ c.live
      /\ E.label \in {"error", "conflict"} => E.pending # None

\* One call of an editor at most will be listened to (the hook's inFlight).
OneSaveAtATime ==
    \A c, d \in calls : c.by = d.by /\ c.live /\ d.live => c = d

\* Every draft that waits or is on its way comes to an answer.
SavesEnd ==
    \A e \in Editors :
      editor[e].label \in {"unsaved", "saving"} ~> editor[e].label \notin {"unsaved", "saving"}

\* "Saved" is said of the text on screen, but for the blanks of its title (docs/architecture/NOTES_SUMMARIES_STREAMING.md:7).
SavedIsOnServer ==
    \A e \in Editors :
      editor[e].open /\ editor[e].label = "saved" =>
        Normal[editor[e].text] = history[editor[e].revision].text
=============================================================================
