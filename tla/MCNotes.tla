-------------------------------- MODULE MCNotes --------------------------------
(***************************************************************************)
(* Notes for TLC: their editing (NoteAutosave) and the index of what is    *)
(* saved (NoteIndexing).                                                   *)
(*                                                                         *)
(* As in MCDocumentIndexing, the two have no variable in common and are    *)
(* checked side by side; `part' says which of them a behavior is of.       *)
(***************************************************************************)
EXTENDS MCNoteAutosave, NoteIndexing

CONSTANTS
    bar,        \* another text
    MaxEvents   \* bound on deletions, restorations, faults and crashes together

VARIABLE part

notesVars == <<part, vars, noteVars>>

InEditing(A) == part = "editing" /\ A /\ UNCHANGED <<part, noteVars>>
InIndexing(A) == part = "indexing" /\ A /\ UNCHANGED <<part, vars>>

\* The note says bar, and nobody types foo: it comes from the service, which so tidies foo_.
NotesInit == part \in {"editing", "indexing"} /\ Init /\ NoteInit /\ history[1].text = bar
Spelled == \A e \in Editors : ~Type(e, foo)

\* Nothing happens to a note whose transaction was overtaken: no property speaks of it.
Few ==
    /\ spent.races = 0
    /\ spent'.deletes + spent'.restores + spent'.faults + spent'.crashes <= MaxEvents

NotesNext == InEditing(Next /\ Spelled) \/ InIndexing(NoteNext /\ Few)

\* The fairness of the editing.
NotesSpec ==
    /\ NotesInit /\ [][NotesNext]_notesVars
    /\ WF_notesVars(InEditing(Serve)) /\ WF_notesVars(InEditing(Answer))
    /\ \A e \in Editors : WF_notesVars(InEditing(Fire(e)))

Types == TypeOK /\ NoteTypeOK

================================================================================
