--------------------------- MODULE MCNoteAutosave ---------------------------
(* Two tabs on one note that may say two things, one of them with a title in two spellings. *)
EXTENDS NoteAutosave
CONSTANTS tab1, tab2, foo, foo_
MCMaxInputs == [e \in Editors |-> IF e = tab1 THEN 3 ELSE 1]
MCNormal == [t \in Texts |-> IF t = foo_ THEN foo ELSE t]
=============================================================================
