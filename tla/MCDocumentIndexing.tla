--------------------------- MODULE MCDocumentIndexing ---------------------------
(***************************************************************************)
(* The indexer for TLC: DocumentIndexing with two texts, so that an edit   *)
(* can be reverted, and two paths, so that a moved file can come back;     *)
(* LexicalPublication with one change of the main thread and two of the    *)
(* writer; and PersonalFiles, whose reconciler is the indexer's.           *)
(*                                                                         *)
(* The first two look at the same threads, one at what becomes of a        *)
(* document, the other at what becomes of the lexical snapshot; the third  *)
(* at where personal documents come from.  They have no variable in common *)
(* and are checked side by side: `part' says which of them a behavior is   *)
(* of, and the variables of the others keep their initial values.  Of      *)
(* PersonalFiles there are two instances: one document with all that can   *)
(* happen to it (an outside change or a mishap, not both), and two uploads *)
(* that compete for the quota.                                             *)
(***************************************************************************)
EXTENDS DocumentIndexing, LexicalPublication, PersonalFiles

CONSTANT First      \* the document of the first instance

VARIABLE part

allVars == <<part, vars, lexVars, fileVars>>

EditedAlone == spent'.edits = 0 \/ spent'.moves + spent'.deletes + spent'.crashes = 0
InDocument(A) ==
    part = "document" /\ A /\ EditedAlone /\ UNCHANGED <<part, lexVars, fileVars>>
InPublication(A) == part = "publication" /\ A /\ UNCHANGED <<part, vars, fileVars>>

OneFile ==
    /\ part = "a file" /\ Cardinality(touched') + mishaps' <= 1
    /\ touched' \subseteq {First} /\ \A p \in Places \ {First} : upload'[p] = upload[p]
TwoUploads == part = "uploads" /\ removal' = removal /\ touched' = touched
InFiles(A) == A /\ (OneFile \/ TwoUploads) /\ UNCHANGED <<part, vars, lexVars>>

IndexerInit ==
    /\ part \in {"document", "publication", "a file", "uploads"}
    /\ Init /\ LexInit /\ FilesInit

IndexerNext == InDocument(Next) \/ InPublication(LexNext) \/ InFiles(FilesNext)

\* The fairness of the parts.
IndexerSpec ==
    /\ IndexerInit /\ [][IndexerNext]_allVars
    /\ WF_allVars(InDocument(StartBatch))
    /\ \A j \in Jobs : WF_allVars(InDocument(j \in DOMAIN job /\ Indexer(j)))
    /\ WF_allVars(InPublication(MainThread))
    /\ WF_allVars(InPublication(WriterThread))
    /\ \A p \in Places : WF_allVars(InFiles(UploadGoesOn(p)))
    /\ \A r \in Removers : WF_allVars(InFiles(RemovalGoesOn(r)))
    /\ WF_allVars(InFiles(SyncGoesOn))

Types == TypeOK /\ LexTypeOK /\ FilesTypeOK

=============================================================================
