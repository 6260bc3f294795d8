------------------------------ MODULE MCAnswering ------------------------------
(***************************************************************************)
(* Answering for TLC: the generations that are searched (QueryRuntime),    *)
(* what a search finds (Retrieval) and what of it is put before the model  *)
(* (EvidenceSelection).                                                    *)
(*                                                                         *)
(* As in MCDocumentIndexing, the three have no variable in common and are  *)
(* checked side by side; `part' says which of them a behavior is of.       *)
(***************************************************************************)
EXTENDS MCQueryRuntime, MCRetrieval, EvidenceSelection

VARIABLE part

answeringVars == <<part, vars, retrievalVars, evidenceVars>>

InRuntime(A) == part = "runtime" /\ A /\ UNCHANGED <<part, retrievalVars, evidenceVars>>
InRetrieval(A) == part = "retrieval" /\ A /\ UNCHANGED <<part, vars, evidenceVars>>
InSelection(A) == part = "selection" /\ A /\ UNCHANGED <<part, vars, retrievalVars>>

NothingFound == [v \in 1..Variants |-> [b \in Branches |-> <<>>]]
NoCandidates == [ranking |-> <<>>, similar |-> {}]

\* Of the part that a behavior is of the data are chosen, of the others they are fixed.
AnsweringInit ==
    /\ Init
    /\ \/ /\ part = "runtime"
          /\ ranks = NothingFound /\ pool = NoCandidates
       \/ /\ part = "retrieval"
          /\ ranks \in Rankings /\ pool = NoCandidates
       \/ /\ part = "selection"
          /\ ranks = NothingFound /\ pool \in Pools
    /\ RetrievalStart /\ EvidenceStart

AnsweringNext ==
    InRuntime(Next) \/ InRetrieval(RetrievalNext) \/ InSelection(EvidenceNext)

AnsweringSpec == AnsweringInit /\ [][AnsweringNext]_answeringVars

\* Rankings of up to four places; the strong are the first of them.
MCRankingsOf(n) ==
    {r \in [1..n -> [tokens : {1, 3}, source : Sources, strong : BOOLEAN]] :
        \A i, j \in 1..n : i < j /\ r[j].strong => r[i].strong}

Pairs(n) == {{i, j} : i, j \in 1..n} \ {{i} : i \in 1..n}

MCPools ==
    UNION {[ranking : MCRankingsOf(n),
            similar : {s \in SUBSET Pairs(n) : Cardinality(s) <= (IF n = 4 THEN 1 ELSE 2)}] :
           n \in {0, 1, 3, 4}}

================================================================================
