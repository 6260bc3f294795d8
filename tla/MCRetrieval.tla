------------------------------ MODULE MCRetrieval ------------------------------
(* Retrieval for TLC: branches that find up to two of the chunks. *)
EXTENDS Retrieval

ShortRankings == {s \in UNION {[1..n -> Chunks] : n \in 0..2} : IsInjective(s)}

\* The first branch of the first variant finds them in the order of their names.
MCRankings ==
    {r \in [1..Variants -> [Branches -> ShortRankings]] :
        r[1]["dense"] \in {<<>>, <<1>>, <<1, 2>>}}

================================================================================
