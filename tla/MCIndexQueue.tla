---------------------------- MODULE MCIndexQueue ----------------------------
(* A document with jobs for two versions and a note with jobs for two        *)
(* revisions, or a document and a control request; the cfg files choose.     *)
EXTENDS IndexQueue, TLC

CONSTANTS d1, n1, jd1, jd2, jn1, jn2, jc, w1, w2, v1, v2, r1, r2

MCAssetOf == [j \in Jobs |-> CASE j \in {jd1, jd2} -> d1
                               [] j \in {jn1, jn2} -> n1
                               [] j = jc           -> NoTarget]
MCVersionOf == [j \in Jobs |-> CASE j = jd1 -> v1
                                 [] j = jd2 -> v2
                                 [] j = jn1 -> r1
                                 [] j = jn2 -> r2
                                 [] j = jc  -> v1]
\* The two indexer processes are interchangeable (used for safety only).
MCSymmetry == Permutations(Workers)
=============================================================================
