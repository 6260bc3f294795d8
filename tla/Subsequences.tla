------------------------------ MODULE Subsequences ------------------------------
(***************************************************************************)
(* SelectSeq for a condition that is a set, as a recursive function, so    *)
(* that it can be reasoned about.                                          *)
(***************************************************************************)
EXTENDS Integers, Sequences, Functions

\* What is left of s when only members of S are kept, in the order of s.
Only(s, S) ==
    LET kept[n \in 0..Len(s)] ==
            IF n = 0 THEN <<>>
            ELSE IF s[n] \in S THEN Append(kept[n - 1], s[n])
            ELSE kept[n - 1]
    IN  kept[Len(s)]

\* s without the occurrences of x
Without(s, x) == Only(s, Range(s) \ {x})

================================================================================
