-------------------------- MODULE MCChatConcurrency --------------------------
(***************************************************************************)
(* Two or three users of the assistant, one of them with two requests at a *)
(* time, though only one of them is active.                                *)
(***************************************************************************)
EXTENDS ChatConcurrency

CONSTANTS a, b, a1, a2, b1

TwoUsers == {a, b}
ThreeTurns == {a1, a2, b1}
TheirOwner == [t \in ThreeTurns |-> IF t = b1 THEN b ELSE a]

==============================================================================
