---------------------------- MODULE JobLifecycle ----------------------------
(***************************************************************************)
(* What the indexing queue promises about each job, without rows, stages,  *)
(* clocks or targets: a job is queued, is held by at most one worker at a  *)
(* time and only while it has attempts left, and ends once and for all.    *)
(***************************************************************************)
EXTENDS Naturals

CONSTANTS Jobs, Workers, Nobody, MaxAttempts

VARIABLES phase, holder, tries

lifecycle == <<phase, holder, tries>>

Init ==
    /\ phase = [j \in Jobs |-> "none"]
    /\ holder = [j \in Jobs |-> Nobody]
    /\ tries = [j \in Jobs |-> 0]

Submit(j) ==
    /\ phase[j] = "none"
    /\ phase' = [phase EXCEPT ![j] = "queued"]
    /\ UNCHANGED <<holder, tries>>

\* Only a queued job can be taken, so nobody takes what another one holds.
Take(w, j) ==
    /\ phase[j] = "queued"
    /\ tries[j] < MaxAttempts
    /\ phase' = [phase EXCEPT ![j] = "held"]
    /\ holder' = [holder EXCEPT ![j] = w]
    /\ tries' = [tries EXCEPT ![j] = @ + 1]

\* The attempt is given up, by its holder or because its lease ran out.
Release(j) ==
    /\ phase[j] = "held"
    /\ tries[j] < MaxAttempts
    /\ phase' = [phase EXCEPT ![j] = "queued"]
    /\ holder' = [holder EXCEPT ![j] = Nobody]
    /\ UNCHANGED tries

End(j) ==
    /\ phase[j] = "held"
    /\ phase' = [phase EXCEPT ![j] = "over"]
    /\ holder' = [holder EXCEPT ![j] = Nobody]
    /\ UNCHANGED tries

\* The producer changes its mind: it withdraws jobs nobody holds, queues one,
\* and may give back the attempts of one.
Revise ==
    \E withdrawn \in SUBSET Jobs, submitted \in SUBSET Jobs, renewed \in SUBSET Jobs :
        /\ \A j \in withdrawn : phase[j] = "queued"
        /\ \A j \in submitted : phase[j] = "none"
        /\ phase' = [j \in Jobs |-> IF j \in withdrawn THEN "over"
                                    ELSE IF j \in submitted THEN "queued"
                                    ELSE phase[j]]
        /\ tries' = [j \in Jobs |-> IF j \in renewed THEN 0 ELSE tries[j]]
        /\ UNCHANGED holder

Next ==
    \/ \E j \in Jobs : Submit(j) \/ Release(j) \/ End(j)
    \/ \E w \in Workers, j \in Jobs : Take(w, j)
    \/ Revise

Spec == Init /\ [][Next]_lifecycle
=============================================================================
