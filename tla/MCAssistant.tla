------------------------------ MODULE MCAssistant ------------------------------
(***************************************************************************)
(* The assistant for TLC: the admission of turns (ChatConcurrency), the    *)
(* way of one answer to the screen (ChatStream), and the priority of turns *)
(* over the indexer (GpuPriority).                                         *)
(*                                                                         *)
(* As in MCDocumentIndexing, the three have no variable in common and are  *)
(* checked side by side; `part' says which of them a behavior is of.       *)
(***************************************************************************)
EXTENDS MCChatConcurrency, ChatStream, GpuPriority

VARIABLE part

allVars == <<part, vars, streamVars, gpuVars>>

InAdmission(A) == part = "admission" /\ A /\ UNCHANGED <<part, streamVars, gpuVars>>
InStream(A) == part = "stream" /\ A /\ UNCHANGED <<part, vars, gpuVars>>
InPriority(A) == part = "priority" /\ A /\ UNCHANGED <<part, vars, streamVars>>

AssistantInit ==
    part \in {"admission", "stream", "priority"} /\ Init /\ StreamInit /\ GpuInit

AssistantNext == InAdmission(Next) \/ InStream(StreamNext) \/ InPriority(GpuNext)

\* The fairness of the three parts.
AssistantSpec ==
    /\ AssistantInit /\ [][AssistantNext]_allVars
    /\ WF_allVars(InAdmission(Dispatch))
    /\ \A t \in Turns : WF_allVars(InAdmission(Work(t)))
    /\ WF_allVars(InStream(TurnThread))
    /\ WF_allVars(InStream(Body))
    /\ WF_allVars(InStream(Browser))
    /\ WF_allVars(InPriority(Tick))
    /\ WF_allVars(InPriority(Batch))
    /\ \A t \in Asks :
            WF_allVars(InPriority(EndAsk(t) \/ EndAskUnwritten(t) \/ EndUnprioritized(t)))

Types == TypeOK /\ StreamTypeOK /\ GpuTypeOK

================================================================================
