------------------------------- MODULE GpuPriority -------------------------------
(***************************************************************************)
(* Chat before indexing on one GPU: the marker file by which the API tells *)
(* the indexer that a turn is under way (GpuResourceCoordinator), and the  *)
(* indexer that looks for it before each batch                             *)
(* (ContinuousIndexer._yield_to_chat_if_needed).                           *)
(*                                                                         *)
(* Time is kept as ages, which stop growing one above `Stale', so that the *)
(* marker may grow stale again and again.                                  *)
(***************************************************************************)
EXTENDS Integers, FiniteSets

CONSTANTS
    Asks,       \* the turns that may be under way at a time; each asks again and again
    Stale,      \* stale_seconds
    TurnLimit,  \* chat_request_timeout_seconds, by which a turn is over
    CanFail     \* whether the runtime directory may refuse a write or a reading

ASSUME PriorityAssumption ==
    /\ Stale \in Nat /\ TurnLimit \in Nat /\ TurnLimit < Stale
    /\ CanFail \in BOOLEAN

NoTime == -1
Ages == 0..(Stale + 1)

VARIABLES
    ask,        \* ask[t]: "idle", "owner", "unprioritized"; and its age
    since,      \* age of _priority_started_epoch, or NoTime
    marker,     \* the file: the age of its started_epoch, or NoTime
    indexer,    \* where the indexer is, and whether its model is on the GPU
    stopped,    \* stop_event
    batches,    \* history: batches begun since the first of the owners came, but for
                \* those begun because of stop_event or an unreadable marker
    robbed      \* history: since then the indexer removed a marker it had not read

gpuVars == <<ask, since, marker, indexer, stopped, batches, robbed>>

Owners == {t \in Asks : ask[t].pc = "owner"}

GpuInit ==
    /\ ask = [t \in Asks |-> [pc |-> "idle", age |-> 0]]
    /\ since = NoTime /\ marker = NoTime
    /\ indexer = [pc |-> "ready", resident |-> TRUE] /\ stopped = FALSE
    /\ batches = 0 /\ robbed = FALSE

-------------------------------------------------------------------------------
\* Time.

Older(age) == IF age = NoTime THEN NoTime ELSE IF age > Stale THEN age ELSE age + 1

\* A turn that has reached its limit ends before time goes on.
Tick ==
    /\ \A t \in Asks : ask[t].pc \in {"owner", "unprioritized"} => ask[t].age < TurnLimit
    /\ ask' = [t \in Asks |-> IF ask[t].pc \in {"owner", "unprioritized"}
                              THEN [ask[t] EXCEPT !.age = @ + 1] ELSE ask[t]]
    /\ since' = Older(since) /\ marker' = Older(marker)
    /\ UNCHANGED <<indexer, stopped, batches, robbed>>

-------------------------------------------------------------------------------
\* chat_priority; every block under _owner_lock is one step.

Becomes(t, pc) == ask' = [ask EXCEPT ![t] = [pc |-> pc, age |-> 0]]

\* The marker carries the time of the first of the turns that overlap.
Begin(t) ==
    /\ ask[t].pc = "idle"
    /\ Becomes(t, "owner")
    /\ since' = IF since = NoTime THEN 0 ELSE since
    /\ marker' = since'
    /\ batches' = IF Owners = {} THEN 0 ELSE batches
    /\ robbed' = (robbed /\ Owners # {})
    /\ UNCHANGED <<indexer, stopped>>

\* OSError: the turn goes on without priority, and a marker of others stays.
BeginUnwritten(t) ==
    /\ CanFail /\ ask[t].pc = "idle"
    /\ Becomes(t, "unprioritized")
    /\ since' = IF Owners = {} THEN NoTime ELSE since
    /\ UNCHANGED <<marker, indexer, stopped, batches, robbed>>

\* Mutant: the marker goes with whoever leaves first.
EndAskUnlinking(t) ==
    /\ ask[t].pc = "owner"
    /\ Becomes(t, "idle")
    /\ since' = IF Owners = {t} THEN NoTime ELSE since
    /\ marker' = NoTime
    /\ UNCHANGED <<indexer, stopped, batches, robbed>>

\* The finally: the last owner unlinks the marker, the others write it again.
EndAsk(t) ==
    /\ ask[t].pc = "owner"
    /\ Becomes(t, "idle")
    /\ since' = IF Owners = {t} THEN NoTime ELSE since
    /\ marker' = since'
    /\ UNCHANGED <<indexer, stopped, batches, robbed>>

\* OSError in the finally, after the owner was released.
EndAskUnwritten(t) ==
    /\ CanFail /\ ask[t].pc = "owner"
    /\ Becomes(t, "idle")
    /\ since' = IF Owners = {t} THEN NoTime ELSE since
    /\ UNCHANGED <<marker, indexer, stopped, batches, robbed>>

EndUnprioritized(t) ==
    /\ ask[t].pc = "unprioritized"
    /\ Becomes(t, "idle")
    /\ UNCHANGED <<since, marker, indexer, stopped, batches, robbed>>

\* The API dies: its turns are over, the marker stays.
Die ==
    /\ \E t \in Asks : ask[t].pc \in {"owner", "unprioritized"}
    /\ ask' = [t \in Asks |-> [pc |-> "idle", age |-> 0]]
    /\ since' = NoTime
    /\ UNCHANGED <<marker, indexer, stopped, batches, robbed>>

-------------------------------------------------------------------------------
\* The indexer; chat_active is one reading, followed by an unlinking. It is at
\* "embed" after a reading that found no turn, and at "embed anyway" otherwise.

IndexerAt(pc) == [indexer EXCEPT !.pc = pc]

\* _yield_to_chat_if_needed begins.
Look ==
    /\ indexer.pc = "ready"
    /\ indexer' = IF marker = NoTime THEN IndexerAt("embed")
                  ELSE IF marker > Stale THEN IndexerAt("unlink") ELSE IndexerAt("release")
    /\ UNCHANGED <<ask, since, marker, stopped, batches, robbed>>

\* A stale marker is removed, or whatever has replaced it since.
Unlink ==
    /\ indexer.pc \in {"unlink", "unlink again"}
    /\ marker' = NoTime
    /\ robbed' = (robbed \/ marker \in 0..Stale)
    /\ indexer' = IndexerAt("embed")
    /\ UNCHANGED <<ask, since, stopped, batches>>

\* release_indexer_gpu, whose failure is logged.
ReleaseGpu ==
    /\ indexer.pc = "release"
    /\ indexer' \in {[pc |-> "wait", resident |-> FALSE]}
                      \union (IF CanFail THEN {IndexerAt("wait")} ELSE {})
    /\ UNCHANGED <<ask, since, marker, stopped, batches, robbed>>

\* Mutant: the wait is for a marker of an age that was fresh once.
PollForever ==
    /\ indexer.pc = "wait"
    /\ indexer' = IF marker = NoTime THEN IndexerAt("embed")
                  ELSE IF stopped THEN IndexerAt("embed anyway") ELSE IndexerAt("wait")
    /\ UNCHANGED <<ask, since, marker, stopped, batches, robbed>>

\* wait_for_chat looks at the marker first and then at stop_event.
Poll ==
    /\ indexer.pc = "wait"
    /\ indexer' = IF marker = NoTime THEN IndexerAt("embed")
                  ELSE IF marker > Stale THEN IndexerAt("unlink again")
                  ELSE IF stopped THEN IndexerAt("embed anyway") ELSE IndexerAt("wait")
    /\ UNCHANGED <<ask, since, marker, stopped, batches, robbed>>

\* A marker that cannot be read, here or there, is no marker.
Misread ==
    /\ CanFail /\ marker # NoTime
    /\ indexer.pc \in {"ready", "wait"}
    /\ indexer' = IndexerAt("embed anyway")
    /\ UNCHANGED <<ask, since, marker, stopped, batches, robbed>>

\* embed_chunk_batch moves the model to its device first. The loop over the
\* batches of a pass does not look at stop_event.
Embed ==
    /\ indexer.pc \in {"embed", "embed anyway"}
    /\ indexer' = [pc |-> "ready", resident |-> TRUE]
    /\ batches' = IF Owners # {} /\ indexer.pc = "embed" /\ batches < 2 THEN batches + 1
                  ELSE batches
    /\ UNCHANGED <<ask, since, marker, stopped, robbed>>

\* _release_idle_gpu_if_due, when there is nothing to embed.
ReleaseIdle ==
    /\ indexer = [pc |-> "ready", resident |-> TRUE]
    /\ indexer' = [indexer EXCEPT !.resident = FALSE]
    /\ UNCHANGED <<ask, since, marker, stopped, batches, robbed>>

\* stop, or a heartbeat that failed.
StopIndexer ==
    /\ ~stopped /\ indexer.pc # "gone"
    /\ stopped' = TRUE
    /\ UNCHANGED <<ask, since, marker, indexer, batches, robbed>>

\* run returns after the batches of the pass, and the process with it.
IndexerEnds ==
    /\ stopped /\ indexer.pc = "ready"
    /\ indexer' = [pc |-> "gone", resident |-> FALSE]
    /\ UNCHANGED <<ask, since, marker, stopped, batches, robbed>>

\* Somebody starts the indexer again.
StartAgain ==
    /\ indexer.pc = "gone"
    /\ indexer' = [pc |-> "ready", resident |-> TRUE]
    /\ stopped' = FALSE
    /\ UNCHANGED <<ask, since, marker, batches, robbed>>

Batch == Look \/ Unlink \/ ReleaseGpu \/ Poll \/ Embed

-------------------------------------------------------------------------------
GpuNext ==
    \/ Tick \/ Die \/ Batch \/ Misread \/ ReleaseIdle \/ StopIndexer \/ IndexerEnds \/ StartAgain
    \/ \E t \in Asks : Begin(t) \/ BeginUnwritten(t) \/ EndAsk(t) \/ EndAskUnwritten(t)
                          \/ EndUnprioritized(t)

GpuSpec == GpuInit /\ [][GpuNext]_gpuVars

\* Time passes, turns end by their limit, and the indexer has batches to embed. No
\* fairness makes a reading fail, the indexer stop, or a poll meet a gap between turns.
GpuFairness ==
    /\ WF_gpuVars(Tick) /\ WF_gpuVars(Batch)
    /\ \A t \in Asks : WF_gpuVars(EndAsk(t) \/ EndAskUnwritten(t) \/ EndUnprioritized(t))

-------------------------------------------------------------------------------
GpuTypeOK ==
    /\ ask \in [Asks -> [pc : {"idle", "owner", "unprioritized"}, age : 0..TurnLimit]]
    /\ since \in Ages \union {NoTime} /\ marker \in Ages \union {NoTime}
    /\ indexer \in [pc : {"ready", "unlink", "unlink again", "release", "wait", "embed",
                          "embed anyway", "gone"}, resident : BOOLEAN]
    /\ stopped \in BOOLEAN /\ batches \in 0..2 /\ robbed \in BOOLEAN

(***************************************************************************)
(* Once a turn has priority, the indexer begins at most the one batch it   *)
(* had decided on (CONTINUOUS_INDEXING_ARCHITECTURE.md:503-507), however   *)
(* turns overlap, end, fail to write, or leave a marker of the dead, and   *)
(* whether or not it was stopped and started again. Not promised are       *)
(*   - the batches of an indexer that was told to stop while it waits, and *)
(*     the one batch that each unreadable marker costs: `batches' leaves   *)
(*     them out;                                                           *)
(*   - turns that overlap for longer than a marker counts: it has the age  *)
(*     of the first of them, who may be long gone;                         *)
(*   - what the indexer does after it has read a stale marker and removed  *)
(*     its successor.                                                      *)
(***************************************************************************)
IndexerYields == Owners # {} /\ since <= Stale /\ ~robbed => batches <= 1

(***************************************************************************)
(* The indexer is not held up for good by turns that overlap for ever nor  *)
(* once no turn comes any more, though the API may die and leave its       *)
(* marker, and markers are written again and again. Turns that come and go *)
(* for ever may hold it up: each has a new marker, and a poll sees nothing *)
(* of a gap between two of them.                                           *)
(***************************************************************************)
IndexerGoesOn ==
    <>[](Owners = {}) \/ <>[](Owners # {})
        => (indexer.pc = "wait" ~> indexer.pc \in {"embed", "embed anyway"})

=============================================================================
