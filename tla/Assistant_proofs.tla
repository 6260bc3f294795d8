--------------------------- MODULE Assistant_proofs ---------------------------
(***************************************************************************)
(* What ChatConcurrency and GpuPriority promise, for any number of users,  *)
(* turns and places, any age at which a marker is stale and any limit of a *)
(* turn below it.                                                          *)
(*                                                                         *)
(* What a client is told about its turn is true.  The argument is about    *)
(* one turn and its worker: who is dispatched, and who is granted the      *)
(* gate, does not matter to it.                                            *)
(*                                                                         *)
(* The queues are exact, no grant is lost, and nobody is passed over       *)
(* twice.  Each operation on a queue and its ring is a lemma: what it does *)
(* to who waits, and to the order of the ring.  Granting is a recursion;   *)
(* each round of it that does not find the gate full or empty removes a    *)
(* waiter, so that as many rounds as there are turns are enough.  Who has  *)
(* been passed over by v is ahead of v in the ring from then on.           *)
(*                                                                         *)
(* That the indexer begins at most one batch is not inductive: it is so    *)
(* because, as long as turns overlap for no longer than a marker counts,   *)
(* the file holds what the coordinator believes to have written, and the   *)
(* indexer that has begun a batch since cannot be about to begin another.  *)
(***************************************************************************)
EXTENDS MCAssistant, ChatStream_proofs, FiniteSetTheorems

-------------------------------------------------------------------------------
(* ChatConcurrency *)

\* A worker that has committed, and only it, may say so; one that ends has spoken.
TruthIn(r) ==
    /\ r.pc = "committed" => r.stored
    /\ r.pc \in {"ending", "over"} => r.terminal # "none"
    /\ r.terminal = "result" => r.stored

TruthInv ==
    /\ turn \in [Turns -> TurnStates]
    /\ \A t \in Turns : TruthIn(turn[t])

-------------------------------------------------------------------------------
\* A turn that stops has told its client something; "result" only when it is stored.
LEMMA StopTells ==
    ASSUME TruthInv, NEW t \in Turns, NEW event \in {"result", "error", "cancelled"},
           event = "result" => turn[t].stored,
           turn' = Stop(t, event)
    PROVE  TruthInv'
<1>1. turn' \in [Turns -> TurnStates]
  <2>1. [turn[t] EXCEPT !.pc = "ending", !.terminal = Emit(t, event)] \in TurnStates
    <3>1. turn[t] \in TurnStates
      BY DEF TruthInv
    <3> QED BY <3>1 DEF Emit, TurnStates, Running
  <2>2. turn' = [turn EXCEPT ![t] = [turn[t] EXCEPT !.pc = "ending", !.terminal = Emit(t, event)]]
    BY DEF TruthInv, Stop
  <2> QED BY <2>1, <2>2 DEF TruthInv
<1>2. \A s \in Turns : TruthIn(turn'[s])
  BY DEF TruthInv, TruthIn, Stop, Emit, TurnStates, Running
<1> QED BY <1>1, <1>2 DEF TruthInv

\* A turn that goes on to a place where nothing is claimed yet.
LEMMA ProceedTells ==
    ASSUME TruthInv, NEW t \in Turns,
           NEW s \in {"started", "waiting", "holding", "answered", "persisting"},
           turn' = [turn EXCEPT ![t].pc = s]
    PROVE  TruthInv'
<1>1. turn' \in [Turns -> TurnStates]
  BY DEF TruthInv, TurnStates, Running
<1>2. \A u \in Turns : TruthIn(turn'[u])
  BY DEF TruthInv, TruthIn, TurnStates, Running
<1> QED BY <1>1, <1>2 DEF TruthInv

\* A turn that ends without a worker is told so.
LEMMA EndedTells ==
    ASSUME TruthInv, NEW t \in Turns, NEW event \in {"error", "cancelled"},
           turn' = Ended(t, event)
    PROVE  TruthInv'
<1>1. turn' \in [Turns -> TurnStates]
  <2> DEFINE r == [turn[t] EXCEPT !.pc = "over", !.cancelled = TRUE, !.terminal = event]
  <2>1. r \in TurnStates
    <3>1. turn[t] \in TurnStates
      BY DEF TruthInv
    <3> QED BY <3>1 DEF TurnStates, Running
  <2>2. turn' = [turn EXCEPT ![t] = r]
    BY DEF TruthInv, Ended
  <2> HIDE DEF r
  <2> QED BY <2>1, <2>2 DEF TruthInv
<1>2. \A s \in Turns : TruthIn(turn'[s])
  BY DEF TruthInv, TruthIn, Ended, TurnStates, Running
<1> QED BY <1>1, <1>2 DEF TruthInv

-------------------------------------------------------------------------------
\* Nothing has been claimed of turns that have not begun.
LEMMA TruthInit == Init => TruthInv
<1>1. Over \in TurnStates
  BY DEF Over, Fresh, TurnStates, Running
<1>2. TruthIn(Over)
  BY DEF TruthIn, Over, Fresh
<1> QED BY <1>1, <1>2 DEF Init, TruthInv

\* A client submits a turn or takes it back.
LEMMA TruthClient ==
    ASSUME TruthInv, NEW t \in Turns, Client(t)
    PROVE  TruthInv'
<1>1. CASE Submit(t)
  <2>1. turn' \in [Turns -> TurnStates]
    BY <1>1 DEF Submit, TruthInv, Fresh, TurnStates, Running
  <2>2. \A s \in Turns : TruthIn(turn'[s])
    BY <1>1 DEF Submit, TruthInv, TruthIn, Fresh, TurnStates, Running
  <2> QED BY <2>1, <2>2 DEF TruthInv
<1>2. CASE Cancel(t)
  <2>1. CASE At(t, "queued")
    BY <1>2, <2>1, EndedTells DEF Cancel
  <2>2. CASE ~At(t, "queued")
    <3>1. turn' = [turn EXCEPT ![t].cancelled = TRUE]
      BY <1>2, <2>2 DEF Cancel
    <3>2. turn' \in [Turns -> TurnStates]
      BY <3>1 DEF TruthInv, TurnStates, Running
    <3>3. \A s \in Turns : TruthIn(turn'[s])
      BY <3>1 DEF TruthInv, TruthIn, TurnStates, Running
    <3> QED BY <3>2, <3>3 DEF TruthInv
  <2> QED BY <2>1, <2>2
<1> QED BY <1>1, <1>2 DEF Client

\* The dispatcher starts a turn, ends it, or moves the ring only.
LEMMA TruthDispatch ==
    ASSUME TruthInv, Dispatch \/ DispatchNobody
    PROVE  TruthInv'
<1>1. CASE Dispatch
  <2>1. PICK t : turn' = [turn EXCEPT ![t].pc = "started"] \/ turn' = Ended(t, "error")
    BY <1>1 DEF Dispatch
  <2>2. CASE t \in Turns
    BY <2>1, <2>2, ProceedTells, EndedTells
  <2>3. CASE t \notin Turns
    <3>1. turn' = turn
      BY <2>1, <2>3 DEF TruthInv, Ended
    <3> QED BY <3>1 DEF TruthInv, TruthIn
  <2> QED BY <2>2, <2>3
<1>2. CASE DispatchNobody
  BY <1>2 DEF DispatchNobody, TruthInv, TruthIn
<1> QED BY <1>1, <1>2

\* The shutdown.
LEMMA TruthClose ==
    ASSUME TruthInv, Close
    PROVE  TruthInv'
<1>1. ASSUME NEW t \in Turns
      PROVE  turn'[t] \in TurnStates /\ TruthIn(turn'[t])
  <2>1. CASE At(t, "queued")
    <3>1. turn'[t] = [turn[t] EXCEPT !.pc = "over", !.cancelled = TRUE,
                                     !.terminal = "cancelled"]
      BY <2>1 DEF Close, Ended, TruthInv
    <3>2. turn[t] \in TurnStates
      BY DEF TruthInv
    <3> QED BY <3>1, <3>2 DEF TruthIn, TurnStates
  <2>2. CASE ~At(t, "queued") /\ t \in Active
    <3>1. turn'[t] = [turn[t] EXCEPT !.cancelled = TRUE]
      BY <2>2 DEF Close
    <3>2. turn[t] \in TurnStates /\ TruthIn(turn[t])
      BY DEF TruthInv
    <3> QED BY <3>1, <3>2 DEF TruthIn, TurnStates
  <2>3. CASE ~At(t, "queued") /\ t \notin Active
    <3>1. turn'[t] = turn[t]
      BY <2>3 DEF Close
    <3> QED BY <3>1 DEF TruthInv, TruthIn
  <2> QED BY <2>1, <2>2, <2>3
<1>2. turn' = [t \in Turns |-> turn'[t]]
  BY DEF Close
<1> QED BY <1>1, <1>2 DEF TruthInv

\* A worker, whatever becomes of its turn.
LEMMA TruthWork ==
    ASSUME TruthInv, NEW t \in Turns, Work(t) \/ Fail(t) \/ TimeOut(t)
    PROVE  TruthInv'
<1>0. ASSUME Interrupted(t) PROVE TruthInv'
  BY <1>0, StopTells DEF Interrupted
<1>1. CASE Enter(t)
  BY <1>0, <1>1, ProceedTells DEF Enter, Proceed
<1>2. CASE Acquire(t)
  BY <1>2, ProceedTells DEF Acquire, Proceed
<1>3. CASE StopWaiting(t)
  BY <1>0, <1>3 DEF StopWaiting
<1>4. CASE Leave(t)
  BY <1>0, <1>4, ProceedTells DEF Leave, Proceed
<1>5. CASE StartPersisting(t)
  BY <1>0, <1>5, ProceedTells DEF StartPersisting, Proceed
<1>6. CASE Commit(t)
  <2>1. turn' = [turn EXCEPT ![t].pc = "committed", ![t].stored = TRUE]
    BY <1>6 DEF Commit
  <2>2. turn' \in [Turns -> TurnStates]
    BY <2>1 DEF TruthInv, TurnStates, Running
  <2>3. \A s \in Turns : TruthIn(turn'[s])
    BY <2>1 DEF TruthInv, TruthIn, TurnStates, Running
  <2> QED BY <2>2, <2>3 DEF TruthInv
<1>7. CASE Report(t)
  <2>1. turn[t].stored
    BY <1>7 DEF Report, At, TruthInv, TruthIn
  <2> QED BY <1>0, <1>7, <2>1, StopTells DEF Report
<1>8. CASE End(t)
  <2>1. turn[t].pc = "ending" /\ turn' = [turn EXCEPT ![t].pc = "over"]
    BY <1>8 DEF End, At
  <2>2. turn' \in [Turns -> TurnStates]
    BY <2>1 DEF TruthInv, TurnStates, Running
  <2>3. \A s \in Turns : TruthIn(turn'[s])
    BY <2>1 DEF TruthInv, TruthIn, TurnStates, Running
  <2> QED BY <2>2, <2>3 DEF TruthInv
<1>9. CASE Fail(t)
  BY <1>9, StopTells DEF Fail
<1>10. CASE TimeOut(t)
  <2>1. turn' = [Stop(t, "error") EXCEPT ![t].cancelled = TRUE]
    BY <1>10 DEF TimeOut
  <2>2. turn' = [turn EXCEPT ![t] = [turn[t] EXCEPT !.pc = "ending", !.cancelled = TRUE,
                                                    !.terminal = Emit(t, "error")]]
    BY <2>1 DEF TruthInv, Stop
  <2>3. turn[t] \in TurnStates /\ TruthIn(turn[t])
    BY DEF TruthInv
  <2>4. turn'[t] \in TurnStates /\ TruthIn(turn'[t])
    BY <2>2, <2>3 DEF TruthInv, TruthIn, Emit, TurnStates, Running
  <2>5. ASSUME NEW s \in Turns, s # t PROVE turn'[s] = turn[s]
    BY <2>2, <2>5 DEF TruthInv
  <2>6. turn' = [s \in Turns |-> turn'[s]]
    BY <2>2 DEF TruthInv
  <2> QED BY <2>4, <2>5, <2>6 DEF TruthInv
<1> QED BY <1>1, <1>2, <1>3, <1>4, <1>5, <1>6, <1>7, <1>8, <1>9, <1>10 DEF Work

\* Every step of the controller keeps what turns say true.
LEMMA TruthStep == TruthInv /\ [Next]_vars => TruthInv'
<1> SUFFICES ASSUME TruthInv, [Next]_vars PROVE TruthInv'
  OBVIOUS
<1>1. CASE Dispatch \/ DispatchNobody
  BY <1>1, TruthDispatch
<1>2. CASE Close
  BY <1>2, TruthClose
<1>3. ASSUME NEW t \in Turns, Client(t) PROVE TruthInv'
  BY <1>3, TruthClient
<1>4. ASSUME NEW t \in Turns, Expire(t) PROVE TruthInv'
  BY <1>4, EndedTells DEF Expire
<1>5. ASSUME NEW t \in Turns, Work(t) \/ Fail(t) \/ TimeOut(t) PROVE TruthInv'
  BY <1>5, TruthWork
<1>6. CASE UNCHANGED vars
  BY <1>6 DEF vars, TruthInv, TruthIn
<1> QED BY <1>1, <1>2, <1>3, <1>4, <1>5, <1>6 DEF Next

-------------------------------------------------------------------------------
\* A turn that is over has told its client how it ended, and a client that is told
\* "result" can find both messages in the database: commit, report and the many ways
\* to be stopped in between (execute of routes/chat.py, _run_record).
THEOREM OutcomesAreTrue == Spec => []OutcomeIsTrue
<1>1. TruthInv => OutcomeIsTrue
  BY DEF TruthInv, TruthIn, OutcomeIsTrue, At
<1> QED BY <1>1, TruthInit, TruthStep, PTL DEF Spec

-------------------------------------------------------------------------------
\* Queues and rings.

\* The queues and the ring of the line or of the gate: each turn waits once, in the
\* queue of its user, and a user is in the ring, once, if and only if a turn of it waits.
IsQueueOf(u, s) == s \in Seq(Turns) /\ IsInjective(s) /\ \A t \in Range(s) : UserOf[t] = u

QueuesHold(queue) ==
    queue \in [Users -> Seq(Turns)] /\ \A u \in Users : IsQueueOf(u, queue[u])

Replaced(queue, u, s, queue2) == queue2 = [queue EXCEPT ![u] = s]

RingHolds(queue, ring) ==
    /\ ring \in Seq(Users)
    /\ IsInjective(ring)
    /\ Range(ring) = {u \in Users : queue[u] # <<>>}

Waiting(queue) == UNION {Range(queue[u]) : u \in Users}

\* Only u's queue has changed, to s.
OnlyChanged(queue, u, s, queue2) ==
    /\ QueuesHold(queue2)
    /\ queue2[u] = s /\ \A v \in Users \ {u} : queue2[v] = queue[v]
    /\ Waiting(queue2) = (Waiting(queue) \ Range(queue[u])) \union Range(s)

\* Who is not served keeps the order to everybody else.
KeepsOrder(served, ring, ring2) ==
    \A u \in Range(ring) \ served : \A v : Ahead(ring, u, v) => Ahead(ring2, u, v)

-------------------------------------------------------------------------------
\* One user's queue becomes s.
LEMMA QueueReplaced ==
    ASSUME NEW queue, QueuesHold(queue), NEW u \in Users, NEW s, IsQueueOf(u, s),
           NEW queue2, Replaced(queue, u, s, queue2)
    PROVE  OnlyChanged(queue, u, s, queue2)
<1>1. queue2 \in [Users -> Seq(Turns)] /\ queue2[u] = s
  BY DEF QueuesHold, Replaced, IsQueueOf
<1>2. \A v \in Users \ {u} : queue2[v] = queue[v]
  BY DEF QueuesHold, Replaced
<1>3. QueuesHold(queue2)
  <2>1. \A v \in Users : IsQueueOf(v, queue2[v])
    BY <1>1, <1>2 DEF QueuesHold
  <2> QED BY <1>1, <2>1 DEF QueuesHold
<1>4. ASSUME NEW t PROVE t \in Waiting(queue2) <=>
                            (t \in Waiting(queue) /\ t \notin Range(queue[u])) \/ t \in Range(s)
  <2>1. ASSUME t \in Waiting(queue2), t \notin Range(s)
        PROVE  t \in Waiting(queue) /\ t \notin Range(queue[u])
    <3>1. PICK v \in Users : t \in Range(queue2[v])
      BY <2>1 DEF Waiting
    <3>2. v # u /\ t \in Range(queue[v])
      BY <1>1, <1>2, <2>1, <3>1
    <3>3. UserOf[t] = v
      BY <3>2 DEF QueuesHold, IsQueueOf
    <3> QED BY <3>2, <3>3 DEF Waiting, QueuesHold, IsQueueOf
  <2>2. ASSUME t \in Range(s) PROVE t \in Waiting(queue2)
    BY <1>1, <2>2 DEF Waiting
  <2>3. ASSUME t \in Waiting(queue), t \notin Range(queue[u]) PROVE t \in Waiting(queue2)
    <3>1. PICK v \in Users : t \in Range(queue[v])
      BY <2>3 DEF Waiting
    <3>2. v # u
      BY <2>3, <3>1
    <3> QED BY <1>2, <3>1, <3>2 DEF Waiting
  <2> QED BY <2>1, <2>2, <2>3
<1>5. Waiting(queue2) = (Waiting(queue) \ Range(queue[u])) \union Range(s)
  BY <1>4
<1> QED BY <1>1, <1>2, <1>3, <1>5 DEF OnlyChanged

\* Where a turn waits.
LEMMA WaitsInItsQueue ==
    ASSUME NEW queue, QueuesHold(queue)
    PROVE  /\ Waiting(queue) \subseteq Turns
           /\ \A t : t \in Waiting(queue) <=> t \in Turns /\ t \in Range(queue[UserOf[t]])
           /\ \A u \in Users : queue[u] = <<>> <=> Range(queue[u]) = {}
<1>1. ASSUME NEW u \in Users
      PROVE  Range(queue[u]) \subseteq Turns /\ (queue[u] = <<>> <=> Range(queue[u]) = {})
  <2>1. queue[u] \in Seq(Turns)
    BY DEF QueuesHold
  <2> QED BY <2>1, RangeOfSequence
<1>2. \A t \in Turns : UserOf[t] \in Users
  BY ChatAssumption
<1> QED BY <1>1, <1>2 DEF Waiting, QueuesHold, IsQueueOf

-------------------------------------------------------------------------------
Joins(ring, u, ring2) == ring2 = IF Contains(ring, u) THEN ring ELSE Append(ring, u)
Leaves(ring, u, rest, ring2) == ring2 = IF rest = <<>> THEN Without(ring, u) ELSE ring

\* Put
LEMMA PutHolds ==
    ASSUME NEW queue, NEW ring, QueuesHold(queue), RingHolds(queue, ring),
           NEW t \in Turns, t \notin Waiting(queue),
           NEW s, s = Append(queue[UserOf[t]], t),
           NEW queue2, Replaced(queue, UserOf[t], s, queue2),
           NEW ring2, Joins(ring, UserOf[t], ring2)
    PROVE  /\ QueuesHold(queue2) /\ RingHolds(queue2, ring2)
           /\ Waiting(queue2) = Waiting(queue) \union {t}
           /\ \A v \in Users \ {UserOf[t]} : queue2[v] = queue[v]
           /\ KeepsOrder({}, ring, ring2)
<1>0. PICK u \in Users : u = UserOf[t]
  BY ChatAssumption
<1>1. s = Append(queue[u], t)
  BY <1>0
<1>2. queue[u] \in Seq(Turns) /\ IsInjective(queue[u])
      /\ \A x \in Range(queue[u]) : UserOf[x] = u
  BY DEF QueuesHold, IsQueueOf
<1>3. t \notin Range(queue[u])
  BY <1>0 DEF Waiting
<1>4. /\ s \in Seq(Turns) /\ s # <<>> /\ IsInjective(s)
      /\ Range(s) = Range(queue[u]) \union {t}
  BY <1>1, <1>2, <1>3, AppendedOnce
<1>5. IsQueueOf(u, s)
  BY <1>0, <1>2, <1>4 DEF IsQueueOf
<1>6. Replaced(queue, u, s, queue2)
  BY <1>0, <1>1
<1>7. /\ QueuesHold(queue2) /\ queue2[u] = s
      /\ \A v \in Users \ {u} : queue2[v] = queue[v]
      /\ Waiting(queue2) = (Waiting(queue) \ Range(queue[u])) \union Range(s)
  <2>1. OnlyChanged(queue, u, s, queue2)
    BY <1>5, <1>6, QueueReplaced
  <2> QED BY <2>1 DEF OnlyChanged
<1>8. Range(queue[u]) \subseteq Waiting(queue)
  BY DEF Waiting
<1>9. Waiting(queue2) = Waiting(queue) \union {t}
  BY <1>4, <1>7, <1>8
<1>10. ring \in Seq(Users) /\ IsInjective(ring)
       /\ Range(ring) = {v \in Users : queue[v] # <<>>}
  BY DEF RingHolds
<1>11. Contains(ring, u) <=> u \in Range(ring)
  BY <1>10, RangeOfSequence DEF Contains
<1>12. ring2 \in Seq(Users) /\ IsInjective(ring2) /\ Range(ring2) = Range(ring) \union {u}
       /\ KeepsOrder({}, ring, ring2)
  <2>1. CASE u \in Range(ring)
    <3>1. ring2 = ring
      BY <1>0, <1>11, <2>1 DEF Joins
    <3> QED BY <1>10, <2>1, <3>1 DEF KeepsOrder
  <2>2. CASE u \notin Range(ring)
    <3>1. ring2 = Append(ring, u)
      BY <1>0, <1>11, <2>2 DEF Joins
    <3> QED BY <1>10, <2>2, <3>1, AppendedOnce DEF KeepsOrder
  <2> QED BY <2>1, <2>2
<1>13. Range(ring2) = {v \in Users : queue2[v] # <<>>}
  BY <1>4, <1>7, <1>10, <1>12
<1>14. RingHolds(queue2, ring2)
  BY <1>12, <1>13 DEF RingHolds
<1> QED BY <1>0, <1>4, <1>7, <1>9, <1>12, <1>14

\* _remove_queued_locked and _remove
LEMMA TakenOutHolds ==
    ASSUME NEW queue, NEW ring, QueuesHold(queue), RingHolds(queue, ring),
           NEW t \in Turns,
           NEW rest, rest = Without(queue[UserOf[t]], t),
           NEW queue2, Replaced(queue, UserOf[t], rest, queue2),
           NEW ring2, Leaves(ring, UserOf[t], rest, ring2)
    PROVE  /\ QueuesHold(queue2) /\ RingHolds(queue2, ring2)
           /\ Waiting(queue2) = Waiting(queue) \ {t}
           /\ \A u \in Users : queue2[u] # <<>> => queue[u] # <<>>
           /\ KeepsOrder({}, ring, ring2)
<1>0. PICK u \in Users : u = UserOf[t]
  BY ChatAssumption
<1>2. queue[u] \in Seq(Turns) /\ IsInjective(queue[u])
      /\ \A x \in Range(queue[u]) : UserOf[x] = u
  BY DEF QueuesHold, IsQueueOf
<1>4. rest \in Seq(Turns) /\ IsInjective(rest) /\ Range(rest) = Range(queue[u]) \ {t}
  BY <1>0, <1>2, WithoutProperties
<1>5. IsQueueOf(u, rest)
  BY <1>2, <1>4 DEF IsQueueOf
<1>6. Replaced(queue, u, rest, queue2)
  BY <1>0
<1>7. /\ QueuesHold(queue2) /\ queue2[u] = rest
      /\ \A v \in Users \ {u} : queue2[v] = queue[v]
      /\ Waiting(queue2) = (Waiting(queue) \ Range(queue[u])) \union Range(rest)
  <2>1. OnlyChanged(queue, u, rest, queue2)
    BY <1>5, <1>6, QueueReplaced
  <2> QED BY <2>1 DEF OnlyChanged
<1>8. Range(queue[u]) \subseteq Waiting(queue)
      /\ (t \in Waiting(queue) => t \in Range(queue[u]))
  <2>1. Range(queue[u]) \subseteq Waiting(queue)
    BY DEF Waiting
  <2>2. t \in Waiting(queue) => t \in Range(queue[u])
    BY <1>0, WaitsInItsQueue
  <2> QED BY <2>1, <2>2
<1>9. Waiting(queue2) = Waiting(queue) \ {t}
  BY <1>4, <1>7, <1>8
<1>10. ring \in Seq(Users) /\ IsInjective(ring)
       /\ Range(ring) = {v \in Users : queue[v] # <<>>}
  BY DEF RingHolds
<1>11. rest # <<>> => queue[u] # <<>>
  <2>1. (rest = <<>> <=> Range(rest) = {}) /\ (queue[u] = <<>> <=> Range(queue[u]) = {})
    BY <1>2, <1>4, RangeOfSequence
  <2> QED BY <1>4, <2>1
<1>12. ring2 \in Seq(Users) /\ IsInjective(ring2)
       /\ Range(ring2) = {v \in Users : queue2[v] # <<>>}
       /\ KeepsOrder({}, ring, ring2)
  <2>1. CASE rest = <<>>
    <3>1. ring2 = Without(ring, u)
      BY <1>0, <2>1 DEF Leaves
    <3>2. ring2 \in Seq(Users) /\ IsInjective(ring2) /\ Range(ring2) = Range(ring) \ {u}
          /\ \A v, w : Ahead(ring, v, w) => Ahead(ring2, v, w)
      BY <1>10, <3>1, WithoutProperties
    <3>3. Range(ring2) = {v \in Users : queue2[v] # <<>>}
      BY <1>7, <1>10, <2>1, <3>2
    <3> QED BY <3>2, <3>3 DEF KeepsOrder
  <2>2. CASE rest # <<>>
    <3>1. ring2 = ring
      BY <2>2 DEF Leaves
    <3>2. Range(ring2) = {v \in Users : queue2[v] # <<>>}
      BY <1>7, <1>10, <1>11, <2>2, <3>1
    <3> QED BY <1>10, <3>1, <3>2 DEF KeepsOrder
  <2> QED BY <2>1, <2>2
<1>13. \A v \in Users : queue2[v] # <<>> => queue[v] # <<>>
  BY <1>7, <1>11
<1>14. RingHolds(queue2, ring2)
  BY <1>12 DEF RingHolds
<1> QED BY <1>7, <1>9, <1>12, <1>13, <1>14

\* Rotated
LEMMA RotatedHolds ==
    ASSUME NEW queue, NEW ring, RingHolds(queue, ring), NEW last,
           NEW ring2, ring2 = IF Len(ring) > 1 /\ Head(ring) = last
                              THEN Append(Tail(ring), Head(ring)) ELSE ring
    PROVE  /\ RingHolds(queue, ring2) /\ Len(ring2) = Len(ring) /\ Range(ring2) = Range(ring)
           /\ KeepsOrder({last}, ring, ring2)
<1>1. ring \in Seq(Users) /\ IsInjective(ring)
      /\ Range(ring) = {v \in Users : queue[v] # <<>>}
  BY DEF RingHolds
<1>2. CASE Len(ring) > 1 /\ Head(ring) = last
  <2>1. ring2 = Append(Tail(ring), Head(ring))
    BY <1>2
  <2>2. ring2 \in Seq(Users) /\ Len(ring2) = Len(ring) /\ IsInjective(ring2)
        /\ Range(ring2) = Range(ring)
        /\ \A u, v : u # Head(ring) /\ Ahead(ring, u, v) => Ahead(ring2, u, v)
    BY <1>1, <1>2, <2>1, TurnedOnce
  <2> QED BY <1>1, <1>2, <2>2 DEF RingHolds, KeepsOrder
<1>3. CASE ~(Len(ring) > 1 /\ Head(ring) = last)
  <2>1. ring2 = ring
    BY <1>3
  <2> QED BY <1>1, <2>1 DEF RingHolds, KeepsOrder
<1> QED BY <1>2, <1>3

\* The ring after the user in the i-th place was served, which has more to do or not.
Skips(ring, i, rest, ring2) ==
    ring2 = SubSeq(ring, i + 1, Len(ring)) \o SubSeq(ring, 1, i - 1)
            \o (IF rest = <<>> THEN <<>> ELSE <<ring[i]>>)

\* A ring that goes round past position i keeps its members, but for the one that was served
\* and has nothing left; whoever was ahead of another, and was not served, still is.
LEMMA SkipsTo ==
    ASSUME NEW ring \in Seq(Users), IsInjective(ring), NEW i \in 1..Len(ring),
           NEW rest, NEW ring2, Skips(ring, i, rest, ring2)
    PROVE  /\ ring2 \in Seq(Users) /\ IsInjective(ring2)
           /\ Range(ring2) = IF rest = <<>> THEN Range(ring) \ {ring[i]} ELSE Range(ring)
           /\ \A j \in (i + 1)..Len(ring) : \A v :
                    v # ring[i] /\ Ahead(ring, ring[j], v) => Ahead(ring2, ring[j], v)
           /\ \A v : v # ring[i] => Ahead(ring2, v, ring[i])
<1>1. PICK r : r = SubSeq(ring, i + 1, Len(ring)) \o SubSeq(ring, 1, i - 1)
  OBVIOUS
<1>2. PICK u \in Users : u = ring[i]
  OBVIOUS
<1>3. u \in Range(ring)
  BY <1>2 DEF Range
<1>4. /\ r \in Seq(Users) /\ IsInjective(r) /\ Range(r) = Range(ring) \ {u}
      /\ \A j \in (i + 1)..Len(ring) : \A v : Ahead(ring, ring[j], v) => Ahead(r, ring[j], v)
  BY <1>1, <1>2, SkippedOnce
<1>5. r \in Seq(Users) /\ IsInjective(r) /\ Range(r) = Range(ring) \ {u}
  BY <1>4
<1>6. CASE rest = <<>>
  <2>1. ring2 = r
    <3>1. ring2 = r \o <<>>
      BY <1>1, <1>6 DEF Skips
    <3> QED BY <1>5, <3>1, ConcatEmptySeq
  <2>2. \A k \in 1..Len(r) : r[k] # u
    <3>1. DOMAIN r = 1..Len(r)
      BY <1>5
    <3> QED BY <1>5, <3>1 DEF Range
  <2>3. \A v : Ahead(ring2, v, u)
    BY <2>1, <2>2 DEF Ahead
  <2> QED BY <1>2, <1>4, <1>5, <1>6, <2>1, <2>3
<1>7. CASE rest # <<>>
  <2>1. ring2 = Append(r, u)
    <3>1. ring2 = r \o <<u>>
      BY <1>1, <1>2, <1>7 DEF Skips
    <3> QED BY <1>5, <3>1, AppendIsConcat
  <2>2. u \notin Range(r)
    BY <1>5
  <2>3. /\ ring2 \in Seq(Users) /\ IsInjective(ring2) /\ Range(ring2) = Range(r) \union {u}
        /\ \A v \in Range(r) : \A w : Ahead(r, v, w) => Ahead(ring2, v, w)
        /\ \A v : v # u => Ahead(ring2, v, u)
    BY <1>5, <2>1, <2>2, AppendedOnce
  <2>4. Range(ring2) = Range(ring)
    BY <1>3, <1>5, <2>3
  <2>5. ASSUME NEW j \in (i + 1)..Len(ring), NEW v, Ahead(ring, ring[j], v)
        PROVE  Ahead(ring2, ring[j], v)
    <3>1. Ahead(r, ring[j], v)
      BY <1>4, <2>5
    <3>2. ring[j] \in Range(r)
      <4>1. j \in DOMAIN ring /\ i \in DOMAIN ring /\ j # i
        OBVIOUS
      <4>2. ring[j] # ring[i] /\ ring[j] \in Range(ring)
        BY <4>1 DEF IsInjective, Range
      <4> QED BY <1>2, <1>5, <4>2
    <3> QED BY <2>3, <3>1, <3>2
  <2> QED BY <1>2, <1>7, <2>3, <2>4, <2>5
<1> QED BY <1>6, <1>7

\* Served, for a ring that has been turned already.
LEMMA ServedHolds ==
    ASSUME NEW queue, NEW ring, QueuesHold(queue), RingHolds(queue, ring),
           NEW i \in 1..Len(ring), NEW u, u = ring[i],
           NEW rest, rest = Tail(queue[u]),
           NEW queue2, Replaced(queue, u, rest, queue2),
           NEW ring2, Skips(ring, i, rest, ring2)
    PROVE  /\ u \in Users /\ Head(queue[u]) \in Waiting(queue)
           /\ UserOf[Head(queue[u])] = u
           /\ QueuesHold(queue2) /\ RingHolds(queue2, ring2)
           /\ Waiting(queue2) = Waiting(queue) \ {Head(queue[u])}
           /\ \A v \in Users : queue2[v] # <<>> => queue[v] # <<>>
           /\ \A j \in (i + 1)..Len(ring) : \A v :
                    v # u /\ Ahead(ring, ring[j], v) => Ahead(ring2, ring[j], v)
           /\ \A v : v # u => Ahead(ring2, v, u)
<1>1. ring \in Seq(Users) /\ IsInjective(ring)
      /\ Range(ring) = {v \in Users : queue[v] # <<>>}
  BY DEF RingHolds
<1>2. u \in Users /\ u \in Range(ring) /\ queue[u] # <<>>
  BY <1>1 DEF Range
<1>3. queue[u] \in Seq(Turns) /\ IsInjective(queue[u])
      /\ \A x \in Range(queue[u]) : UserOf[x] = u
  BY <1>2 DEF QueuesHold, IsQueueOf
<1>4. PICK t : t = Head(queue[u])
  OBVIOUS
<1>5. /\ t \in Range(queue[u]) /\ t \in Turns /\ rest \in Seq(Turns) /\ IsInjective(rest)
      /\ Range(rest) = Range(queue[u]) \ {t}
  BY <1>2, <1>3, <1>4, TailOnce
<1>6. /\ QueuesHold(queue2) /\ queue2[u] = rest
      /\ \A v \in Users \ {u} : queue2[v] = queue[v]
      /\ Waiting(queue2) = (Waiting(queue) \ Range(queue[u])) \union Range(rest)
  <2>1. IsQueueOf(u, rest)
    BY <1>3, <1>5 DEF IsQueueOf
  <2>2. OnlyChanged(queue, u, rest, queue2)
    BY <1>2, <2>1, QueueReplaced
  <2> QED BY <2>2 DEF OnlyChanged
<1>7. Range(queue[u]) \subseteq Waiting(queue)
  BY <1>2 DEF Waiting
<1>8. Waiting(queue2) = Waiting(queue) \ {t}
  BY <1>5, <1>6, <1>7
<1>9. \A v \in Users : queue2[v] # <<>> => queue[v] # <<>>
  BY <1>2, <1>6
<1>11. /\ ring2 \in Seq(Users) /\ IsInjective(ring2)
       /\ Range(ring2) = IF rest = <<>> THEN Range(ring) \ {u} ELSE Range(ring)
       /\ \A j \in (i + 1)..Len(ring) : \A v :
                v # u /\ Ahead(ring, ring[j], v) => Ahead(ring2, ring[j], v)
       /\ \A v : v # u => Ahead(ring2, v, u)
  BY <1>1, SkipsTo
<1>12. Range(ring2) = {v \in Users : queue2[v] # <<>>}
  BY <1>1, <1>2, <1>6, <1>11
<1>13. RingHolds(queue2, ring2)
  BY <1>11, <1>12 DEF RingHolds
<1>14. t \in Waiting(queue) /\ UserOf[t] = u
  BY <1>3, <1>5, <1>7
<1>15. Head(queue[u]) \in Waiting(queue) /\ UserOf[Head(queue[u])] = u
       /\ Waiting(queue2) = Waiting(queue) \ {Head(queue[u])}
  BY <1>4, <1>8, <1>14
<1>16. u \in Users /\ QueuesHold(queue2)
  BY <1>2, <1>6
<1> QED BY <1>9, <1>11, <1>13, <1>15, <1>16
-------------------------------------------------------------------------------
\* The line and the gate as records.
Lines == [queue : [Users -> Seq(Turns)], ring : Seq(Users), last : Users \union {Nobody}]
Gates == [queue : [Users -> Seq(Turns)], ring : Seq(Users), last : Users \union {Nobody},
          used : Nat, held : SUBSET Turns]

Sound(q) == QueuesHold(q.queue) /\ RingHolds(q.queue, q.ring)

\* What the operations on both have in common.
PutTo(q, t, r) ==
    /\ Sound(r) /\ Waiters(r) = Waiters(q) \union {t} /\ r.last = q.last
    /\ \A v \in Users \ {UserOf[t]} : r.queue[v] = q.queue[v]
    /\ KeepsOrder({}, q.ring, r.ring)

TakenFrom(q, t, r) ==
    /\ Sound(r) /\ Waiters(r) = Waiters(q) \ {t} /\ r.last = q.last
    /\ \A v \in Users : r.queue[v] # <<>> => q.queue[v] # <<>>
    /\ KeepsOrder({}, q.ring, r.ring)

\* A put, on the queues and the ring alone.
LEMMA PutSound ==
    ASSUME NEW q, Sound(q), NEW t \in Turns, t \notin Waiters(q), NEW r,
           r.queue = [q.queue EXCEPT ![UserOf[t]] = Append(@, t)],
           r.ring = (IF Contains(q.ring, UserOf[t]) THEN q.ring ELSE Append(q.ring, UserOf[t])),
           r.last = q.last
    PROVE  PutTo(q, t, r)
<1>1. PICK queue : queue = q.queue
  OBVIOUS
<1>2. PICK ring : ring = q.ring
  OBVIOUS
<1>3. PICK queue2 : queue2 = r.queue
  OBVIOUS
<1>4. PICK ring2 : ring2 = r.ring
  OBVIOUS
<1>0. PICK s : s = Append(queue[UserOf[t]], t)
  OBVIOUS
<1>5. /\ QueuesHold(queue) /\ RingHolds(queue, ring)
      /\ t \notin Waiting(queue)
      /\ Replaced(queue, UserOf[t], s, queue2)
      /\ Joins(ring, UserOf[t], ring2)
  BY <1>0, <1>1, <1>2, <1>3, <1>4 DEF Sound, Waiters, Waiting, Replaced, Joins
<1>6. /\ QueuesHold(queue2) /\ RingHolds(queue2, ring2)
      /\ Waiting(queue2) = Waiting(queue) \union {t}
      /\ \A v \in Users \ {UserOf[t]} : queue2[v] = queue[v]
      /\ KeepsOrder({}, ring, ring2)
  BY <1>0, <1>5, PutHolds
<1>7. Waiting(queue) = Waiters(q) /\ Waiting(queue2) = Waiters(r)
  BY <1>1, <1>3 DEF Waiters, Waiting
<1> QED BY <1>1, <1>2, <1>3, <1>4, <1>6, <1>7 DEF PutTo, Sound

\* A put in the line of the controller (ChatConcurrencyController.submit).
LEMMA PutLine ==
    ASSUME NEW q \in Lines, Sound(q), NEW t \in Turns, t \notin Waiters(q)
    PROVE  Put(q, t) \in Lines /\ PutTo(q, t, Put(q, t))
<1>1. PICK r : r = Put(q, t)
  OBVIOUS
<1>2. /\ r.queue = [q.queue EXCEPT ![UserOf[t]] = Append(@, t)]
      /\ r.ring = (IF Contains(q.ring, UserOf[t]) THEN q.ring ELSE Append(q.ring, UserOf[t]))
      /\ r.last = q.last
  BY <1>1 DEF Put, Lines
<1>3. PutTo(q, t, r)
  BY <1>2, PutSound
<1>4. r = [queue |-> r.queue, ring |-> r.ring, last |-> r.last]
  BY <1>1 DEF Put, Lines
<1>5. r.queue \in [Users -> Seq(Turns)] /\ r.ring \in Seq(Users) /\ r.last \in Users \union {Nobody}
  BY <1>2, <1>3 DEF PutTo, Sound, QueuesHold, RingHolds, Lines
<1>6. r \in Lines
  BY <1>4, <1>5 DEF Lines
<1> QED BY <1>1, <1>3, <1>6

\* A put at the gate (acquire); the places stay as they are.
LEMMA PutGate ==
    ASSUME NEW q \in Gates, Sound(q), NEW t \in Turns, t \notin Waiters(q)
    PROVE  /\ Put(q, t) \in Gates /\ PutTo(q, t, Put(q, t))
           /\ Put(q, t).used = q.used /\ Put(q, t).held = q.held
<1>1. PICK r : r = Put(q, t)
  OBVIOUS
<1>2. /\ r.queue = [q.queue EXCEPT ![UserOf[t]] = Append(@, t)]
      /\ r.ring = (IF Contains(q.ring, UserOf[t]) THEN q.ring ELSE Append(q.ring, UserOf[t]))
      /\ r.last = q.last /\ r.used = q.used /\ r.held = q.held
  BY <1>1 DEF Put, Gates
<1>3. PutTo(q, t, r)
  BY <1>2, PutSound
<1>4. r = [queue |-> r.queue, ring |-> r.ring, last |-> r.last, used |-> r.used, held |-> r.held]
  BY <1>1 DEF Put, Gates
<1>5. r.queue \in [Users -> Seq(Turns)] /\ r.ring \in Seq(Users) /\ r.last \in Users \union {Nobody}
  BY <1>2, <1>3 DEF PutTo, Sound, QueuesHold, RingHolds, Gates
<1>6. r.used \in Nat /\ r.held \in SUBSET Turns
  BY <1>2 DEF Gates
<1>7. r \in Gates
  BY <1>4, <1>5, <1>6 DEF Gates
<1> QED BY <1>1, <1>2, <1>3, <1>7

\* A turn taken out, on the queues and the ring alone.
LEMMA TakenOutSound ==
    ASSUME NEW q, Sound(q), NEW t \in Turns, NEW r,
           NEW rest, rest = Without(q.queue[UserOf[t]], t),
           r.queue = [q.queue EXCEPT ![UserOf[t]] = rest],
           r.ring = (IF rest = <<>> THEN Without(q.ring, UserOf[t]) ELSE q.ring),
           r.last = q.last
    PROVE  TakenFrom(q, t, r)
<1>1. PICK queue : queue = q.queue
  OBVIOUS
<1>2. PICK ring : ring = q.ring
  OBVIOUS
<1>3. PICK queue2 : queue2 = r.queue
  OBVIOUS
<1>4. PICK ring2 : ring2 = r.ring
  OBVIOUS
<1>5. /\ QueuesHold(queue) /\ RingHolds(queue, ring)
      /\ rest = Without(queue[UserOf[t]], t)
      /\ Replaced(queue, UserOf[t], rest, queue2)
      /\ Leaves(ring, UserOf[t], rest, ring2)
  BY <1>1, <1>2, <1>3, <1>4 DEF Sound, Replaced, Leaves
<1>6. /\ QueuesHold(queue2) /\ RingHolds(queue2, ring2)
      /\ Waiting(queue2) = Waiting(queue) \ {t}
      /\ \A u \in Users : queue2[u] # <<>> => queue[u] # <<>>
      /\ KeepsOrder({}, ring, ring2)
  BY <1>5, TakenOutHolds
<1>7. Waiting(queue) = Waiters(q) /\ Waiting(queue2) = Waiters(r)
  BY <1>1, <1>3 DEF Waiters, Waiting
<1> QED BY <1>1, <1>2, <1>3, <1>4, <1>6, <1>7 DEF TakenFrom, Sound

\* A turn taken out of the line (_remove_queued_locked).
LEMMA TakenOutLine ==
    ASSUME NEW q \in Lines, Sound(q), NEW t \in Turns
    PROVE  TakenOut(q, t) \in Lines /\ TakenFrom(q, t, TakenOut(q, t))
<1>1. PICK r : r = TakenOut(q, t)
  OBVIOUS
<1>2. PICK rest : rest = Without(q.queue[UserOf[t]], t)
  OBVIOUS
<1>3. /\ r.queue = [q.queue EXCEPT ![UserOf[t]] = rest]
      /\ r.ring = (IF rest = <<>> THEN Without(q.ring, UserOf[t]) ELSE q.ring)
      /\ r.last = q.last
  BY <1>1, <1>2 DEF TakenOut, Lines
<1>4. TakenFrom(q, t, r)
  BY <1>2, <1>3, TakenOutSound
<1>5. r = [queue |-> r.queue, ring |-> r.ring, last |-> r.last]
  BY <1>1 DEF TakenOut, Lines
<1>6. r.queue \in [Users -> Seq(Turns)] /\ r.ring \in Seq(Users) /\ r.last \in Users \union {Nobody}
  BY <1>3, <1>4 DEF TakenFrom, Sound, QueuesHold, RingHolds, Lines
<1>7. r \in Lines
  BY <1>5, <1>6 DEF Lines
<1> QED BY <1>1, <1>4, <1>7

\* A turn taken out of the gate (_remove); the places stay as they are.
LEMMA TakenOutGate ==
    ASSUME NEW q \in Gates, Sound(q), NEW t \in Turns
    PROVE  /\ TakenOut(q, t) \in Gates /\ TakenFrom(q, t, TakenOut(q, t))
           /\ TakenOut(q, t).used = q.used /\ TakenOut(q, t).held = q.held
<1>1. PICK r : r = TakenOut(q, t)
  OBVIOUS
<1>2. PICK rest : rest = Without(q.queue[UserOf[t]], t)
  OBVIOUS
<1>3. /\ r.queue = [q.queue EXCEPT ![UserOf[t]] = rest]
      /\ r.ring = (IF rest = <<>> THEN Without(q.ring, UserOf[t]) ELSE q.ring)
      /\ r.last = q.last /\ r.used = q.used /\ r.held = q.held
  BY <1>1, <1>2 DEF TakenOut, Gates
<1>4. TakenFrom(q, t, r)
  BY <1>2, <1>3, TakenOutSound
<1>5. r = [queue |-> r.queue, ring |-> r.ring, last |-> r.last, used |-> r.used, held |-> r.held]
  BY <1>1 DEF TakenOut, Gates
<1>6. r.queue \in [Users -> Seq(Turns)] /\ r.ring \in Seq(Users) /\ r.last \in Users \union {Nobody}
  BY <1>3, <1>4 DEF TakenFrom, Sound, QueuesHold, RingHolds, Gates
<1>7. r.used \in Nat /\ r.held \in SUBSET Turns
  BY <1>3 DEF Gates
<1>8. r \in Gates
  BY <1>5, <1>6, <1>7 DEF Gates
<1> QED BY <1>1, <1>3, <1>4, <1>8

\* The user in the i-th place of the turned ring, and its first turn.
ServedFrom(q, i, r) ==
    LET ring == Rotated(q)
        u == ring[i]
        t == Head(q.queue[u])
    IN  /\ u \in Users /\ t \in Waiters(q) /\ UserOf[t] = u
        /\ Sound(r) /\ Waiters(r) = Waiters(q) \ {t} /\ r.last = u
        /\ \A v \in Users : r.queue[v] # <<>> => q.queue[v] # <<>>
        /\ \A j \in (i + 1)..Len(ring) : \A v :
                v # u /\ Ahead(ring, ring[j], v) => Ahead(r.ring, ring[j], v)
        /\ \A v : v # u => Ahead(r.ring, v, u)

\* The rotation past the user who was served last changes the order of nobody else.
LEMMA RotatedSound ==
    ASSUME NEW q, Sound(q)
    PROVE  /\ RingHolds(q.queue, Rotated(q)) /\ Len(Rotated(q)) = Len(q.ring)
           /\ Range(Rotated(q)) = Range(q.ring) /\ KeepsOrder({q.last}, q.ring, Rotated(q))
<1>1. PICK queue : queue = q.queue
  OBVIOUS
<1>2. PICK ring : ring = q.ring
  OBVIOUS
<1>3. PICK last : last = q.last
  OBVIOUS
<1>4. PICK ring2 : ring2 = Rotated(q)
  OBVIOUS
<1>5. ring2 = IF Len(ring) > 1 /\ Head(ring) = last THEN Append(Tail(ring), Head(ring)) ELSE ring
  BY <1>2, <1>3, <1>4 DEF Rotated
<1>6. RingHolds(queue, ring)
  BY <1>1, <1>2 DEF Sound
<1>7. RingHolds(queue, ring2) /\ Len(ring2) = Len(ring) /\ Range(ring2) = Range(ring)
      /\ KeepsOrder({last}, ring, ring2)
  BY <1>5, <1>6, RotatedHolds
<1> QED BY <1>1, <1>2, <1>3, <1>4, <1>7

\* A turn served, on the queues and the ring alone.
LEMMA ServedSound ==
    ASSUME NEW q, Sound(q), NEW i \in 1..Len(q.ring), NEW r,
           NEW u, u = Rotated(q)[i], NEW rest, rest = Tail(q.queue[u]),
           r.queue = [q.queue EXCEPT ![u] = rest], r.last = u,
           r.ring = SubSeq(Rotated(q), i + 1, Len(Rotated(q))) \o SubSeq(Rotated(q), 1, i - 1)
                    \o (IF rest = <<>> THEN <<>> ELSE <<u>>)
    PROVE  ServedFrom(q, i, r)
<1>1. PICK queue : queue = q.queue
  OBVIOUS
<1>2. PICK ring : ring = Rotated(q)
  OBVIOUS
<1>3. PICK queue2 : queue2 = r.queue
  OBVIOUS
<1>4. PICK ring2 : ring2 = r.ring
  OBVIOUS
<1>5. QueuesHold(queue) /\ RingHolds(queue, ring) /\ i \in 1..Len(ring)
  BY <1>1, <1>2, RotatedSound DEF Sound
<1>6. u = ring[i] /\ rest = Tail(queue[u]) /\ Replaced(queue, u, rest, queue2)
  BY <1>1, <1>2, <1>3 DEF Replaced
<1>7. Skips(ring, i, rest, ring2)
  BY <1>2, <1>4, <1>6 DEF Skips
<1>8. /\ u \in Users /\ Head(queue[u]) \in Waiting(queue)
      /\ UserOf[Head(queue[u])] = u
      /\ QueuesHold(queue2) /\ RingHolds(queue2, ring2)
      /\ Waiting(queue2) = Waiting(queue) \ {Head(queue[u])}
      /\ \A v \in Users : queue2[v] # <<>> => queue[v] # <<>>
      /\ \A j \in (i + 1)..Len(ring) : \A v :
             v # u /\ Ahead(ring, ring[j], v) => Ahead(ring2, ring[j], v)
      /\ \A v : v # u => Ahead(ring2, v, u)
  BY <1>5, <1>6, <1>7, ServedHolds
<1>9. Waiting(queue) = Waiters(q) /\ Waiting(queue2) = Waiters(r)
  BY <1>1, <1>3 DEF Waiters, Waiting
<1> QED BY <1>1, <1>2, <1>3, <1>4, <1>6, <1>8, <1>9 DEF ServedFrom, Sound

\* A turn dispatched from the line (_next_eligible_locked).
LEMMA ServedLine ==
    ASSUME NEW q \in Lines, Sound(q), NEW i \in 1..Len(q.ring)
    PROVE  Served(q, i) \in Lines /\ ServedFrom(q, i, Served(q, i))
<1>1. PICK r : r = Served(q, i)
  OBVIOUS
<1>2. PICK u : u = Rotated(q)[i]
  OBVIOUS
<1>3. PICK rest : rest = Tail(q.queue[u])
  OBVIOUS
<1>4. /\ r.queue = [q.queue EXCEPT ![u] = rest] /\ r.last = u
      /\ r.ring = SubSeq(Rotated(q), i + 1, Len(Rotated(q))) \o SubSeq(Rotated(q), 1, i - 1)
                  \o (IF rest = <<>> THEN <<>> ELSE <<u>>)
  BY <1>1, <1>2, <1>3 DEF Served, Lines
<1>5. ServedFrom(q, i, r)
  BY <1>2, <1>3, <1>4, ServedSound
<1>6. r = [queue |-> r.queue, ring |-> r.ring, last |-> r.last]
  BY <1>1 DEF Served, Lines
<1>7. r.queue \in [Users -> Seq(Turns)] /\ r.ring \in Seq(Users) /\ r.last \in Users \union {Nobody}
  BY <1>5 DEF ServedFrom, Sound, QueuesHold, RingHolds
<1>8. r \in Lines
  BY <1>6, <1>7 DEF Lines
<1> QED BY <1>1, <1>5, <1>8

\* A turn served at the gate (_grant_locked); the places stay as they are.
LEMMA ServedGate ==
    ASSUME NEW q \in Gates, Sound(q), NEW i \in 1..Len(q.ring)
    PROVE  /\ Served(q, i) \in Gates /\ ServedFrom(q, i, Served(q, i))
           /\ Served(q, i).used = q.used /\ Served(q, i).held = q.held
<1>1. PICK r : r = Served(q, i)
  OBVIOUS
<1>2. PICK u : u = Rotated(q)[i]
  OBVIOUS
<1>3. PICK rest : rest = Tail(q.queue[u])
  OBVIOUS
<1>4. /\ r.queue = [q.queue EXCEPT ![u] = rest] /\ r.last = u
      /\ r.ring = SubSeq(Rotated(q), i + 1, Len(Rotated(q))) \o SubSeq(Rotated(q), 1, i - 1)
                  \o (IF rest = <<>> THEN <<>> ELSE <<u>>)
      /\ r.used = q.used /\ r.held = q.held
  BY <1>1, <1>2, <1>3 DEF Served, Gates
<1>5. ServedFrom(q, i, r)
  BY <1>2, <1>3, <1>4, ServedSound
<1>6. r = [queue |-> r.queue, ring |-> r.ring, last |-> r.last, used |-> r.used, held |-> r.held]
  BY <1>1 DEF Served, Gates
<1>7. r.queue \in [Users -> Seq(Turns)] /\ r.ring \in Seq(Users) /\ r.last \in Users \union {Nobody}
  BY <1>5 DEF ServedFrom, Sound, QueuesHold, RingHolds
<1>8. r.used \in Nat /\ r.held \in SUBSET Turns
  BY <1>4 DEF Gates
<1>9. r \in Gates
  BY <1>6, <1>7, <1>8 DEF Gates
<1> QED BY <1>1, <1>4, <1>5, <1>9
-------------------------------------------------------------------------------
\* The gate by itself: its counter counts.
GateHolds(g) ==
    /\ g \in Gates /\ Sound(g)
    /\ g.used = Cardinality(g.held) /\ g.used <= Capacity
    /\ \A t \in Waiters(g) : t \notin g.held

\* Nobody waits for a place that is free.
NoIdlePlace(g) == g.used = Capacity \/ Waiters(g) = {}

\* Some of those that wait at g, and are not cancelled, are granted, and others leave.
GrantsOnly(g, h) ==
    /\ g.held \subseteq h.held
    /\ \A t \in h.held \ g.held : t \in Waiters(g) /\ ~turn[t].cancelled
    /\ Waiters(h) \subseteq Waiters(g)

\* Who waits in sound queues is a turn, and the ring is empty exactly when nobody waits.
LEMMA WaitersAreTurns ==
    ASSUME NEW q, Sound(q)
    PROVE  /\ Waiters(q) \subseteq Turns
           /\ q.ring = <<>> <=> Waiters(q) = {}
           /\ IsFiniteSet(Waiters(q)) /\ Cardinality(Waiters(q)) \in Nat
           /\ Cardinality(Waiters(q)) <= Cardinality(Turns)
<1>1. PICK queue : queue = q.queue
  OBVIOUS
<1>2. PICK ring : ring = q.ring
  OBVIOUS
<1>3. QueuesHold(queue) /\ RingHolds(queue, ring) /\ Waiters(q) = Waiting(queue)
  BY <1>1, <1>2 DEF Sound, Waiters, Waiting
<1>4. Waiting(queue) \subseteq Turns
      /\ \A u \in Users : queue[u] = <<>> <=> Range(queue[u]) = {}
  BY <1>3, WaitsInItsQueue
<1>5. ring \in Seq(Users) /\ Range(ring) = {u \in Users : queue[u] # <<>>}
  BY <1>3 DEF RingHolds
<1>6. ring = <<>> <=> Range(ring) = {}
  BY <1>5, RangeOfSequence
<1>7. ring = <<>> <=> Waiting(queue) = {}
  BY <1>4, <1>5, <1>6 DEF Waiting
<1>8. IsFiniteSet(Turns)
  BY ChatAssumption
<1>9. PICK W \in SUBSET Turns : W = Waiters(q)
  BY <1>3, <1>4
<1>10. IsFiniteSet(W) /\ Cardinality(W) <= Cardinality(Turns)
  BY <1>8, FS_Subset
<1>11. Cardinality(W) \in Nat
  BY <1>10, FS_CardinalityType
<1> QED BY <1>2, <1>3, <1>7, <1>9, <1>10, <1>11

\* What becomes of the waiter that is next.
LEMMA OneIsGranted ==
    ASSUME NEW g, GateHolds(g), g.used < Capacity, g.ring # <<>>
    PROVE  /\ GateHolds(GrantOne(g)) /\ GrantsOnly(g, GrantOne(g))
           /\ Cardinality(Waiters(GrantOne(g))) = Cardinality(Waiters(g)) - 1
<1>0. g \in Gates /\ Sound(g) /\ g.ring \in Seq(Users) /\ 1 \in 1..Len(g.ring)
  BY DEF GateHolds, Gates
<1>1. PICK next : next = Served(g, 1)
  OBVIOUS
<1>2. PICK t : t = Head(g.queue[Rotated(g)[1]])
  OBVIOUS
<1>3. /\ next \in Gates /\ ServedFrom(g, 1, next)
      /\ next.used = g.used /\ next.held = g.held
  BY <1>0, <1>1, ServedGate
<1>4. t \in Waiters(g) /\ Sound(next) /\ Waiters(next) = Waiters(g) \ {t}
  BY <1>2, <1>3 DEF ServedFrom
<1>5. PICK h : h = GrantOne(g)
  OBVIOUS
<1>6. g.used \in Nat /\ g.held \in SUBSET Turns /\ Capacity \in Nat /\ t \in Turns
  <2>1. Capacity \in Nat
    BY ChatAssumption
  <2> QED BY <1>0, <1>4, <2>1, WaitersAreTurns DEF Gates
<1>7. h = IF turn[t].cancelled THEN [next EXCEPT !.last = g.last]
          ELSE [next EXCEPT !.used = @ + 1, !.held = @ \cup {t}]
  <2>1. ~(g.used >= Capacity \/ g.ring = <<>>)
    BY <1>6
  <2> QED BY <1>1, <1>2, <1>5, <2>1 DEF GrantOne
<1>8. Cardinality(Waiters(next)) = Cardinality(Waiters(g)) - 1
  <2>1. IsFiniteSet(Waiters(g))
    BY <1>0, WaitersAreTurns
  <2> QED BY <1>4, <2>1, FS_RemoveElement
<1>9. t \notin g.held
  BY <1>4 DEF GateHolds
<1>10. CASE turn[t].cancelled
  <2>1. h = [next EXCEPT !.last = g.last]
    BY <1>7, <1>10
  <2>2. /\ h.queue = next.queue /\ h.ring = next.ring
        /\ h.used = g.used /\ h.held = g.held
    BY <1>3, <2>1 DEF Gates
  <2>3. h \in Gates
    <3>1. g.last \in Users \union {Nobody}
      BY <1>0 DEF Gates
    <3> QED BY <1>3, <2>1, <3>1 DEF Gates
  <2>4. Sound(h) /\ Waiters(h) = Waiters(next)
    BY <1>4, <2>2 DEF Sound, Waiters
  <2>5. GateHolds(h)
    BY <1>4, <2>2, <2>3, <2>4 DEF GateHolds
  <2>6. GrantsOnly(g, h)
    BY <1>4, <2>2, <2>4 DEF GrantsOnly
  <2> QED BY <1>5, <1>8, <2>4, <2>5, <2>6
<1>11. CASE ~turn[t].cancelled
  <2>1. h = [next EXCEPT !.used = @ + 1, !.held = @ \cup {t}]
    BY <1>7, <1>11
  <2>2. /\ h.queue = next.queue /\ h.ring = next.ring /\ h.last = next.last
        /\ h.used = g.used + 1 /\ h.held = g.held \cup {t}
    BY <1>3, <2>1 DEF Gates
  <2>3. h \in Gates
    <3>1. h.used \in Nat /\ h.held \in SUBSET Turns
      BY <1>6, <2>2
    <3>2. h = [next EXCEPT !.used = h.used, !.held = h.held]
      BY <1>3, <2>1, <2>2
    <3> QED BY <1>3, <3>1, <3>2 DEF Gates
  <2>4. Sound(h) /\ Waiters(h) = Waiters(next)
    BY <1>4, <2>2 DEF Sound, Waiters
  <2>5. h.used = Cardinality(h.held)
    <3>1. IsFiniteSet(g.held) /\ g.used = Cardinality(g.held)
      <4>1. IsFiniteSet(Turns)
        BY ChatAssumption
      <4> QED BY <1>6, <4>1, FS_Subset DEF GateHolds
    <3> QED BY <1>9, <2>2, <3>1, FS_AddElement
  <2>6. h.used <= Capacity
    BY <1>6, <2>2
  <2>7. \A s \in Waiters(h) : s \notin h.held
    BY <1>4, <2>2, <2>4 DEF GateHolds
  <2>8. GateHolds(h)
    BY <2>3, <2>4, <2>5, <2>6, <2>7 DEF GateHolds
  <2>9. GrantsOnly(g, h)
    BY <1>4, <1>11, <2>2, <2>4 DEF GrantsOnly
  <2> QED BY <1>5, <1>8, <2>4, <2>8, <2>9
<1> QED BY <1>10, <1>11

\* One round of the granting keeps the gate sound, and takes one waiter off it unless
\* there is no place, or nobody to have one.
LEMMA GrantOneHolds ==
    ASSUME NEW g, GateHolds(g)
    PROVE  /\ GateHolds(GrantOne(g)) /\ GrantsOnly(g, GrantOne(g))
           /\ NoIdlePlace(g) => GrantOne(g) = g
           /\ ~NoIdlePlace(g) => Cardinality(Waiters(GrantOne(g))) = Cardinality(Waiters(g)) - 1
<1>1. g.ring = <<>> <=> Waiters(g) = {}
  BY WaitersAreTurns DEF GateHolds
<1>2. g.used \in Nat /\ Capacity \in Nat /\ g.used <= Capacity
  BY ChatAssumption DEF GateHolds, Gates
<1>3. CASE NoIdlePlace(g)
  <2>1. g.used >= Capacity \/ g.ring = <<>>
    BY <1>1, <1>2, <1>3 DEF NoIdlePlace
  <2>2. GrantOne(g) = g
    BY <2>1 DEF GrantOne
  <2>3. GrantsOnly(g, g)
    BY DEF GrantsOnly
  <2> QED BY <1>3, <2>2, <2>3
<1>4. CASE ~NoIdlePlace(g)
  <2>1. g.used < Capacity /\ g.ring # <<>>
    BY <1>1, <1>2, <1>4 DEF NoIdlePlace
  <2> QED BY <1>4, <2>1, OneIsGranted
<1> QED BY <1>3, <1>4

\* Two grantings after one another are a granting.
LEMMA GrantsAddUp ==
    ASSUME NEW f, NEW g, NEW h, GrantsOnly(f, g), GrantsOnly(g, h)
    PROVE  GrantsOnly(f, h)
  BY DEF GrantsOnly

\* Round by round.
GrantsInSteps(after, g, n) ==
    /\ Granted(g) = after[n]
    /\ after[0] = g
    /\ \A i \in 1..n : after[i] = GrantOne(after[i - 1])

\* The granting is as many rounds as there are turns.
LEMMA GrantedUnfolds ==
    ASSUME NEW g, GateHolds(g)
    PROVE  \E after : GrantsInSteps(after, g, Cardinality(Turns))
<1>0. PICK n \in Nat : n = Cardinality(Turns)
  BY ChatAssumption, FS_CardinalityType
<1> DEFINE S == {h \in Gates : GateHolds(h)}
           step == [i \in Nat |-> [h \in S |-> GrantOne(h)]]
           Unfolds(f) == f = [i \in 0..n |-> IF i = 0 THEN g ELSE GrantOne(f[i - 1])]
           after == CHOOSE f : Unfolds(f)
<1>1. \A h \in S : GrantOne(h) \in S
  <2>1. \A h \in S : GateHolds(GrantOne(h))
    BY GrantOneHolds
  <2> QED BY <2>1 DEF GateHolds
<1>2. CanIterate(S, g, step)
  <2>1. g \in S
    BY DEF GateHolds
  <2>2. step \in [Nat -> [S -> S]]
    <3> HIDE DEF S
    <3> QED BY <1>1
  <2> QED BY <2>1, <2>2 DEF CanIterate
<1>3. PICK f \in [Nat -> S] : f[0] = g /\ \A i \in Nat : f[i + 1] = step[i + 1][f[i]]
  <2> HIDE DEF step, S
  <2>1. PICK f : Iterates(f, S, g, step)
    BY <1>2, IterationExists
  <2> QED BY <2>1 DEF Iterates
<1>4. \A i \in Nat : f[i + 1] = GrantOne(f[i])
  <2> SUFFICES ASSUME NEW i \in Nat PROVE f[i + 1] = GrantOne(f[i])
    OBVIOUS
  <2> HIDE DEF S
  <2>1. f[i] \in S /\ i + 1 \in Nat
    BY <1>3
  <2>2. step[i + 1][f[i]] = GrantOne(f[i])
    BY <2>1
  <2> HIDE DEF step
  <2> QED BY <1>3, <2>2
<1>5. Unfolds([i \in 0..n |-> f[i]])
  <2> DEFINE e == [i \in 0..n |-> f[i]]
  <2>1. ASSUME NEW i \in 0..n PROVE e[i] = IF i = 0 THEN g ELSE GrantOne(e[i - 1])
    <3>1. CASE i = 0
      BY <1>3, <3>1
    <3>2. CASE i # 0
      <4>1. i - 1 \in 0..n /\ i - 1 \in Nat /\ (i - 1) + 1 = i
        BY <3>2
      <4>2. e[i] = f[i] /\ e[i - 1] = f[i - 1]
        BY <4>1
      <4> HIDE DEF e
      <4> QED BY <1>4, <3>2, <4>1, <4>2
    <3> QED BY <3>1, <3>2
  <2> QED BY <2>1
<1>6. Unfolds(after)
  <2> HIDE DEF Unfolds
  <2> QED BY <1>5
<1>7. Granted(g) = after[n]
  BY <1>0 DEF Granted
<1> HIDE DEF after
<1>8. after[0] = g /\ \A i \in 1..n : after[i] = GrantOne(after[i - 1])
  BY <1>6
<1> QED BY <1>0, <1>7, <1>8 DEF GrantsInSteps

\* _grant_locked: as many rounds as there are turns are enough to fill the gate or to
\* empty its queues.
LEMMA GrantedHolds ==
    ASSUME NEW g, GateHolds(g)
    PROVE  GateHolds(Granted(g)) /\ NoIdlePlace(Granted(g)) /\ GrantsOnly(g, Granted(g))
<1>0. PICK n \in Nat : n = Cardinality(Turns)
  BY ChatAssumption, FS_CardinalityType
<1>1. PICK after : GrantsInSteps(after, g, n)
  BY <1>0, GrantedUnfolds
<1>2. /\ Granted(g) = after[n] /\ after[0] = g
      /\ \A i \in 1..n : after[i] = GrantOne(after[i - 1])
  BY <1>1 DEF GrantsInSteps
<1> DEFINE Reached(i, h) == /\ GateHolds(h) /\ GrantsOnly(g, h)
                            /\ NoIdlePlace(h) \/ Cardinality(Waiters(h)) <= n - i
           Done == {i \in Nat : i <= n => Reached(i, after[i])}
<1>3. 0 \in Done
  <2>1. GrantsOnly(g, g)
    BY DEF GrantsOnly
  <2>2. Cardinality(Waiters(g)) <= n - 0
    BY <1>0, WaitersAreTurns DEF GateHolds
  <2> QED BY <1>2, <2>1, <2>2
<1>4. ASSUME NEW i \in Done PROVE i + 1 \in Done
  <2>0. i \in Nat
    OBVIOUS
  <2> SUFFICES ASSUME i + 1 <= n PROVE Reached(i + 1, after[i + 1])
    BY <2>0
  <2>1. i <= n /\ i + 1 \in 1..n /\ (i + 1) - 1 = i
    BY <2>0
  <2>2. PICK h : h = after[i]
    OBVIOUS
  <2>3. PICK k : k = after[i + 1]
    OBVIOUS
  <2>4. k = GrantOne(h)
    BY <1>2, <2>1, <2>2, <2>3
  <2>5. GateHolds(h) /\ GrantsOnly(g, h) /\ (NoIdlePlace(h) \/ Cardinality(Waiters(h)) <= n - i)
    BY <2>1, <2>2
  <2>6. /\ GateHolds(k) /\ GrantsOnly(h, k) /\ (NoIdlePlace(h) => k = h)
        /\ ~NoIdlePlace(h) => Cardinality(Waiters(k)) = Cardinality(Waiters(h)) - 1
    BY <2>4, <2>5, GrantOneHolds
  <2>7. GrantsOnly(g, k)
    BY <2>5, <2>6, GrantsAddUp
  <2>8. NoIdlePlace(k) \/ Cardinality(Waiters(k)) <= n - (i + 1)
    <3>1. CASE NoIdlePlace(h)
      BY <2>6, <3>1
    <3>2. CASE ~NoIdlePlace(h)
      <4>1. Cardinality(Waiters(h)) \in Nat
        BY <2>5, WaitersAreTurns DEF GateHolds
      <4> QED BY <2>0, <2>5, <2>6, <3>2, <4>1
    <3> QED BY <3>1, <3>2
  <2> QED BY <2>3, <2>6, <2>7, <2>8
<1>5. Nat = Done
  <2> HIDE DEF Done
  <2>1. Done \subseteq Nat
    BY DEF Done
  <2> QED BY <1>3, <1>4, <2>1, InductionOverSets
<1>6. PICK h : h = after[n]
  OBVIOUS
<1>7. GateHolds(h) /\ GrantsOnly(g, h) /\ (NoIdlePlace(h) \/ Cardinality(Waiters(h)) <= n - n)
  BY <1>5, <1>6
<1>8. NoIdlePlace(h)
  <2> SUFFICES ASSUME Cardinality(Waiters(h)) <= 0 PROVE Waiters(h) = {}
    BY <1>7 DEF NoIdlePlace
  <2>1. IsFiniteSet(Waiters(h)) /\ Cardinality(Waiters(h)) \in Nat
    BY <1>7, WaitersAreTurns DEF GateHolds
  <2>2. Cardinality(Waiters(h)) = 0
    BY <2>1
  <2> QED BY <2>1, <2>2, FS_EmptySet
<1> QED BY <1>2, <1>6, <1>7, <1>8

-------------------------------------------------------------------------------
\* The gate of a turn that moves.

\* A turn waits in the line if and only if it is queued.
LineInv ==
    /\ line \in Lines /\ Sound(line) /\ closed \in BOOLEAN
    /\ \A t \in Turns : turn[t].pc = "queued" <=> t \in Waiters(line)

\* What turn t is doing, if it is as r says, when the gate is g and the controller is
\* closed or not: a waiter may be left behind only by the shutdown.
AtGate(t, r, g, c) ==
    /\ t \in g.held => r.pc \in {"waiting", "holding"}
    /\ r.pc = "holding" => t \in g.held
    /\ t \in Waiters(g) =>
            r.pc = "waiting" \/ (c /\ r.cancelled /\ r.pc \in {"ending", "over"})

GateInv ==
    /\ GateHolds(gate) /\ NoIdlePlace(gate)
    /\ \A t \in Turns : AtGate(t, turn[t], gate, closed)

\* The gate becomes h by a step of t: no other turn loses its place, and those that
\* get one were waiting and are not cancelled.
Moves(t, h) ==
    \A s \in Turns \ {t} :
        /\ s \in gate.held => s \in h.held
        /\ s \in h.held => s \in gate.held \/ (s \in Waiters(gate) /\ ~turn[s].cancelled)
        /\ s \in Waiters(h) => s \in Waiters(gate)

\* _remove and the `finally` of acquire.
LEMMA LeftHolds ==
    ASSUME GateInv, NEW t \in Turns, NEW h, h = Left(t)
    PROVE  /\ GateHolds(h) /\ NoIdlePlace(h) /\ Moves(t, h)
           /\ t \notin h.held /\ t \notin Waiters(h)
<1>0. GateHolds(gate) /\ gate \in Gates /\ Sound(gate)
  BY DEF GateInv, GateHolds
<1>1. PICK g : g = IF t \in gate.held THEN [gate EXCEPT !.used = @ - 1, !.held = @ \ {t}]
                   ELSE TakenOut(gate, t)
  OBVIOUS
<1>2. h = Granted(g)
  BY <1>1 DEF Left
<1>3. /\ GateHolds(g) /\ t \notin g.held /\ t \notin Waiters(g)
      /\ g.held = gate.held \ {t} /\ Waiters(g) \subseteq Waiters(gate)
  <2>1. CASE t \in gate.held
    <3>1. /\ g = [gate EXCEPT !.used = @ - 1, !.held = @ \ {t}]
      BY <1>1, <2>1
    <3>2. /\ g.queue = gate.queue /\ g.ring = gate.ring
          /\ g.used = gate.used - 1 /\ g.held = gate.held \ {t}
      BY <1>0, <3>1 DEF Gates
    <3>3. IsFiniteSet(gate.held) /\ gate.used = Cardinality(gate.held)
      <4>1. IsFiniteSet(Turns) /\ gate.held \in SUBSET Turns
        BY <1>0, ChatAssumption DEF Gates
      <4> QED BY <1>0, <4>1, FS_Subset DEF GateHolds
    <3>4. g.used = Cardinality(g.held) /\ IsFiniteSet(g.held)
      BY <2>1, <3>2, <3>3, FS_RemoveElement
    <3>5. g.used \in Nat /\ g.held \in SUBSET Turns
      <4>1. g.used \in Nat
        BY <3>4, FS_CardinalityType
      <4> QED BY <1>0, <3>2, <4>1 DEF Gates
    <3>6. g \in Gates
      <4>1. g = [gate EXCEPT !.used = g.used, !.held = g.held]
        BY <1>0, <3>1, <3>2
      <4> QED BY <1>0, <3>5, <4>1 DEF Gates
    <3>7. Sound(g) /\ Waiters(g) = Waiters(gate)
      BY <1>0, <3>2 DEF Sound, Waiters
    <3>8. g.used <= Capacity
      <4>1. gate.used \in Nat /\ Capacity \in Nat /\ gate.used <= Capacity
        BY <1>0, ChatAssumption DEF GateHolds, Gates
      <4> QED BY <3>2, <4>1
    <3>9. \A s \in Waiters(g) : s \notin g.held
      BY <1>0, <3>2, <3>7 DEF GateHolds
    <3>10. t \notin Waiters(g)
      BY <1>0, <2>1, <3>7 DEF GateHolds
    <3>11. GateHolds(g)
      BY <3>4, <3>6, <3>7, <3>8, <3>9 DEF GateHolds
    <3> QED BY <3>2, <3>7, <3>10, <3>11
  <2>2. CASE t \notin gate.held
    <3>1. g = TakenOut(gate, t)
      BY <1>1, <2>2
    <3>2. g \in Gates /\ TakenFrom(gate, t, g) /\ g.used = gate.used /\ g.held = gate.held
      BY <1>0, <3>1, TakenOutGate
    <3>3. Sound(g) /\ Waiters(g) = Waiters(gate) \ {t}
      BY <3>2 DEF TakenFrom
    <3>4. GateHolds(g)
      BY <1>0, <3>2, <3>3 DEF GateHolds
    <3> QED BY <2>2, <3>2, <3>3, <3>4
  <2> QED BY <2>1, <2>2
<1>4. GateHolds(h) /\ NoIdlePlace(h) /\ GrantsOnly(g, h)
  BY <1>2, <1>3, GrantedHolds
<1>5. t \notin h.held /\ t \notin Waiters(h)
  BY <1>3, <1>4 DEF GrantsOnly
<1>6. Moves(t, h)
  BY <1>3, <1>4 DEF Moves, GrantsOnly
<1> QED BY <1>4, <1>5, <1>6

\* acquire, of a turn that neither waits nor holds.
LEMMA EnteredHolds ==
    ASSUME GateInv, NEW t \in Turns, t \notin Waiters(gate), t \notin gate.held,
           NEW h, h = Granted(Put(gate, t))
    PROVE  GateHolds(h) /\ NoIdlePlace(h) /\ Moves(t, h)
<1>0. GateHolds(gate) /\ gate \in Gates /\ Sound(gate)
  BY DEF GateInv, GateHolds
<1>1. PICK g : g = Put(gate, t)
  OBVIOUS
<1>2. g \in Gates /\ PutTo(gate, t, g) /\ g.used = gate.used /\ g.held = gate.held
  BY <1>0, <1>1, PutGate
<1>3. Sound(g) /\ Waiters(g) = Waiters(gate) \union {t}
  BY <1>2 DEF PutTo
<1>4. GateHolds(g)
  BY <1>0, <1>2, <1>3 DEF GateHolds
<1>5. GateHolds(h) /\ NoIdlePlace(h) /\ GrantsOnly(g, h)
  BY <1>1, <1>4, GrantedHolds
<1>6. Moves(t, h)
  BY <1>2, <1>3, <1>5 DEF Moves, GrantsOnly
<1> QED BY <1>5, <1>6

\* One turn moves, and the gate with it.
LEMMA GateMoves ==
    ASSUME GateInv, NEW t \in Turns, \A s \in Turns \ {t} : turn'[s] = turn[s],
           GateHolds(gate'), NoIdlePlace(gate'), Moves(t, gate'), closed' = closed,
           AtGate(t, turn'[t], gate', closed')
    PROVE  GateInv'
<1>1. ASSUME NEW s \in Turns, s # t PROVE AtGate(s, turn'[s], gate', closed')
  <2>1. turn'[s] = turn[s] /\ AtGate(s, turn[s], gate, closed)
    BY <1>1 DEF GateInv
  <2>2. /\ s \in gate.held => s \in gate'.held
        /\ s \in gate'.held => s \in gate.held \/ (s \in Waiters(gate) /\ ~turn[s].cancelled)
        /\ s \in Waiters(gate') => s \in Waiters(gate)
    BY <1>1 DEF Moves
  <2> QED BY <2>1, <2>2 DEF AtGate
<1>2. \A s \in Turns : AtGate(s, turn'[s], gate', closed')
  BY <1>1
<1>3. GateHolds(gate)' /\ NoIdlePlace(gate)'
  BY DEF GateHolds, NoIdlePlace, Sound, Waiters, QueuesHold, RingHolds
<1>4. (\A s \in Turns : AtGate(s, turn[s], gate, closed))'
  BY <1>2
<1> QED BY <1>3, <1>4 DEF GateInv
\* One turn moves, and the gate does not.
LEMMA GateStays ==
    ASSUME GateInv, NEW t \in Turns, \A s \in Turns \ {t} : turn'[s] = turn[s],
           gate' = gate, closed' = closed, AtGate(t, turn'[t], gate, closed)
    PROVE  GateInv'
<1>1. Moves(t, gate')
  BY DEF Moves
<1>2. GateHolds(gate') /\ NoIdlePlace(gate')
  BY DEF GateInv
<1>3. AtGate(t, turn'[t], gate', closed')
  OBVIOUS
<1> QED BY <1>1, <1>2, <1>3, GateMoves

\* What the ways to change one turn leave as it is.
LEMMA StopChanges ==
    ASSUME turn \in [Turns -> TurnStates], NEW t \in Turns, NEW event, turn' = Stop(t, event)
    PROVE  /\ \A s \in Turns \ {t} : turn'[s] = turn[s]
           /\ turn'[t].pc = "ending" /\ turn'[t].cancelled = turn[t].cancelled
<1>1. turn[t] \in TurnStates
  OBVIOUS
<1> QED BY <1>1 DEF Stop, TurnStates

\* A turn that goes on: nothing else of it, and of nobody else, changes.
LEMMA ProceedChanges ==
    ASSUME turn \in [Turns -> TurnStates], NEW t \in Turns, NEW pc,
           turn' = [turn EXCEPT ![t].pc = pc]
    PROVE  /\ \A s \in Turns \ {t} : turn'[s] = turn[s]
           /\ turn'[t].pc = pc /\ turn'[t].cancelled = turn[t].cancelled
<1>1. turn[t] \in TurnStates
  OBVIOUS
<1> QED BY <1>1 DEF TurnStates

\* A turn that ends without a worker, likewise.
LEMMA EndedChanges ==
    ASSUME turn \in [Turns -> TurnStates], NEW t \in Turns, NEW event, turn' = Ended(t, event)
    PROVE  /\ \A s \in Turns \ {t} : turn'[s] = turn[s]
           /\ turn'[t].pc = "over" /\ turn'[t].cancelled
<1>1. turn[t] \in TurnStates
  OBVIOUS
<1> QED BY <1>1 DEF Ended, TurnStates

\* A turn in the line is not at the gate.
LEMMA QueuedIsElsewhere ==
    ASSUME GateInv, NEW t \in Turns, turn[t].pc \in {"queued", "started"}
    PROVE  t \notin gate.held /\ t \notin Waiters(gate)
  BY DEF GateInv, AtGate

\* A turn that stops where it is not at the gate, or has left it.
LEMMA StopAtGate ==
    ASSUME TruthInv, GateInv, NEW t \in Turns, NEW event, turn' = Stop(t, event),
           closed' = closed,
           \/ gate' = gate /\ turn[t].pc \in {"started", "answered", "persisting", "committed"}
           \/ gate' = Left(t)
    PROVE  GateInv'
<1>1. /\ \A s \in Turns \ {t} : turn'[s] = turn[s]
      /\ turn'[t].pc = "ending"
  BY StopChanges DEF TruthInv
<1>2. CASE gate' = gate /\ turn[t].pc \in {"started", "answered", "persisting", "committed"}
  <2>1. AtGate(t, turn'[t], gate, closed)
    BY <1>1, <1>2 DEF GateInv, AtGate
  <2> QED BY <1>1, <1>2, <2>1, GateStays
<1>3. CASE gate' = Left(t)
  <2>1. /\ GateHolds(gate') /\ NoIdlePlace(gate') /\ Moves(t, gate')
        /\ t \notin gate'.held /\ t \notin Waiters(gate')
    BY <1>3, LeftHolds
  <2>2. AtGate(t, turn'[t], gate', closed')
    BY <1>1, <2>1 DEF AtGate
  <2> QED BY <1>1, <2>1, <2>2, GateMoves
<1> QED BY <1>2, <1>3

\* A waiter that gives up.
LEMMA GiveUpAtGate ==
    ASSUME TruthInv, GateInv, NEW t \in Turns,
           \A s \in Turns \ {t} : turn'[s] = turn[s],
           turn'[t].pc = "ending", turn'[t].cancelled,
           closed' = closed, gate' \in GivenUp(t)
    PROVE  GateInv'
<1>1. gate' = Left(t) \/ (gate' = gate /\ closed /\ t \notin gate.held)
  BY DEF GivenUp
<1>2. CASE gate' = Left(t)
  <2>1. /\ GateHolds(gate') /\ NoIdlePlace(gate') /\ Moves(t, gate')
        /\ t \notin gate'.held /\ t \notin Waiters(gate')
    BY <1>2, LeftHolds
  <2>2. AtGate(t, turn'[t], gate', closed')
    BY <2>1 DEF AtGate
  <2> QED BY <2>1, <2>2, GateMoves
<1>3. CASE gate' = gate /\ closed /\ t \notin gate.held
  <2>1. AtGate(t, turn'[t], gate, closed)
    BY <1>3 DEF AtGate
  <2> QED BY <1>3, <2>1, GateStays
<1> QED BY <1>1, <1>2, <1>3

\* The gate at the start.
LEMMA GateInit == Init => GateInv
<1> SUFFICES ASSUME Init PROVE GateInv
  OBVIOUS
<1>1. /\ gate = [queue |-> [u \in Users |-> <<>>], ring |-> <<>>, last |-> Nobody,
                 used |-> 0, held |-> {}]
      /\ turn = [t \in Turns |-> Over]
  BY DEF Init, EmptyLine
<1>2. /\ gate.queue = [u \in Users |-> <<>>] /\ gate.ring = <<>> /\ gate.last = Nobody
      /\ gate.used = 0 /\ gate.held = {}
  BY <1>1
<1>3. gate \in Gates
  BY <1>1 DEF Gates
<1>4. Range(<<>>) = {} /\ IsInjective(<<>>)
  BY DEF Range, IsInjective
<1>5. QueuesHold(gate.queue) /\ Waiters(gate) = {}
  BY <1>2, <1>4 DEF QueuesHold, IsQueueOf, Waiters
<1>6. RingHolds(gate.queue, gate.ring)
  BY <1>2, <1>4 DEF RingHolds
<1>7. Cardinality({}) = 0
  BY FS_EmptySet
<1>8. 0 <= Capacity
  BY ChatAssumption
<1>9. GateHolds(gate) /\ NoIdlePlace(gate)
  BY <1>2, <1>3, <1>5, <1>6, <1>7, <1>8 DEF GateHolds, NoIdlePlace, Sound
<1>10. \A t \in Turns : AtGate(t, turn[t], gate, closed)
  BY <1>1, <1>2, <1>5 DEF AtGate, Over, Fresh
<1> QED BY <1>9, <1>10 DEF GateInv

\* Where the gate is not involved: admission, the dispatcher and the shutdown.
LEMMA GateApart ==
    ASSUME TruthInv, LineInv, GateInv,
           \/ \E t \in Turns : Client(t) \/ Expire(t)
           \/ Dispatch \/ DispatchNobody \/ Close
    PROVE  GateInv'
<1>0. turn \in [Turns -> TurnStates]
  BY DEF TruthInv
<1>1. ASSUME NEW t \in Turns, Submit(t) PROVE GateInv'
  <2>1. turn' = [turn EXCEPT ![t] = Fresh] /\ ~closed /\ turn[t].pc = "over"
        /\ gate' = gate /\ closed' = closed
    BY <1>1 DEF Submit, At
  <2>2. /\ \A s \in Turns \ {t} : turn'[s] = turn[s]
        /\ turn'[t].pc = "queued"
    BY <1>0, <2>1 DEF Fresh
  <2>3. AtGate(t, turn'[t], gate, closed)
    BY <2>1, <2>2 DEF GateInv, AtGate
  <2> QED BY <2>1, <2>2, <2>3, GateStays
<1>2. ASSUME NEW t \in Turns, NEW event, turn' = Ended(t, event), turn[t].pc = "queued",
             gate' = gate, closed' = closed
      PROVE  GateInv'
  <2>1. \A s \in Turns \ {t} : turn'[s] = turn[s]
    BY <1>0, <1>2, EndedChanges
  <2>2. turn'[t].pc = "over"
    BY <1>0, <1>2, EndedChanges
  <2>3. AtGate(t, turn'[t], gate, closed)
    BY <1>2, <2>2, QueuedIsElsewhere DEF AtGate
  <2> QED BY <1>2, <2>1, <2>3, GateStays
<1>3. ASSUME NEW t \in Turns, Cancel(t) PROVE GateInv'
  <2>1. CASE At(t, "queued")
    BY <1>2, <1>3, <2>1 DEF Cancel, At
  <2>2. CASE ~At(t, "queued")
    <3>1. turn' = [turn EXCEPT ![t].cancelled = TRUE] /\ gate' = gate /\ closed' = closed
      BY <1>3, <2>2 DEF Cancel
    <3>2. turn[t] \in TurnStates
      BY <1>0
    <3>3. /\ \A s \in Turns \ {t} : turn'[s] = turn[s]
          /\ turn'[t].pc = turn[t].pc /\ turn'[t].cancelled
      BY <1>0, <3>1, <3>2 DEF TurnStates
    <3>4. AtGate(t, turn'[t], gate, closed)
      BY <3>3 DEF GateInv, AtGate
    <3> QED BY <3>1, <3>3, <3>4, GateStays
  <2> QED BY <2>1, <2>2
<1>4. ASSUME NEW t \in Turns, Expire(t) PROVE GateInv'
  BY <1>2, <1>4 DEF Expire, At
<1>5. CASE Dispatch
  <2>1. PICK i \in 1..Len(line.ring) :
          LET t == Head(line.queue[Rotated(line)[i]])
          IN  \/ turn' = [turn EXCEPT ![t].pc = "started"]
              \/ turn' = Ended(t, "error")
    <3>1. DOMAIN line.ring = 1..Len(line.ring)
      BY DEF LineInv, Lines
    <3> QED BY <1>5, <3>1 DEF Dispatch
  <2>2. PICK t : t = Head(line.queue[Rotated(line)[i]])
    OBVIOUS
  <2>3. t \in Waiters(line) /\ Waiters(line) \subseteq Turns
    BY <2>2, ServedLine, WaitersAreTurns DEF LineInv, ServedFrom
  <2>4. t \in Turns /\ turn[t].pc = "queued"
    BY <2>3 DEF LineInv
  <2>5. gate' = gate /\ closed' = closed
    BY <1>5 DEF Dispatch
  <2>6. CASE turn' = [turn EXCEPT ![t].pc = "started"]
    <3>1. (\A s \in Turns \ {t} : turn'[s] = turn[s]) /\ turn'[t].pc = "started"
      BY <1>0, <2>4, <2>6, ProceedChanges
    <3>2. AtGate(t, turn'[t], gate, closed)
      BY <2>4, <3>1, QueuedIsElsewhere DEF AtGate
    <3> QED BY <2>4, <2>5, <3>1, <3>2, GateStays
  <2>7. CASE turn' = Ended(t, "error")
    BY <1>2, <2>4, <2>5, <2>7
  <2> QED BY <2>1, <2>2, <2>6, <2>7
<1>6. CASE DispatchNobody
  <2>1. turn' = turn /\ gate' = gate /\ closed' = closed
    BY <1>6 DEF DispatchNobody
  <2> QED BY <2>1 DEF GateInv, GateHolds, NoIdlePlace, Sound, Waiters
<1>7. CASE Close
  <2>1. gate' = gate /\ closed' = TRUE
    BY <1>7 DEF Close
  <2>2. ASSUME NEW t \in Turns PROVE AtGate(t, turn'[t], gate', closed')
    <3>1. AtGate(t, turn[t], gate, closed) /\ turn[t] \in TurnStates
      BY <1>0 DEF GateInv
    <3>2. CASE turn[t].pc = "queued"
      <4>1. turn'[t] = [turn[t] EXCEPT !.pc = "over", !.cancelled = TRUE,
                                       !.terminal = "cancelled"]
        BY <1>0, <1>7, <3>2 DEF Close, Ended, At
      <4>2. turn'[t].pc = "over"
        BY <3>1, <4>1 DEF TurnStates
      <4> QED BY <2>1, <3>2, <4>2, QueuedIsElsewhere DEF AtGate
    <3>3. CASE turn[t].pc # "queued"
      <4>1. turn'[t] = [turn[t] EXCEPT !.cancelled = TRUE] \/ turn'[t] = turn[t]
        BY <1>7, <3>3 DEF Close, At
      <4>2. turn'[t].pc = turn[t].pc /\ (turn[t].cancelled => turn'[t].cancelled)
        BY <3>1, <4>1 DEF TurnStates
      <4> QED BY <2>1, <3>1, <4>2 DEF AtGate
    <3> QED BY <3>2, <3>3
  <2>3. GateHolds(gate)' /\ NoIdlePlace(gate)'
    BY <2>1 DEF GateInv, GateHolds, NoIdlePlace, Sound, Waiters
  <2> QED BY <2>2, <2>3 DEF GateInv
<1> QED BY <1>1, <1>3, <1>4, <1>5, <1>6, <1>7 DEF Client

\* A worker, whatever becomes of its turn.
LEMMA GateWork ==
    ASSUME TruthInv, GateInv, NEW t \in Turns, Work(t) \/ Fail(t) \/ TimeOut(t)
    PROVE  GateInv'
<1>0. turn \in [Turns -> TurnStates]
  BY DEF TruthInv
<1>1. ASSUME NEW pc, turn' = [turn EXCEPT ![t].pc = pc], closed' = closed, gate' = gate,
             pc # "holding",
             turn[t].pc \in {"started", "answered", "persisting", "committed"}
      PROVE  GateInv'
  <2>1. (\A s \in Turns \ {t} : turn'[s] = turn[s]) /\ turn'[t].pc = pc
    BY <1>0, <1>1, ProceedChanges
  <2>2. AtGate(t, turn'[t], gate, closed)
    BY <1>1, <2>1 DEF GateInv, AtGate
  <2> QED BY <1>1, <2>1, <2>2, GateStays
<1>2. CASE Enter(t)
  <2>1. turn[t].pc = "started" /\ closed' = closed
    BY <1>2 DEF Enter, At
  <2>2. CASE Interrupted(t) /\ UNCHANGED gate
    BY <2>1, <2>2, StopAtGate DEF Interrupted
  <2>3. CASE Proceed(t, "waiting") /\ gate' = Granted(Put(gate, t))
    <3>1. (\A s \in Turns \ {t} : turn'[s] = turn[s]) /\ turn'[t].pc = "waiting"
      BY <1>0, <2>3, ProceedChanges DEF Proceed
    <3>2. GateHolds(gate') /\ NoIdlePlace(gate') /\ Moves(t, gate')
      BY <2>1, <2>3, QueuedIsElsewhere, EnteredHolds
    <3>3. AtGate(t, turn'[t], gate', closed')
      BY <3>1 DEF AtGate
    <3> QED BY <2>1, <3>1, <3>2, <3>3, GateMoves
  <2> QED BY <1>2, <2>2, <2>3 DEF Enter
<1>3. CASE Acquire(t)
  <2>1. (\A s \in Turns \ {t} : turn'[s] = turn[s]) /\ turn'[t].pc = "holding"
    BY <1>0, <1>3, ProceedChanges DEF Acquire, Proceed
  <2>2. t \in gate.held /\ gate' = gate /\ closed' = closed
    BY <1>3 DEF Acquire
  <2>3. t \notin Waiters(gate)
    BY <2>2 DEF GateInv, GateHolds
  <2>4. AtGate(t, turn'[t], gate, closed)
    BY <2>1, <2>2, <2>3 DEF AtGate
  <2> QED BY <2>1, <2>2, <2>4, GateStays
<1>4. CASE StopWaiting(t)
  <2>1. (\A s \in Turns \ {t} : turn'[s] = turn[s]) /\ turn'[t].pc = "ending"
        /\ turn'[t].cancelled
    BY <1>0, <1>4, StopChanges DEF StopWaiting, Interrupted
  <2> QED BY <1>4, <2>1, GiveUpAtGate DEF StopWaiting
<1>5. CASE Leave(t)
  <2>1. gate' = Left(t) /\ closed' = closed
    BY <1>5 DEF Leave
  <2>2. CASE Interrupted(t)
    BY <2>1, <2>2, StopAtGate DEF Interrupted
  <2>3. CASE Proceed(t, "answered")
    <3>1. (\A s \in Turns \ {t} : turn'[s] = turn[s]) /\ turn'[t].pc = "answered"
      BY <1>0, <2>3, ProceedChanges DEF Proceed
    <3>2. /\ GateHolds(gate') /\ NoIdlePlace(gate') /\ Moves(t, gate')
          /\ t \notin gate'.held /\ t \notin Waiters(gate')
      BY <2>1, LeftHolds
    <3>3. AtGate(t, turn'[t], gate', closed')
      BY <3>1, <3>2 DEF AtGate
    <3> QED BY <2>1, <3>1, <3>2, <3>3, GateMoves
  <2> QED BY <1>5, <2>2, <2>3 DEF Leave
<1>6. CASE StartPersisting(t)
  BY <1>1, <1>6, StopAtGate DEF StartPersisting, At, Proceed, Interrupted
<1>7. CASE Commit(t)
  <2>1. turn' = [turn EXCEPT ![t].pc = "committed", ![t].stored = TRUE]
        /\ turn[t].pc = "persisting" /\ gate' = gate /\ closed' = closed
    BY <1>7 DEF Commit, At
  <2>2. turn[t] \in TurnStates
    BY <1>0
  <2>3. (\A s \in Turns \ {t} : turn'[s] = turn[s]) /\ turn'[t].pc = "committed"
    BY <1>0, <2>1, <2>2 DEF TurnStates
  <2>4. AtGate(t, turn'[t], gate, closed)
    BY <2>1, <2>3 DEF GateInv, AtGate
  <2> QED BY <2>1, <2>3, <2>4, GateStays
<1>8. CASE Report(t)
  BY <1>8, StopAtGate DEF Report, At, Interrupted
<1>9. CASE End(t)
  <2>1. turn' = [turn EXCEPT ![t].pc = "over"] /\ turn[t].pc = "ending"
        /\ gate' = gate /\ closed' = closed
    BY <1>9 DEF End, At
  <2>2. (\A s \in Turns \ {t} : turn'[s] = turn[s]) /\ turn'[t].pc = "over"
        /\ turn'[t].cancelled = turn[t].cancelled
    BY <1>0, <2>1, ProceedChanges
  <2>3. AtGate(t, turn'[t], gate, closed)
    BY <2>1, <2>2 DEF GateInv, AtGate
  <2> QED BY <2>1, <2>2, <2>3, GateStays
<1>10. CASE Fail(t)
  <2>1. PICK event : turn' = Stop(t, event)
    BY <1>10 DEF Fail
  <2>2. closed' = closed /\ (gate' = Left(t) \/
            (gate' = gate /\ turn[t].pc \in {"started", "answered", "persisting", "committed"}))
    BY <1>10 DEF Fail, At
  <2> QED BY <2>1, <2>2, StopAtGate
<1>11. CASE TimeOut(t)
  <2>1. turn' = [Stop(t, "error") EXCEPT ![t].cancelled = TRUE] /\ closed' = closed
    BY <1>11 DEF TimeOut
  <2>2. turn' = [turn EXCEPT ![t] = [turn[t] EXCEPT !.pc = "ending", !.cancelled = TRUE,
                                                    !.terminal = Emit(t, "error")]]
    BY <1>0, <2>1 DEF Stop
  <2>3. (\A s \in Turns \ {t} : turn'[s] = turn[s]) /\ turn'[t].pc = "ending"
        /\ turn'[t].cancelled
    <3>1. turn[t] \in TurnStates
      BY <1>0
    <3> QED BY <1>0, <2>2, <3>1 DEF TurnStates
  <2>4. CASE At(t, "waiting")
    <3>1. gate' \in GivenUp(t)
      BY <1>11, <2>4 DEF TimeOut
    <3> QED BY <2>1, <2>3, <3>1, GiveUpAtGate
  <2>5. CASE At(t, "holding")
    <3>1. gate' = Left(t)
      BY <1>11, <2>5 DEF TimeOut, At
    <3>2. /\ GateHolds(gate') /\ NoIdlePlace(gate') /\ Moves(t, gate')
          /\ t \notin gate'.held /\ t \notin Waiters(gate')
      BY <3>1, LeftHolds
    <3>3. AtGate(t, turn'[t], gate', closed')
      BY <2>3, <3>2 DEF AtGate
    <3> QED BY <2>1, <2>3, <3>2, <3>3, GateMoves
  <2>6. CASE ~At(t, "waiting") /\ ~At(t, "holding")
    <3>1. gate' = gate /\ turn[t].pc \in {"started", "answered", "committed"}
      BY <1>11, <2>6 DEF TimeOut, At
    <3>2. AtGate(t, turn'[t], gate, closed)
      BY <2>3, <3>1 DEF GateInv, AtGate
    <3> QED BY <2>1, <2>3, <3>1, <3>2, GateStays
  <2> QED BY <2>4, <2>5, <2>6
<1> QED BY <1>2, <1>3, <1>4, <1>5, <1>6, <1>7, <1>8, <1>9, <1>10, <1>11 DEF Work
-------------------------------------------------------------------------------
\* The line.

\* Turn t enters or leaves the line, and no other turn does.
LEMMA LineMoves ==
    ASSUME LineInv, NEW t \in Turns, line' \in Lines, Sound(line'), closed' \in BOOLEAN,
           \A s \in Turns \ {t} :
               turn'[s] = turn[s] /\ (s \in Waiters(line') <=> s \in Waiters(line)),
           turn'[t].pc = "queued" <=> t \in Waiters(line')
    PROVE  LineInv'
<1>1. (line \in Lines)' /\ Sound(line)' /\ (closed \in BOOLEAN)'
  BY DEF Sound, Lines
<1>2. \A s \in Turns : turn'[s].pc = "queued" <=> s \in Waiters(line')
  BY DEF LineInv
<1>3. (\A s \in Turns : turn[s].pc = "queued" <=> s \in Waiters(line))'
  BY <1>2 DEF Waiters
<1> QED BY <1>1, <1>3 DEF LineInv

\* The line at the start.
LEMMA LineInit == Init => LineInv
<1> SUFFICES ASSUME Init PROVE LineInv
  OBVIOUS
<1>1. /\ line = [queue |-> [u \in Users |-> <<>>], ring |-> <<>>, last |-> Nobody]
      /\ turn = [t \in Turns |-> Over] /\ closed = FALSE
  BY DEF Init, EmptyLine
<1>2. line \in Lines
  BY <1>1 DEF Lines
<1>3. Range(<<>>) = {} /\ IsInjective(<<>>)
  BY DEF Range, IsInjective
<1>4. QueuesHold(line.queue) /\ Waiters(line) = {}
  BY <1>1, <1>3 DEF QueuesHold, IsQueueOf, Waiters
<1>5. RingHolds(line.queue, line.ring)
  BY <1>1, <1>3 DEF RingHolds
<1>6. \A t \in Turns : turn[t].pc # "queued"
  BY <1>1 DEF Over, Fresh
<1> QED BY <1>1, <1>2, <1>4, <1>5, <1>6 DEF LineInv, Sound

\* A turn leaves the line and is over.
LEMMA LineLeft ==
    ASSUME TruthInv, LineInv, NEW t \in Turns, NEW event, turn' = Ended(t, event),
           line' = TakenOut(line, t), closed' = closed
    PROVE  LineInv'
<1>1. line' \in Lines /\ Sound(line') /\ Waiters(line') = Waiters(line) \ {t}
  BY TakenOutLine DEF LineInv, TakenFrom
<1>2. (\A s \in Turns \ {t} : turn'[s] = turn[s]) /\ turn'[t].pc = "over"
  BY EndedChanges DEF TruthInv
<1>3. closed' \in BOOLEAN
  BY DEF LineInv
<1> QED BY <1>1, <1>2, <1>3, LineMoves

\* The line after a client submits a turn or takes it back, or after one expires.
LEMMA LineClient ==
    ASSUME TruthInv, LineInv, NEW t \in Turns, Client(t) \/ Expire(t)
    PROVE  LineInv'
<1>0. turn \in [Turns -> TurnStates]
  BY DEF TruthInv
<1>1. CASE Submit(t)
  <2>1. /\ turn[t].pc = "over" /\ turn' = [turn EXCEPT ![t] = Fresh]
        /\ line' = Put(line, t) /\ closed' = closed
    BY <1>1 DEF Submit, At
  <2>2. t \notin Waiters(line)
    BY <2>1 DEF LineInv
  <2>3. line' \in Lines /\ Sound(line') /\ Waiters(line') = Waiters(line) \union {t}
    BY <2>1, <2>2, PutLine DEF LineInv, PutTo
  <2>4. (\A s \in Turns \ {t} : turn'[s] = turn[s]) /\ turn'[t].pc = "queued"
    BY <1>0, <2>1 DEF Fresh
  <2>5. closed' \in BOOLEAN
    BY <2>1 DEF LineInv
  <2> QED BY <2>3, <2>4, <2>5, LineMoves
<1>2. CASE Cancel(t)
  <2>1. CASE At(t, "queued")
    BY <1>2, <2>1, LineLeft DEF Cancel
  <2>2. CASE ~At(t, "queued")
    <3>1. turn' = [turn EXCEPT ![t].cancelled = TRUE] /\ line' = line /\ closed' = closed
      BY <1>2, <2>2 DEF Cancel
    <3>2. turn[t] \in TurnStates
      BY <1>0
    <3>3. (\A s \in Turns \ {t} : turn'[s] = turn[s]) /\ turn'[t].pc = turn[t].pc
      BY <1>0, <3>1, <3>2 DEF TurnStates
    <3> QED BY <3>1, <3>3, LineMoves DEF LineInv
  <2> QED BY <2>1, <2>2
<1>3. CASE Expire(t)
  BY <1>3, LineLeft DEF Expire
<1> QED BY <1>1, <1>2, <1>3 DEF Client

\* What the dispatcher does, in terms of the turn that is next.
LEMMA DispatchServes ==
    ASSUME LineInv, Dispatch
    PROVE  \E i \in 1..Len(line.ring) : \E u \in Users : \E t \in Waiters(line) :
              /\ u = Rotated(line)[i] /\ t \in Turns
              /\ turn[t].pc = "queued"
              /\ NextUp(Rotated(line), i)
              /\ turn' = [turn EXCEPT ![t].pc = "started"] \/ turn' = Ended(t, "error")
              /\ line' = Served(line, i) /\ line' \in Lines /\ ServedFrom(line, i, line')
              /\ Waiters(line') = Waiters(line) \ {t}
              /\ passed' = [v \in Users |->
                    IF v = u \/ line.queue[v] = <<>> \/ ~Eligible(v)
                    THEN [w \in Users |-> 0] ELSE [passed[v] EXCEPT ![u] = @ + 1]]
<1>1. DOMAIN line.ring = 1..Len(line.ring)
  BY DEF LineInv, Lines
<1>2. PICK i \in 1..Len(line.ring) :
         LET ring == Rotated(line)
             u == ring[i]
             t == Head(line.queue[u])
         IN  /\ NextUp(ring, i)
             /\ \/ turn' = [turn EXCEPT ![t].pc = "started"]
                \/ turn' = Ended(t, "error")
             /\ line' = Served(line, i)
             /\ passed' = [v \in Users |->
                   IF v = u \/ line.queue[v] = <<>> \/ ~Eligible(v)
                   THEN [w \in Users |-> 0] ELSE [passed[v] EXCEPT ![u] = @ + 1]]
  BY <1>1 DEF Dispatch
<1>3. PICK u : u = Rotated(line)[i]
  OBVIOUS
<1>4. PICK t : t = Head(line.queue[u])
  OBVIOUS
<1>5. line' \in Lines /\ ServedFrom(line, i, line')
  BY <1>2, ServedLine DEF LineInv
<1>6. u \in Users /\ t \in Waiters(line) /\ Waiters(line') = Waiters(line) \ {t}
  BY <1>3, <1>4, <1>5 DEF ServedFrom
<1>7. t \in Turns /\ turn[t].pc = "queued"
  BY <1>6, WaitersAreTurns DEF LineInv
<1> QED BY <1>2, <1>3, <1>4, <1>5, <1>6, <1>7

\* The line after a turn is dispatched.
LEMMA LineDispatch ==
    ASSUME TruthInv, LineInv, Dispatch
    PROVE  LineInv'
<1>0. turn \in [Turns -> TurnStates]
  BY DEF TruthInv
<1>1. PICK i \in 1..Len(line.ring), t \in Turns :
         /\ turn' = [turn EXCEPT ![t].pc = "started"] \/ turn' = Ended(t, "error")
         /\ line' \in Lines /\ ServedFrom(line, i, line')
         /\ Waiters(line') = Waiters(line) \ {t}
  BY DispatchServes
<1>2. (\A s \in Turns \ {t} : turn'[s] = turn[s]) /\ turn'[t].pc # "queued"
  <2>1. CASE turn' = [turn EXCEPT ![t].pc = "started"]
    BY <1>0, <2>1, ProceedChanges
  <2>2. CASE turn' = Ended(t, "error")
    BY <1>0, <2>2, EndedChanges
  <2> QED BY <1>1, <2>1, <2>2
<1>3. Sound(line')
  BY <1>1 DEF ServedFrom
<1>4. closed' \in BOOLEAN
  BY DEF Dispatch, LineInv
<1> QED BY <1>1, <1>2, <1>3, <1>4, LineMoves

\* The line after the dispatcher went round it and found nobody.
LEMMA RotatedLine ==
    ASSUME LineInv, NEW r, r = [line EXCEPT !.ring = Rotated(line)]
    PROVE  /\ r \in Lines /\ Sound(r) /\ Waiters(r) = Waiters(line)
           /\ r.queue = line.queue /\ r.last = line.last
           /\ KeepsOrder({line.last}, line.ring, r.ring)
<1>1. r.queue = line.queue /\ r.ring = Rotated(line) /\ r.last = line.last
  BY DEF LineInv, Lines
<1>2. RingHolds(line.queue, Rotated(line)) /\ KeepsOrder({line.last}, line.ring, Rotated(line))
  BY RotatedSound DEF LineInv
<1>3. r \in Lines
  BY <1>2 DEF LineInv, Lines, RingHolds
<1>4. Sound(r) /\ Waiters(r) = Waiters(line)
  BY <1>1, <1>2 DEF LineInv, Sound, Waiters
<1> QED BY <1>1, <1>2, <1>3, <1>4

\* The line after the shutdown.
LEMMA LineClose ==
    ASSUME TruthInv, LineInv, Close
    PROVE  LineInv'
<1>1. line' = [EmptyLine EXCEPT !.last = line.last] /\ closed' = TRUE
  BY DEF Close
<1>2. /\ line' = [queue |-> [u \in Users |-> <<>>], ring |-> <<>>, last |-> line.last]
      /\ line.last \in Users \union {Nobody}
  BY <1>1 DEF EmptyLine, LineInv, Lines
<1>3. line' \in Lines
  BY <1>2 DEF Lines
<1>4. Range(<<>>) = {} /\ IsInjective(<<>>)
  BY DEF Range, IsInjective
<1>5. QueuesHold(line'.queue) /\ Waiters(line') = {}
  BY <1>2, <1>4 DEF QueuesHold, IsQueueOf, Waiters
<1>6. RingHolds(line'.queue, line'.ring)
  BY <1>2, <1>4 DEF RingHolds
<1>7. ASSUME NEW t \in Turns PROVE turn'[t].pc # "queued"
  <2>1. turn[t] \in TurnStates
    BY DEF TruthInv
  <2>2. CASE turn[t].pc = "queued"
    <3>1. turn'[t] = [turn[t] EXCEPT !.pc = "over", !.cancelled = TRUE,
                                     !.terminal = "cancelled"]
      BY <2>2 DEF Close, Ended, At, TruthInv
    <3> QED BY <2>1, <3>1 DEF TurnStates
  <2>3. CASE turn[t].pc # "queued"
    <3>1. turn'[t] = [turn[t] EXCEPT !.cancelled = TRUE] \/ turn'[t] = turn[t]
      BY <2>3 DEF Close, At
    <3> QED BY <2>1, <2>3, <3>1 DEF TurnStates
  <2> QED BY <2>2, <2>3
<1>8. Sound(line)' /\ (line \in Lines)' /\ (closed \in BOOLEAN)'
  BY <1>1, <1>3, <1>5, <1>6 DEF Sound, QueuesHold, RingHolds, Lines
<1>9. (\A t \in Turns : turn[t].pc = "queued" <=> t \in Waiters(line))'
  BY <1>5, <1>7 DEF Waiters
<1> QED BY <1>8, <1>9 DEF LineInv

\* The workers are not in the line.
LEMMA LineWork ==
    ASSUME TruthInv, LineInv, NEW t \in Turns, Work(t) \/ Fail(t) \/ TimeOut(t)
    PROVE  LineInv'
<1>0. turn \in [Turns -> TurnStates]
  BY DEF TruthInv
<1>1. line' = line /\ closed' = closed
  BY DEF Work, Enter, Acquire, StopWaiting, Leave, StartPersisting, Commit, Report, End,
         Fail, TimeOut
<1>2. turn[t].pc # "queued"
  BY DEF Work, Enter, Acquire, StopWaiting, Leave, StartPersisting, Commit, Report, End,
         Fail, TimeOut, At
<1>3. ASSUME (\A s \in Turns \ {t} : turn'[s] = turn[s]) /\ turn'[t].pc # "queued"
      PROVE  LineInv'
  BY <1>1, <1>2, <1>3, LineMoves DEF LineInv
<1>4. ASSUME NEW pc, turn' = [turn EXCEPT ![t].pc = pc], pc # "queued" PROVE LineInv'
  BY <1>0, <1>3, <1>4, ProceedChanges
<1>5. ASSUME NEW event, turn' = Stop(t, event) PROVE LineInv'
  BY <1>0, <1>3, <1>5, StopChanges
<1>6. CASE Commit(t)
  <2>1. turn' = [turn EXCEPT ![t].pc = "committed", ![t].stored = TRUE] /\ turn[t] \in TurnStates
    BY <1>0, <1>6 DEF Commit
  <2> QED BY <1>0, <1>3, <2>1 DEF TurnStates
<1>7. CASE TimeOut(t)
  <2>1. turn' = [turn EXCEPT ![t] = [turn[t] EXCEPT !.pc = "ending", !.cancelled = TRUE,
                                                    !.terminal = Emit(t, "error")]]
        /\ turn[t] \in TurnStates
    BY <1>0, <1>7 DEF TimeOut, Stop
  <2> QED BY <1>0, <1>3, <2>1 DEF TurnStates
<1>8. CASE Work(t) /\ ~Commit(t)
  <2>1. (\E pc : turn' = [turn EXCEPT ![t].pc = pc] /\ pc # "queued")
        \/ (\E event : turn' = Stop(t, event))
    BY <1>8 DEF Work, Enter, Acquire, StopWaiting, Leave, StartPersisting, Report, End,
                Proceed, Interrupted
  <2> QED BY <1>4, <1>5, <2>1
<1>9. CASE Fail(t)
  BY <1>5, <1>9 DEF Fail
<1> QED BY <1>6, <1>7, <1>8, <1>9

-------------------------------------------------------------------------------
\* Who has been passed over by v is served before v is served again.
InOrder(u, v) ==
    /\ passed[u][v] <= 1
    /\ line.queue[u] # <<>> /\ passed[u][v] = 1 => line.last # u /\ Ahead(line.ring, u, v)

OrderInv ==
    /\ passed \in [Users -> [Users -> Nat]]
    /\ \A u, v \in Users : InOrder(u, v)

\* u is in the ring while a turn of it is in the line.
LEMMA InTheRing ==
    ASSUME LineInv, NEW u \in Users
    PROVE  u \in Range(line.ring) <=> line.queue[u] # <<>>
  BY DEF LineInv, Sound, RingHolds

\* The line changes, but nobody is served.
LEMMA OrderKept ==
    ASSUME LineInv, OrderInv, passed' = passed, line'.last = line.last,
           \A u \in Users : line'.queue[u] # <<>> => line.queue[u] # <<>>,
           NEW S, KeepsOrder(S, line.ring, line'.ring), S \subseteq {line.last}
    PROVE  OrderInv'
<1>1. ASSUME NEW u \in Users, NEW v \in Users PROVE InOrder(u, v)'
  <2>1. InOrder(u, v)
    BY DEF OrderInv
  <2>2. (passed[u][v] <= 1)'
    BY <2>1 DEF InOrder
  <2>3. ASSUME line'.queue[u] # <<>>, passed'[u][v] = 1
        PROVE  line'.last # u /\ Ahead(line'.ring, u, v)
    <3>1. line.queue[u] # <<>> /\ passed[u][v] = 1
      BY <2>3
    <3>2. line.last # u /\ Ahead(line.ring, u, v)
      BY <2>1, <3>1 DEF InOrder
    <3>3. u \in Range(line.ring) \ S
      BY <3>1, <3>2, InTheRing
    <3> QED BY <3>2, <3>3 DEF KeepsOrder
  <2> QED BY <2>2, <2>3 DEF InOrder, Ahead
<1>2. \A u, v \in Users : InOrder(u, v)'
  BY <1>1
<1>3. (\A u, v \in Users : InOrder(u, v))'
  BY <1>2
<1>4. (passed \in [Users -> [Users -> Nat]])'
  BY DEF OrderInv
<1> QED BY <1>3, <1>4 DEF OrderInv

\* Nobody has been passed over at the start.
LEMMA OrderInit == Init => OrderInv
<1> SUFFICES ASSUME Init PROVE OrderInv
  OBVIOUS
<1>1. passed = [u \in Users |-> [v \in Users |-> 0]]
  BY DEF Init
<1>2. passed \in [Users -> [Users -> Nat]] /\ \A u, v \in Users : passed[u][v] = 0
  BY <1>1
<1> QED BY <1>2 DEF OrderInv, InOrder

\* A new user of the line joins its end, so that everybody keeps their order.
LEMMA OrderSubmit ==
    ASSUME LineInv, OrderInv, NEW t \in Turns, Submit(t)
    PROVE  OrderInv'
<1>1. PICK x \in Users : x = UserOf[t]
  BY ChatAssumption
<1>2. t \notin Waiters(line)
  BY DEF LineInv, Submit, At
<1>3. PICK r : r = line'
  OBVIOUS
<1>4. PutTo(line, t, r)
  BY <1>2, <1>3, PutLine DEF LineInv, Submit
<1>5. /\ r.last = line.last
      /\ \A v \in Users \ {x} : r.queue[v] = line.queue[v]
      /\ \A u \in Range(line.ring) : \A v : Ahead(line.ring, u, v) => Ahead(r.ring, u, v)
  BY <1>1, <1>4 DEF PutTo, KeepsOrder
<1>6. passed' = [passed EXCEPT ![x] = IF line.queue[x] = <<>> THEN [v \in Users |-> 0] ELSE @]
  BY <1>1 DEF Submit
<1>7. passed' \in [Users -> [Users -> Nat]]
  BY <1>6 DEF OrderInv
<1>8. ASSUME NEW u \in Users, NEW v \in Users
      PROVE  /\ passed'[u][v] <= 1
             /\ r.queue[u] # <<>> /\ passed'[u][v] = 1 => r.last # u /\ Ahead(r.ring, u, v)
  <2>1. passed[u][v] \in Nat /\ InOrder(u, v)
    BY DEF OrderInv
  <2>2. CASE u = x /\ line.queue[x] = <<>>
    <3>1. passed'[u][v] = 0
      BY <1>6, <2>2 DEF OrderInv
    <3> QED BY <3>1
  <2>3. CASE u # x \/ line.queue[x] # <<>>
    <3>1. passed'[u][v] = passed[u][v]
      BY <1>6, <2>3 DEF OrderInv
    <3>2. r.queue[u] # <<>> => line.queue[u] # <<>>
      BY <1>5, <2>3
    <3> QED BY <1>5, <2>1, <3>1, <3>2, InTheRing DEF InOrder
  <2> QED BY <2>2, <2>3
<1>9. (\A u, v \in Users : InOrder(u, v))'
  BY <1>3, <1>8 DEF InOrder, Ahead
<1> QED BY <1>7, <1>9 DEF OrderInv

\* Who is dispatched goes to the end of the ring, behind all whom it passed.
LEMMA OrderDispatch ==
    ASSUME LineInv, OrderInv, Dispatch
    PROVE  OrderInv'
<1>1. PICK i \in 1..Len(line.ring), x \in Users :
         /\ x = Rotated(line)[i] /\ NextUp(Rotated(line), i)
         /\ ServedFrom(line, i, line')
         /\ passed' = [v \in Users |->
               IF v = x \/ line.queue[v] = <<>> \/ ~Eligible(v)
               THEN [w \in Users |-> 0] ELSE [passed[v] EXCEPT ![x] = @ + 1]]
  BY DispatchServes
<1>2. PICK ring : ring = Rotated(line)
  OBVIOUS
<1>3. PICK r : r = line'
  OBVIOUS
<1>4. /\ r.last = x
      /\ \A v \in Users : r.queue[v] # <<>> => line.queue[v] # <<>>
      /\ \A j \in (i + 1)..Len(ring) : \A v :
             v # x /\ Ahead(ring, ring[j], v) => Ahead(r.ring, ring[j], v)
      /\ \A v : v # x => Ahead(r.ring, v, x)
  BY <1>1, <1>2, <1>3 DEF ServedFrom
<1>5. /\ ring \in Seq(Users) /\ Len(ring) = Len(line.ring) /\ Range(ring) = Range(line.ring)
      /\ \A u \in Range(line.ring) \ {line.last} : \A v :
             Ahead(line.ring, u, v) => Ahead(ring, u, v)
  BY <1>2, RotatedSound DEF LineInv, RingHolds, KeepsOrder
<1>6. i \in 1..Len(ring) /\ ring[i] = x /\ \A k \in 1..(i - 1) : ~Eligible(ring[k])
  BY <1>1, <1>2, <1>5 DEF NextUp
<1>7. passed' = [v \in Users |->
               IF v = x \/ line.queue[v] = <<>> \/ ~Eligible(v)
               THEN [w \in Users |-> 0] ELSE [passed[v] EXCEPT ![x] = @ + 1]]
  BY <1>1
<1>8. passed' \in [Users -> [Users -> Nat]]
  <2> SUFFICES ASSUME NEW v \in Users
               PROVE  (IF v = x \/ line.queue[v] = <<>> \/ ~Eligible(v)
                       THEN [w \in Users |-> 0] ELSE [passed[v] EXCEPT ![x] = @ + 1])
                            \in [Users -> Nat]
    BY <1>7
  <2>1. passed[v] \in [Users -> Nat] /\ passed[v][x] + 1 \in Nat
    BY DEF OrderInv
  <2>2. [passed[v] EXCEPT ![x] = @ + 1] \in [Users -> Nat]
    BY <2>1
  <2> QED BY <2>2
<1>9. ASSUME NEW u \in Users, NEW v \in Users
      PROVE  /\ passed'[u][v] <= 1
             /\ r.queue[u] # <<>> /\ passed'[u][v] = 1 => r.last # u /\ Ahead(r.ring, u, v)
  <2>1. passed[u] \in [Users -> Nat] /\ passed[u][v] \in Nat /\ InOrder(u, v)
    BY DEF OrderInv
  <2>2. CASE u = x \/ line.queue[u] = <<>> \/ ~Eligible(u)
    <3>1. passed'[u][v] = 0
      BY <1>7, <2>2
    <3> QED BY <3>1
  <2>3. CASE ~(u = x \/ line.queue[u] = <<>> \/ ~Eligible(u))
    <3>1. passed'[u] = [passed[u] EXCEPT ![x] = @ + 1]
      BY <1>7, <2>3
    <3>2. PICK j \in 1..Len(ring) : ring[j] = u
      <4>1. u \in Range(ring)
        BY <1>5, <2>3, InTheRing
      <4> QED BY <1>5, <4>1, RangeOfSequence
    <3>3. j \in (i + 1)..Len(ring)
      <4>1. Len(ring) \in Nat /\ i \in Nat /\ j # i
        BY <1>5, <1>6, <2>3, <3>2
      <4>2. j \notin 1..(i - 1)
        BY <1>6, <2>3, <3>2
      <4> QED BY <4>1, <4>2
    <3>4. ASSUME passed[u][v] = 1 PROVE Ahead(ring, u, v)
      <4>1. line.last # u /\ Ahead(line.ring, u, v)
        BY <2>1, <2>3, <3>4 DEF InOrder
      <4>2. u \in Range(line.ring) \ {line.last}
        BY <2>3, <4>1, InTheRing
      <4> QED BY <1>5, <4>1, <4>2
    <3>5. CASE v = x
      <4>1. passed[u][v] # 1
        <5> SUFFICES ASSUME passed[u][v] = 1 PROVE FALSE
          OBVIOUS
        <5>1. j < i
          BY <1>6, <3>2, <3>4, <3>5 DEF Ahead
        <5> QED BY <1>5, <1>6, <3>3, <5>1
      <4>2. passed[u][v] = 0
        BY <2>1, <4>1 DEF InOrder
      <4>3. passed'[u][v] = 1
        BY <2>1, <3>1, <3>5, <4>2
      <4>4. r.last # u /\ Ahead(r.ring, u, v)
        BY <1>4, <2>3, <3>5
      <4> QED BY <4>3, <4>4
    <3>6. CASE v # x
      <4>1. passed'[u][v] = passed[u][v]
        BY <2>1, <3>1, <3>6
      <4>2. ASSUME passed[u][v] = 1 PROVE r.last # u /\ Ahead(r.ring, u, v)
        BY <1>4, <2>3, <3>2, <3>3, <3>4, <3>6, <4>2
      <4> QED BY <2>1, <4>1, <4>2 DEF InOrder
    <3> QED BY <3>5, <3>6
  <2> QED BY <2>2, <2>3
<1>10. (\A u, v \in Users : InOrder(u, v))'
  BY <1>3, <1>9 DEF InOrder, Ahead
<1> QED BY <1>8, <1>10 DEF OrderInv

-------------------------------------------------------------------------------
RoundInv == TruthInv /\ LineInv /\ GateInv /\ OrderInv

\* Every step of the controller keeps the rounds sound.
LEMMA RoundStep == RoundInv /\ [Next]_vars => RoundInv'
<1> SUFFICES ASSUME RoundInv, [Next]_vars PROVE RoundInv'
  OBVIOUS
<1> USE DEF RoundInv
<1>0. TruthInv'
  BY TruthStep
<1>1. ASSUME NEW t \in Turns, Submit(t) PROVE RoundInv'
  BY <1>0, <1>1, GateApart, LineClient, OrderSubmit DEF Client
<1>2. ASSUME NEW t \in Turns, Cancel(t) \/ Expire(t) PROVE RoundInv'
  <2>1. LineInv' /\ GateInv'
    BY <1>2, GateApart, LineClient DEF Client
  <2>2. passed' = passed /\ (line' = TakenOut(line, t) \/ line' = line)
    BY <1>2 DEF Cancel, Expire
  <2>3. OrderInv'
    <3>1. CASE line' = TakenOut(line, t)
      <4>1. TakenFrom(line, t, line')
        BY <3>1, TakenOutLine DEF LineInv
      <4> QED BY <2>2, <4>1, OrderKept DEF TakenFrom
    <3>2. CASE line' = line
      <4>1. KeepsOrder({}, line.ring, line'.ring)
        BY <3>2 DEF KeepsOrder
      <4> QED BY <2>2, <3>2, <4>1, OrderKept
    <3> QED BY <2>2, <3>1, <3>2
  <2> QED BY <1>0, <2>1, <2>3
<1>3. CASE Dispatch
  BY <1>0, <1>3, GateApart, LineDispatch, OrderDispatch
<1>4. CASE DispatchNobody
  <2>1. PICK r : r = line'
    OBVIOUS
  <2>2. r = [line EXCEPT !.ring = Rotated(line)] /\ turn' = turn /\ closed' = closed
        /\ passed' = passed
    BY <1>4, <2>1 DEF DispatchNobody
  <2>3. /\ r \in Lines /\ Sound(r) /\ Waiters(r) = Waiters(line)
        /\ r.queue = line.queue /\ r.last = line.last
        /\ KeepsOrder({line.last}, line.ring, r.ring)
    BY <2>2, RotatedLine
  <2>4. OrderInv'
    BY <2>1, <2>2, <2>3, OrderKept
  <2>5. (line \in Lines)' /\ Sound(line)' /\ (closed \in BOOLEAN)'
    BY <2>1, <2>2, <2>3 DEF LineInv, Lines, Sound
  <2>6. (\A t \in Turns : turn[t].pc = "queued" <=> t \in Waiters(line))'
    BY <2>1, <2>2, <2>3 DEF LineInv, Waiters
  <2>7. GateInv'
    BY <1>4, GateApart
  <2> QED BY <1>0, <2>4, <2>5, <2>6, <2>7 DEF LineInv
<1>5. CASE Close
  <2>1. LineInv' /\ GateInv'
    BY <1>5, LineClose, GateApart
  <2>2. passed' = passed /\ line'.last = line.last
        /\ \A u \in Users : line'.queue[u] = <<>>
    BY <1>5 DEF Close, EmptyLine
  <2>3. OrderInv'
    <3>1. (\A u, v \in Users : InOrder(u, v))'
      BY <2>2 DEF OrderInv, InOrder
    <3> QED BY <2>2, <3>1 DEF OrderInv
  <2> QED BY <1>0, <2>1, <2>3
<1>6. ASSUME NEW t \in Turns, Work(t) \/ Fail(t) \/ TimeOut(t) PROVE RoundInv'
  <2>1. LineInv' /\ GateInv'
    BY <1>6, LineWork, GateWork
  <2>2. line' = line /\ passed' = passed
    BY <1>6 DEF Work, Enter, Acquire, StopWaiting, Leave, StartPersisting, Commit, Report,
                End, Fail, TimeOut
  <2>3. OrderInv'
    <3>1. KeepsOrder({}, line.ring, line'.ring)
      BY <2>2 DEF KeepsOrder
    <3> QED BY <2>2, <3>1, OrderKept
  <2> QED BY <1>0, <2>1, <2>3
<1>7. CASE UNCHANGED vars
  <2>1. turn' = turn /\ line' = line /\ gate' = gate /\ closed' = closed /\ passed' = passed
    BY <1>7 DEF vars
  <2>2. LineInv'
    BY <2>1 DEF LineInv, Sound, Waiters
  <2>3. GateInv'
    BY <2>1 DEF GateInv, GateHolds, NoIdlePlace, AtGate, Sound, Waiters
  <2>4. OrderInv'
    BY <2>1 DEF OrderInv, InOrder
  <2> QED BY <1>0, <2>2, <2>3, <2>4
<1> QED BY <1>1, <1>2, <1>3, <1>4, <1>5, <1>6, <1>7 DEF Next, Client

\* The inductive invariant: what turns say is true, the line and the gate are exact, no place
\* is idle while somebody waits, and whoever was passed over is ahead of who passed them.
THEOREM RoundsHold == Spec => []RoundInv
<1>1. Init => RoundInv
  BY TruthInit, LineInit, GateInit, OrderInit DEF RoundInv
<1> QED BY <1>1, RoundStep, PTL DEF Spec

\* In the line and at the gate, each user with a waiting turn, and nobody else, is in the
\* ring, once (chat_concurrency.py 306-313, 341-364, 793-803).
THEOREM RingsStayExact == Spec => []RingsAreExact
<1>1. RoundInv => RingsAreExact
  BY DEF RoundInv, LineInv, GateInv, GateHolds, Sound, RingHolds, RingsAreExact
<1> QED BY <1>1, RoundsHold, PTL

\* Places are counted exactly, and while somebody waits at the gate none of them is idle:
\* no grant of _grant_locked (chat_concurrency.py 366-388) is lost to a waiter that gave up.
THEOREM GateIsNeverIdle == Spec => []NoPlaceIsLost
<1>1. RoundInv => NoPlaceIsLost
  <2> SUFFICES ASSUME RoundInv PROVE NoPlaceIsLost
    OBVIOUS
  <2>1. gate.used = Cardinality(gate.held) /\ (Waiters(gate) # {} => gate.used = Capacity)
    BY DEF RoundInv, GateInv, GateHolds, NoIdlePlace
  <2>2. \A t \in gate.held : t \in Turns /\ turn[t].pc \in {"waiting", "holding"}
    BY DEF RoundInv, GateInv, GateHolds, Gates, AtGate
  <2> QED BY <2>1, <2>2 DEF NoPlaceIsLost
<1> QED BY <1>1, RoundsHold, PTL

\* Between two dispatches of one user who waits with a turn that may run, nobody else is
\* dispatched twice (_next_eligible_locked, chat_concurrency.py 677-703).
THEOREM RoundRobin == Spec => []NobodyPassesTwice
<1>1. RoundInv => NobodyPassesTwice
  BY DEF RoundInv, OrderInv, InOrder, NobodyPassesTwice
<1> QED BY <1>1, RoundsHold, PTL

\* The types of the controller, of the line, of the gate and of the turns.
THEOREM ChatTypes == Spec => []TypeOK
<1>1. RoundInv => TypeOK
  <2> SUFFICES ASSUME RoundInv PROVE TypeOK
    OBVIOUS
  <2>1. Rounds(line) /\ Rounds(gate)
    BY DEF RoundInv, LineInv, GateInv, GateHolds, Lines, Gates, Rounds
  <2>2. gate.used \in 0..Capacity /\ gate.held \in SUBSET Turns
    BY ChatAssumption DEF RoundInv, GateInv, GateHolds, Gates
  <2> QED BY <2>1, <2>2 DEF RoundInv, TruthInv, LineInv, OrderInv, TypeOK
<1> QED BY <1>1, RoundsHold, PTL

-------------------------------------------------------------------------------
(* GpuPriority *)

\* Since when there is priority is known exactly while somebody has it.
OwnersAreTimed == since = NoTime <=> Owners = {}

\* While the marker counts and was not robbed, it is what was written last,
\* and the decision on a batch is older than the turns.
MarkerStands ==
    Owners # {} /\ since <= Stale /\ ~robbed
        => marker = since /\ batches <= 1 /\ (batches = 1 => indexer.pc # "embed")

GInv == GpuTypeOK /\ OwnersAreTimed /\ MarkerStands

-------------------------------------------------------------------------------
\* How the steps change the owners.

\* What becomes of one turn decides whether it is an owner, and of no other.
LEMMA OwnersBecome ==
    ASSUME GpuTypeOK, NEW t \in Asks, NEW pc \in {"owner", "unprioritized", "idle"}, Becomes(t, pc)
    PROVE  /\ ask' \in [Asks -> [pc : {"idle", "owner", "unprioritized"},
                                  age : 0..TurnLimit]]
           /\ Owners' = IF pc = "owner" THEN Owners \union {t} ELSE Owners \ {t}
  <1>1. 0 \in 0..TurnLimit
    BY PriorityAssumption
  <1>2. ask' \in [Asks -> [pc : {"idle", "owner", "unprioritized"}, age : 0..TurnLimit]]
    BY <1>1 DEF GpuTypeOK, Becomes
  <1>3. \A s \in Asks : ask'[s].pc = IF s = t THEN pc ELSE ask[s].pc
    BY DEF GpuTypeOK, Becomes
  <1>4. Owners' = IF pc = "owner" THEN Owners \union {t} ELSE Owners \ {t}
    BY <1>3 DEF Owners
  <1> QED BY <1>2, <1>4

\* Time passes for what has an age, and nothing becomes younger.
LEMMA OlderIsLater ==
    ASSUME NEW age \in Ages \union {NoTime}
    PROVE  /\ Older(age) \in Ages \union {NoTime}
           /\ Older(age) = NoTime <=> age = NoTime
           /\ Older(age) <= Stale => age <= Stale
  BY PriorityAssumption DEF Older, Ages, NoTime

\* Time passes.
LEMMA TickKeeps == ASSUME GInv, Tick PROVE GInv'
  <1> DEFINE Rights(t) == ask[t].pc \in {"owner", "unprioritized"}
  <1>1. ask' \in [Asks -> [pc : {"idle", "owner", "unprioritized"}, age : 0..TurnLimit]]
    <2> SUFFICES ASSUME NEW t \in Asks
                 PROVE  (IF Rights(t) THEN [ask[t] EXCEPT !.age = @ + 1] ELSE ask[t])
                            \in [pc : {"idle", "owner", "unprioritized"}, age : 0..TurnLimit]
      BY DEF Tick
    <2>1. ask[t] \in [pc : {"idle", "owner", "unprioritized"}, age : 0..TurnLimit]
      BY DEF GInv, GpuTypeOK
    <2>2. CASE Rights(t)
      <3>1. ask[t].age + 1 \in 0..TurnLimit
        BY <2>1, <2>2, PriorityAssumption DEF Tick
      <3> QED BY <2>1, <2>2, <3>1
    <2>3. CASE ~Rights(t)
      BY <2>1, <2>3
    <2> QED BY <2>2, <2>3
  <1>2. \A t \in Asks : ask'[t].pc = ask[t].pc
    BY DEF GInv, GpuTypeOK, Tick
  <1>3. Owners' = Owners
    BY <1>2 DEF Owners
  <1>4. GpuTypeOK'
    BY <1>1, OlderIsLater DEF GInv, GpuTypeOK, Tick
  <1>5. OwnersAreTimed'
    BY <1>3, OlderIsLater DEF GInv, GpuTypeOK, OwnersAreTimed, Tick
  <1>6. MarkerStands'
    BY <1>3, OlderIsLater DEF GInv, GpuTypeOK, MarkerStands, Tick
  <1> QED BY <1>4, <1>5, <1>6 DEF GInv

-------------------------------------------------------------------------------
\* The steps of the coordinator.

\* A turn gets priority, and the marker is written.
LEMMA BeginKeeps == ASSUME GInv, NEW t \in Asks, Begin(t) PROVE GInv'
  <1>1. Owners' = Owners \union {t}
    BY OwnersBecome DEF GInv, Begin
  <1>2. since' \in Ages /\ marker' = since'
    <2>1. 0 \in Ages
      BY PriorityAssumption DEF Ages
    <2> QED BY <2>1 DEF GInv, GpuTypeOK, Begin
  <1>3. GpuTypeOK'
    <2>1. batches' = (IF Owners = {} THEN 0 ELSE batches) /\ batches \in 0..2
          /\ robbed' = (robbed /\ Owners # {}) /\ indexer' = indexer
      BY DEF GInv, GpuTypeOK, Begin
    <2>2. batches' \in 0..2
      BY <2>1
    <2>3. robbed' \in BOOLEAN
      BY <2>1
    <2> QED BY <1>2, <2>1, <2>2, <2>3, OwnersBecome DEF GInv, GpuTypeOK, Begin
  <1>4. OwnersAreTimed'
    BY <1>1, <1>2 DEF OwnersAreTimed, Ages, NoTime
  <1>5. MarkerStands'
    <2>1. CASE Owners = {}
      BY <1>2, <2>1 DEF MarkerStands, Begin
    <2>2. CASE Owners # {}
      <3>1. since' = since /\ batches' = batches /\ robbed' = robbed /\ indexer' = indexer
        BY <2>2 DEF GInv, OwnersAreTimed, GpuTypeOK, Begin
      <3> QED BY <1>2, <2>2, <3>1 DEF GInv, MarkerStands
    <2> QED BY <2>1, <2>2
  <1> QED BY <1>3, <1>4, <1>5 DEF GInv

\* A turn goes on without priority, because the marker could not be written.
LEMMA BeginUnwrittenKeeps == ASSUME GInv, NEW t \in Asks, BeginUnwritten(t) PROVE GInv'
  <1>1. Owners' = Owners
    <2>1. t \notin Owners
      BY DEF BeginUnwritten, Owners
    <2> QED BY <2>1, OwnersBecome DEF GInv, BeginUnwritten
  <1>2. GpuTypeOK'
    BY OwnersBecome DEF GInv, GpuTypeOK, BeginUnwritten
  <1>3. OwnersAreTimed' /\ MarkerStands'
    BY <1>1 DEF GInv, OwnersAreTimed, MarkerStands, BeginUnwritten
  <1> QED BY <1>2, <1>3 DEF GInv

\* The ends of an owner, with and without a marker of what is left.
LEMMA EndAskKeeps ==
    ASSUME GInv, NEW t \in Asks, EndAsk(t) \/ EndAskUnwritten(t) PROVE GInv'
  <1>1. Owners' = Owners \ {t} /\ t \in Owners
    <2>1. Owners' = Owners \ {t}
      BY OwnersBecome DEF GInv, EndAsk, EndAskUnwritten
    <2> QED BY <2>1 DEF EndAsk, EndAskUnwritten, Owners
  <1>2. since' = (IF Owners = {t} THEN NoTime ELSE since) /\ marker' \in {since', marker}
        /\ UNCHANGED <<indexer, stopped, batches, robbed>>
    BY DEF EndAsk, EndAskUnwritten
  <1>3. ask' \in [Asks -> [pc : {"idle", "owner", "unprioritized"}, age : 0..TurnLimit]]
    BY OwnersBecome DEF GInv, EndAsk, EndAskUnwritten
  <1>4. GpuTypeOK'
    BY <1>2, <1>3 DEF GInv, GpuTypeOK
  <1>5. Owners' = {} <=> Owners = {t}
    BY <1>1
  <1>6. OwnersAreTimed' /\ MarkerStands'
    BY <1>1, <1>2, <1>5 DEF GInv, OwnersAreTimed, MarkerStands
  <1> QED BY <1>4, <1>6 DEF GInv

\* A turn without priority ends.
LEMMA EndUnprioritizedKeeps == ASSUME GInv, NEW t \in Asks, EndUnprioritized(t) PROVE GInv'
  <1>1. Owners' = Owners
    <2>1. t \notin Owners
      BY DEF EndUnprioritized, Owners
    <2> QED BY <2>1, OwnersBecome DEF GInv, EndUnprioritized
  <1>2. GpuTypeOK'
    BY OwnersBecome DEF GInv, GpuTypeOK, EndUnprioritized
  <1> QED BY <1>1, <1>2 DEF GInv, OwnersAreTimed, MarkerStands, EndUnprioritized

\* The API dies; its marker stays.
LEMMA DieKeeps == ASSUME GInv, Die PROVE GInv'
  <1>1. ask' \in [Asks -> [pc : {"idle", "owner", "unprioritized"}, age : 0..TurnLimit]]
    <2>1. 0 \in 0..TurnLimit
      BY PriorityAssumption
    <2> QED BY <2>1 DEF GInv, GpuTypeOK, Die
  <1>2. \A t \in Asks : ask'[t].pc # "owner"
    BY DEF GInv, GpuTypeOK, Die
  <1>3. Owners' = {}
    BY <1>2 DEF Owners
  <1>4. GpuTypeOK'
    BY <1>1 DEF GInv, GpuTypeOK, Die
  <1> QED BY <1>3, <1>4 DEF GInv, OwnersAreTimed, MarkerStands, Die

-------------------------------------------------------------------------------
\* The steps of the indexer leave the owners alone.

\* Who has priority depends on the turns alone.
LEMMA IndexerKeepsOwners == ASSUME UNCHANGED ask PROVE Owners' = Owners
  BY DEF Owners

\* The indexer goes to one of its places.
LEMMA IndexerAtTyped ==
    ASSUME GpuTypeOK,
           NEW pc \in {"ready", "unlink", "unlink again", "release", "wait", "embed",
                        "embed anyway", "gone"}
    PROVE  /\ IndexerAt(pc) \in
                 [pc : {"ready", "unlink", "unlink again", "release", "wait", "embed",
                        "embed anyway", "gone"}, resident : BOOLEAN]
           /\ IndexerAt(pc).pc = pc
  BY DEF GpuTypeOK, IndexerAt

\* A reading of the marker goes on to a batch that counts only if there is none.
LEMMA LookKeeps == ASSUME GInv, Look \/ Poll \/ Misread PROVE GInv'
  <1>1. Owners' = Owners /\ UNCHANGED <<ask, since, marker, stopped, batches, robbed>>
    BY IndexerKeepsOwners DEF Look, Poll, Misread
  <1>2. \E pc \in {"unlink", "unlink again", "release", "wait", "embed", "embed anyway"} :
            indexer' = IndexerAt(pc) /\ (pc = "embed" => marker = NoTime)
    BY DEF Look, Poll, Misread
  <1>3. PICK pc \in {"unlink", "unlink again", "release", "wait", "embed", "embed anyway"} :
            indexer' = IndexerAt(pc) /\ (pc = "embed" => marker = NoTime)
    BY <1>2
  <1>4. GpuTypeOK' /\ indexer'.pc = pc
    BY <1>1, <1>3, IndexerAtTyped DEF GInv, GpuTypeOK
  <1>5. MarkerStands'
    BY <1>1, <1>3, <1>4 DEF GInv, OwnersAreTimed, MarkerStands
  <1> QED BY <1>1, <1>4, <1>5 DEF GInv, OwnersAreTimed

\* The indexer removes a stale marker.
LEMMA UnlinkKeeps == ASSUME GInv, Unlink PROVE GInv'
  <1>1. Owners' = Owners /\ UNCHANGED <<ask, since, stopped, batches>>
    BY IndexerKeepsOwners DEF Unlink
  <1>2. GpuTypeOK'
    BY <1>1, IndexerAtTyped DEF GInv, GpuTypeOK, Unlink
  <1>3. ASSUME Owners # {}, since <= Stale, ~robbed PROVE robbed'
    <2>1. marker = since /\ since # NoTime /\ since \in Ages
      BY <1>3 DEF GInv, GpuTypeOK, OwnersAreTimed, MarkerStands
    <2>2. marker \in 0..Stale
      BY <2>1, <1>3, PriorityAssumption DEF Ages
    <2> QED BY <2>2 DEF Unlink
  <1>4. robbed' \in BOOLEAN /\ (robbed => robbed')
    BY DEF GInv, GpuTypeOK, Unlink
  <1>5. MarkerStands'
    BY <1>1, <1>3, <1>4 DEF MarkerStands
  <1> QED BY <1>1, <1>2, <1>5 DEF GInv, OwnersAreTimed

\* Giving the GPU back, before a wait or when idle.
LEMMA ReleaseKeeps == ASSUME GInv, ReleaseGpu \/ ReleaseIdle PROVE GInv'
  <1>1. Owners' = Owners /\ UNCHANGED <<ask, since, marker, stopped, batches, robbed>>
    BY IndexerKeepsOwners DEF ReleaseGpu, ReleaseIdle
  <1>2. indexer' \in [pc : {"ready", "wait"}, resident : BOOLEAN]
    <2>1. CASE ReleaseGpu
      <3>1. IndexerAt("wait") \in [pc : {"ready", "wait"}, resident : BOOLEAN]
        BY DEF GInv, GpuTypeOK, IndexerAt
      <3>2. [pc |-> "wait", resident |-> FALSE] \in [pc : {"ready", "wait"}, resident : BOOLEAN]
        OBVIOUS
      <3>3. indexer' = [pc |-> "wait", resident |-> FALSE] \/ indexer' = IndexerAt("wait")
        BY <2>1 DEF ReleaseGpu
      <3> QED BY <3>1, <3>2, <3>3
    <2>2. CASE ReleaseIdle
      BY <2>2 DEF ReleaseIdle
    <2> QED BY <2>1, <2>2
  <1>3. GpuTypeOK' /\ indexer'.pc # "embed"
    BY <1>1, <1>2 DEF GInv, GpuTypeOK
  <1> QED BY <1>1, <1>3 DEF GInv, OwnersAreTimed, MarkerStands

\* The indexer is told to stop, ends, or is started again.
LEMMA StopKeeps == ASSUME GInv, StopIndexer \/ IndexerEnds \/ StartAgain PROVE GInv'
  <1>1. Owners' = Owners /\ UNCHANGED <<ask, since, marker, batches, robbed>>
    BY IndexerKeepsOwners DEF StopIndexer, IndexerEnds, StartAgain
  <1>2. stopped' \in BOOLEAN /\ indexer' \in {indexer, [pc |-> "gone", resident |-> FALSE],
                                                [pc |-> "ready", resident |-> TRUE]}
    BY DEF GInv, GpuTypeOK, StopIndexer, IndexerEnds, StartAgain
  <1>3. GpuTypeOK'
    <2>1. indexer' \in [pc : {"ready", "unlink", "unlink again", "release", "wait", "embed",
                              "embed anyway", "gone"}, resident : BOOLEAN]
      <3>1. CASE indexer' = indexer
        BY <3>1 DEF GInv, GpuTypeOK
      <3>2. CASE indexer' = [pc |-> "gone", resident |-> FALSE]
        BY <3>2
      <3>3. CASE indexer' = [pc |-> "ready", resident |-> TRUE]
        BY <3>3
      <3> QED BY <1>2, <3>1, <3>2, <3>3
    <2>2. UNCHANGED <<ask, since, marker, batches, robbed>>
      BY <1>1
    <2> QED BY <1>2, <2>1, <2>2 DEF GInv, GpuTypeOK
  <1>4. indexer'.pc = "embed" => indexer.pc = "embed"
    BY <1>2
  <1> QED BY <1>1, <1>3, <1>4 DEF GInv, OwnersAreTimed, MarkerStands

\* The indexer begins a batch.
LEMMA EmbedKeeps == ASSUME GInv, Embed PROVE GInv'
  <1>1. Owners' = Owners /\ UNCHANGED <<ask, since, marker, stopped, robbed>> /\ indexer'.pc = "ready"
    BY IndexerKeepsOwners DEF Embed
  <1>2. GpuTypeOK'
    <2>1. batches' \in {batches, batches + 1} /\ (batches' = batches \/ batches < 2)
          /\ batches \in 0..2
      BY DEF GInv, GpuTypeOK, Embed
    <2>2. batches' \in 0..2
      BY <2>1
    <2> QED BY <1>1, <2>2 DEF GInv, GpuTypeOK, Embed
  <1>3. ASSUME Owners # {}, since <= Stale, ~robbed PROVE batches' \in 0..1
    <2>1. batches \in 0..2
      BY DEF GInv, GpuTypeOK
    <2>2. batches <= 1 /\ (batches = 1 => indexer.pc # "embed")
      BY <1>3 DEF GInv, MarkerStands
    <2>3. batches \in 0..1 /\ (indexer.pc = "embed" => batches = 0)
      BY <2>1, <2>2
    <2>4. batches' = batches \/ (indexer.pc = "embed" /\ batches' = batches + 1)
      BY DEF Embed
    <2> QED BY <2>3, <2>4
  <1>4. MarkerStands'
    BY <1>1, <1>3 DEF GInv, MarkerStands
  <1> QED BY <1>1, <1>2, <1>4 DEF GInv, OwnersAreTimed

-------------------------------------------------------------------------------
\* Nobody has priority at the start, and there is no marker.
LEMMA InitHolds == GpuInit => GInv
  <1> SUFFICES ASSUME GpuInit PROVE GInv
    OBVIOUS
  <1>1. GpuTypeOK
    <2>1. 0 \in 0..TurnLimit
      BY PriorityAssumption
    <2>2. ask \in [Asks -> [pc : {"idle", "owner", "unprioritized"}, age : 0..TurnLimit]]
      BY <2>1 DEF GpuInit
    <2>3. since = NoTime /\ marker = NoTime /\ robbed = FALSE /\ stopped = FALSE /\ batches = 0
      BY DEF GpuInit
    <2>4. indexer \in [pc : {"ready", "unlink", "unlink again", "release", "wait", "embed",
                             "embed anyway", "gone"}, resident : BOOLEAN]
      BY DEF GpuInit
    <2>5. batches \in 0..2
      BY <2>3
    <2>6. robbed \in BOOLEAN /\ stopped \in BOOLEAN
      BY <2>3
    <2> QED BY <2>2, <2>3, <2>4, <2>5, <2>6 DEF GpuTypeOK
  <1>2. Owners = {}
    BY DEF GpuInit, Owners
  <1> QED BY <1>1, <1>2 DEF GInv, OwnersAreTimed, MarkerStands, GpuInit

(***************************************************************************)
(* The inductive invariant: the coordinator knows since when there is      *)
(* priority, and the marker is what it wrote as long as it counts.         *)
(***************************************************************************)
THEOREM PriorityInvariant == GpuSpec => []GInv
  <1>1. GInv /\ [GpuNext]_gpuVars => GInv'
    <2> SUFFICES ASSUME GInv, [GpuNext]_gpuVars PROVE GInv'
      OBVIOUS
    <2>1. CASE Tick BY <2>1, TickKeeps
    <2>2. CASE Die BY <2>2, DieKeeps
    <2>3. CASE Batch BY <2>3, LookKeeps, UnlinkKeeps, ReleaseKeeps, EmbedKeeps DEF Batch
    <2>4. CASE ReleaseIdle BY <2>4, ReleaseKeeps
    <2>7. CASE Misread BY <2>7, LookKeeps
    <2>8. CASE StopIndexer \/ IndexerEnds \/ StartAgain BY <2>8, StopKeeps
    <2>5. ASSUME NEW t \in Asks,
                 Begin(t) \/ BeginUnwritten(t) \/ EndAsk(t) \/ EndAskUnwritten(t)
                          \/ EndUnprioritized(t)
          PROVE  GInv'
      BY <2>5, BeginKeeps, BeginUnwrittenKeeps, EndAskKeeps, EndUnprioritizedKeeps
    <2>6. CASE UNCHANGED gpuVars
      BY <2>6 DEF gpuVars, GInv, GpuTypeOK, OwnersAreTimed, MarkerStands, Owners
    <2> QED BY <2>1, <2>2, <2>3, <2>4, <2>5, <2>6, <2>7, <2>8 DEF GpuNext
  <1> QED BY <1>1, InitHolds, PTL DEF GpuSpec

(***************************************************************************)
(* While turns overlap for no longer than a marker counts and none was     *)
(* taken for a stale one, the indexer begins at most one batch             *)
(* (_yield_to_chat_if_needed), not counting those it begins because it was *)
(* told to stop or could not read the marker: for any number of turns and  *)
(* any failures, stops and starts.                                         *)
(***************************************************************************)
THEOREM ChatComesFirst == GpuSpec => []IndexerYields
  <1>1. GInv => IndexerYields
    BY DEF GInv, MarkerStands, IndexerYields
  <1> QED BY <1>1, PriorityInvariant, PTL

-------------------------------------------------------------------------------
(* The three parts together *)

\* A step of the assistant is a step of one part and leaves the others as they are.
LEMMA PartsMove ==
  ASSUME [AssistantNext]_allVars
  PROVE  [Next]_vars /\ [StreamNext]_streamVars /\ [GpuNext]_gpuVars
  <1>1. CASE InAdmission(Next)
    BY <1>1 DEF InAdmission
  <1>2. CASE InStream(StreamNext)
    BY <1>2 DEF InStream
  <1>3. CASE InPriority(GpuNext)
    BY <1>3 DEF InPriority
  <1>4. CASE UNCHANGED allVars
    BY <1>4 DEF allVars
  <1> QED BY <1>1, <1>2, <1>3, <1>4 DEF AssistantNext

(***************************************************************************)
(* What TLC runs is each part, whatever the other two do: every theorem    *)
(* about a part is one about the assistant.                                *)
(***************************************************************************)
THEOREM AssistantIsItsParts == AssistantSpec => Spec /\ StreamSpec /\ GpuSpec
  <1>1. AssistantInit => Init /\ StreamInit /\ GpuInit
    BY DEF AssistantInit
  <1>2. [AssistantNext]_allVars => [Next]_vars
    BY PartsMove
  <1>3. [AssistantNext]_allVars => [StreamNext]_streamVars
    BY PartsMove
  <1>4. [AssistantNext]_allVars => [GpuNext]_gpuVars
    BY PartsMove
  <1> QED BY <1>1, <1>2, <1>3, <1>4, PTL DEF AssistantSpec, Spec, StreamSpec, GpuSpec

\* The gates and the turns, the stream and the marker keep their types.
THEOREM AssistantTypes == AssistantSpec => []Types
  <1>1. GInv => GpuTypeOK
    BY DEF GInv
  <1>2. TypeOK /\ StreamTypeOK /\ GpuTypeOK => Types
    BY DEF Types
  <1> QED BY <1>1, <1>2, AssistantIsItsParts, ChatTypes, StreamTypes, PriorityInvariant, PTL

===============================================================================
