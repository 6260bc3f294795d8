---------------------------- MODULE ChatConcurrency ----------------------------
(***************************************************************************)
(* Live chat turns in the API process: admission, dispatch by a fair       *)
(* scheduler, the gate in front of a shared model, the database            *)
(* transaction at the end, cancellation, deadlines and shutdown            *)
(* (ChatConcurrencyController and FairResourceGate of chat_concurrency.py, *)
(* stream_chat of routes/chat.py).                                         *)
(*                                                                         *)
(* The controller and each gate keep the same structure: a queue of turns  *)
(* per user and a ring of the users that have one.  The gate modelled is   *)
(* the one in front of the language model, the last of four and the only   *)
(* one that is always entered.  There are as many workers as turns may be  *)
(* active.  A slot of Turns stands for one request after another.          *)
(***************************************************************************)
EXTENDS Integers, FiniteSets, SequencesExt, Subsequences

CONSTANTS
    Users, Turns,
    UserOf,             \* UserOf[t]: whose requests slot t stands for
    Nobody,             \* no user yet
    MaxActive, MaxActivePerUser, MaxQueued, MaxQueuedPerUser,
    Capacity            \* of the gate

ASSUME ChatAssumption ==
    /\ IsFiniteSet(Turns) /\ UserOf \in [Turns -> Users]
    /\ Nobody \notin Users
    /\ {MaxActive, MaxActivePerUser, MaxQueued, MaxQueuedPerUser, Capacity}
            \subseteq Nat \ {0}

VARIABLES
    turn,       \* turn[t]: where it is, cancel_event, terminal event, rows committed
    line,       \* the controller's queues
    gate,       \* the gate's queues, its counter, and the waiters that acquired it
    closed,     \* the controller is shutting down
    passed      \* history: how often v went before u since u was first eligible

vars == <<turn, line, gate, closed, passed>>

Fresh == [pc |-> "queued", cancelled |-> FALSE, terminal |-> "none", stored |-> FALSE]
Over == [Fresh EXCEPT !.pc = "over", !.terminal = "result", !.stored = TRUE]

\* A worker has the turn, up to the moment it gives its place back.
Running == {"started", "waiting", "holding", "answered", "persisting", "committed",
            "ending"}
At(t, s) == turn[t].pc = s
Active == {t \in Turns : turn[t].pc \in Running}
ActiveOf(u) == {t \in Active : UserOf[t] = u}
Eligible(u) == Cardinality(ActiveOf(u)) < MaxActivePerUser

-------------------------------------------------------------------------------
\* A queue per user, and a ring of users.

EmptyLine == [queue |-> [u \in Users |-> <<>>], ring |-> <<>>, last |-> Nobody]
Waiters(q) == UNION {Range(q.queue[u]) : u \in Users}

Put(q, t) ==
    LET u == UserOf[t]
    IN  [q EXCEPT !.queue[u] = Append(@, t),
                  !.ring = IF Contains(@, u) THEN @ ELSE Append(@, u)]

\* Mutant: the user keeps its place in the ring.
TakenOutLeavingUser(q, t) == [q EXCEPT !.queue[UserOf[t]] = Without(@, t)]

\* _remove_queued_locked and _remove
TakenOut(q, t) ==
    LET rest == Without(q.queue[UserOf[t]], t)
    IN  [q EXCEPT !.queue[UserOf[t]] = rest,
                  !.ring = IF rest = <<>> THEN Without(@, UserOf[t]) ELSE @]

\* The user that was served last lets the others go first.
Rotated(q) ==
    IF Len(q.ring) > 1 /\ Head(q.ring) = q.last
    THEN Append(Tail(q.ring), Head(q.ring)) ELSE q.ring

\* The queue when the user in the i-th place has been served: those before it have
\* been passed over and are now behind, and so is the user if it has more to do.
Served(q, i) ==
    LET ring == Rotated(q)
        u == ring[i]
        rest == Tail(q.queue[u])
    IN  [q EXCEPT !.queue[u] = rest, !.last = u,
                  !.ring = SubSeq(ring, i + 1, Len(ring)) \o SubSeq(ring, 1, i - 1)
                           \o (IF rest = <<>> THEN <<>> ELSE <<u>>)]

-------------------------------------------------------------------------------
\* The gate.

\* One round of _grant_locked.  A waiter that is cancelled is dropped; its thread
\* will notice by itself.
GrantOne(g) ==
    IF g.used >= Capacity \/ g.ring = <<>> THEN g
    ELSE LET u == Rotated(g)[1]
             t == Head(g.queue[u])
             next == Served(g, 1)
         IN  IF turn[t].cancelled THEN [next EXCEPT !.last = g.last]
             ELSE [next EXCEPT !.used = @ + 1, !.held = @ \cup {t}]

Granted(g) ==
    LET after[n \in 0..Cardinality(Turns)] == IF n = 0 THEN g ELSE GrantOne(after[n - 1])
    IN  after[Cardinality(Turns)]

\* Mutant: the counter goes down whether or not the turn had been granted.
LeftTwice(t) ==
    Granted([(IF t \in gate.held THEN [gate EXCEPT !.held = @ \ {t}]
              ELSE TakenOut(gate, t)) EXCEPT !.used = @ - 1])

\* Mutant: the next waiter is not looked for.
LeftUngranted(t) ==
    IF t \in gate.held THEN [gate EXCEPT !.used = @ - 1, !.held = @ \ {t}]
    ELSE TakenOut(gate, t)

\* The `finally` of acquire, and _remove: whoever leaves makes room.
Left(t) ==
    Granted(IF t \in gate.held THEN [gate EXCEPT !.used = @ - 1, !.held = @ \ {t}]
            ELSE TakenOut(gate, t))

-------------------------------------------------------------------------------
\* The controller.

\* What a turn that ends without a worker gets at once.
Ended(t, event) == [turn EXCEPT ![t].pc = "over", ![t].cancelled = TRUE,
                                ![t].terminal = event]

Submit(t) ==
    LET u == UserOf[t]
    IN  /\ At(t, "over")
        /\ ~closed
        /\ Cardinality(Waiters(line)) < MaxQueued
        /\ Len(line.queue[u]) < MaxQueuedPerUser
        /\ turn' = [turn EXCEPT ![t] = Fresh]
        /\ line' = Put(line, t)
        /\ passed' = [passed EXCEPT ![u] = IF line.queue[u] = <<>> THEN [v \in Users |-> 0]
                                           ELSE @]
        /\ UNCHANGED <<gate, closed>>

\* The client stops the turn, goes away, or waits past the deadline.
Cancel(t) ==
    /\ ~At(t, "over")
    /\ ~turn[t].cancelled
    /\ IF At(t, "queued")
       THEN /\ line' = TakenOut(line, t)
            /\ turn' = Ended(t, "cancelled")
       ELSE /\ turn' = [turn EXCEPT ![t].cancelled = TRUE]
            /\ UNCHANGED line
    /\ UNCHANGED <<gate, closed, passed>>

\* _expire_queued_locked: queued for too long.
Expire(t) ==
    /\ At(t, "queued")
    /\ line' = TakenOut(line, t)
    /\ turn' = Ended(t, "error")
    /\ UNCHANGED <<gate, closed, passed>>

\* Mutant: whoever may run is as good as any other.
NextUpAnyone(ring, i) == Eligible(ring[i])

\* The first user of the ring that may have one more turn.
NextUp(ring, i) == Eligible(ring[i]) /\ \A k \in 1..(i - 1) : ~Eligible(ring[k])

\* One turn is taken from the line and given to a worker.
Dispatch ==
    /\ Cardinality(Active) < MaxActive
    /\ \E i \in DOMAIN line.ring :
          LET ring == Rotated(line)
              u == ring[i]
              t == Head(line.queue[u])
          IN  /\ NextUp(ring, i)
              /\ \/ turn' = [turn EXCEPT ![t].pc = "started"]
                 \/ turn' = Ended(t, "error")      \* queued for too long
              /\ line' = Served(line, i)
              /\ passed' = [v \in Users |->
                    IF v = u \/ line.queue[v] = <<>> \/ ~Eligible(v)
                    THEN [w \in Users |-> 0] ELSE [passed[v] EXCEPT ![u] = @ + 1]]
    /\ UNCHANGED <<gate, closed>>

\* The dispatcher finds nobody eligible, but has turned the ring.
DispatchNobody ==
    /\ Cardinality(Active) < MaxActive
    /\ \A u \in Range(line.ring) : ~Eligible(u)
    /\ line' = [line EXCEPT !.ring = Rotated(line)]
    /\ UNCHANGED <<turn, gate, closed, passed>>

\* close(): what is queued ends here, what runs is asked to.
Close ==
    /\ ~closed
    /\ closed' = TRUE
    /\ line' = [EmptyLine EXCEPT !.last = line.last]
    /\ turn' = [t \in Turns |->
            IF At(t, "queued") THEN Ended(t, "cancelled")[t]
            ELSE IF t \in Active THEN [turn[t] EXCEPT !.cancelled = TRUE]
            ELSE turn[t]]
    /\ UNCHANGED <<gate, passed>>

-------------------------------------------------------------------------------
\* A turn in the hands of its worker.  Its session may end in these ways.

Emit(t, event) == IF turn[t].terminal = "none" THEN event ELSE turn[t].terminal
Stop(t, event) == [turn EXCEPT ![t].pc = "ending", ![t].terminal = Emit(t, event)]

\* raise_if_cancelled passes, and the turn goes on to s.
Proceed(t, s) == ~turn[t].cancelled /\ turn' = [turn EXCEPT ![t].pc = s]

\* It is cancelled there; the transaction is rolled back, whatever is left of it.
Interrupted(t) == turn[t].cancelled /\ turn' = Stop(t, "cancelled")

\* acquire
Enter(t) ==
    /\ At(t, "started")
    /\ \/ /\ Proceed(t, "waiting")
          /\ gate' = Granted(Put(gate, t))
       \/ /\ Interrupted(t)
          /\ UNCHANGED gate
    /\ UNCHANGED <<line, closed, passed>>

Acquire(t) ==
    /\ At(t, "waiting")
    /\ t \in gate.held
    /\ Proceed(t, "holding")
    /\ UNCHANGED <<line, gate, closed, passed>>

\* A waiter that gives up leaves, whether or not it has been granted meanwhile;
\* one that is woken by the closing of the gate leaves its entry behind.
GivenUp(t) == {Left(t)} \cup IF closed /\ t \notin gate.held THEN {gate} ELSE {}

\* A waiter that is cancelled.
StopWaiting(t) ==
    /\ At(t, "waiting")
    /\ Interrupted(t)
    /\ gate' \in GivenUp(t)
    /\ UNCHANGED <<line, closed, passed>>

\* The model has answered, or stopped between two tokens.
Leave(t) ==
    /\ At(t, "holding")
    /\ Proceed(t, "answered") \/ Interrupted(t)
    /\ gate' = Left(t)
    /\ UNCHANGED <<line, closed, passed>>

\* Mutant: the result goes out first, the rows are committed after it.
StartPersistingWithResult(t) ==
    /\ At(t, "answered")
    /\ ~turn[t].cancelled
    /\ turn' = [turn EXCEPT ![t].pc = "persisting", ![t].terminal = "result"]
    /\ UNCHANGED <<line, gate, closed, passed>>

StartPersisting(t) ==
    /\ At(t, "answered")
    /\ Proceed(t, "persisting") \/ Interrupted(t)
    /\ UNCHANGED <<line, gate, closed, passed>>

\* Both messages of the turn in one transaction.
Commit(t) ==
    /\ At(t, "persisting")
    /\ turn' = [turn EXCEPT ![t].pc = "committed", ![t].stored = TRUE]
    /\ UNCHANGED <<line, gate, closed, passed>>

\* progress("persisting", "completed") asks once more whether to go on.
Report(t) ==
    /\ At(t, "committed")
    /\ \/ ~turn[t].cancelled /\ turn' = Stop(t, "result")
       \/ Interrupted(t)
    /\ UNCHANGED <<line, gate, closed, passed>>

\* Any other exception is reported, unless the turn is cancelled as well.
Fail(t) ==
    /\ turn[t].pc \in {"started", "holding", "persisting"}
    /\ turn' = Stop(t, IF turn[t].cancelled THEN "cancelled" ELSE "error")
    /\ gate' = IF At(t, "holding") THEN Left(t) ELSE gate
    /\ UNCHANGED <<line, closed, passed>>

\* The deadline has passed at one of the points where the turn looks.
TimeOut(t) ==
    /\ turn[t].pc \in {"started", "waiting", "holding", "answered", "committed"}
    /\ turn' = [Stop(t, "error") EXCEPT ![t].cancelled = TRUE]
    /\ gate' \in IF At(t, "waiting") THEN GivenUp(t)
                 ELSE {IF At(t, "holding") THEN Left(t) ELSE gate}
    /\ UNCHANGED <<line, closed, passed>>

\* The end of _run_record: the channel is closed and the place is free.
End(t) ==
    /\ At(t, "ending")
    /\ turn' = [turn EXCEPT ![t].pc = "over"]
    /\ UNCHANGED <<line, gate, closed, passed>>

-------------------------------------------------------------------------------
Init ==
    /\ turn = [t \in Turns |-> Over]
    /\ line = EmptyLine
    /\ gate = [queue |-> EmptyLine.queue, ring |-> <<>>, last |-> Nobody,
               used |-> 0, held |-> {}]
    /\ closed = FALSE
    /\ passed = [u \in Users |-> [v \in Users |-> 0]]

Work(t) ==
    \/ Enter(t) \/ Acquire(t) \/ StopWaiting(t) \/ Leave(t)
    \/ StartPersisting(t) \/ Commit(t) \/ Report(t)
    \/ End(t)

Client(t) == Submit(t) \/ Cancel(t)

Next ==
    \/ Dispatch \/ DispatchNobody \/ Close
    \/ \E t \in Turns : Client(t) \/ Expire(t) \/ Work(t) \/ Fail(t) \/ TimeOut(t)

Spec == Init /\ [][Next]_vars

\* The dispatcher and the workers go on.  No deadline is needed to get a turn
\* through: neither Expire nor TimeOut is fair.
FairSpec == Spec /\ WF_vars(Dispatch) /\ \A t \in Turns : WF_vars(Work(t))

-------------------------------------------------------------------------------
\* Properties.

Rounds(q) ==
    /\ q.queue \in [Users -> Seq(Turns)]
    /\ q.ring \in Seq(Users)
    /\ q.last \in Users \cup {Nobody}

TurnStates == [pc: {"queued", "over"} \cup Running, cancelled: BOOLEAN,
               terminal: {"none", "result", "error", "cancelled"}, stored: BOOLEAN]

TypeOK ==
    /\ turn \in [Turns -> TurnStates]
    /\ Rounds(line) /\ Rounds(gate)
    /\ gate.used \in 0..Capacity /\ gate.held \in SUBSET Turns
    /\ closed \in BOOLEAN
    /\ passed \in [Users -> [Users -> Nat]]

\* Nobody is forgotten and nobody is twice in the ring: in the line and at the
\* gate the users of the ring are those that have somebody waiting, whoever is
\* cancelled, expires or is served in between.
RingsAreExact ==
    \A q \in {line, gate} :
        /\ IsInjective(q.ring)
        /\ Range(q.ring) = {u \in Users : q.queue[u] # <<>>}

\* The gate is never idle while somebody waits for it, and its counter counts the
\* turns that hold it: no grant is lost on a waiter that leaves at that moment.
NoPlaceIsLost ==
    /\ gate.used = Cardinality(gate.held)
    /\ gate.held \subseteq {t \in Turns : turn[t].pc \in {"waiting", "holding"}}
    /\ Waiters(gate) # {} => gate.used = Capacity

\* Round robin: while a user could be served, no other one is served twice.
NobodyPassesTwice == \A u, v \in Users : passed[u][v] <= 1

\* A turn that is over has told its client how it ended, and said "result" only of
\* rows that are committed.
OutcomeIsTrue ==
    \A t \in Turns :
        /\ At(t, "over") => turn[t].terminal # "none"
        /\ turn[t].terminal = "result" => turn[t].stored

\* Every admitted turn comes to an end, though users keep submitting, clients
\* cancel, and the gate is held by one turn at a time.
EveryTurnEnds == \A t \in Turns : At(t, "queued") ~> At(t, "over")

\* "A cancelled or failed turn persists neither the user message nor a partial
\* assistant message" (MULTI_REQUEST_CHAT_ARCHITECTURE.md:17-18).
CancelledLeavesNothing ==
    \A t \in Turns : turn[t].terminal \in {"cancelled", "error"} => ~turn[t].stored

=============================================================================
