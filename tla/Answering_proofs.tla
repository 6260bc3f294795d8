--------------------------- MODULE Answering_proofs ---------------------------
(***************************************************************************)
(* QueryRuntime.                                                           *)
(* For any number of turns, edits and publications: the types are right,   *)
(* the lexical snapshot is not exchanged under a lease, and what turns     *)
(* read never goes back.                                                   *)
(*                                                                         *)
(* The argument: only the daemon changes what is loaded, and there is one. *)
(* The generation it has read is between the one loaded and the one        *)
(* published; the snapshot it has loaded is between the one loaded and the *)
(* file, which is never older than the file before it.                     *)
(*                                                                         *)
(* Retrieval.                                                              *)
(* For any rankings, variants, and sizes of results and of the pool: the   *)
(* candidates of a question are fair.                                      *)
(*                                                                         *)
(* The argument: results are fair if with each of them there is, with a    *)
(* better score, whatever every search prefers to it.  The rankings of the *)
(* branches are, as the weight falls with the rank; and what is fair stays *)
(* so when it is sorted and then cut, put after what is fair, reduced to   *)
(* the best of each chunk, and kept in the cache.  At the end it is sorted *)
(* by score, and a better score is an earlier place.                       *)
(*                                                                         *)
(* EvidenceSelection.                                                      *)
(* For rankings of any length and limits of any size: what the three       *)
(* passes select is as EvidenceIsSound describes it.                       *)
(*                                                                         *)
(* The argument: what selected blocks it goes on to block, and what is     *)
(* over a limit stays over it.  So each candidate that the diverse pass    *)
(* has come by is selected, blocked, or too big for as long as the floor   *)
(* is reached; the relaxed pass begins below the floor, hence with         *)
(* nothing but blocked candidates left, and passes over none of them       *)
(* until the floor is reached.                                             *)
(*                                                                         *)
(* MCAnswering: the three side by side.                                    *)
(***************************************************************************)
EXTENDS MCAnswering, Subsequences_proofs, FiniteSetTheorems, TLAPS

-------------------------------------------------------------------------------
(* QueryRuntime *)

\* What is published, stored and on file is in order, and the daemon's is in between.
InOrder ==
    /\ document.stored <= document.version
    /\ snapshot.version <= document.stored
    /\ loaded.lexical <= snapshot.version
    /\ loaded.generation <= active
    /\ refresh.pc \in {"deferring", "deferred", "advancing", "loading", "activating"} =>
         refresh.generation \in loaded.generation..active
    /\ refresh.pc = "activating" =>
         refresh.lexical \in loaded.lexical..snapshot.version

IInv == TypeOK /\ InOrder

(***************************************************************************)
(* The helpers                                                             *)
(***************************************************************************)
\* The daemon may be started, moved on, or sent home.
LEMMA RefreshType ==
    ASSUME refresh \in Refresh, NEW e \in Refresh,
           NEW pc \in {"none", "started", "checked", "deferring", "deferred", "advancing",
                       "loading", "activating", "ending"}
    PROVE  /\ NoRefresh \in Refresh
           /\ [e EXCEPT !.pc = pc] \in Refresh
           /\ NoRefresh.pc = "none" /\ [e EXCEPT !.pc = pc].pc = pc
           /\ [e EXCEPT !.pc = pc].generation = e.generation
           /\ [e EXCEPT !.pc = pc].lexical = e.lexical
BY RuntimeAssumption DEF Refresh, NoRefresh

\* A cache that is turned to a generation stays a cache.
LEMMA ActivatedType ==
    ASSUME cache \in Cache, NEW g \in 1..MaxGeneration
    PROVE  Activated(g) \in Cache
BY RuntimeAssumption DEF Cache, Activated, NoEntry

\* A turn that is over is a turn.
LEMMA NoRequestType == NoRequest \in Request /\ [NoRequest EXCEPT !.pc = "waking"] \in Request
<1>1. NoRequest \in Request
  BY RuntimeAssumption DEF NoRequest, Request
<1> QED BY <1>1 DEF Request

\* What a step that leaves the generations and the snapshots alone, and the daemon where
\* it is or at an earlier place, keeps.
LEMMA OrderStays ==
    ASSUME TypeOK, InOrder, UNCHANGED <<document, snapshot, active>>,
           loaded'.lexical = loaded.lexical, loaded'.generation = loaded.generation,
           \/ refresh' = refresh
           \/ refresh'.pc \in {"none", "started", "checked", "ending"}
           \/ /\ refresh.pc \in {"deferring", "deferred", "advancing"}
              /\ refresh'.pc \in {"deferring", "deferred", "advancing"}
              /\ refresh'.generation = refresh.generation
    PROVE  InOrder'
BY DEF InOrder

(***************************************************************************)
(* The actions                                                             *)
(***************************************************************************)
\* What the indexer does.
LEMMA IndexerKeeps == ASSUME IInv, Indexer PROVE IInv'
<1>0. TypeOK /\ InOrder
  BY DEF IInv
<1>1. UNCHANGED <<loaded, pending, refresh, cache, request>>
  BY DEF Indexer, Edit, Index, PublishGeneration, WriteSnapshot
<1>2. /\ document \in [version: Versions, indexed: BOOLEAN, stored: Versions]
      /\ snapshot \in [version: Versions, large: BOOLEAN]
      /\ active \in 1..MaxGeneration
      /\ loaded.lexical \in Versions /\ loaded.generation \in 1..MaxGeneration
      /\ refresh.generation \in 0..MaxGeneration /\ refresh.lexical \in 0..MaxVersion
  BY <1>0 DEF TypeOK, Loaded, Refresh
<1> USE RuntimeAssumption DEF Versions
<1>3. CASE Edit
  <2>1. document' \in [version: Versions, indexed: BOOLEAN, stored: Versions]
        /\ document'.stored <= document'.version /\ document'.stored = document.stored
    <3>1. document.version + 1 \in Versions /\ document.stored <= document.version
      BY <1>0, <1>2, <1>3 DEF Edit, InOrder
    <3>2. document' = [document EXCEPT !.version = document.version + 1, !.indexed = FALSE]
      BY <1>3 DEF Edit
    <3>3. document'.version = document.version + 1 /\ document'.stored = document.stored
      BY <1>2, <3>2
    <3>4. document' \in [version: Versions, indexed: BOOLEAN, stored: Versions]
      BY <1>2, <3>1, <3>2
    <3>5. document.stored <= document.version + 1
      BY <1>2, <3>1
    <3> QED BY <3>3, <3>4, <3>5
  <2> QED BY <1>0, <1>1, <1>3, <2>1 DEF Edit, IInv, TypeOK, InOrder
<1>4. CASE Index
  <2>1. document' \in [version: Versions, indexed: BOOLEAN, stored: Versions]
        /\ document'.stored <= document'.version /\ document'.stored >= document.stored
    <3>1. document' = [document EXCEPT !.indexed = TRUE, !.stored = document.version]
      BY <1>4 DEF Index
    <3>2. document'.stored = document.version /\ document'.version = document.version
          /\ document' \in [version: Versions, indexed: BOOLEAN, stored: Versions]
      BY <1>2, <3>1
    <3>3. document.stored <= document.version /\ document.version <= document.version
      BY <1>0, <1>2 DEF InOrder
    <3> QED BY <3>2, <3>3
  <2>2. snapshot.version <= document'.stored
    BY <1>0, <1>2, <2>1 DEF InOrder
  <2> QED BY <1>0, <1>1, <1>4, <2>1, <2>2 DEF Index, IInv, TypeOK, InOrder
<1>5. CASE PublishGeneration
  <2>1. active' \in 1..MaxGeneration /\ active' = active + 1
    BY <1>2, <1>5 DEF PublishGeneration
  <2>2. refresh.generation \in loaded.generation..active => refresh.generation \in loaded.generation..active'
    BY <1>2, <2>1
  <2>3. loaded.generation <= active'
    BY <1>0, <1>2, <2>1 DEF InOrder
  <2> QED BY <1>0, <1>1, <1>5, <2>1, <2>2, <2>3 DEF PublishGeneration, IInv, TypeOK, InOrder
<1>6. CASE \E large \in Large : WriteSnapshot(large)
  <2>1. PICK large \in BOOLEAN : WriteSnapshot(large)
    BY <1>6
  <2>2. snapshot' \in [version: Versions, large: BOOLEAN] /\ snapshot'.version = document.stored
    BY <1>2, <2>1 DEF WriteSnapshot
  <2>3. /\ snapshot.version <= snapshot'.version /\ loaded.lexical <= snapshot'.version
        /\ refresh.lexical \in loaded.lexical..snapshot.version =>
              refresh.lexical \in loaded.lexical..snapshot'.version
    BY <1>0, <1>2, <2>2 DEF InOrder
  <2>4. document.stored <= document.stored
    BY <1>2
  <2> QED BY <1>0, <1>1, <2>1, <2>2, <2>3, <2>4 DEF WriteSnapshot, IInv, TypeOK, InOrder
<1> QED BY <1>3, <1>4, <1>5, <1>6 DEF Indexer

\* What a turn does.
LEMMA TurnKeeps ==
    ASSUME IInv, NEW r \in Requests, Identify(r) \/ IdentifyFails(r) \/ Turn(r)
    PROVE  IInv'
<1>0. TypeOK /\ InOrder
  BY DEF IInv
<1>1. UNCHANGED <<document, snapshot, active>>
  BY DEF Identify, IdentifyFails, Turn, Install, Lease, Ask, View, Search, Release, Wake
<1>2. /\ cache.entry.found \in SUBSET Versions /\ loaded.ids \in SUBSET Versions
      /\ loaded.lexical \in 0..MaxVersion /\ loaded.generation \in 0..MaxGeneration
      /\ Identities \in SUBSET Versions /\ document.version \in 0..MaxVersion
      /\ \A q \in Requests : request[q] \in Request
  BY <1>0, RuntimeAssumption DEF TypeOK, Identities, Cache, Loaded, Versions
<1>3. loaded' \in Loaded /\ loaded'.lexical = loaded.lexical /\ loaded'.generation = loaded.generation
  <2>1. CASE Install(r)
    <3>1. request[r].read \in SUBSET Versions
      BY <1>2 DEF Request
    <3> QED BY <1>0, <2>1, <3>1 DEF Install, TypeOK, Loaded
  <2>2. CASE ~Install(r)
    BY <1>0, <2>2 DEF TypeOK, Identify, IdentifyFails, Turn, Lease, Ask, View, Search, Release, Wake
  <2> QED BY <2>1, <2>2
<1>4. refresh' \in Refresh /\ (refresh' = refresh \/ refresh'.pc = "started")
  <2>1. refresh' = refresh \/ refresh' = Requested
    BY DEF Identify, IdentifyFails, Turn, Install, Lease, Ask, View, Search, Release, Wake
  <2>2. refresh \in Refresh
    BY <1>0 DEF TypeOK
  <2>3. [refresh EXCEPT !.pc = "started"] \in Refresh /\ [refresh EXCEPT !.pc = "started"].pc = "started"
    BY <2>2, RefreshType
  <2> QED BY <2>1, <2>2, <2>3 DEF Requested
<1>5. pending' \in BOOLEAN
  BY <1>0 DEF TypeOK, Identify, IdentifyFails, Turn, Install, Lease, Ask, View, Search, Release, Wake
<1>6. cache' \in Cache
  <2>1. CASE Search(r)
    <3>1. request[r].ids \in SUBSET Versions /\ request[r].generation \in 0..MaxGeneration
          /\ request[r].lexical \in 0..MaxVersion
      BY <1>2 DEF Request
    <3> QED BY <1>0, <2>1, <3>1 DEF Search, Stored, TypeOK, Cache
  <2>2. CASE ~Search(r)
    BY <1>0, <2>2 DEF TypeOK, Identify, IdentifyFails, Turn, Install, Lease, Ask, View, Release, Wake
  <2> QED BY <2>1, <2>2
<1>7. request' \in [Requests -> Request]
  <2>0. request \in [Requests -> Request] /\ request[r] \in Request
    BY <1>0 DEF TypeOK
  <2>1. CASE Identify(r)
    <3>1. PICK known \in 0..MaxVersion : known = IF document.indexed THEN document.version ELSE 0
      BY <1>2, RuntimeAssumption
    <3>2. [request[r] EXCEPT !.pc = "identified", !.read = Identities, !.known = known] \in Request
      BY <1>2, <2>0 DEF Request
    <3> QED BY <2>0, <2>1, <3>1, <3>2 DEF Identify
  <2>2. CASE IdentifyFails(r) \/ Install(r)
    <3>1. [request[r] EXCEPT !.pc = "installed"] \in Request
      BY <2>0 DEF Request
    <3> QED BY <2>0, <2>2, <3>1 DEF IdentifyFails, Install
  <2>3. CASE Lease(r)
    <3>1. [request[r] EXCEPT !.pc = "leased", !.generation = loaded.generation,
                             !.leased = loaded.ids] \in Request
      BY <1>2, <2>0 DEF Request, Leases
    <3> QED BY <2>0, <2>3, <3>1 DEF Lease
  <2>4. CASE Ask(r)
    <3>1. [request[r] EXCEPT !.pc = "asked"] \in Request
      BY <2>0 DEF Request, Leases
    <3> QED BY <2>0, <2>4, <3>1 DEF Ask
  <2>5. CASE View(r)
    <3>1. [request[r] EXCEPT !.pc = "viewing", !.ids = loaded.ids,
                             !.lexical = loaded.lexical] \in Request
      BY <1>2, <2>0 DEF Request, Leases
    <3> QED BY <2>0, <2>5, <3>1 DEF View
  <2>6. CASE Search(r)
    <3>1. \A f \in SUBSET Versions : [request[r] EXCEPT !.pc = "found", !.found = f] \in Request
      BY <2>0 DEF Request, Leases
    <3>2. {document.stored, request[r].lexical} \cap request[r].ids \in SUBSET Versions
      BY <2>0 DEF Request
    <3> QED BY <1>2, <2>0, <2>6, <3>1, <3>2 DEF Search
  <2>7. CASE Release(r) \/ Wake(r)
    <3> HIDE DEF Request
    <3> QED BY <2>0, <2>7, NoRequestType DEF Release, Wake
  <2> QED BY <2>1, <2>2, <2>3, <2>4, <2>5, <2>6, <2>7 DEF Turn
<1>8. TypeOK'
  BY <1>0, <1>1, <1>3, <1>4, <1>5, <1>6, <1>7 DEF TypeOK
<1>9. InOrder'
  BY <1>0, <1>1, <1>3, <1>4, OrderStays
<1> QED BY <1>8, <1>9 DEF IInv

\* What the daemon does.
LEMMA DaemonKeeps == ASSUME IInv, Daemon PROVE IInv'
<1>0. TypeOK /\ InOrder
  BY DEF IInv
<1>1. /\ refresh \in Refresh /\ loaded \in Loaded /\ cache \in Cache
      /\ active \in 1..MaxGeneration /\ snapshot.version \in Versions
      /\ loaded.lexical \in Versions /\ loaded.generation \in 1..MaxGeneration
      /\ refresh.generation \in 0..MaxGeneration /\ refresh.lexical \in 0..MaxVersion
      /\ loaded.lexical <= snapshot.version
      /\ loaded.generation <= active
  BY <1>0 DEF TypeOK, InOrder, Refresh, Loaded
<1>2. UNCHANGED <<document, snapshot, active, request>>
  BY DEF Daemon, CheckReaders, ReadGeneration, DeferRead, DeferInstall, DeferAdvance, LoadSnapshot,
     Activate, GiveUp, EndRefresh
<1>3. NoRefresh \in Refresh /\ [NoRefresh EXCEPT !.pc = "ending"] \in Refresh
      /\ [NoRefresh EXCEPT !.pc = "ending"].pc = "ending" /\ NoRefresh.pc = "none"
  BY <1>1, RefreshType
\* It is enough that what it writes is typed, and in order.
<1>4. SUFFICES loaded' \in Loaded /\ pending' \in BOOLEAN /\ refresh' \in Refresh /\ cache' \in Cache
               /\ InOrder'
  BY <1>0, <1>2 DEF IInv, TypeOK
<1>5. CASE CheckReaders
  <2>1. /\ refresh' \in Refresh /\ refresh'.pc \in {"ending", "checked"}
        /\ pending' \in BOOLEAN /\ UNCHANGED <<loaded, cache>>
    <3>1. [refresh EXCEPT !.pc = "checked"] \in Refresh /\ [refresh EXCEPT !.pc = "checked"].pc = "checked"
      BY <1>1, RefreshType
    <3>2. pending \in BOOLEAN
      BY <1>0 DEF TypeOK
    <3> QED BY <1>3, <1>5, <3>1, <3>2 DEF CheckReaders
  <2> QED BY <1>0, <1>1, <1>2, <2>1, OrderStays
<1>6. CASE ReadGeneration
  <2>1. UNCHANGED <<loaded, pending, cache>>
    BY <1>6 DEF ReadGeneration
  <2>2. CASE active <= loaded.bm25
    <3>1. refresh' \in Refresh /\ refresh'.pc = "ending"
      BY <1>3, <1>6, <2>2 DEF ReadGeneration
    <3> QED BY <1>0, <1>1, <1>2, <2>1, <3>1, OrderStays DEF TypeOK
  <2>3. CASE ~(active <= loaded.bm25)
    <3>1. /\ refresh' \in Refresh /\ refresh'.pc \in {"deferring", "loading"}
          /\ refresh'.generation = active
      <4>1. PICK pc \in {"deferring", "loading"} :
               refresh' = [refresh EXCEPT !.pc = pc, !.generation = active]
        BY <1>6, <2>3 DEF ReadGeneration
      <4>2. active \in 0..MaxGeneration
        BY <1>1
      <4> QED BY <1>1, <4>1, <4>2 DEF Refresh
    <3>2. refresh'.generation \in loaded.generation..active
      BY <1>1, <3>1
    <3> QED BY <1>0, <1>1, <1>2, <2>1, <3>1, <3>2 DEF TypeOK, InOrder
  <2> QED BY <2>2, <2>3
<1>7. CASE DeferRead
  <2>1. Identities \in SUBSET Versions
    BY <1>0 DEF TypeOK, Identities
  <2>2. /\ refresh' \in Refresh /\ refresh'.pc = "deferred" /\ refresh.pc = "deferring"
        /\ refresh'.generation = refresh.generation /\ UNCHANGED <<loaded, pending, cache>>
    BY <1>1, <1>7, <2>1 DEF DeferRead, Refreshing, Refresh
  <2> QED BY <1>0, <1>1, <1>2, <2>2, OrderStays DEF TypeOK
<1>8. CASE DeferInstall
  <2>1. /\ refresh' \in Refresh /\ refresh'.pc = "advancing" /\ refresh.pc = "deferred"
        /\ refresh'.generation = refresh.generation /\ UNCHANGED <<pending, cache>>
    BY <1>1, <1>8 DEF DeferInstall, Refreshing, Refresh
  <2>2. loaded' \in Loaded /\ loaded'.lexical = loaded.lexical /\ loaded'.generation = loaded.generation
    BY <1>1, <1>8 DEF DeferInstall, Loaded, Refresh
  <2> QED BY <1>0, <1>1, <1>2, <2>1, <2>2, OrderStays DEF TypeOK
<1>9. CASE DeferAdvance
  <2>1. refresh.generation \in loaded.generation..active
    BY <1>0, <1>9 DEF DeferAdvance, Refreshing, InOrder
  <2>2. refresh.generation \in 1..MaxGeneration /\ refresh.generation <= active
    BY <1>1, <2>1
  <2>3. loaded' \in Loaded /\ loaded'.lexical = loaded.lexical /\ loaded'.generation = refresh.generation
    BY <1>1, <1>9, <2>2 DEF DeferAdvance, Loaded
  <2>4. /\ refresh' \in Refresh /\ refresh'.pc = "ending" /\ UNCHANGED pending
        /\ cache' \in Cache
    BY <1>1, <1>3, <1>9, <2>2, ActivatedType DEF DeferAdvance
  <2> QED BY <1>0, <1>2, <2>2, <2>3, <2>4 DEF TypeOK, InOrder
<1>10. CASE LoadSnapshot
  <2>1. /\ refresh' \in Refresh /\ refresh'.pc = "activating" /\ refresh.pc = "loading"
        /\ refresh'.generation = refresh.generation /\ refresh'.lexical = snapshot.version
        /\ UNCHANGED <<loaded, pending, cache>>
    <3>1. snapshot.version \in 0..MaxVersion
      BY <1>1 DEF Versions
    <3> QED BY <1>1, <1>10, <3>1 DEF LoadSnapshot, Refreshing, Refresh
  <2>2. snapshot.version \in loaded.lexical..snapshot.version
    BY <1>1 DEF Versions
  <2> QED BY <1>0, <1>1, <1>2, <2>1, <2>2 DEF TypeOK, InOrder
<1>11. CASE Activate
  <2>1. refresh' \in Refresh /\ refresh'.pc = "ending"
    BY <1>3, <1>11 DEF Activate
  <2>2. CASE Readers # {}
    <3>1. pending' \in BOOLEAN /\ UNCHANGED <<loaded, cache>>
      BY <1>11, <2>2 DEF Activate
    <3> QED BY <1>0, <1>1, <1>2, <2>1, <3>1, OrderStays
  <2>3. CASE Readers = {}
    <3>1. refresh.generation \in loaded.generation..active /\ refresh.lexical \in loaded.lexical..snapshot.version
      BY <1>0, <1>11 DEF Activate, Refreshing, InOrder
    <3>2. /\ refresh.generation \in 1..MaxGeneration /\ refresh.generation <= active
          /\ refresh.lexical \in Versions /\ refresh.lexical <= snapshot.version
      BY <1>1, <3>1, RuntimeAssumption DEF Versions
    <3>3. loaded' = [ids |-> {refresh.lexical} \ {0}, lexical |-> refresh.lexical,
                     generation |-> refresh.generation, bm25 |-> refresh.generation]
          /\ cache' = Activated(refresh.generation) /\ pending' = pending
      BY <1>11, <2>3 DEF Activate
    <3>4. loaded' \in Loaded /\ loaded'.lexical = refresh.lexical /\ loaded'.generation = refresh.generation
      BY <3>2, <3>3 DEF Loaded
    <3>5. cache' \in Cache
      BY <1>1, <3>2, <3>3, ActivatedType
    <3> QED BY <1>0, <1>2, <2>1, <3>2, <3>3, <3>4, <3>5 DEF TypeOK, InOrder
  <2> QED BY <2>2, <2>3
<1>12. CASE GiveUp \/ EndRefresh
  <2>1. /\ refresh' \in Refresh /\ refresh'.pc \in {"ending", "none"} /\ UNCHANGED <<loaded, pending, cache>>
    BY <1>3, <1>12 DEF GiveUp, EndRefresh
  <2> QED BY <1>0, <1>1, <1>2, <2>1, OrderStays DEF TypeOK
<1> QED BY <1>5, <1>6, <1>7, <1>8, <1>9, <1>10, <1>11, <1>12 DEF Daemon

(***************************************************************************)
(* The theorems                                                            *)
(***************************************************************************)
\* The invariant holds in every state.
THEOREM RuntimeInvariant == Spec => []IInv
<1>1. Init => IInv
  <2> SUFFICES ASSUME Init PROVE IInv
    OBVIOUS
  <2>1. NoRequest \in Request
    BY NoRequestType
  <2>2. loaded \in Loaded /\ refresh \in Refresh /\ cache \in Cache
    BY RuntimeAssumption DEF Init, Loaded, Refresh, Cache, NoRefresh, NoEntry, Versions
  <2>3. TypeOK
    <3>1. request \in [Requests -> Request] /\ pending \in BOOLEAN
      BY <2>1 DEF Init
    <3>2. document \in [version: Versions, indexed: BOOLEAN, stored: Versions]
          /\ snapshot \in [version: Versions, large: BOOLEAN] /\ active \in 1..MaxGeneration
      BY RuntimeAssumption DEF Init, Versions
    <3> QED BY <2>2, <3>1, <3>2 DEF TypeOK
  <2>4. InOrder
    BY DEF Init, InOrder, NoRefresh
  <2> QED BY <2>3, <2>4 DEF IInv
<1>2. ASSUME IInv, [Next]_vars PROVE IInv'
  <2>1. CASE Indexer
    BY <1>2, <2>1, IndexerKeeps
  <2>2. CASE Daemon
    BY <1>2, <2>2, DaemonKeeps
  <2>3. CASE \E r \in Requests : Identify(r) \/ IdentifyFails(r) \/ Turn(r)
    BY <1>2, <2>3, TurnKeeps
  <2>4. CASE UNCHANGED vars
    BY <1>2, <2>4 DEF vars, IInv, TypeOK, InOrder
  <2> QED BY <1>2, <2>1, <2>2, <2>3, <2>4 DEF Next
<1> QED BY <1>1, <1>2, PTL DEF Spec

\* The shape of the runtime, the cache and the turns.
THEOREM RuntimeTypes == Spec => []TypeOK
<1>1. IInv => TypeOK
  BY DEF IInv
<1> QED BY <1>1, RuntimeInvariant, PTL

(***************************************************************************)
(* refresh_query_runtime_if_needed: neither the generation nor the lexical *)
(* snapshot that turns read goes back, for any number of them, though the  *)
(* row and the file it names are read at different moments.                *)
(***************************************************************************)
THEOREM NeverBack == Spec => OnlyForward
<1>1. ASSUME IInv, [Next]_vars
      PROVE  loaded.generation <= loaded'.generation /\ loaded.lexical <= loaded'.lexical
  <2>0. /\ loaded.generation \in Nat /\ loaded.lexical \in Nat
        /\ refresh.pc \in {"advancing", "activating"} =>
              refresh.generation \in Nat /\ loaded.generation <= refresh.generation
        /\ refresh.pc = "activating" => refresh.lexical \in Nat /\ loaded.lexical <= refresh.lexical
    BY <1>1, RuntimeAssumption DEF IInv, TypeOK, InOrder, Versions, Loaded, Refresh
  <2>1. \/ loaded' = loaded
        \/ loaded'.generation = loaded.generation /\ loaded'.lexical = loaded.lexical
        \/ DeferAdvance \/ Activate
    BY <1>1 DEF IInv, TypeOK, Loaded, Next, vars, Indexer, Daemon, Turn, Edit, Index, WriteSnapshot,
       PublishGeneration, Identify, IdentifyFails, Install, Lease, Ask, View, Search, Release, Wake,
       CheckReaders, ReadGeneration, DeferRead, DeferInstall, LoadSnapshot, GiveUp, EndRefresh
  <2>2. CASE DeferAdvance
    BY <1>1, <2>0, <2>2 DEF DeferAdvance, Refreshing, IInv, TypeOK, Loaded
  <2>3. CASE Activate
    BY <2>0, <2>3 DEF Activate, Refreshing
  <2> QED BY <2>0, <2>1, <2>2, <2>3
<1> QED BY <1>1, RuntimeInvariant, PTL DEF Spec, OnlyForward

(***************************************************************************)
(* acquire_snapshot and the activation: the lexical snapshot is exchanged  *)
(* only when no turn holds a lease, for any number of turns.               *)
(***************************************************************************)
THEOREM LexicalStaysUnderLease == Spec => LexicalIsFrozen
<1>1. ASSUME IInv, [Next]_vars PROVE loaded.lexical # loaded'.lexical => Readers = {}
  <2>1. \/ loaded'.lexical = loaded.lexical
        \/ Activate
    BY <1>1 DEF IInv, TypeOK, Loaded, Next, vars, Indexer, Daemon, Turn, Edit, Index, WriteSnapshot,
       PublishGeneration, Identify, IdentifyFails, Install, Lease, Ask, View, Search, Release, Wake,
       CheckReaders, ReadGeneration, DeferRead, DeferInstall, DeferAdvance, LoadSnapshot, GiveUp,
       EndRefresh
  <2>2. CASE Activate
    BY <2>2 DEF Activate
  <2> QED BY <2>1, <2>2
<1> QED BY <1>1, RuntimeInvariant, PTL DEF Spec, LexicalIsFrozen

-------------------------------------------------------------------------------
(* Retrieval *)

\* A result with its score.
Result == [chunk : Chunks, score : 1..(3 * Scale)]

\* Results in descending order; of a chunk each at most one.
Falling(s) == \A i, j \in 1..Len(s) : i < j => s[i].score >= s[j].score
Once(s) == \A i, j \in 1..Len(s) : s[i].chunk = s[j].chunk => i = j

\* A sequence is its length and its places.
LEMMA Placed ==
    ASSUME NEW T, NEW s \in Seq(T)
    PROVE  /\ Len(s) \in Nat /\ DOMAIN s = 1..Len(s)
           /\ \A i \in 1..Len(s) : s[i] \in T /\ s[i] \in Range(s)
           /\ \A x \in Range(s) : x \in T /\ \E i \in 1..Len(s) : s[i] = x
BY DEF Range

\* A score is a number.
LEMMA ScoreIsNumber == \A x \in Result : x.chunk \in Chunks /\ x.score \in Nat /\ x.score > 0
BY RetrievalAssumption DEF Result

\* A sequence of one.
LEMMA OfOne ==
    ASSUME NEW T, NEW x \in T
    PROVE  /\ <<x>> \in Seq(T) /\ Len(<<x>>) = 1 /\ <<x>>[1] = x
           /\ DOMAIN <<x>> = 1..1
OBVIOUS

\* What is kept of results is in their order.
LEMMA OnlyKeeps ==
    ASSUME NEW s \in Seq(Result), NEW S
    PROVE  /\ Only(s, S) \in Seq(Result)
           /\ Range(Only(s, S)) = Range(s) \cap S
           /\ Falling(s) => Falling(Only(s, S))
           /\ Once(s) => Once(Only(s, S))
<1>1. PICK r \in Seq(Result) : r = Only(s, S)
  BY OnlyIsSubsequence
<1>2. PICK h : Embeds(h, r, s, S, Len(s))
  BY <1>1, OnlyIsSubsequence
<1>3. /\ Len(r) \in Nat /\ DOMAIN r = 1..Len(r) /\ DOMAIN s = 1..Len(s) /\ Len(s) \in Nat
      /\ \A i \in 1..Len(r) : h[i] \in 1..Len(s) /\ r[i] = s[h[i]] /\ r[i] \in S
      /\ \A i, j \in 1..Len(r) : i < j => h[i] < h[j]
      /\ \A k \in 1..Len(s) : s[k] \in S => \E i \in 1..Len(r) : h[i] = k
  <2>1. Len(r) \in Nat /\ DOMAIN r = 1..Len(r) /\ DOMAIN s = 1..Len(s) /\ Len(s) \in Nat
    OBVIOUS
  <2>2. \A i \in 1..Len(r) : h[i] \in 1..Len(s)
    BY <1>2, ZenonT(10) DEF Embeds
  <2>3. /\ \A i \in 1..Len(r) : r[i] = s[h[i]] /\ r[i] \in S
        /\ \A i, j \in 1..Len(r) : i < j => h[i] < h[j]
        /\ \A k \in 1..Len(s) : s[k] \in S => \E i \in 1..Len(r) : h[i] = k
    BY <1>2, ZenonT(10) DEF Embeds
  <2> QED BY <2>1, <2>2, <2>3, ZenonT(10)
<1>4. Range(r) = Range(s) \cap S
  <2>1. ASSUME NEW x \in Range(r) PROVE x \in Range(s) \cap S
    <3>1. PICK i \in 1..Len(r) : r[i] = x
      BY <1>3 DEF Range
    <3> QED BY <1>3, <3>1 DEF Range
  <2>2. ASSUME NEW x \in Range(s) \cap S PROVE x \in Range(r)
    <3>1. PICK k \in 1..Len(s) : s[k] = x
      BY <1>3 DEF Range
    <3>2. PICK i \in 1..Len(r) : h[i] = k
      BY <1>3, <3>1
    <3> QED BY <1>3, <3>1, <3>2 DEF Range
  <2> QED BY <2>1, <2>2
<1>5. Falling(s) => Falling(r)
  BY <1>3 DEF Falling
<1>6. ASSUME Once(s), NEW i \in 1..Len(r), NEW j \in 1..Len(r), r[i].chunk = r[j].chunk PROVE i = j
  <2>1. h[i] = h[j]
    BY <1>3, <1>6 DEF Once
  <2>2. ~(i < j) /\ ~(j < i)
    <3>1. h[i] \in Nat /\ h[j] \in Nat
      BY <1>3
    <3> QED BY <1>3, <2>1, <3>1
  <2> QED BY <1>3, <2>2
<1> QED BY <1>1, <1>4, <1>5, <1>6 DEF Once

\* Two sequences of results, one after the other.
LEMMA JoinKeeps ==
    ASSUME NEW s \in Seq(Result), NEW t \in Seq(Result)
    PROVE  /\ s \o t \in Seq(Result)
           /\ Range(s \o t) = Range(s) \cup Range(t)
           /\ Falling(s) /\ Falling(t)
              /\ (\A x \in Range(s), y \in Range(t) : x.score >= y.score) => Falling(s \o t)
           /\ Once(s) /\ Once(t)
              /\ (\A x \in Range(s), y \in Range(t) : x.chunk # y.chunk) => Once(s \o t)
<1>1. PICK m \in Nat, n \in Nat : m = Len(s) /\ n = Len(t)
  OBVIOUS
<1>2. PICK u \in Seq(Result) : u = s \o t
  BY ConcatProperties
<1>3. /\ Len(u) = m + n
      /\ \A i \in 1..(m + n) : u[i] = IF i <= m THEN s[i] ELSE t[i - m]
  BY <1>1, <1>2, ConcatProperties
<1>4. /\ \A i \in 1..m : i \in 1..(m + n) /\ u[i] = s[i]
      /\ \A i \in 1..n : m + i \in 1..(m + n) /\ u[m + i] = t[i]
  <2>1. ASSUME NEW i \in 1..n PROVE m + i \in 1..(m + n) /\ u[m + i] = t[i]
    <3>1. m + i \in 1..(m + n) /\ ~(m + i <= m) /\ (m + i) - m = i
      OBVIOUS
    <3> QED BY <1>3, <3>1
  <2> QED BY <1>3, <2>1
<1>5. ASSUME NEW i \in 1..(m + n), ~(i <= m) PROVE i - m \in 1..n /\ u[i] = t[i - m]
  BY <1>3, <1>5
<1>6. /\ \A i \in 1..m : s[i] \in Range(s) /\ s[i] \in Result
      /\ \A i \in 1..n : t[i] \in Range(t) /\ t[i] \in Result
  BY <1>1, Placed
<1>7. Range(u) = Range(s) \cup Range(t)
  <2>1. ASSUME NEW x \in Range(u) PROVE x \in Range(s) \cup Range(t)
    <3>1. PICK i \in 1..(m + n) : u[i] = x
      BY <1>2, <1>3, Placed
    <3>2. CASE i <= m
      BY <1>3, <1>6, <3>1, <3>2
    <3>3. CASE ~(i <= m)
      BY <1>5, <1>6, <3>1, <3>3
    <3> QED BY <3>2, <3>3
  <2>2. ASSUME NEW x \in Range(s) PROVE x \in Range(u)
    <3>1. PICK i \in 1..m : s[i] = x
      BY <1>1, Placed
    <3> QED BY <1>2, <1>3, <1>4, <3>1, Placed
  <2>3. ASSUME NEW x \in Range(t) PROVE x \in Range(u)
    <3>1. PICK i \in 1..n : t[i] = x
      BY <1>1, Placed
    <3> QED BY <1>2, <1>3, <1>4, <3>1, Placed
  <2> QED BY <2>1, <2>2, <2>3
<1>8. ASSUME Falling(s), Falling(t), \A x \in Range(s), y \in Range(t) : x.score >= y.score,
             NEW i \in 1..(m + n), NEW j \in 1..(m + n), i < j
      PROVE  u[i].score >= u[j].score
  <2>1. CASE j <= m
    <3>1. i \in 1..m /\ j \in 1..m
      BY <1>8, <2>1
    <3> QED BY <1>1, <1>4, <1>8, <3>1 DEF Falling
  <2>2. CASE i <= m /\ ~(j <= m)
    <3>1. i \in 1..m /\ j - m \in 1..n /\ u[j] = t[j - m]
      BY <1>5, <2>2
    <3> QED BY <1>4, <1>6, <1>8, <3>1
  <2>3. CASE ~(i <= m)
    <3>1. /\ i - m \in 1..n /\ u[i] = t[i - m]
          /\ j - m \in 1..n /\ u[j] = t[j - m] /\ i - m < j - m
      BY <1>5, <1>8, <2>3
    <3> QED BY <1>1, <1>8, <3>1 DEF Falling
  <2> QED BY <2>1, <2>2, <2>3
<1>9. ASSUME Once(s), Once(t), \A x \in Range(s), y \in Range(t) : x.chunk # y.chunk,
             NEW i \in 1..(m + n), NEW j \in 1..(m + n), u[i].chunk = u[j].chunk
      PROVE  i = j
  <2>1. CASE i <= m /\ j <= m
    <3>1. i \in 1..m /\ j \in 1..m
      BY <2>1
    <3> QED BY <1>1, <1>4, <1>9, <3>1 DEF Once
  <2>2. CASE i <= m /\ ~(j <= m)
    <3>1. i \in 1..m /\ j - m \in 1..n /\ u[j] = t[j - m]
      BY <1>5, <2>2
    <3> QED BY <1>4, <1>6, <1>9, <3>1
  <2>3. CASE ~(i <= m) /\ j <= m
    <3>1. j \in 1..m /\ i - m \in 1..n /\ u[i] = t[i - m]
      BY <1>5, <2>3
    <3> QED BY <1>4, <1>6, <1>9, <3>1
  <2>4. CASE ~(i <= m) /\ ~(j <= m)
    <3>1. /\ i - m \in 1..n /\ u[i] = t[i - m]
          /\ j - m \in 1..n /\ u[j] = t[j - m]
      BY <1>5, <2>4
    <3>2. i - m = j - m
      BY <1>1, <1>9, <3>1 DEF Once
    <3> QED BY <3>2
  <2> QED BY <2>1, <2>2, <2>3, <2>4
<1> QED BY <1>2, <1>3, <1>7, <1>8, <1>9 DEF Falling, Once

\* A result is put where it belongs.
LEMMA InsertedKeeps ==
    ASSUME NEW s \in Seq(Result), NEW r \in Result, Falling(s)
    PROVE  /\ Inserted(s, r) \in Seq(Result)
           /\ Range(Inserted(s, r)) = Range(s) \cup {r}
           /\ Falling(Inserted(s, r))
           /\ Once(s) /\ (\A x \in Range(s) : x.chunk # r.chunk) => Once(Inserted(s, r))
<1>1. PICK a \in Seq(Result) : a = Only(s, AtLeast(r, s))
  BY OnlyKeeps
<1>2. PICK b \in Seq(Result) : b = Only(s, Range(s) \ AtLeast(r, s))
  BY OnlyKeeps
<1>3. PICK o \in Seq(Result) : o = <<r>>
  BY OfOne
<1>4. Range(o) = {r} /\ Falling(o) /\ Once(o)
  <2>1. Len(o) = 1 /\ o[1] = r /\ DOMAIN o = 1..1
    BY <1>3, OfOne
  <2> QED BY <2>1 DEF Range, Falling, Once
<1>5. /\ Range(a) = AtLeast(r, s) /\ Falling(a) /\ (Once(s) => Once(a))
      /\ Range(b) = Range(s) \ AtLeast(r, s) /\ Falling(b) /\ (Once(s) => Once(b))
  <2>1. /\ Range(s) \cap AtLeast(r, s) = AtLeast(r, s)
        /\ Range(s) \cap (Range(s) \ AtLeast(r, s)) = Range(s) \ AtLeast(r, s)
    BY DEF AtLeast
  <2>2. Range(a) = Range(s) \cap AtLeast(r, s) /\ Falling(a) /\ (Once(s) => Once(a))
    BY <1>1, OnlyKeeps
  <2>3. /\ Range(b) = Range(s) \cap (Range(s) \ AtLeast(r, s))
        /\ Falling(b) /\ (Once(s) => Once(b))
    BY <1>2, OnlyKeeps
  <2> QED BY <2>1, <2>2, <2>3
<1>6. /\ \A x \in Range(a) : x.score >= r.score
      /\ \A y \in Range(b) : r.score >= y.score
      /\ \A x \in Range(a), y \in Range(b) : x.score >= y.score
  <2>1. \A x \in Range(s) : x.score \in Nat
    <3>1. Range(s) \subseteq Result
      BY RangeOfSequence
    <3> QED BY <3>1, ScoreIsNumber
  <2>2. r.score \in Nat
    BY ScoreIsNumber
  <2>3. \A x \in Range(a) : x.score >= r.score /\ x.score \in Nat
    BY <1>5, <2>1 DEF AtLeast
  <2>4. \A y \in Range(b) : r.score >= y.score /\ y.score \in Nat
    BY <1>5, <2>1, <2>2 DEF AtLeast
  <2> QED BY <2>2, <2>3, <2>4
<1>7. PICK c \in Seq(Result) : c = a \o o
  BY JoinKeeps
<1>8. /\ Range(c) = Range(a) \cup {r} /\ Falling(c)
      /\ Once(s) /\ (\A x \in Range(s) : x.chunk # r.chunk) => Once(c)
  <2>1. Once(s) /\ (\A x \in Range(s) : x.chunk # r.chunk) =>
          Once(a) /\ \A x \in Range(a), y \in Range(o) : x.chunk # y.chunk
    BY <1>4, <1>5 DEF AtLeast
  <2>2. \A x \in Range(a), y \in Range(o) : x.score >= y.score
    BY <1>4, <1>6
  <2> QED BY <1>4, <1>5, <1>7, <2>1, <2>2, JoinKeeps
<1>9. Inserted(s, r) = c \o b
  BY <1>1, <1>2, <1>3, <1>7 DEF Inserted
<1>10. \A x \in Range(c), y \in Range(b) : x.score >= y.score
  BY <1>6, <1>8
<1>11. ASSUME Once(s), \A x \in Range(s) : x.chunk # r.chunk
       PROVE  \A x \in Range(c), y \in Range(b) : x.chunk # y.chunk
  <2> SUFFICES ASSUME NEW x \in Range(c), NEW y \in Range(b), x.chunk = y.chunk PROVE FALSE
    OBVIOUS
  <2>1. y \in Range(s) /\ y \notin Range(a)
    BY <1>5
  <2>2. x \in Range(s) /\ x \in Range(a)
    BY <1>5, <1>8, <1>11, <2>1 DEF AtLeast
  <2>3. x = y
    <3>1. PICK i \in 1..Len(s) : s[i] = x
      BY <2>2, Placed
    <3>2. PICK j \in 1..Len(s) : s[j] = y
      BY <2>1, Placed
    <3> QED BY <1>11, <3>1, <3>2 DEF Once
  <2> QED BY <2>1, <2>2, <2>3
<1>12. (AtLeast(r, s) \cup {r}) \cup (Range(s) \ AtLeast(r, s)) = Range(s) \cup {r}
  BY DEF AtLeast
<1>13. /\ c \o b \in Seq(Result) /\ Range(c \o b) = Range(c) \cup Range(b) /\ Falling(c \o b)
       /\ Once(s) /\ (\A x \in Range(s) : x.chunk # r.chunk) => Once(c \o b)
  <2>1. Once(s) /\ (\A x \in Range(s) : x.chunk # r.chunk) =>
          Once(c) /\ Once(b) /\ \A x \in Range(c), y \in Range(b) : x.chunk # y.chunk
    BY <1>5, <1>8, <1>11
  <2> QED BY <1>5, <1>8, <1>10, <2>1, JoinKeeps
<1> QED BY <1>5, <1>8, <1>9, <1>12, <1>13

-------------------------------------------------------------------------------
\* The recursion of Descending, place by place.
SortedInSteps(sorted, results) ==
    /\ sorted \in [0..Len(results) -> Seq(Result)]
    /\ Descending(results) = sorted[Len(results)]
    /\ sorted[0] = <<>>
    /\ \A n \in 1..Len(results) : sorted[n] = Inserted(sorted[n - 1], results[n])

\* What has been inserted of a falling sequence is falling; so only those are iterated over.
Fallings == {s \in Seq(Result) : Falling(s)}

\* The LET definition of Descending determines a function that does this.
LEMMA DescendingUnfolds ==
    ASSUME NEW results \in Seq(Result)
    PROVE  \E sorted : SortedInSteps(sorted, results) /\ \A n \in 0..Len(results) : Falling(sorted[n])
<1> DEFINE Q == Fallings
           step == [n \in Nat |-> [s \in Q |->
                       IF n \in 1..Len(results) THEN Inserted(s, results[n]) ELSE s]]
           Unfolds(f) == f = [n \in 0..Len(results) |->
                                IF n = 0 THEN <<>> ELSE Inserted(f[n - 1], results[n])]
           sorted == CHOOSE f : Unfolds(f)
<1>0. Len(results) \in Nat /\ \A n \in 1..Len(results) : results[n] \in Result
  OBVIOUS
<1>1. CanIterate(Q, <<>>, step)
  <2>1. <<>> \in Q
    BY DEF Fallings, Falling
  <2>2. ASSUME NEW n \in Nat, NEW s \in Q
        PROVE  (IF n \in 1..Len(results) THEN Inserted(s, results[n]) ELSE s) \in Q
    <3>1. CASE n \in 1..Len(results)
      <4>1. s \in Seq(Result) /\ Falling(s) /\ results[n] \in Result
        BY <1>0, <3>1 DEF Fallings
      <4> QED BY <3>1, <4>1, InsertedKeeps DEF Fallings
    <3> QED BY <3>1
  <2> QED BY <2>1, <2>2 DEF CanIterate
<1>2. PICK f \in [Nat -> Q] : /\ f[0] = <<>>
                              /\ \A n \in Nat : f[n + 1] = step[n + 1][f[n]]
  <2> HIDE DEF step, Q
  <2>1. PICK f : Iterates(f, Q, <<>>, step)
    BY <1>1, IterationExists
  <2> QED BY <2>1 DEF Iterates
<1>3. ASSUME NEW n \in 1..Len(results) PROVE f[n] = Inserted(f[n - 1], results[n])
  <2>1. n - 1 \in Nat /\ (n - 1) + 1 = n /\ f[n - 1] \in Q /\ n \in Nat
    BY <1>2
  <2>2. f[n] = step[n][f[n - 1]]
    <3> HIDE DEF step
    <3> QED BY <1>2, <2>1
  <2>3. step[n][f[n - 1]] = Inserted(f[n - 1], results[n])
    BY <2>1
  <2> QED BY <2>2, <2>3
<1>4. Unfolds([n \in 0..Len(results) |-> f[n]])
  <2> DEFINE g == [n \in 0..Len(results) |-> f[n]]
  <2>1. ASSUME NEW n \in 0..Len(results)
        PROVE  g[n] = IF n = 0 THEN <<>> ELSE Inserted(g[n - 1], results[n])
    <3>1. CASE n = 0
      BY <1>2, <3>1
    <3>2. CASE n # 0
      <4>1. n \in 1..Len(results) /\ n - 1 \in 0..Len(results)
        BY <1>0, <3>2
      <4>2. g[n - 1] = f[n - 1] /\ g[n] = f[n]
        BY <4>1
      <4> HIDE DEF g
      <4> QED BY <1>3, <3>2, <4>1, <4>2
    <3> QED BY <3>1, <3>2
  <2> QED BY <2>1
<1>5. Unfolds(sorted)
  <2> HIDE DEF Unfolds
  <2> QED BY <1>4
<1>6. Descending(results) = sorted[Len(results)]
  BY DEF Descending
<1>7. ASSUME NEW n \in 0..Len(results)
      PROVE  sorted[n] = IF n = 0 THEN <<>> ELSE Inserted(sorted[n - 1], results[n])
  <2> HIDE DEF sorted
  <2> QED BY <1>5
<1> DEFINE Same == {n \in Nat : n <= Len(results) => sorted[n] = f[n]}
<1> HIDE DEF sorted, step, Unfolds, Q
<1>8. 0 \in Same
  BY <1>0, <1>2, <1>7
<1>9. ASSUME NEW n \in Same PROVE n + 1 \in Same
  <2> SUFFICES ASSUME n + 1 <= Len(results) PROVE sorted[n + 1] = f[n + 1]
    OBVIOUS
  <2>1. PICK m \in Nat : m = n + 1
    OBVIOUS
  <2>2. n \in Nat /\ (n <= Len(results) => sorted[n] = f[n])
    OBVIOUS
  <2> HIDE DEF Same
  <2>3. m \in 1..Len(results) /\ m \in 0..Len(results) /\ m # 0 /\ m - 1 = n /\ n <= Len(results)
    BY <1>0, <2>1, <2>2
  <2>4. sorted[m] = Inserted(sorted[n], results[m])
    BY <1>7, <2>3
  <2>5. f[m] = Inserted(f[n], results[m])
    BY <1>3, <2>3
  <2> QED BY <2>1, <2>2, <2>3, <2>4, <2>5
<1>10. Nat = Same
  <2> HIDE DEF Same
  <2>1. Same \subseteq Nat
    BY DEF Same
  <2> QED BY <1>8, <1>9, <2>1, InductionOverSets
<1>11. ASSUME NEW n \in 0..Len(results) PROVE sorted[n] = f[n] /\ f[n] \in Seq(Result) /\ Falling(f[n])
  <2>1. n \in Nat /\ n <= Len(results) /\ n \in Same
    BY <1>0, <1>10
  <2>2. f[n] \in Fallings
    BY <1>2, <2>1 DEF Q
  <2> QED BY <2>1, <2>2 DEF Fallings
<1>12. sorted = [n \in 0..Len(results) |-> sorted[n]]
  BY <1>5 DEF Unfolds
<1>13. sorted \in [0..Len(results) -> Seq(Result)]
  <2> HIDE DEF Same
  <2> QED BY <1>11, <1>12
<1>14. SortedInSteps(sorted, results)
  <2>1. ASSUME NEW n \in 1..Len(results) PROVE sorted[n] = Inserted(sorted[n - 1], results[n])
    <3>1. n \in 0..Len(results) /\ n # 0
      BY <1>0
    <3> QED BY <1>7, <3>1
  <2>2. sorted[0] = <<>>
    BY <1>0, <1>7
  <2> QED BY <1>6, <1>13, <2>1, <2>2 DEF SortedInSteps
<1>15. \A n \in 0..Len(results) : Falling(sorted[n])
  BY <1>11
<1> HIDE DEF Same
<1> QED BY <1>14, <1>15

\* Sorted results are the same results, in descending order.
LEMMA DescendingSorts ==
    ASSUME NEW results \in Seq(Result)
    PROVE  /\ Descending(results) \in Seq(Result)
           /\ Range(Descending(results)) = Range(results)
           /\ Falling(Descending(results))
           /\ Once(results) => Once(Descending(results))
<1>0. Len(results) \in Nat /\ \A n \in 1..Len(results) : results[n] \in Result
  OBVIOUS
<1>1. PICK sorted :
        /\ sorted \in [0..Len(results) -> Seq(Result)]
        /\ Descending(results) = sorted[Len(results)]
        /\ sorted[0] = <<>>
        /\ \A n \in 1..Len(results) : sorted[n] = Inserted(sorted[n - 1], results[n])
        /\ \A n \in 0..Len(results) : Falling(sorted[n])
  <2>1. PICK sorted :
          SortedInSteps(sorted, results) /\ \A n \in 0..Len(results) : Falling(sorted[n])
    BY DescendingUnfolds
  <2> QED BY <2>1 DEF SortedInSteps
<1> DEFINE Few(n) == {results[i] : i \in 1..n}
           Right == {n \in Nat : n <= Len(results) =>
                        Range(sorted[n]) = Few(n) /\ (Once(results) => Once(sorted[n]))}
<1>2. 0 \in Right
  <2>1. Few(0) = {}
    OBVIOUS
  <2>2. Range(<<>>) = {} /\ Once(<<>>)
    BY DEF Range, Once
  <2> QED BY <1>1, <2>1, <2>2
<1>3. ASSUME NEW n \in Right PROVE n + 1 \in Right
  <2> SUFFICES ASSUME n + 1 <= Len(results)
               PROVE  /\ Range(sorted[n + 1]) = Few(n + 1)
                      /\ Once(results) => Once(sorted[n + 1])
    OBVIOUS
  <2>1. PICK m \in Nat : m = n + 1
    OBVIOUS
  <2>2. /\ n \in Nat /\ m \in 1..Len(results) /\ m - 1 = n /\ n \in 0..Len(results)
        /\ Range(sorted[n]) = Few(n) /\ (Once(results) => Once(sorted[n]))
    BY <1>0, <2>1
  <2>3. PICK s \in Seq(Result) : s = sorted[n] /\ Falling(s)
    BY <1>1, <2>2
  <2>4. PICK r \in Result : r = results[m]
    BY <1>0, <2>2
  <2>5. sorted[m] = Inserted(s, r)
    BY <1>1, <2>2, <2>3, <2>4
  <2>6. Few(m) = Few(n) \cup {r}
    <3>1. 1..m = (1..n) \cup {m}
      BY <2>1, <2>2
    <3> QED BY <2>4, <3>1
  <2>7. ASSUME Once(results) PROVE \A x \in Range(s) : x.chunk # r.chunk
    <3> SUFFICES ASSUME NEW x \in Range(s), x.chunk = r.chunk PROVE FALSE
      OBVIOUS
    <3>1. PICK i \in 1..n : x = results[i]
      BY <2>2, <2>3
    <3>2. i \in 1..Len(results) /\ i # m
      BY <1>0, <2>1, <2>2, <3>1
    <3> QED BY <2>2, <2>4, <2>7, <3>1, <3>2 DEF Once
  <2> HIDE DEF Few, Right
  <2>8. Range(sorted[m]) = Few(m)
    BY <2>2, <2>3, <2>5, <2>6, InsertedKeeps
  <2>9. Once(results) => Once(sorted[m])
    BY <2>2, <2>3, <2>5, <2>7, InsertedKeeps
  <2> QED BY <2>1, <2>8, <2>9
<1>4. Nat = Right
  <2> HIDE DEF Right
  <2>1. Right \subseteq Nat
    BY DEF Right
  <2> QED BY <1>2, <1>3, <2>1, InductionOverSets
<1>5. Len(results) \in Right
  <2> HIDE DEF Right
  <2> QED BY <1>0, <1>4
<1>6. Few(Len(results)) = Range(results)
  <2>1. DOMAIN results = 1..Len(results)
    OBVIOUS
  <2> QED BY <2>1 DEF Range
<1>7. PICK s \in Seq(Result) : s = sorted[Len(results)] /\ Falling(s)
  <2>1. Len(results) \in 0..Len(results)
    BY <1>0
  <2> QED BY <1>1, <2>1
<1>8. Range(s) = Few(Len(results)) /\ (Once(results) => Once(s))
  <2> HIDE DEF Few
  <2> QED BY <1>0, <1>5, <1>7
<1> HIDE DEF Right, Few
<1> QED BY <1>1, <1>6, <1>7, <1>8

-------------------------------------------------------------------------------
\* Every chunk once.
LEMMA SeenOnce ==
    ASSUME NEW chunks \in Seq(Chunks)
    PROVE  /\ Seen(chunks) \in Seq(Chunks)
           /\ IsInjective(Seen(chunks))
           /\ Range(Seen(chunks)) = Range(chunks)
<1>1. PICK n \in Nat : n = Len(chunks)
  OBVIOUS
<1> DEFINE numbers == [i \in 1..n |-> i]
           Firsts == {i \in 1..n : \A j \in 1..(i - 1) : chunks[j] # chunks[i]}
<1>2. numbers \in Seq(1..n) /\ Len(numbers) = n /\ \A i \in 1..n : numbers[i] = i
  OBVIOUS
<1> HIDE DEF numbers
<1>3. PICK f \in Seq(1..n) : f = Only(numbers, Firsts)
  BY <1>2, OnlyIsSubsequence
<1>4. PICK h : Embeds(h, f, numbers, Firsts, n)
  BY <1>2, <1>3, OnlyIsSubsequence
<1>5. PICK m \in Nat : m = Len(f)
  OBVIOUS
<1>6. /\ \A i \in 1..m : f[i] \in Firsts /\ f[i] \in 1..n
      /\ \A i, j \in 1..m : i < j => f[i] < f[j]
      /\ \A k \in Firsts : \E i \in 1..m : f[i] = k
  <2>1. \A i \in 1..m : h[i] \in 1..n /\ f[i] = numbers[h[i]] /\ f[i] \in Firsts
    BY <1>4, <1>5 DEF Embeds
  <2>2. \A i \in 1..m : f[i] = h[i]
    BY <1>2, <2>1
  <2>3. \A i, j \in 1..m : i < j => h[i] < h[j]
    BY <1>4, <1>5 DEF Embeds
  <2>4. ASSUME NEW k \in Firsts PROVE \E i \in 1..m : f[i] = k
    <3>1. k \in 1..n /\ numbers[k] \in Firsts
      BY <1>2
    <3>2. PICK i \in 1..m : h[i] = k
      BY <1>4, <1>5, <3>1 DEF Embeds
    <3> QED BY <2>2, <3>2
  <2> QED BY <2>1, <2>2, <2>3, <2>4
<1>7. \A i \in 1..n : chunks[i] \in Chunks /\ chunks[i] \in Range(chunks)
  BY <1>1, Placed
<1> DEFINE seen == [i \in 1..m |-> chunks[f[i]]]
<1>8. Seen(chunks) = seen
  BY <1>1, <1>3, <1>5 DEF Seen, numbers
<1>9. /\ seen \in Seq(Chunks) /\ Len(seen) = m /\ DOMAIN seen = 1..m
      /\ \A i \in 1..m : seen[i] = chunks[f[i]]
  BY <1>6, <1>7
<1> HIDE DEF seen
<1>10. IsInjective(seen)
  <2> SUFFICES ASSUME NEW i \in 1..m, NEW j \in 1..m, seen[i] = seen[j] PROVE i = j
    BY <1>9 DEF IsInjective
  <2>1. ASSUME NEW k \in 1..m, NEW l \in 1..m, k < l PROVE seen[k] # seen[l]
    <3>1. f[k] \in 1..(f[l] - 1)
      BY <1>6, <2>1
    <3>2. \A y \in Firsts : \A p \in 1..(y - 1) : chunks[p] # chunks[y]
      OBVIOUS
    <3>3. chunks[f[k]] # chunks[f[l]]
      BY <1>6, <3>1, <3>2
    <3> QED BY <1>9, <3>3
  <2> QED BY <2>1
<1>11. Range(seen) \subseteq Range(chunks)
  BY <1>6, <1>7, <1>9 DEF Range
<1>12. ASSUME NEW c \in Range(chunks) PROVE c \in Range(seen)
  <2>1. PICK k \in 1..n : chunks[k] = c
    BY <1>1, Placed
  <2> DEFINE Of == {i \in 1..n : chunks[i] = c}
  <2>2. Of \in SUBSET (1..n) /\ Of # {}
    BY <2>1
  <2>3. PICK i \in Of : \A j \in Of : i <= j
    <3> HIDE DEF Of
    <3> QED BY <2>2, Extremes
  <2>4. i \in Firsts /\ chunks[i] = c
    BY <2>3
  <2>5. PICK l \in 1..m : f[l] = i
    BY <1>6, <2>4
  <2> QED BY <1>9, <2>4, <2>5 DEF Range
<1> HIDE DEF Firsts
<1> QED BY <1>8, <1>9, <1>10, <1>11, <1>12

\* The first n of some results.
LEMMA UptoKeeps ==
    ASSUME NEW n \in Nat, NEW s \in Seq(Result)
    PROVE  /\ Upto(n, s) \in Seq(Result)
           /\ Len(Upto(n, s)) <= Len(s)
           /\ \A i \in 1..Len(Upto(n, s)) : Upto(n, s)[i] = s[i]
<1>1. PICK m \in Nat : m = IF Len(s) < n THEN Len(s) ELSE n
  OBVIOUS
<1>2. m <= Len(s) /\ Upto(n, s) = SubSeq(s, 1, m)
  BY <1>1 DEF Upto
<1>3. \A i \in 1..m : s[i] \in Result
  BY <1>2
<1>4. /\ SubSeq(s, 1, m) \in Seq(Result)
      /\ Len(SubSeq(s, 1, m)) = m
      /\ \A i \in 1..m : SubSeq(s, 1, m)[i] = s[i]
  BY <1>2, <1>3
<1> QED BY <1>2, <1>4

\* The better the rank, the more it weighs.
LEMMA WeightFalls ==
    ASSUME NEW i \in Nat, NEW j \in Nat, 0 < i, i < j,
           Scale % (RankConstant + i) = 0, Scale % (RankConstant + j) = 0
    PROVE  /\ Weight(i) \in Nat /\ Weight(j) \in Nat
           /\ Weight(j) < Weight(i)
<1>1. Scale \in Nat /\ Scale > 0 /\ RankConstant \in Nat /\ RankConstant > 0
  BY RetrievalAssumption
<1>2. PICK x \in Nat, y \in Nat : x = RankConstant + i /\ y = RankConstant + j /\ 0 < x /\ x < y
  BY <1>1
<1>3. PICK p \in Nat : p = Weight(i) /\ Scale = x * p
  BY <1>1, <1>2 DEF Weight
<1>4. PICK q \in Nat : q = Weight(j) /\ Scale = y * q
  BY <1>1, <1>2 DEF Weight
<1>5. q < p
  <2> SUFFICES ASSUME p <= q PROVE FALSE
    BY <1>3, <1>4
  <2>1. x * p <= x * q
    BY <1>2, <1>3, <1>4
  <2>2. q # 0
    BY <1>1, <1>4
  <2>3. x * q < y * q
    BY <1>2, <2>2
  <2>4. x * p \in Nat /\ x * q \in Nat /\ y * q \in Nat
    OBVIOUS
  <2> QED BY <1>3, <1>4, <2>1, <2>3, <2>4
<1> QED BY <1>3, <1>4, <1>5

\* What a rank weighs is between 1 and the whole.
LEMMA WeightBounds ==
    ASSUME NEW i \in Nat, 0 < i, Scale % (RankConstant + i) = 0
    PROVE  Weight(i) \in 1..Scale /\ i <= Scale
<1>1. Scale \in Nat /\ Scale > 0 /\ RankConstant \in Nat /\ RankConstant > 0
  BY RetrievalAssumption
<1>2. PICK x \in Nat : x = RankConstant + i /\ 0 < x /\ i <= x
  BY <1>1
<1>3. PICK p \in Nat : p = Weight(i) /\ Scale = x * p
  BY <1>1, <1>2 DEF Weight
<1>4. p # 0
  BY <1>1, <1>3
<1>5. p <= x * p /\ x <= x * p
  BY <1>2, <1>4
<1> QED BY <1>1, <1>2, <1>3, <1>4, <1>5

-------------------------------------------------------------------------------
\* What the branches find has the properties of rankings.
IsRanking(r) ==
    /\ r \in Seq(Chunks) /\ IsInjective(r)
    /\ \A i \in 1..Len(r) : Scale % (RankConstant + i) = 0

RanksAreRight == \A v \in 1..Variants : \A b \in Branches : IsRanking(ranks[v][b])

\* Results of chunks that were found, each with whatever is preferred to it, and better.
Fair(results) ==
    /\ results \in Seq(Result)
    /\ \A x \in Range(results) :
         /\ \E v \in 1..Variants : \E b \in Branches : x.chunk \in Range(ranks[v][b])
         /\ \A c \in Chunks : Dominates(c, x.chunk) =>
              \E y \in Range(results) : y.chunk = c /\ y.score > x.score

\* What the branches found for a variant, those that were in time.
FoundFor(v, found) == \A b \in Branches : found[b] = <<>> \/ found[b] = ranks[v][b]

\* The rank is where the chunk is.
LEMMA RankIsPlace ==
    ASSUME NEW r, IsRanking(r)
    PROVE  /\ \A i \in 1..Len(r) : Rank(r, r[i]) = i
           /\ \A c \in Range(r) : Rank(r, c) \in 1..Len(r) /\ r[Rank(r, c)] = c
<1>1. DOMAIN r = 1..Len(r)
  BY DEF IsRanking
<1>2. \A c \in Range(r) : Rank(r, c) \in 1..Len(r) /\ r[Rank(r, c)] = c
  BY <1>1 DEF Rank, Range
<1>3. ASSUME NEW i \in 1..Len(r) PROVE Rank(r, r[i]) = i
  <2>1. r[i] \in Range(r)
    BY <1>1 DEF Range
  <2>2. Rank(r, r[i]) \in 1..Len(r) /\ r[Rank(r, r[i])] = r[i]
    BY <1>2, <2>1
  <2> QED BY <1>1, <2>2 DEF IsRanking, IsInjective
<1> QED BY <1>2, <1>3

\* What a branch adds to a score.
LEMMA PartBounds ==
    ASSUME NEW r, IsRanking(r) \/ r = <<>>, NEW c
    PROVE  /\ Part(r, c) \in 0..Scale
           /\ c \in Range(r) => Part(r, c) > 0
<1>0. Scale \in Nat
  BY RetrievalAssumption
<1>1. CASE c \in Range(r)
  <2>1. IsRanking(r)
    BY <1>1 DEF Range
  <2>2. Rank(r, c) \in Nat /\ 0 < Rank(r, c) /\ Scale % (RankConstant + Rank(r, c)) = 0
    <3>1. Rank(r, c) \in 1..Len(r) /\ Len(r) \in Nat
      BY <1>1, <2>1, RankIsPlace DEF IsRanking
    <3> QED BY <2>1, <3>1 DEF IsRanking
  <2>3. Weight(Rank(r, c)) \in 1..Scale
    BY <2>2, WeightBounds
  <2> QED BY <1>0, <1>1, <2>3 DEF Part
<1>2. CASE c \notin Range(r)
  BY <1>0, <1>2 DEF Part
<1> QED BY <1>1, <1>2

\* A chunk that is preferred gets more from every branch that has the other.
LEMMA PartOfBetter ==
    ASSUME RanksAreRight, NEW v \in 1..Variants, NEW b \in Branches,
           NEW r, r = <<>> \/ r = ranks[v][b], NEW c, NEW d, Dominates(c, d)
    PROVE  /\ Part(r, d) <= Part(r, c)
           /\ d \in Range(r) => c \in Range(r) /\ Part(r, d) < Part(r, c)
<1>0. IsRanking(r) \/ r = <<>>
  BY DEF RanksAreRight
<1>1. Part(r, c) \in Nat /\ Part(r, d) \in Nat
  BY <1>0, PartBounds, RetrievalAssumption
<1>2. CASE d \in Range(r)
  <2>1. IsRanking(r) /\ r = ranks[v][b]
    BY <1>2 DEF RanksAreRight, Range
  <2>2. c \in Range(r) /\ Rank(r, c) < Rank(r, d)
    BY <1>2, <2>1 DEF Dominates
  <2>3. /\ Rank(r, c) \in 1..Len(r) /\ Rank(r, d) \in 1..Len(r) /\ Len(r) \in Nat
    BY <1>2, <2>1, <2>2, RankIsPlace DEF IsRanking
  <2>4. /\ Scale % (RankConstant + Rank(r, c)) = 0 /\ Scale % (RankConstant + Rank(r, d)) = 0
        /\ Rank(r, c) \in Nat /\ Rank(r, d) \in Nat /\ 0 < Rank(r, c)
    BY <2>1, <2>3 DEF IsRanking
  <2>5. Weight(Rank(r, d)) < Weight(Rank(r, c))
    BY <2>2, <2>4, WeightFalls
  <2>6. Part(r, c) = Weight(Rank(r, c)) /\ Part(r, d) = Weight(Rank(r, d))
    BY <1>2, <2>2 DEF Part
  <2> QED BY <1>1, <2>2, <2>5, <2>6
<1>3. CASE d \notin Range(r)
  <2>1. Part(r, d) = 0
    BY <1>3 DEF Part
  <2> QED BY <1>1, <1>3, <2>1
<1> QED BY <1>2, <1>3

\* Fairness is a matter of what is among the results, not of their order.
LEMMA SameIsFair ==
    ASSUME NEW s, Fair(s), NEW t \in Seq(Result), Range(t) = Range(s)
    PROVE  Fair(t)
BY DEF Fair

\* Of fair results in descending order the first are fair.
LEMMA CutIsFair ==
    ASSUME NEW s, Fair(s), Falling(s), NEW n \in Nat
    PROVE  Fair(Upto(n, s))
<1>1. s \in Seq(Result) /\ Len(s) \in Nat
  BY DEF Fair
<1>2. PICK u \in Seq(Result) : u = Upto(n, s)
  BY <1>1, UptoKeeps
<1>3. /\ Len(u) \in Nat /\ Len(u) <= Len(s)
      /\ \A i \in 1..Len(u) : u[i] = s[i] /\ i \in 1..Len(s)
  BY <1>1, <1>2, UptoKeeps
<1>4. ASSUME NEW x \in Range(u)
      PROVE  /\ x \in Range(s)
             /\ \A y \in Range(s) : y.score > x.score => y \in Range(u)
  <2>1. PICK i \in 1..Len(u) : u[i] = x
    BY <1>2, Placed
  <2>2. s[i] = x /\ i \in 1..Len(s)
    BY <1>3, <2>1
  <2>3. x \in Range(s)
    BY <1>1, <2>2, Placed
  <2>4. ASSUME NEW y \in Range(s), y.score > x.score PROVE y \in Range(u)
    <3>1. PICK k \in 1..Len(s) : s[k] = y
      BY <1>1, Placed
    <3>2. x.score \in Nat /\ y.score \in Nat
      <4>1. x \in Result /\ y \in Result
        BY <1>1, <2>3, Placed
      <4> QED BY <4>1, ScoreIsNumber
    <3>3. ~(i < k) /\ i # k
      BY <2>2, <2>4, <3>1, <3>2 DEF Falling
    <3>4. k \in 1..Len(u)
      BY <1>3, <2>1, <3>3
    <3> QED BY <1>2, <1>3, <3>1, <3>4, Placed
  <2> QED BY <2>3, <2>4
<1>5. ASSUME NEW x \in Range(u), NEW c \in Chunks, Dominates(c, x.chunk)
      PROVE  \E y \in Range(u) : y.chunk = c /\ y.score > x.score
  <2>1. PICK y \in Range(s) : y.chunk = c /\ y.score > x.score
    BY <1>4, <1>5 DEF Fair
  <2> QED BY <1>4, <2>1
<1>6. \A x \in Range(u) : \E v \in 1..Variants : \E b \in Branches : x.chunk \in Range(ranks[v][b])
  BY <1>4 DEF Fair
<1> QED BY <1>2, <1>5, <1>6 DEF Fair

\* Fair results after fair results.
LEMMA JoinIsFair ==
    ASSUME NEW s, Fair(s), NEW t, Fair(t)
    PROVE  Fair(s \o t)
<1>1. s \in Seq(Result) /\ t \in Seq(Result)
  BY DEF Fair
<1>2. PICK u \in Seq(Result) : u = s \o t /\ Range(u) = Range(s) \cup Range(t)
  BY <1>1, JoinKeeps
<1>3. \A x \in Range(u) : \E v \in 1..Variants : \E b \in Branches : x.chunk \in Range(ranks[v][b])
  BY <1>2 DEF Fair
<1>4. ASSUME NEW x \in Range(u), NEW c \in Chunks, Dominates(c, x.chunk)
      PROVE  \E y \in Range(u) : y.chunk = c /\ y.score > x.score
  BY <1>2, <1>4 DEF Fair
<1> QED BY <1>2, <1>3, <1>4 DEF Fair

\* Nothing is fair.
LEMMA NothingIsFair == Fair(<<>>)
BY DEF Fair, Range

-------------------------------------------------------------------------------
\* The scores of chunks that are seen once are fair when fused.
LEMMA FusedIsFair ==
    ASSUME RanksAreRight, NEW v \in 1..Variants, NEW found, FoundFor(v, found)
    PROVE  Fair(Fused(found))
<1>1. PICK p, q : p = found["dense"] /\ q = found["bm25"]
  OBVIOUS
<1>2. /\ "dense" \in Branches /\ "bm25" \in Branches
      /\ p = <<>> \/ p = ranks[v]["dense"]
      /\ q = <<>> \/ q = ranks[v]["bm25"]
  BY <1>1 DEF FoundFor, Branches
<1>3. (IsRanking(p) \/ p = <<>>) /\ (IsRanking(q) \/ q = <<>>)
  BY <1>2 DEF RanksAreRight
<1>4. p \in Seq(Chunks) /\ q \in Seq(Chunks)
  <2>1. <<>> \in Seq(Chunks)
    OBVIOUS
  <2> QED BY <1>3, <2>1 DEF IsRanking
<1>5. PICK all \in Seq(Chunks) : all = p \o q
  BY <1>4, ConcatProperties
<1>6. \A c \in Range(all) : c \in Range(p) \/ c \in Range(q)
  <2>1. /\ Len(all) = Len(p) + Len(q) /\ Len(p) \in Nat /\ Len(q) \in Nat
        /\ \A i \in 1..(Len(p) + Len(q)) : all[i] = IF i <= Len(p) THEN p[i] ELSE q[i - Len(p)]
    BY <1>4, <1>5, ConcatProperties
  <2>2. ASSUME NEW c \in Range(all) PROVE c \in Range(p) \/ c \in Range(q)
    <3>1. PICK i \in 1..(Len(p) + Len(q)) : all[i] = c
      BY <2>1, <2>2, Placed
    <3>2. CASE i <= Len(p)
      <4>1. i \in 1..Len(p) /\ p[i] = c
        BY <2>1, <3>1, <3>2
      <4> QED BY <1>4, <4>1, Placed
    <3>3. CASE ~(i <= Len(p))
      <4>1. i - Len(p) \in 1..Len(q) /\ q[i - Len(p)] = c
        BY <2>1, <3>1, <3>3
      <4> QED BY <1>4, <4>1, Placed
    <3> QED BY <3>2, <3>3
  <2> QED BY <2>2
<1>7. \A c : c \in Range(p) \/ c \in Range(q) => c \in Range(all)
  <2>1. /\ Len(all) = Len(p) + Len(q) /\ Len(p) \in Nat /\ Len(q) \in Nat
        /\ \A i \in 1..(Len(p) + Len(q)) : all[i] = IF i <= Len(p) THEN p[i] ELSE q[i - Len(p)]
    BY <1>4, <1>5, ConcatProperties
  <2>2. ASSUME NEW c \in Range(p) PROVE c \in Range(all)
    <3>1. PICK i \in 1..Len(p) : p[i] = c
      BY <1>4, Placed
    <3>2. i \in 1..Len(all) /\ all[i] = c
      BY <2>1, <3>1
    <3> QED BY <1>5, <3>2, Placed
  <2>3. ASSUME NEW c \in Range(q) PROVE c \in Range(all)
    <3>1. PICK i \in 1..Len(q) : q[i] = c
      BY <1>4, Placed
    <3>2. PICK k \in Nat : k = Len(p) + i
      BY <2>1
    <3>3. k \in 1..(Len(p) + Len(q)) /\ ~(k <= Len(p)) /\ k - Len(p) = i
      BY <2>1, <3>2
    <3>4. k \in 1..Len(all) /\ all[k] = c
      BY <2>1, <3>1, <3>3
    <3> QED BY <1>5, <3>4, Placed
  <2> QED BY <2>2, <2>3
<1>8. PICK seen \in Seq(Chunks) :
        seen = Seen(all) /\ IsInjective(seen) /\ Range(seen) = Range(all)
  BY SeenOnce
<1>9. \A c : Score(found, c) = Part(p, c) + Part(q, c)
  BY <1>1 DEF Score
<1>10. ASSUME NEW c \in Range(seen) PROVE Score(found, c) \in 1..(3 * Scale)
  <2>1. c \in Range(p) \/ c \in Range(q)
    BY <1>6, <1>8
  <2>2. Part(p, c) \in 0..Scale /\ Part(q, c) \in 0..Scale /\ Scale \in Nat
    BY <1>3, PartBounds, RetrievalAssumption
  <2>3. Part(p, c) > 0 \/ Part(q, c) > 0
    BY <1>3, <2>1, PartBounds
  <2> QED BY <1>9, <2>2, <2>3
<1>11. ASSUME NEW c, NEW d \in Range(seen), Dominates(c, d)
       PROVE  c \in Range(seen) /\ Score(found, c) > Score(found, d)
  <2>1. d \in Range(p) \/ d \in Range(q)
    BY <1>6, <1>8
  <2>2. /\ Part(p, d) <= Part(p, c) /\ Part(q, d) <= Part(q, c)
        /\ d \in Range(p) => c \in Range(p) /\ Part(p, d) < Part(p, c)
        /\ d \in Range(q) => c \in Range(q) /\ Part(q, d) < Part(q, c)
    BY <1>2, <1>11, PartOfBetter
  <2>3. /\ Part(p, c) \in Nat /\ Part(q, c) \in Nat /\ Part(p, d) \in Nat /\ Part(q, d) \in Nat
    BY <1>3, PartBounds, RetrievalAssumption
  <2>4. c \in Range(seen)
    BY <1>7, <1>8, <2>1, <2>2
  <2> QED BY <1>9, <2>1, <2>2, <2>3, <2>4
<1>12. PICK n \in Nat : /\ n = Len(seen)
                        /\ \A i \in 1..n : seen[i] \in Range(seen) /\ seen[i] \in Chunks
                        /\ \A c \in Range(seen) : \E i \in 1..n : seen[i] = c
  BY Placed
<1> DEFINE list == [i \in 1..n |-> [chunk |-> seen[i], score |-> Score(found, seen[i])]]
<1>13. /\ list \in Seq(Result) /\ Len(list) = n /\ DOMAIN list = 1..n
       /\ \A i \in 1..n : list[i].chunk = seen[i] /\ list[i].score = Score(found, seen[i])
  BY <1>10, <1>12 DEF Result
<1>14. Fused(found) = Upto(TopK, Descending(list))
  BY <1>1, <1>5, <1>8, <1>12 DEF Fused
<1> HIDE DEF list
<1>15. Fair(list)
  <2>1. ASSUME NEW x \in Range(list)
        PROVE  \E w \in 1..Variants : \E b \in Branches : x.chunk \in Range(ranks[w][b])
    <3>1. PICK i \in 1..n : list[i] = x
      BY <1>13, <2>1 DEF Range
    <3>2. x.chunk \in Range(p) \/ x.chunk \in Range(q)
      BY <1>6, <1>8, <1>12, <1>13, <3>1
    <3>3. Range(<<>>) = {}
      BY DEF Range
    <3> QED BY <1>2, <3>2, <3>3
  <2>2. ASSUME NEW x \in Range(list), NEW c \in Chunks, Dominates(c, x.chunk)
        PROVE  \E y \in Range(list) : y.chunk = c /\ y.score > x.score
    <3>1. PICK i \in 1..n : list[i] = x
      BY <1>13, <2>2 DEF Range
    <3>2. x.chunk = seen[i] /\ x.score = Score(found, x.chunk) /\ x.chunk \in Range(seen)
      BY <1>12, <1>13, <3>1
    <3>3. c \in Range(seen) /\ Score(found, c) > Score(found, x.chunk)
      BY <1>11, <2>2, <3>2
    <3>4. PICK k \in 1..n : seen[k] = c
      BY <1>12, <3>3
    <3>5. list[k] \in Range(list)
      BY <1>13 DEF Range
    <3> QED BY <1>13, <3>2, <3>3, <3>4, <3>5
  <2> QED BY <1>13, <2>1, <2>2 DEF Fair
<1>16. PICK sorted \in Seq(Result) :
         sorted = Descending(list) /\ Range(sorted) = Range(list) /\ Falling(sorted)
  BY <1>13, DescendingSorts
<1>17. Fair(sorted)
  BY <1>15, <1>16, SameIsFair
<1> QED BY <1>14, <1>16, <1>17, CutIsFair, RetrievalAssumption

\* The ranking of one branch is fair.
LEMMA PartialIsFair ==
    ASSUME RanksAreRight, NEW v \in 1..Variants, NEW found, FoundFor(v, found)
    PROVE  Fair(Partial(found))
<1>0. PICK b \in Branches :
         found[b] = IF found["dense"] # <<>> THEN found["dense"] ELSE found["bm25"]
  BY DEF Branches
<1>1. PICK r : /\ r = found[b]
               /\ r = IF found["dense"] # <<>> THEN found["dense"] ELSE found["bm25"]
  BY <1>0
<1>2. (r = <<>> \/ r = ranks[v][b]) /\ (r = <<>> \/ IsRanking(r))
  BY <1>1 DEF FoundFor, RanksAreRight
<1>3. PICK n \in Nat : /\ n = Len(r) /\ DOMAIN r = 1..n
                       /\ \A i \in 1..n : r[i] \in Chunks /\ i <= Scale
  <2>1. CASE r = <<>>
    BY <2>1
  <2>2. CASE IsRanking(r)
    <3>1. Len(r) \in Nat /\ DOMAIN r = 1..Len(r) /\ \A i \in 1..Len(r) : r[i] \in Chunks
      BY <2>2 DEF IsRanking
    <3>2. ASSUME NEW i \in 1..Len(r) PROVE i <= Scale
      <4>1. i \in Nat /\ 0 < i /\ Scale % (RankConstant + i) = 0
        BY <2>2, <3>1 DEF IsRanking
      <4> QED BY <4>1, WeightBounds
    <3> QED BY <3>1, <3>2
  <2> QED BY <1>2, <2>1, <2>2
<1> DEFINE list == [i \in 1..n |-> [chunk |-> r[i], score |-> 3 * Scale - i]]
<1>4. /\ list \in Seq(Result) /\ Len(list) = n /\ DOMAIN list = 1..n
      /\ \A i \in 1..n : list[i].chunk = r[i] /\ list[i].score = 3 * Scale - i
  <2>1. \A i \in 1..n : 3 * Scale - i \in 1..(3 * Scale)
    BY <1>3, RetrievalAssumption
  <2> QED BY <1>3, <2>1 DEF Result
<1>5. Partial(found) = Upto(TopK, list)
  BY <1>1, <1>3 DEF Partial
<1> HIDE DEF list
<1>6. Falling(list)
  <2>1. \A i, j \in 1..n : i < j => 3 * Scale - i >= 3 * Scale - j
    BY RetrievalAssumption
  <2> QED BY <1>4, <2>1 DEF Falling
<1>7. Fair(list)
  <2>1. ASSUME NEW x \in Range(list)
        PROVE  \E w \in 1..Variants : \E a \in Branches : x.chunk \in Range(ranks[w][a])
    <3>1. PICK i \in 1..n : list[i] = x
      BY <1>4, <2>1 DEF Range
    <3>2. x.chunk = r[i] /\ r # <<>>
      BY <1>3, <1>4, <3>1
    <3> QED BY <1>2, <1>3, <3>1, <3>2 DEF Range
  <2>2. ASSUME NEW x \in Range(list), NEW c \in Chunks, Dominates(c, x.chunk)
        PROVE  \E y \in Range(list) : y.chunk = c /\ y.score > x.score
    <3>1. PICK i \in 1..n : list[i] = x
      BY <1>4, <2>2 DEF Range
    <3>2. x.chunk = r[i] /\ x.score = 3 * Scale - i /\ r # <<>> /\ r[i] \in Range(r)
      BY <1>3, <1>4, <3>1 DEF Range
    <3>3. IsRanking(r) /\ r = ranks[v][b]
      BY <1>2, <3>2
    <3>4. c \in Range(r) /\ Rank(r, c) < Rank(r, r[i])
      BY <2>2, <3>2, <3>3 DEF Dominates
    <3>5. PICK k \in 1..n : k = Rank(r, c) /\ r[k] = c /\ k < i
      BY <1>3, <3>1, <3>3, <3>4, RankIsPlace
    <3>6. list[k] \in Range(list) /\ list[k].chunk = c /\ list[k].score = 3 * Scale - k
      BY <1>4, <3>5 DEF Range
    <3>7. 3 * Scale - k > 3 * Scale - i
      BY <1>3, <3>5, RetrievalAssumption
    <3> QED BY <3>2, <3>6, <3>7
  <2> QED BY <1>4, <2>1, <2>2 DEF Fair
<1> QED BY <1>5, <1>6, <1>7, CutIsFair, RetrievalAssumption

\* The best score of a chunk.
LEMMA BestScore ==
    ASSUME NEW s \in Seq(Result), NEW c, NEW x \in Range(s), x.chunk = c
    PROVE  /\ \E y \in Range(s) : y.chunk = c /\ y.score = Max(ScoresOf(c, s))
           /\ \A y \in Range(s) : y.chunk = c => y.score <= Max(ScoresOf(c, s))
<1>1. Range(s) \subseteq Result
  BY RangeOfSequence
<1>2. 3 * Scale \in Nat
  BY RetrievalAssumption
<1>3. \A y \in Range(s) : y.score \in 1..(3 * Scale)
  BY <1>1 DEF Result
<1>4. PICK S : S = ScoresOf(c, s)
  OBVIOUS
<1>5. /\ S \in SUBSET (1..(3 * Scale)) /\ x.score \in S
      /\ \A m \in S : \E y \in Range(s) : y.chunk = c /\ y.score = m
      /\ \A y \in Range(s) : y.chunk = c => y.score \in S
  BY <1>3, <1>4 DEF ScoresOf
<1>6. Max(S) \in S /\ \A m \in S : m <= Max(S)
  BY <1>2, <1>5, Extremes
<1> QED BY <1>4, <1>5, <1>6

\* The best of each chunk are fair, once each, and in order.
LEMMA BestIsFair ==
    ASSUME NEW s, Fair(s)
    PROVE  Fair(Best(s)) /\ Falling(Best(s)) /\ Once(Best(s))
<1>1. PICK m \in Nat : /\ m = Len(s) /\ DOMAIN s = 1..m
                       /\ \A i \in 1..m : s[i] \in Result /\ s[i].chunk \in Chunks /\ s[i] \in Range(s)
                       /\ \A x \in Range(s) : \E i \in 1..m : s[i] = x
  <2>1. s \in Seq(Result)
    BY DEF Fair
  <2>2. /\ Len(s) \in Nat /\ DOMAIN s = 1..Len(s)
        /\ \A i \in 1..Len(s) : s[i] \in Result /\ s[i] \in Range(s)
        /\ \A x \in Range(s) : x \in Result /\ \E i \in 1..Len(s) : s[i] = x
    BY <2>1, Placed
  <2> QED BY <2>2, ScoreIsNumber
<1>2. PICK chunks \in Seq(Chunks) : /\ chunks = [i \in 1..Len(s) |-> s[i].chunk]
                                    /\ Range(chunks) = {x.chunk : x \in Range(s)}
  <2> DEFINE q == [i \in 1..m |-> s[i].chunk]
  <2>1. q \in Seq(Chunks) /\ DOMAIN q = 1..m /\ \A i \in 1..m : q[i] = s[i].chunk
    BY <1>1
  <2> HIDE DEF q
  <2>2. Range(q) = {x.chunk : x \in Range(s)}
    BY <1>1, <2>1 DEF Range
  <2> QED BY <1>1, <2>1, <2>2 DEF q
<1>3. PICK seen \in Seq(Chunks) :
        seen = Seen(chunks) /\ IsInjective(seen) /\ Range(seen) = Range(chunks)
  BY SeenOnce
<1>4. PICK n \in Nat : /\ n = Len(seen) /\ DOMAIN seen = 1..n
                       /\ \A i \in 1..n : seen[i] \in Range(seen) /\ seen[i] \in Chunks
                       /\ \A c \in Range(seen) : \E i \in 1..n : seen[i] = c
  BY Placed
<1> DEFINE best(c) == Max(ScoresOf(c, s))
<1>5. ASSUME NEW c \in Range(seen)
      PROVE  /\ \E y \in Range(s) : y.chunk = c /\ y.score = best(c)
             /\ \A y \in Range(s) : y.chunk = c => y.score <= best(c)
             /\ best(c) \in 1..(3 * Scale)
  <2>1. PICK x \in Range(s) : x.chunk = c
    BY <1>2, <1>3, <1>5
  <2>2. s \in Seq(Result)
    BY DEF Fair
  <2>3. /\ \E y \in Range(s) : y.chunk = c /\ y.score = best(c)
        /\ \A y \in Range(s) : y.chunk = c => y.score <= best(c)
    BY <2>1, <2>2, BestScore
  <2>4. \A y \in Range(s) : y.score \in 1..(3 * Scale)
    <3>1. Range(s) \subseteq Result
      BY <2>2, RangeOfSequence
    <3> QED BY <3>1 DEF Result
  <2> HIDE DEF best
  <2> QED BY <2>3, <2>4
<1> DEFINE list == [i \in 1..n |-> [chunk |-> seen[i], score |-> best(seen[i])]]
<1>6. Best(s) = Descending(list)
  BY <1>2, <1>3, <1>4 DEF Best
<1> HIDE DEF best
<1>7. /\ list \in Seq(Result) /\ Len(list) = n /\ DOMAIN list = 1..n
      /\ \A i \in 1..n : list[i].chunk = seen[i] /\ list[i].score = best(seen[i])
  BY <1>4, <1>5 DEF Result
<1> HIDE DEF list
<1>8. Once(list)
  BY <1>3, <1>4, <1>7 DEF Once, IsInjective
<1>9. Fair(list)
  <2>1. ASSUME NEW x \in Range(list)
        PROVE  x.chunk \in Range(seen) /\ x.score = best(x.chunk)
    <3>1. PICK i \in 1..n : list[i] = x
      BY <1>7, <2>1 DEF Range
    <3> QED BY <1>4, <1>7, <3>1
  <2>2. ASSUME NEW x \in Range(list)
        PROVE  \E w \in 1..Variants : \E b \in Branches : x.chunk \in Range(ranks[w][b])
    <3>1. PICK y \in Range(s) : y.chunk = x.chunk
      BY <1>5, <2>1
    <3> QED BY <3>1 DEF Fair
  <2>3. ASSUME NEW x \in Range(list), NEW c \in Chunks, Dominates(c, x.chunk)
        PROVE  \E y \in Range(list) : y.chunk = c /\ y.score > x.score
    <3>1. PICK y \in Range(s) : y.chunk = x.chunk /\ y.score = x.score
      BY <1>5, <2>1
    <3>2. PICK z \in Range(s) : z.chunk = c /\ z.score > x.score
      BY <2>3, <3>1 DEF Fair
    <3>3. c \in Range(seen)
      BY <1>2, <1>3, <3>2
    <3>4. z.score <= best(c) /\ best(c) \in Nat
      BY <1>5, <3>2, <3>3, RetrievalAssumption
    <3>5. PICK k \in 1..n : seen[k] = c
      BY <1>4, <3>3
    <3>6. list[k] \in Range(list) /\ list[k].chunk = c /\ list[k].score = best(c)
      BY <1>7, <3>5 DEF Range
    <3>7. z.score \in Nat /\ x.score \in Nat
      <4>1. y \in Result /\ z \in Result
        BY <1>1
      <4> QED BY <3>1, <4>1, ScoreIsNumber
    <3> QED BY <3>2, <3>4, <3>6, <3>7
  <2> QED BY <1>7, <2>2, <2>3 DEF Fair
<1>10. PICK sorted \in Seq(Result) :
         /\ sorted = Descending(list) /\ Range(sorted) = Range(list) /\ Falling(sorted)
         /\ Once(list) => Once(sorted)
  BY <1>7, DescendingSorts
<1>11. Fair(sorted)
  BY <1>9, <1>10, SameIsFair
<1> QED BY <1>6, <1>8, <1>10, <1>11


\* What is fair makes fair candidates.
LEMMA FairCandidates ==
    ASSUME Fair(merged)
    PROVE  PoolIsFair
<1>1. PICK s : s = Best(merged) /\ Fair(s) /\ Falling(s) /\ Once(s)
  BY BestIsFair
<1>2. s \in Seq(Result) /\ Len(s) \in Nat /\ MaxPool \in Nat
  BY <1>1, RetrievalAssumption DEF Fair
<1>3. PICK u \in Seq(Result) : u = Upto(MaxPool, s) /\ Fair(u)
  BY <1>1, <1>2, CutIsFair, UptoKeeps
<1>4. PICK n \in Nat : /\ n = Len(u) /\ n <= Len(s)
                       /\ \A i \in 1..n : /\ u[i] = s[i] /\ i \in 1..Len(s)
                                          /\ u[i] \in Result /\ u[i] \in Range(u)
                       /\ \A x \in Range(u) : \E i \in 1..n : u[i] = x
  <2>1. /\ Len(u) <= Len(s) /\ \A i \in 1..Len(u) : u[i] = s[i]
    BY <1>2, <1>3, UptoKeeps
  <2>2. /\ Len(u) \in Nat
        /\ \A i \in 1..Len(u) : u[i] \in Result /\ u[i] \in Range(u)
        /\ \A x \in Range(u) : x \in Result /\ \E i \in 1..Len(u) : u[i] = x
    BY <1>3, Placed
  <2> QED BY <1>2, <2>1, <2>2
<1>5. PICK p : p = [i \in 1..n |-> u[i].chunk]
  OBVIOUS
<1>6. Pool = p
  BY <1>1, <1>3, <1>4, <1>5 DEF Pool
<1>7. DOMAIN p = 1..n /\ Len(p) = n /\ \A i \in 1..n : p[i] = u[i].chunk
  BY <1>4, <1>5
<1>8. IsInjective(p)
  <2>1. ASSUME NEW i \in 1..n, NEW j \in 1..n, p[i] = p[j] PROVE i = j
    BY <1>1, <1>4, <1>7, <2>1 DEF Once
  <2> QED BY <1>7, <2>1 DEF IsInjective
<1>9. ASSUME NEW j \in 1..n
      PROVE  \E v \in 1..Variants : \E b \in Branches : p[j] \in Range(ranks[v][b])
  BY <1>3, <1>4, <1>7 DEF Fair
<1>10. ASSUME NEW j \in 1..n, NEW c \in Chunks, Dominates(c, p[j])
       PROVE  \E i \in 1..(j - 1) : p[i] = c
  <2>1. PICK y \in Range(u) : y.chunk = c /\ y.score > u[j].score
    BY <1>3, <1>4, <1>7, <1>10 DEF Fair
  <2>2. PICK i \in 1..n : u[i] = y
    BY <1>4
  <2>3. u[i].score \in Nat /\ u[j].score \in Nat
    BY <1>4, ScoreIsNumber
  <2>4. ~(j < i) /\ i # j
    BY <1>1, <1>4, <2>1, <2>2, <2>3 DEF Falling
  <2>5. i \in 1..(j - 1)
    BY <1>4, <2>4
  <2> QED BY <1>7, <2>1, <2>2, <2>5
<1> QED BY <1>6, <1>7, <1>8, <1>9, <1>10 DEF PoolIsFair

-------------------------------------------------------------------------------
\* What is searched for and what was found.
SearchIsRight ==
    /\ stage \in {"idle", "looking", "searching", "ranked", "failed"}
    /\ stage \in {"looking", "searching"} => variant \in 1..Variants

\* What is kept, in the cache and of the question, is fair.
RankedInv ==
    /\ RanksAreRight /\ SearchIsRight
    /\ Fair(merged)
    /\ cached.kept => Fair(cached.results)

\* What the branches that were in time found is of the variant that is searched for.
LEMMA InTimeIsFound == FoundFor(variant, InTime)
BY DEF FoundFor, InTime

\* What is fair stays so while the branches find the same.
LEMMA StaysFair ==
    ASSUME NEW s, Fair(s), ranks' = ranks
    PROVE  /\ merged' = s => Fair(merged)'
           /\ cached'.results = s => Fair(cached.results)'
BY DEF Fair, Dominates

\* What the branches find does not change.
LEMMA RanksStay == ASSUME RanksAreRight, ranks' = ranks PROVE RanksAreRight'
BY DEF RanksAreRight

\* The results of a variant are added.
LEMMA AddedIsFair ==
    ASSUME RankedInv, NEW results, Fair(results), Added(results), ranks' = ranks,
           stage \in {"looking", "searching"}
    PROVE  SearchIsRight' /\ Fair(merged)'
<1>1. Fair(merged \o results)
  BY JoinIsFair DEF RankedInv
<1>2. Fair(merged)'
  BY <1>1, StaysFair DEF Added
<1>3. SearchIsRight'
  <2>1. variant \in 1..Variants
    BY DEF RankedInv, SearchIsRight
  <2>2. variant # Variants => variant + 1 \in 1..Variants
    BY <2>1, RetrievalAssumption
  <2> QED BY <2>2 DEF Added, SearchIsRight
<1> QED BY <1>2, <1>3

LEMMA RankedInit == RetrievalInit => RankedInv
<1> SUFFICES ASSUME RetrievalInit PROVE RankedInv
  OBVIOUS
<1>1. ranks \in Rankings
  BY DEF RetrievalInit
<1>2. RanksAreRight
  BY <1>1, RetrievalAssumption DEF RanksAreRight, IsRanking
<1> QED BY <1>2, NothingIsFair DEF RetrievalInit, RetrievalStart, RankedInv, SearchIsRight, NotCached

LEMMA RankedStep == RankedInv /\ [RetrievalNext]_retrievalVars => RankedInv'
<1> SUFFICES ASSUME RankedInv, [RetrievalNext]_retrievalVars PROVE RankedInv'
  OBVIOUS
<1>0. /\ RanksAreRight /\ SearchIsRight /\ Fair(merged)
      /\ cached.kept => Fair(cached.results)
  BY DEF RankedInv
<1>1. ASSUME ranks' = ranks, cached' = cached
      PROVE  RanksAreRight' /\ (cached.kept => Fair(cached.results))'
  BY <1>0, <1>1, RanksStay, StaysFair
<1>2. ASSUME ranks' = ranks, merged' = merged PROVE Fair(merged)'
  BY <1>0, <1>2, StaysFair
<1>3. CASE AskQuestion
  <2>1. Fair(merged)'
    BY <1>3, NothingIsFair, StaysFair DEF AskQuestion
  <2>2. SearchIsRight'
    BY <1>3, RetrievalAssumption DEF AskQuestion, SearchIsRight
  <2> QED BY <1>1, <1>3, <2>1, <2>2 DEF AskQuestion, RankedInv
<1>4. CASE LookUp
  <2>1. ranks' = ranks /\ cached' = cached /\ stage = "looking"
    BY <1>4 DEF LookUp
  <2>2. CASE cached.kept
    <3>1. SearchIsRight' /\ Fair(merged)'
      BY <1>0, <1>4, <2>1, <2>2, AddedIsFair DEF LookUp
    <3> QED BY <1>1, <2>1, <3>1 DEF RankedInv
  <2>3. CASE ~cached.kept
    <3>1. SearchIsRight' /\ merged' = merged
      BY <1>0, <1>4, <2>1, <2>3 DEF LookUp, SearchIsRight
    <3> QED BY <1>1, <1>2, <2>1, <3>1 DEF RankedInv
  <2> QED BY <2>2, <2>3
<1>5. CASE FailSearch
  <2>1. SearchIsRight'
    BY <1>5 DEF FailSearch, SearchIsRight
  <2> QED BY <1>1, <1>2, <1>5, <2>1 DEF FailSearch, RankedInv
<1>6. ASSUME NEW results, Fair(results), FuseAs(results) PROVE RankedInv'
  <2>1. /\ ranks' = ranks /\ stage = "searching" /\ Added(results)
        /\ cached' = [kept |-> TRUE, results |-> results]
    BY <1>6 DEF FuseAs, Collected
  <2>2. SearchIsRight' /\ Fair(merged)'
    BY <1>6, <2>1, AddedIsFair
  <2>3. RanksAreRight' /\ Fair(cached.results)'
    BY <1>0, <1>6, <2>1, RanksStay, StaysFair
  <2> QED BY <2>2, <2>3 DEF RankedInv
<1>7. ASSUME Collected PROVE variant \in 1..Variants
  BY <1>0, <1>7 DEF Collected, SearchIsRight
<1>8. CASE Fuse
  <2>1. FuseAs(Fused(InTime)) /\ Collected
    BY <1>8 DEF Fuse, FuseAs
  <2>2. Fair(Fused(InTime))
    BY <1>0, <1>7, <2>1, FusedIsFair, InTimeIsFound
  <2> QED BY <1>6, <2>1, <2>2
<1>9. CASE FuseLate
  <2>1. FuseAs(Partial(InTime)) /\ Collected
    BY <1>9 DEF FuseLate, FuseAs
  <2>2. Fair(Partial(InTime))
    BY <1>0, <1>7, <2>1, PartialIsFair, InTimeIsFound
  <2> QED BY <1>6, <2>1, <2>2
<1>10. CASE EndQuestion
  <2>1. Fair(merged)' /\ SearchIsRight'
    BY <1>10, NothingIsFair, StaysFair DEF EndQuestion, SearchIsRight
  <2> QED BY <1>1, <1>10, <2>1 DEF EndQuestion, RankedInv
<1>11. ASSUME NEW b \in Branches, Return(b) PROVE RankedInv'
  <2>1. SearchIsRight'
    BY <1>0, <1>11 DEF Return, SearchIsRight
  <2> QED BY <1>1, <1>2, <1>11, <2>1 DEF Return, RankedInv
<1>12. CASE UNCHANGED retrievalVars
  <2>1. SearchIsRight'
    BY <1>0, <1>12 DEF retrievalVars, SearchIsRight
  <2> QED BY <1>1, <1>2, <1>12, <2>1 DEF retrievalVars, RankedInv
<1> QED BY <1>3, <1>4, <1>5, <1>8, <1>9, <1>10, <1>11, <1>12 DEF RetrievalNext

(***************************************************************************)
(* For any rankings, any number of variants and any sizes of the results   *)
(* and of the pool: the candidates of a question are fair, whatever came   *)
(* late, failed, or was taken from the cache (_search, fuse,               *)
(* _partial_ranking, deduplicate_results).                                 *)
(***************************************************************************)
THEOREM CandidatesAreFair == RetrievalSpec => []PoolIsFair
<1>1. RankedInv => PoolIsFair
  BY FairCandidates DEF RankedInv
<1> QED BY <1>1, RankedInit, RankedStep, PTL DEF RetrievalSpec

-------------------------------------------------------------------------------
(* EvidenceSelection *)

\* What the diverse pass has come by.
Settled(c) == IsSelected(c) \/ Blocked(c) \/ (Len(selected) >= Floor /\ Over(TargetMax, c))

\* What the pass has found out so far.
PassIsSound ==
    /\ pass = "threshold" => \A i \in 1..Len(selected) : selected[i] < cursor
    /\ pass = "diverse" => \A c \in 1..(cursor - 1) : Settled(c)
    /\ pass = "relaxed" =>
         /\ \A c \in 1..Size : IsSelected(c) \/ Blocked(c)
         /\ \A c \in 1..(cursor - 1) : IsSelected(c) \/ Len(selected) >= Floor

EInv == EvidenceTypeOK /\ EvidenceIsSound /\ PassIsSound

(***************************************************************************)
(* The helpers                                                             *)
(***************************************************************************)
\* The floor can be reached.
LEMMA FloorBounds ==
    ASSUME pool.ranking \in Seq(Candidate)
    PROVE  Floor \in Nat /\ Floor <= Size /\ Floor <= MaxSelected
BY EvidenceAssumption DEF Floor, Size, Least, Most

\* A candidate has tokens.
LEMMA TokensType ==
    ASSUME pool.ranking \in Seq(Candidate), NEW c \in 1..Size
    PROVE  Tokens(c) \in Nat
<1>1. pool.ranking[c] \in Candidate
  BY DEF Size
<1> QED BY <1>1 DEF Tokens, Candidate

\* The selected that come from one source are finitely many.
LEMMA FromSourceFinite ==
    ASSUME NEW c, NEW k \in Nat
    PROVE  IsFiniteSet(FromSourceBy(c, k)) /\ Cardinality(FromSourceBy(c, k)) \in Nat
<1>1. FromSourceBy(c, k) \in SUBSET (1..k)
  BY DEF FromSourceBy
<1>2. IsFiniteSet(1..k)
  BY FS_Interval
<1>3. IsFiniteSet(FromSourceBy(c, k))
  BY <1>1, <1>2, FS_Subset
<1> QED BY <1>3, FS_CardinalityType

\* What the first of selected block, more of them block too.
LEMMA BlockedStays ==
    ASSUME NEW c, NEW k \in Nat, NEW m \in Nat, k <= m, BlockedBy(c, k)
    PROVE  BlockedBy(c, m)
<1>1. CASE RedundantBy(c, k)
  <2>1. PICK i \in 1..k : {c, selected[i]} \in pool.similar
    BY <1>1 DEF RedundantBy
  <2>2. i \in 1..m
    OBVIOUS
  <2> QED BY <2>1, <2>2 DEF BlockedBy, RedundantBy
<1>2. CASE Cardinality(FromSourceBy(c, k)) >= MaxPerSource
  <2>1. FromSourceBy(c, k) \in SUBSET FromSourceBy(c, m)
    BY DEF FromSourceBy
  <2>2. Cardinality(FromSourceBy(c, k)) <= Cardinality(FromSourceBy(c, m))
    BY <2>1, FromSourceFinite, FS_Subset
  <2> QED BY <1>2, <2>2, FromSourceFinite, EvidenceAssumption DEF BlockedBy
<1> QED BY <1>1, <1>2 DEF BlockedBy

\* If every candidate is selected, as many are selected as there are.
LEMMA AllSelected ==
    ASSUME pool.ranking \in Seq(Candidate), selected \in Seq(1..Size),
           \A c \in 1..Size : IsSelected(c)
    PROVE  Size <= Len(selected)
<1> DEFINE f == [c \in 1..Size |-> CHOOSE i \in 1..Len(selected) : selected[i] = c]
<1>1. Size \in Nat /\ Len(selected) \in Nat
  BY DEF Size
<1>2. \A c \in 1..Size : f[c] \in 1..Len(selected) /\ selected[f[c]] = c
  BY DEF IsSelected, Places
<1>3. f \in [1..Size -> 1..Len(selected)]
  BY <1>2
<1>4. f \in Injection(1..Size, 1..Len(selected))
  <2>1. \A a, b \in 1..Size : f[a] = f[b] => a = b
    BY <1>2
  <2> HIDE DEF f
  <2> QED BY <1>3, <2>1 DEF Injection, IsInjective
<1>5. IsFiniteSet(1..Len(selected)) /\ Cardinality(1..Len(selected)) = Len(selected)
  <2>1. \A n \in Nat : IsFiniteSet(1..n) /\ Cardinality(1..n) = n
    BY FS_Interval
  <2> QED BY <1>1, <2>1
<1>6. Cardinality(1..Size) = Size
  BY <1>1, FS_Interval
<1> HIDE DEF f
<1> QED BY <1>4, <1>5, <1>6, FS_Injection

\* Selecting one more leaves the order and the judgements of those before.
LEMMA AddKeeps ==
    ASSUME EvidenceTypeOK, NEW d \in 1..Size, cursor <= Size, Add(d)
    PROVE  /\ pool' = pool /\ Size' = Size /\ Floor' = Floor
           /\ Len(selected') = Len(selected) + 1 /\ selected'[Len(selected) + 1] = d
           /\ \A i \in 1..Len(selected) : selected'[i] = selected[i]
           /\ before'[Len(selected) + 1] = used
           /\ \A i \in 1..Len(selected) : before'[i] = before[i]
           /\ \A c, k : k \in 0..Len(selected) =>
                 (BlockedBy(c, k)' <=> BlockedBy(c, k)) /\ Places(k)' = Places(k)
           /\ \A c : IsSelected(c)' <=> IsSelected(c) \/ c = d
           /\ \A c : Blocked(c) => Blocked(c)'
           /\ \A c \in 1..Size : Over(TargetMax, c) => Over(TargetMax, c)'
           /\ EvidenceTypeOK'
<1>1. pool' = pool /\ Size' = Size /\ Floor' = Floor
  BY DEF Add, Size, Floor
<1>2. /\ Len(selected') = Len(selected) + 1 /\ selected'[Len(selected) + 1] = d
      /\ \A i \in 1..Len(selected) : selected'[i] = selected[i]
      /\ Len(selected) \in Nat
  BY DEF Add, EvidenceTypeOK
<1>3. /\ before'[Len(selected) + 1] = used
      /\ \A i \in 1..Len(selected) : before'[i] = before[i]
  BY DEF Add, EvidenceTypeOK
<1>4. ASSUME NEW c, NEW k, k \in 0..Len(selected)
      PROVE  (BlockedBy(c, k)' <=> BlockedBy(c, k)) /\ Places(k)' = Places(k)
  <2>1. \A i \in 1..k : selected'[i] = selected[i]
    BY <1>2, <1>4
  <2>2. RedundantBy(c, k)' <=> RedundantBy(c, k)
    BY <1>1, <2>1 DEF RedundantBy
  <2>3. FromSourceBy(c, k)' = FromSourceBy(c, k)
    BY <1>1, <2>1 DEF FromSourceBy
  <2>4. Places(k)' = Places(k)
    BY <2>1 DEF Places
  <2> QED BY <2>2, <2>3, <2>4 DEF BlockedBy
<1>5. ASSUME NEW c PROVE IsSelected(c)' <=> IsSelected(c) \/ c = d
  <2>1. IsSelected(c)' <=> \E i \in 1..(Len(selected) + 1) : c = selected'[i]
    BY <1>2 DEF IsSelected, Places
  <2>2. IsSelected(c) <=> \E i \in 1..Len(selected) : c = selected'[i]
    BY <1>2 DEF IsSelected, Places
  <2> QED BY <1>2, <2>1, <2>2
<1>6. ASSUME NEW c, Blocked(c) PROVE Blocked(c)'
  <2>1. PICK k \in Nat : k = Len(selected)
    BY <1>2
  <2>2. BlockedBy(c, k)'
    BY <1>4, <1>6, <2>1 DEF Blocked
  <2>3. CASE RedundantBy(c, k)'
    <3>1. PICK i \in 1..k : {c, selected'[i]} \in pool'.similar
      BY <2>3 DEF RedundantBy
    <3>2. i \in 1..(k + 1)
      OBVIOUS
    <3> QED BY <1>2, <2>1, <3>1, <3>2 DEF Blocked, BlockedBy, RedundantBy
  <2>4. CASE Cardinality(FromSourceBy(c, k))' >= MaxPerSource
    <3> DEFINE now == FromSourceBy(c, k)'
               then == FromSourceBy(c, k + 1)'
    <3>1. now \in SUBSET then /\ then \in SUBSET (1..(k + 1))
      BY DEF FromSourceBy
    <3>2. IsFiniteSet(1..(k + 1))
      BY FS_Interval
    <3>3. IsFiniteSet(then) /\ IsFiniteSet(now)
      BY <3>1, <3>2, FS_Subset
    <3>4. Cardinality(now) \in Nat /\ Cardinality(then) \in Nat /\ Cardinality(now) <= Cardinality(then)
      BY <3>1, <3>3, FS_Subset, FS_CardinalityType
    <3>5. Cardinality(now) >= MaxPerSource
      BY <2>4
    <3> HIDE DEF now
    <3>6. Cardinality(then) >= MaxPerSource
      BY <3>4, <3>5, EvidenceAssumption
    <3> QED BY <1>2, <2>1, <3>6 DEF Blocked, BlockedBy, FromSourceBy
  <2> QED BY <2>2, <2>3, <2>4 DEF BlockedBy
<1>7. ASSUME NEW c \in 1..Size, Over(TargetMax, c) PROVE Over(TargetMax, c)'
  <2>1. Tokens(c) \in Nat /\ Tokens(d) \in Nat /\ Tokens(c)' = Tokens(c)
    BY <1>1, TokensType DEF EvidenceTypeOK, Tokens
  <2>2. used \in Nat /\ used' = used + Tokens(d)
    BY DEF Add, EvidenceTypeOK
  <2>3. TargetMax \in Nat /\ TargetMax' = TargetMax
    BY EvidenceAssumption
  <2>4. used + Tokens(c) > TargetMax
    BY <1>7 DEF Over
  <2>5. used' + Tokens(c)' > TargetMax
    BY <2>1, <2>2, <2>3, <2>4
  <2> QED BY <2>5 DEF Over
<1>8. EvidenceTypeOK'
  <2>1. Tokens(d) \in Nat
    BY TokensType DEF EvidenceTypeOK
  <2>2. pool'.ranking \in Seq(Candidate) /\ pass' \in {"threshold", "diverse", "relaxed", "done"}
    BY <1>1 DEF Add, EvidenceTypeOK
  <2>3. selected' \in Seq(1..Size) /\ before' \in Seq(Nat) /\ Len(before') = Len(selected')
    BY DEF Add, EvidenceTypeOK
  <2>4. used' \in Nat
    BY <2>1 DEF Add, EvidenceTypeOK
  <2>5. cursor' \in 1..(Size + 1)
    <3>1. Size \in Nat
      BY DEF EvidenceTypeOK, Size
    <3> QED BY <3>1 DEF Add, EvidenceTypeOK
  <2> QED BY <1>1, <2>2, <2>3, <2>4, <2>5 DEF EvidenceTypeOK
<1> QED BY <1>1, <1>2, <1>3, <1>4, <1>5, <1>6, <1>7, <1>8

\* A step of a pass that selects nothing, or ends it, keeps what was selected.
LEMMA KeepsSelected ==
    ASSUME EvidenceTypeOK, UNCHANGED <<pool, selected, used, before>>
    PROVE  /\ Size' = Size /\ Floor' = Floor
           /\ \A c : (IsSelected(c)' <=> IsSelected(c)) /\ (Blocked(c)' <=> Blocked(c))
           /\ \A c : Over(TargetMax, c)' <=> Over(TargetMax, c)
           /\ FewAndDistinct' <=> FewAndDistinct
           /\ TokensKeptToTheFloor' <=> TokensKeptToTheFloor
           /\ RedundantLast' <=> RedundantLast
<1>1. Size' = Size /\ Floor' = Floor
  BY DEF Size, Floor
<1>2. \A c : (IsSelected(c)' <=> IsSelected(c)) /\ (Blocked(c)' <=> Blocked(c))
  BY DEF IsSelected, Places, Blocked, BlockedBy, RedundantBy, FromSourceBy
<1>3. \A c : Over(TargetMax, c)' <=> Over(TargetMax, c)
  BY DEF Over, Tokens
<1>4. FewAndDistinct' <=> FewAndDistinct
  BY DEF FewAndDistinct
<1>5. TokensKeptToTheFloor' <=> TokensKeptToTheFloor
  BY <1>1 DEF TokensKeptToTheFloor, Tokens
<1>6. RedundantLast' <=> RedundantLast
  BY <1>1 DEF RedundantLast, BlockedBy, RedundantBy, FromSourceBy, Places
<1> QED BY <1>1, <1>2, <1>3, <1>4, <1>5, <1>6

\* Selecting a candidate that is not selected keeps what is selected sound, if it is within
\* the tokens or for the floor, and not blocked or blocked like all that are left.
LEMMA AddIsSound ==
    ASSUME EvidenceTypeOK, FewAndDistinct, TokensKeptToTheFloor, RedundantLast,
           NEW d \in 1..Size, cursor <= Size, Add(d), Len(selected) < MaxSelected,
           ~IsSelected(d),
           Len(selected) < Floor \/ ~Over(TargetMax, d),
           Blocked(d) => \A c \in 1..Size : IsSelected(c) \/ Blocked(c)
    PROVE  FewAndDistinct' /\ TokensKeptToTheFloor' /\ RedundantLast'
<1> DEFINE n == Len(selected)
<1>1. /\ Size' = Size /\ Floor' = Floor
      /\ Len(selected') = n + 1 /\ selected'[n + 1] = d
      /\ \A i \in 1..n : selected'[i] = selected[i]
      /\ before'[n + 1] = used
      /\ \A i \in 1..n : before'[i] = before[i]
      /\ \A c, k : k \in 0..n =>
             (BlockedBy(c, k)' <=> BlockedBy(c, k)) /\ Places(k)' = Places(k)
  BY AddKeeps
<1>2. n \in Nat /\ MaxSelected \in Nat /\ Floor \in Nat
  BY FloorBounds, EvidenceAssumption DEF EvidenceTypeOK
<1>3. FewAndDistinct'
  <2>1. \A i \in 1..n : selected[i] # d
    BY DEF IsSelected, Places
  <2>2. ASSUME NEW i \in 1..(n + 1), NEW j \in 1..(n + 1), selected'[i] = selected'[j]
        PROVE  i = j
    <3>1. i \in 1..n \/ i = n + 1
      BY <1>2
    <3>2. j \in 1..n \/ j = n + 1
      BY <1>2
    <3> HIDE DEF n
    <3> QED BY <1>1, <2>1, <2>2, <3>1, <3>2 DEF FewAndDistinct, n
  <2>3. Len(selected') <= MaxSelected
    BY <1>1, <1>2
  <2> QED BY <1>1, <2>2, <2>3 DEF FewAndDistinct
<1>4. TokensKeptToTheFloor'
  <2>1. \A c : Tokens(c)' = Tokens(c)
    BY DEF Tokens, Add
  <2>2. ASSUME NEW i \in 1..(n + 1), before'[i] + Tokens(selected'[i]) > TargetMax
        PROVE  i <= Floor
    <3>1. CASE i \in 1..n
      BY <1>1, <2>2, <3>1 DEF TokensKeptToTheFloor
    <3>2. CASE i = n + 1
      <4>1. used + Tokens(d) > TargetMax
        BY <1>1, <2>2, <3>2
      <4>2. n < Floor
        BY <4>1 DEF Over
      <4> QED BY <1>2, <3>2, <4>2
    <3> QED BY <1>2, <3>1, <3>2
  <2>3. \A i \in 1..(n + 1) : Tokens(selected[i])' = Tokens(selected'[i])
    BY DEF Tokens, Add
  <2> HIDE DEF n
  <2> QED BY <1>1, <2>2, <2>3 DEF TokensKeptToTheFloor
<1>5. RedundantLast'
  <2>1. ASSUME NEW i \in 1..(n + 1), BlockedBy(selected[i], i - 1)',
               NEW c \in 1..Size, c \notin Places(i - 1)'
        PROVE  BlockedBy(c, i - 1)'
    <3>1. PICK e : e = selected'[i]
      OBVIOUS
    <3>2. PICK k \in 0..n : k = i - 1
      BY <1>2
    <3>3. BlockedBy(e, k)' /\ c \notin Places(k)'
      BY <2>1, <3>1, <3>2 DEF BlockedBy, RedundantBy, FromSourceBy, Places
    <3>4. BlockedBy(e, k) /\ c \notin Places(k)
      BY <1>1, <3>3
    <3>5. CASE i \in 1..n
      <4>1. e = selected[i]
        BY <1>1, <3>1, <3>5
      <4>2. BlockedBy(c, k)
        BY <3>2, <3>4, <3>5, <4>1 DEF RedundantLast
      <4> QED BY <1>1, <3>2, <4>2
    <3>6. CASE i = n + 1
      <4>1. k = n /\ e = d
        BY <1>1, <1>2, <3>1, <3>2, <3>6
      <4>2. Blocked(d) /\ ~IsSelected(c)
        BY <3>4, <4>1 DEF Blocked, IsSelected
      <4>3. BlockedBy(c, k)
        BY <4>1, <4>2 DEF Blocked
      <4> QED BY <1>1, <3>2, <4>3
    <3> QED BY <1>2, <3>5, <3>6
  <2> HIDE DEF n
  <2> QED BY <1>1, <2>1 DEF RedundantLast
<1> QED BY <1>3, <1>4, <1>5

(***************************************************************************)
(* The invariant                                                           *)
(***************************************************************************)
\* It holds before anything is selected.
LEMMA EvidenceBegins == ASSUME EvidenceInit PROVE EInv
<1>1. EvidenceTypeOK
  BY EvidenceAssumption DEF EvidenceInit, EvidenceStart, EvidenceTypeOK, Size
<1>2. EvidenceIsSound
  BY EvidenceAssumption DEF EvidenceInit, EvidenceStart, EvidenceIsSound, FewAndDistinct,
     TokensKeptToTheFloor, RedundantLast, NothingMissed
<1>3. PassIsSound
  BY DEF EvidenceInit, EvidenceStart, PassIsSound
<1> QED BY <1>1, <1>2, <1>3 DEF EInv

\* Passing by a candidate.
LEMMA SkipKeeps ==
    ASSUME EInv, PassOver \/ \E p \in {"diverse", "relaxed"} : Leave(p)
    PROVE  EInv'
<1>1. UNCHANGED <<pool, selected, used, before, pass>> /\ cursor' = cursor + 1 /\ cursor <= Size
  BY DEF PassOver, Leave, Skip, Visits, Fills
<1>2. EvidenceTypeOK
  BY DEF EInv
<1>3. EvidenceTypeOK'
  <2>1. Size \in Nat /\ Size' = Size
    BY <1>1, <1>2 DEF EvidenceTypeOK, Size
  <2> QED BY <1>1, <1>2, <2>1 DEF EvidenceTypeOK
<1>4. pass # "done"
  BY DEF PassOver, Leave, Visits, Fills
<1>5. EvidenceIsSound'
  BY <1>1, <1>2, <1>4, KeepsSelected DEF EInv, EvidenceIsSound, NothingMissed
<1>6. PassIsSound'
  <2>1. cursor \in Nat /\ \A c \in 1..(cursor' - 1) : c \in 1..(cursor - 1) \/ c = cursor
    BY <1>1, <1>2 DEF EvidenceTypeOK
  <2>2. ASSUME pass = "threshold" PROVE \A i \in 1..Len(selected) : selected[i] < cursor'
    <3>1. ASSUME NEW i \in 1..Len(selected) PROVE selected[i] < cursor'
      <4>1. selected[i] < cursor
        BY <2>2 DEF EInv, PassIsSound
      <4>2. selected[i] \in Int
        BY <1>2 DEF EvidenceTypeOK, Size
      <4> QED BY <1>1, <2>1, <4>1, <4>2
    <3> QED BY <3>1
  <2>3. ASSUME pass = "diverse" PROVE \A c \in 1..(cursor' - 1) : Settled(c)
    <3>1. Unfit("diverse", cursor)
      BY <2>3 DEF PassOver, Leave, Visits, Fills
    <3>2. Over(TokenBudget, cursor) => Over(TargetMax, cursor)
      <4>1. Tokens(cursor) \in Nat
        BY <1>1, <1>2, TokensType DEF EvidenceTypeOK
      <4> QED BY <1>2, <4>1, EvidenceAssumption DEF Over, EvidenceTypeOK
    <3>3. Len(selected) \in Nat /\ Floor \in Nat
      BY <1>2, FloorBounds DEF EvidenceTypeOK
    <3>4. Settled(cursor)
      BY <3>1, <3>2, <3>3 DEF Unfit, Settled, Refused, NeedFloor
    <3> QED BY <2>1, <2>3, <3>4 DEF EInv, PassIsSound
  <2>4. ASSUME pass = "relaxed" PROVE \A c \in 1..(cursor' - 1) : IsSelected(c) \/ Len(selected) >= Floor
    <3>1. Unfit("relaxed", cursor)
      BY <2>4 DEF PassOver, Leave, Visits, Fills
    <3>2. Len(selected) \in Nat /\ Floor \in Nat
      BY <1>2, FloorBounds DEF EvidenceTypeOK
    <3>3. IsSelected(cursor) \/ Len(selected) >= Floor
      BY <3>1, <3>2 DEF Unfit, Refused, NeedFloor
    <3> QED BY <2>1, <2>4, <3>3 DEF EInv, PassIsSound
  <2>5. \A c : Settled(c)' <=> Settled(c)
    BY <1>1, <1>2, KeepsSelected DEF Settled
  <2> QED BY <1>1, <1>2, <2>2, <2>3, <2>4, <2>5, KeepsSelected DEF EInv, PassIsSound
<1> QED BY <1>3, <1>5, <1>6 DEF EInv

\* Selecting a candidate.
LEMMA SelectKeeps ==
    ASSUME EInv, SelectStrong \/ \E p \in {"diverse", "relaxed"} : Fill(p)
    PROVE  EInv'
<1> DEFINE n == Len(selected)
<1>1. Add(cursor) /\ cursor \in 1..Size /\ n < MaxSelected /\ pass # "done" /\ pass' = pass /\ cursor' = cursor + 1
  <2>1. Add(cursor) /\ cursor <= Size /\ n < MaxSelected /\ pass # "done"
    BY DEF SelectStrong, Fill, Fills, Visits
  <2> QED BY <2>1 DEF Add, EInv, EvidenceTypeOK, Size
<1>2. EvidenceTypeOK /\ n \in Nat /\ Floor \in Nat /\ cursor \in Nat /\ Size \in Nat /\ cursor <= Size
  BY <1>1, FloorBounds DEF EInv, EvidenceTypeOK, Size
<1>3. ~IsSelected(cursor)
  <2>1. CASE SelectStrong
    <3>1. \A i \in 1..n : selected[i] < cursor
      BY <2>1 DEF SelectStrong, Visits, EInv, PassIsSound
    <3> QED BY <1>2, <3>1 DEF IsSelected, Places
  <2>2. CASE \E p \in {"diverse", "relaxed"} : Fill(p)
    BY <2>2 DEF Fill, Unfit
  <2> QED BY <2>1, <2>2
<1>4. n < Floor \/ ~Over(TargetMax, cursor)
  BY <1>2 DEF SelectStrong, TooMuch, NeedFloor, Fill, Unfit, Refused
<1>5. Blocked(cursor) => pass = "relaxed"
  BY DEF SelectStrong, Ineligible, Fill, Fills, Visits, Unfit
<1>6. FewAndDistinct' /\ TokensKeptToTheFloor' /\ RedundantLast'
  BY <1>1, <1>2, <1>3, <1>4, <1>5, AddIsSound DEF EInv, EvidenceIsSound, PassIsSound
<1>7. EvidenceIsSound'
  BY <1>1, <1>6 DEF EvidenceIsSound, NothingMissed
<1>8. /\ EvidenceTypeOK' /\ Size' = Size /\ Floor' = Floor
      /\ Len(selected') = n + 1 /\ selected'[n + 1] = cursor
      /\ \A i \in 1..n : selected'[i] = selected[i]
      /\ \A c : IsSelected(c)' <=> IsSelected(c) \/ c = cursor
      /\ \A c : Blocked(c) => Blocked(c)'
      /\ \A c \in 1..Size : Over(TargetMax, c) => Over(TargetMax, c)'
  BY <1>1, <1>2, AddKeeps
<1>9. PassIsSound'
  <2>1. \A c \in 1..(cursor' - 1) : c \in 1..Size /\ (c \in 1..(cursor - 1) \/ c = cursor)
    BY <1>1, <1>2
  <2>2. ASSUME pass = "threshold" PROVE \A i \in 1..Len(selected') : selected'[i] < cursor'
    <3>1. ASSUME NEW i \in 1..(n + 1) PROVE selected'[i] < cursor + 1
      <4>1. CASE i \in 1..n
        <5>1. selected[i] < cursor /\ selected[i] \in 1..Size
          BY <1>2, <2>2, <4>1 DEF EInv, PassIsSound, EvidenceTypeOK
        <5> QED BY <1>2, <1>8, <4>1, <5>1
      <4>2. CASE i = n + 1
        BY <1>2, <1>8, <4>2
      <4> QED BY <1>2, <4>1, <4>2
    <3> QED BY <1>1, <1>8, <3>1
  <2>3. ASSUME pass = "diverse" PROVE \A c \in 1..(cursor' - 1) : Settled(c)'
    <3>1. \A c \in 1..(cursor - 1) : Settled(c)
      BY <2>3 DEF EInv, PassIsSound
    <3> QED BY <1>2, <1>8, <2>1, <3>1 DEF Settled
  <2>4. ASSUME pass = "relaxed"
        PROVE  /\ \A c \in 1..Size : IsSelected(c)' \/ Blocked(c)'
               /\ \A c \in 1..(cursor' - 1) : IsSelected(c)' \/ Len(selected') >= Floor
    <3>1. /\ \A c \in 1..Size : IsSelected(c) \/ Blocked(c)
          /\ \A c \in 1..(cursor - 1) : IsSelected(c) \/ n >= Floor
      BY <2>4 DEF EInv, PassIsSound
    <3> QED BY <1>2, <1>8, <2>1, <3>1
  <2> QED BY <1>1, <1>8, <2>2, <2>3, <2>4 DEF PassIsSound
<1> QED BY <1>7, <1>8, <1>9 DEF EInv

\* The end of a pass.
LEMMA EndKeeps ==
    ASSUME EInv, EndThreshold \/ EndDiverse \/ EndRelaxed
    PROVE  EInv'
<1>1. UNCHANGED <<pool, selected, used, before>> /\ cursor' = 1
  BY DEF EndThreshold, EndDiverse, EndRelaxed, To
<1>2. EvidenceTypeOK /\ Size \in Nat /\ Floor \in Nat /\ Floor <= Size /\ Floor <= MaxSelected
      /\ Len(selected) \in Nat /\ MaxSelected \in Nat /\ cursor \in 1..(Size + 1)
  BY FloorBounds, EvidenceAssumption DEF EInv, EvidenceTypeOK, Size
<1>3. pass' \in {"diverse", "relaxed", "done"}
  BY DEF EndThreshold, EndDiverse, EndRelaxed, To
<1>4. EvidenceTypeOK'
  <2>1. Size' = Size /\ 1 \in 1..(Size + 1)
    BY <1>1, <1>2 DEF Size
  <2> QED BY <1>1, <1>2, <1>3, <2>1 DEF EvidenceTypeOK
<1>5. pass' = "relaxed" =>
        Len(selected) < Floor /\ \A c \in 1..Size : IsSelected(c) \/ Blocked(c)
  <2>1. SUFFICES ASSUME EndDiverse, NeedFloor
                 PROVE  Len(selected) < Floor /\ \A c \in 1..Size : IsSelected(c) \/ Blocked(c)
    BY DEF EndThreshold, EndDiverse, EndRelaxed, To
  <2>2. Len(selected) < Floor /\ pass = "diverse" /\ ~Fills("diverse")
    BY <2>1 DEF EndDiverse, NeedFloor
  <2>3. cursor = Size + 1
    BY <1>2, <2>1, <2>2 DEF Fills, Visits
  <2>4. \A c \in 1..Size : Settled(c)
    BY <1>2, <2>2, <2>3 DEF EInv, PassIsSound
  <2> QED BY <1>2, <2>2, <2>4 DEF Settled
<1>6. pass' = "done" =>
        /\ Len(selected) >= Floor
        /\ used < TargetMin /\ Len(selected) < MaxSelected =>
              \A c \in 1..Size : IsSelected(c) \/ Blocked(c) \/ Over(TargetMax, c)
  <2>1. CASE EndDiverse
    <3>1. SUFFICES ASSUME pass' = "done", used < TargetMin, Len(selected) < MaxSelected
                   PROVE  \A c \in 1..Size : Settled(c)
      BY <1>2, <2>1 DEF EndDiverse, To, NeedFloor, Settled
    <3>2. pass = "diverse" /\ cursor = Size + 1
      BY <1>2, <2>1, <3>1 DEF EndDiverse, Fills, Visits, NeedTokens
    <3> QED BY <1>2, <3>2 DEF EInv, PassIsSound
  <2>2. CASE EndRelaxed
    <3>1. /\ \A c \in 1..Size : IsSelected(c) \/ Blocked(c)
          /\ \A c \in 1..(cursor - 1) : IsSelected(c) \/ Len(selected) >= Floor
      BY <2>2 DEF EndRelaxed, EInv, PassIsSound
    <3>2. Len(selected) >= Floor
      <4>1. SUFFICES ASSUME Len(selected) < Floor PROVE FALSE
        BY <1>2
      <4>2. cursor = Size + 1
        BY <1>2, <2>2, <4>1 DEF EndRelaxed, Fills, Visits, NeedFloor
      <4>3. \A c \in 1..Size : IsSelected(c)
        BY <1>2, <3>1, <4>1, <4>2
      <4> QED BY <1>2, <4>1, <4>3, AllSelected DEF EvidenceTypeOK
    <3> QED BY <3>1, <3>2
  <2>3. CASE EndThreshold
    BY <2>3 DEF EndThreshold, To
  <2> QED BY <2>1, <2>2, <2>3
<1>7. EvidenceIsSound'
  <2>1. NothingMissed'
    BY <1>1, <1>2, <1>6, KeepsSelected DEF NothingMissed
  <2> QED BY <1>1, <1>2, <2>1, KeepsSelected DEF EInv, EvidenceIsSound
<1>8. PassIsSound'
  <2>1. \A c \in 1..(cursor' - 1) : FALSE
    BY <1>1
  <2> QED BY <1>1, <1>2, <1>3, <1>5, <2>1, KeepsSelected DEF PassIsSound
<1> QED BY <1>4, <1>7, <1>8 DEF EInv

\* The next call.
LEMMA AgainKeeps == ASSUME EInv, SelectAgain PROVE EInv'
<1>1. EvidenceTypeOK' /\ Size' = Size
  BY DEF EInv, SelectAgain, EvidenceTypeOK, Size
<1>2. EvidenceIsSound'
  BY EvidenceAssumption DEF SelectAgain, EvidenceIsSound, FewAndDistinct, TokensKeptToTheFloor,
     RedundantLast, NothingMissed
<1>3. PassIsSound'
  BY DEF SelectAgain, PassIsSound
<1> QED BY <1>1, <1>2, <1>3 DEF EInv

\* It holds in every state.
THEOREM EvidenceInvariant == EvidenceSpec => []EInv
<1>1. ASSUME EInv, [EvidenceNext]_evidenceVars PROVE EInv'
  <2>1. CASE PassOver
    BY <1>1, <2>1, SkipKeeps
  <2>2. CASE SelectStrong
    BY <1>1, <2>2, SelectKeeps
  <2>3. CASE EndThreshold \/ EndDiverse \/ EndRelaxed
    BY <1>1, <2>3, EndKeeps
  <2>4. CASE \E p \in {"diverse", "relaxed"} : Leave(p)
    BY <1>1, <2>4, SkipKeeps
  <2>5. CASE \E p \in {"diverse", "relaxed"} : Fill(p)
    BY <1>1, <2>5, SelectKeeps
  <2>6. CASE SelectAgain
    BY <1>1, <2>6, AgainKeeps
  <2>7. CASE UNCHANGED evidenceVars
    <3>1. UNCHANGED <<pool, pass, cursor, selected, used, before>>
      BY <2>7 DEF evidenceVars
    <3>2. EvidenceTypeOK
      BY <1>1 DEF EInv
    <3>3. EvidenceTypeOK'
      BY <3>1, <3>2 DEF EvidenceTypeOK, Size
    <3>4. EvidenceIsSound'
      BY <1>1, <3>1, <3>2, KeepsSelected DEF EInv, EvidenceIsSound, NothingMissed
    <3>5. PassIsSound'
      <4>1. \A c : Settled(c)' <=> Settled(c)
        BY <3>1, <3>2, KeepsSelected DEF Settled
      <4> QED BY <1>1, <3>1, <3>2, <4>1, KeepsSelected DEF EInv, PassIsSound
    <3> QED BY <3>3, <3>4, <3>5 DEF EInv
  <2> QED BY <1>1, <2>1, <2>2, <2>3, <2>4, <2>5, <2>6, <2>7 DEF EvidenceNext
<1> QED BY <1>1, EvidenceBegins, PTL DEF EvidenceSpec

(***************************************************************************)
(* What is selected is small, distinct, within the tokens but for the      *)
(* floor, without redundancy while there is anything else, and as much as  *)
(* is asked for: select, for every ranking and all limits.                 *)
(***************************************************************************)
THEOREM SelectionIsSound == EvidenceSpec => []EvidenceIsSound
<1>1. EInv => EvidenceIsSound
  BY DEF EInv
<1> QED BY <1>1, EvidenceInvariant, PTL

-------------------------------------------------------------------------------
(* The three together *)

\* Every step is one of the part that moves, and leaves the others alone.
LEMMA OnePartMoves ==
    [AnsweringNext]_answeringVars =>
        [Next]_vars /\ [RetrievalNext]_retrievalVars /\ [EvidenceNext]_evidenceVars
<1>1. CASE InRuntime(Next)
  BY <1>1 DEF InRuntime
<1>2. CASE InRetrieval(RetrievalNext)
  BY <1>2 DEF InRetrieval
<1>3. CASE InSelection(EvidenceNext)
  BY <1>3 DEF InSelection
<1>4. CASE UNCHANGED answeringVars
  BY <1>4 DEF answeringVars
<1> QED BY <1>1, <1>2, <1>3, <1>4 DEF AnsweringNext

(***************************************************************************)
(* Side by side, the generations that are searched behave as QueryRuntime  *)
(* says; and so do the search and the selection, of which the data are     *)
(* chosen: what is proved of a part is so of the whole.                    *)
(***************************************************************************)
THEOREM AnsweringIsItsParts ==
    AnsweringSpec => /\ Spec
                     /\ part = "retrieval" => RetrievalSpec
                     /\ part = "selection" => EvidenceSpec
<1>1. /\ AnsweringInit => Init
      /\ AnsweringInit /\ part = "retrieval" => RetrievalInit
      /\ AnsweringInit /\ part = "selection" => EvidenceInit
  BY DEF AnsweringInit, RetrievalInit, EvidenceInit
<1> QED BY <1>1, OnePartMoves, PTL DEF AnsweringSpec, Spec, RetrievalSpec, EvidenceSpec

===============================================================================
