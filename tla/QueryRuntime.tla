------------------------------ MODULE QueryRuntime ------------------------------
(***************************************************************************)
(* The query side of the API process: the loaded publication that          *)
(* questions read, the daemon that brings it up to date, and the cache of  *)
(* retrieval results (KnowledgeEngineService.acquire_snapshot,             *)
(* refresh_published_query_identities, refresh_query_runtime_if_needed,    *)
(* request_generation_refresh; RetrievalResultCache).                      *)
(*                                                                         *)
(* The corpus is one document, whose versions are numbered.  What may be   *)
(* answered from is then a set of at most one version, and what a question *)
(* finds is a set of versions.  All questions are the same one, asked by   *)
(* one user in one scope, so they have one cache key per generation.       *)
(***************************************************************************)
EXTENDS Integers, FiniteSets

CONSTANTS
    Requests,           \* the chat turns that can run at a time
    MaxVersion,         \* bound on edits of the document
    MaxGeneration,      \* bound on publications
    Large,              \* may a snapshot be too large to reload, or not, or either
    CanFail             \* whether a read or a load may fail

ASSUME RuntimeAssumption ==
    /\ MaxVersion \in Nat \ {0}
    /\ MaxGeneration \in Nat \ {0}
    /\ Large \in SUBSET BOOLEAN
    /\ CanFail \in BOOLEAN

Versions == 1..MaxVersion

VARIABLES
    document,   \* PostgreSQL: current version, whether it is indexed, version stored
    snapshot,   \* the file current.json: its version, and whether it is too large
    active,     \* index_generations: the number last published
    loaded,     \* the pipeline: identities, lexical snapshot, generations
    pending,    \* _pending_publication_activation
    refresh,    \* the refresh daemon; inflight unless its pc is "none"
    cache,      \* RetrievalResultCache: generation, and the question's entry
    request     \* request[r]: where turn r is and what it holds

vars == <<document, snapshot, active, loaded, pending, refresh, cache, request>>

NoEntry == [generation |-> 0, found |-> {}, lexical |-> 0]
NoRequest == [pc |-> "idle", known |-> 0, read |-> {}, generation |-> 0, leased |-> {},
              lexical |-> 0, ids |-> {}, found |-> {}]
NoRefresh == [pc |-> "none", generation |-> 0, read |-> {}, lexical |-> 0]

\* The versions that PostgreSQL says are indexed and current.
Identities == IF document.indexed THEN {document.version} ELSE {}

\* _active_query_readers
Leases == {"leased", "asked", "viewing", "found"}
Readers == {r \in Requests : request[r].pc \in Leases}

-------------------------------------------------------------------------------
\* The indexer's side of the contract, as DocumentIndexing has it.

Edit ==
    /\ document.version < MaxVersion
    /\ document' = [document EXCEPT !.version = @ + 1, !.indexed = FALSE]
    /\ UNCHANGED <<snapshot, active, loaded, pending, refresh, cache, request>>

Index ==
    /\ ~document.indexed
    /\ document' = [document EXCEPT !.indexed = TRUE, !.stored = document.version]
    /\ UNCHANGED <<snapshot, active, loaded, pending, refresh, cache, request>>

\* write_bm25_snapshot replaces the file; publish_generation comes later.
WriteSnapshot(large) ==
    /\ active < MaxGeneration
    /\ snapshot # [version |-> document.stored, large |-> large]
    /\ snapshot' = [version |-> document.stored, large |-> large]
    /\ UNCHANGED <<document, active, loaded, pending, refresh, cache, request>>

PublishGeneration ==
    /\ active < MaxGeneration
    /\ active' = active + 1
    /\ UNCHANGED <<document, snapshot, loaded, pending, refresh, cache, request>>

-------------------------------------------------------------------------------
\* RetrievalResultCache.

\* activate_generation
Activated(g) ==
    IF g = cache.generation THEN cache ELSE [generation |-> g, entry |-> NoEntry]

Hit(g) == cache.entry # NoEntry /\ cache.entry.generation = g /\ cache.generation = g

\* store
Stored(g, found, lexical) ==
    IF g # cache.generation THEN cache
    ELSE [cache EXCEPT !.entry = [generation |-> g, found |-> found, lexical |-> lexical]]

-------------------------------------------------------------------------------
\* One chat turn: answer_question.

At(r, s) == request[r].pc = s

\* refresh_published_query_identities reads PostgreSQL ...
Identify(r) ==
    /\ At(r, "idle")
    /\ request' = [request EXCEPT ![r].pc = "identified", ![r].read = Identities,
                                  ![r].known = IF document.indexed THEN document.version ELSE 0]
    /\ UNCHANGED <<document, snapshot, active, loaded, pending, refresh, cache>>

\* ... or cannot, and the turn goes on with the identities there are ...
IdentifyFails(r) ==
    /\ CanFail
    /\ At(r, "idle")
    /\ request' = [request EXCEPT ![r].pc = "installed"]
    /\ UNCHANGED <<document, snapshot, active, loaded, pending, refresh, cache>>

\* ... and then writes what it read into the pipeline, whoever leases it.
Install(r) ==
    /\ At(r, "identified")
    /\ loaded' = [loaded EXCEPT !.ids = request[r].read]
    /\ request' = [request EXCEPT ![r].pc = "installed"]
    /\ UNCHANGED <<document, snapshot, active, pending, refresh, cache>>

\* acquire_snapshot: the handle has the pipeline and the generation.  `leased` is
\* what the pipeline's identities are at that moment; no code keeps them.
Lease(r) ==
    /\ At(r, "installed")
    /\ request' = [request EXCEPT ![r].pc = "leased", ![r].generation = loaded.generation,
                                  ![r].leased = loaded.ids]
    /\ UNCHANGED <<document, snapshot, active, loaded, pending, refresh, cache>>

Requested == IF refresh.pc = "none" THEN [refresh EXCEPT !.pc = "started"] ELSE refresh

\* request_generation_refresh: at most one daemon.
Ask(r) ==
    /\ At(r, "leased")
    /\ refresh' = Requested
    /\ request' = [request EXCEPT ![r].pc = "asked"]
    /\ UNCHANGED <<document, snapshot, active, loaded, pending, cache>>

\* _request_pipeline copies what the turn needs out of the shared pipeline.
View(r) ==
    /\ At(r, "asked")
    /\ request' = [request EXCEPT ![r].pc = "viewing", ![r].ids = loaded.ids,
                                  ![r].lexical = loaded.lexical]
    /\ UNCHANGED <<document, snapshot, active, loaded, pending, refresh, cache>>

\* _search: a cached result as it is, else the stored points and the lexical
\* snapshot, both filtered by the turn's identities.
Search(r) ==
    /\ At(r, "viewing")
    /\ LET g == request[r].generation
           fresh == {document.stored, request[r].lexical} \cap request[r].ids
       IN  /\ request' = [request EXCEPT ![r].pc = "found",
                              ![r].found = IF Hit(g) THEN cache.entry.found ELSE fresh]
           /\ cache' = IF Hit(g) THEN cache ELSE Stored(g, fresh, request[r].lexical)
    /\ UNCHANGED <<document, snapshot, active, loaded, pending, refresh>>

\* The end of the turn, successful or not.  The last reader takes the pending
\* flag with it, and calls for a refresh once it has let go of the locks.
Release(r) ==
    /\ r \in Readers
    /\ LET last == Readers = {r} /\ pending
       IN  /\ pending' = IF last THEN FALSE ELSE pending
           /\ request' = [request EXCEPT ![r] =
                  IF last THEN [NoRequest EXCEPT !.pc = "waking"] ELSE NoRequest]
    /\ UNCHANGED <<document, snapshot, active, loaded, refresh, cache>>

Wake(r) ==
    /\ At(r, "waking")
    /\ refresh' = Requested
    /\ request' = [request EXCEPT ![r] = NoRequest]
    /\ UNCHANGED <<document, snapshot, active, loaded, pending, cache>>

-------------------------------------------------------------------------------
\* The daemon: refresh_query_runtime_if_needed.

Refreshing(s) == refresh.pc = s

\* Nothing is begun while a snapshot is leased.
CheckReaders ==
    /\ Refreshing("started")
    /\ IF Readers # {}
       THEN pending' = TRUE /\ refresh' = [NoRefresh EXCEPT !.pc = "ending"]
       ELSE pending' = pending /\ refresh' = [refresh EXCEPT !.pc = "checked"]
    /\ UNCHANGED <<document, snapshot, active, loaded, cache, request>>

\* The generation's row is read, and the size of the file it names.
ReadGeneration ==
    /\ Refreshing("checked")
    /\ refresh' = IF active <= loaded.bm25 THEN [NoRefresh EXCEPT !.pc = "ending"]
                  ELSE [refresh EXCEPT !.pc = IF snapshot.large THEN "deferring" ELSE "loading",
                                       !.generation = active]
    /\ UNCHANGED <<document, snapshot, active, loaded, pending, cache, request>>

\* Too large: only the identities are renewed, in two steps, and the generation
\* is advanced, readers or not.
DeferRead ==
    /\ Refreshing("deferring")
    /\ refresh' = [refresh EXCEPT !.pc = "deferred", !.read = Identities]
    /\ UNCHANGED <<document, snapshot, active, loaded, pending, cache, request>>

DeferInstall ==
    /\ Refreshing("deferred")
    /\ loaded' = [loaded EXCEPT !.ids = refresh.read]
    /\ refresh' = [refresh EXCEPT !.pc = "advancing"]
    /\ UNCHANGED <<document, snapshot, active, pending, cache, request>>

\* Mutant: the generation that will come next.
DeferAdvanceToNext ==
    /\ Refreshing("advancing")
    /\ loaded' = [loaded EXCEPT !.generation = refresh.generation + 1]
    /\ cache' = Activated(refresh.generation + 1)
    /\ refresh' = [NoRefresh EXCEPT !.pc = "ending"]
    /\ UNCHANGED <<document, snapshot, active, pending, request>>

DeferAdvance ==
    /\ Refreshing("advancing")
    /\ loaded' = [loaded EXCEPT !.generation = refresh.generation]
    /\ cache' = Activated(refresh.generation)
    /\ refresh' = [NoRefresh EXCEPT !.pc = "ending"]
    /\ UNCHANGED <<document, snapshot, active, pending, request>>

\* The file is loaded and indexed away from the locks.  It may have been replaced
\* since the row was read.
LoadSnapshot ==
    /\ Refreshing("loading")
    /\ refresh' = [refresh EXCEPT !.pc = "activating", !.lexical = snapshot.version]
    /\ UNCHANGED <<document, snapshot, active, loaded, pending, cache, request>>

\* Mutant: the readers are not looked at again.
ActivateOverReaders ==
    /\ Refreshing("activating")
    /\ loaded' = [ids |-> {refresh.lexical} \ {0}, lexical |-> refresh.lexical,
                  generation |-> refresh.generation, bm25 |-> refresh.generation]
    /\ cache' = Activated(refresh.generation)
    /\ refresh' = [NoRefresh EXCEPT !.pc = "ending"]
    /\ UNCHANGED <<document, snapshot, active, pending, request>>

Activate ==
    /\ Refreshing("activating")
    /\ IF Readers # {}
       THEN /\ pending' = TRUE
            /\ UNCHANGED <<loaded, cache>>
       ELSE /\ loaded' = [ids |-> {refresh.lexical} \ {0}, lexical |-> refresh.lexical,
                          generation |-> refresh.generation, bm25 |-> refresh.generation]
            /\ cache' = Activated(refresh.generation)
            /\ pending' = pending
    /\ refresh' = [NoRefresh EXCEPT !.pc = "ending"]
    /\ UNCHANGED <<document, snapshot, active, request>>

\* PostgreSQL does not answer, the row or the file is not valid, or the activation
\* lock is not free within 50 ms: the daemon returns, and nothing is pending.
GiveUp ==
    /\ CanFail
    /\ refresh.pc \in {"checked", "deferring", "loading", "activating"}
    /\ refresh' = [NoRefresh EXCEPT !.pc = "ending"]
    /\ UNCHANGED <<document, snapshot, active, loaded, pending, cache, request>>

\* _generation_refresh_inflight is taken back last.
EndRefresh ==
    /\ Refreshing("ending")
    /\ refresh' = NoRefresh
    /\ UNCHANGED <<document, snapshot, active, loaded, pending, cache, request>>

-------------------------------------------------------------------------------
\* The process has started on the generation that was published then.
Init ==
    /\ document = [version |-> 1, indexed |-> TRUE, stored |-> 1]
    /\ snapshot = [version |-> 1, large |-> FALSE]
    /\ active = 1
    /\ loaded = [ids |-> {1}, lexical |-> 1, generation |-> 1, bm25 |-> 1]
    /\ pending = FALSE
    /\ refresh = NoRefresh
    /\ cache = [generation |-> 1, entry |-> NoEntry]
    /\ request = [r \in Requests |-> NoRequest]

Indexer ==
    \/ Edit \/ Index \/ PublishGeneration
    \/ \E large \in Large : WriteSnapshot(large)

Turn(r) ==
    \/ Install(r) \/ Lease(r) \/ Ask(r) \/ View(r) \/ Search(r)
    \/ Release(r) \/ Wake(r)

Daemon ==
    \/ CheckReaders \/ ReadGeneration
    \/ DeferRead \/ DeferInstall \/ DeferAdvance
    \/ LoadSnapshot \/ Activate \/ GiveUp
    \/ EndRefresh

Next == Indexer \/ Daemon \/ \E r \in Requests : Identify(r) \/ IdentifyFails(r) \/ Turn(r)

Spec == Init /\ [][Next]_vars

\* A thread that has started runs on; nobody has to ask, edit or publish.
FairSpec == Spec /\ WF_vars(Daemon) /\ \A r \in Requests : WF_vars(Turn(r))

-------------------------------------------------------------------------------
\* Properties.

Loaded ==
    [ids: SUBSET Versions, lexical: Versions, generation: 1..MaxGeneration, bm25: 1..MaxGeneration]

Refresh ==
    [pc: {"none", "started", "checked", "deferring", "deferred", "advancing", "loading",
          "activating", "ending"},
     generation: 0..MaxGeneration, read: SUBSET Versions, lexical: 0..MaxVersion]

Cache ==
    [generation: 1..MaxGeneration,
     entry: [generation: 0..MaxGeneration, found: SUBSET Versions, lexical: 0..MaxVersion]]

Request ==
    [pc: {"idle", "identified", "installed", "waking"} \cup Leases,
     known: 0..MaxVersion, read: SUBSET Versions, generation: 0..MaxGeneration,
     leased: SUBSET Versions, lexical: 0..MaxVersion, ids: SUBSET Versions, found: SUBSET Versions]

TypeOK ==
    /\ document \in [version: Versions, indexed: BOOLEAN, stored: Versions]
    /\ snapshot \in [version: Versions, large: BOOLEAN]
    /\ active \in 1..MaxGeneration
    /\ loaded \in Loaded
    /\ pending \in BOOLEAN
    /\ refresh \in Refresh
    /\ cache \in Cache
    /\ request \in [Requests -> Request]

\* "Active reader count prevents publication replacement": the lexical snapshot is
\* never exchanged while a turn holds a lease, though the daemon builds the new one
\* without any lock and turns come and go meanwhile.
LexicalIsFrozen == [][loaded.lexical # loaded'.lexical => Readers = {}]_vars

\* What turns read never goes back: neither the generation, though a deferred one
\* is advanced past the lexical snapshot, nor the snapshot, though the file is read
\* at another moment than the row that names it.
OnlyForward ==
    [][loaded.generation <= loaded'.generation /\ loaded.lexical <= loaded'.lexical]_vars

\* "cannot return a stale document version" (CONTINUOUS_INDEXING_ARCHITECTURE.md:230):
\* a turn finds nothing older than what PostgreSQL had indexed when it began.
FindsCurrent ==
    \A r \in Requests : At(r, "found") => \A v \in request[r].found : v >= request[r].known

(* Promises that the code does not keep: stated here, refuted by TLC on this *)
(* instance (README, section 8), and checked by no run.                      *)

\* Retrieval cache entries are those of the published generation (retrieval_cache.py:36):
\* a turn of the loaded generation gets what was found with the snapshot that is loaded.
CachedIsOfLoaded ==
    Hit(loaded.generation) => cache.entry.lexical = loaded.lexical

\* "captures ... published document-version/note-revision boundaries ... under a
\* short activation lock" (MULTI_REQUEST_CHAT_ARCHITECTURE.md:145).
LeaseCaptures ==
    \A r \in Requests : At(r, "viewing") => request[r].ids = request[r].leased

\* "The final reader schedules a retry after release"
\* (knowledge_engine_service.py:974): once the turns are over, a publication that
\* was put off on their account is activated.
PendingIsActivated ==
    \A g \in 2..MaxGeneration :
        <>[](Readers = {}) => ((pending /\ active >= g) ~> (loaded.generation >= g))

=============================================================================
