------------------------------- MODULE Retrieval -------------------------------
(***************************************************************************)
(* From a question to the pool of candidates that is reranked: the         *)
(* variants of the question (retrieve_multiple_queries), for each of them  *)
(* a look into the retrieval cache or a search in two branches with        *)
(* deadlines (HybridRetriever.retrieve), the fusion of their rankings      *)
(* (ReciprocalRankFusion.fuse), and the best of each chunk                 *)
(* (deduplicate_results).                                                  *)
(*                                                                         *)
(* One user asks one question again and again of one published generation: *)
(* what a branch finds for a variant, if it comes back, is always the      *)
(* same, and there is one key of the cache.  QueryRuntime has the          *)
(* generations.                                                            *)
(***************************************************************************)
EXTENDS Integers, Sequences, SequencesExt, Subsequences

CONSTANTS
    Chunks,
    Variants,       \* how many variants the question has
    Rankings,       \* what the branches may find, for each variant
    RankConstant,   \* rrf_k
    Scale,          \* scores are kept as multiples of 1 / Scale
    TopK,           \* retrieval_top_k
    MaxPool         \* reranker_candidate_top_k

Branches == {"dense", "bm25"}

ASSUME RetrievalAssumption ==
    /\ {Variants, RankConstant, Scale, TopK, MaxPool} \subseteq Nat \ {0}
    /\ \A r \in Rankings : \A v \in 1..Variants : \A b \in Branches :
            /\ r[v][b] \in Seq(Chunks) /\ IsInjective(r[v][b])
            /\ \A i \in 1..Len(r[v][b]) : Scale % (RankConstant + i) = 0

VARIABLES
    ranks,      \* what the branches find
    stage,      \* "idle", "looking", "searching", "ranked" or "failed"
    variant,    \* the variant that is being searched for
    branch,     \* "off", "running", "found", "late" or "error", for each branch
    cached,     \* the entry of the question in the cache
    merged,     \* the results so far, with their scores
    late        \* history: a branch or the fusion was late for this question

retrievalVars == <<ranks, stage, variant, branch, cached, merged, late>>

NotCached == [kept |-> FALSE, results |-> <<>>]

-------------------------------------------------------------------------------
\* Fusion.

\* Mutant: the worse the rank, the more it weighs.
WeightRising(rank) == Scale - Scale \div (RankConstant + rank)

\* weight / (rank_constant + rank); both branches have weight 1.
Weight(rank) == Scale \div (RankConstant + rank)

Rank(ranking, c) == CHOOSE i \in 1..Len(ranking) : ranking[i] = c
Part(ranking, c) == IF c \in Range(ranking) THEN Weight(Rank(ranking, c)) ELSE 0

\* The score of a chunk in the rankings of the two branches.
Score(found, c) == Part(found["dense"], c) + Part(found["bm25"], c)

\* r goes behind the results that score no less, before those that score less.
AtLeast(r, results) == {x \in Range(results) : x.score >= r.score}
Inserted(results, r) ==
    Only(results, AtLeast(r, results)) \o <<r>>
        \o Only(results, Range(results) \ AtLeast(r, results))

\* Results in descending order of score, the first seen of equals first.
Descending(results) ==
    LET sorted[n \in 0..Len(results)] ==
            IF n = 0 THEN <<>> ELSE Inserted(sorted[n - 1], results[n])
    IN  sorted[Len(results)]

Upto(n, s) == SubSeq(s, 1, IF Len(s) < n THEN Len(s) ELSE n)

\* The chunks of a sequence, once each, in the order in which they are first seen.
Seen(chunks) ==
    LET firsts == Only([i \in 1..Len(chunks) |-> i],
                       {i \in 1..Len(chunks) : \A j \in 1..(i - 1) : chunks[j] # chunks[i]})
    IN  [n \in 1..Len(firsts) |-> chunks[firsts[n]]]

\* fuse
Fused(found) ==
    LET seen == Seen(found["dense"] \o found["bm25"])
    IN  Upto(TopK, Descending([i \in 1..Len(seen) |->
                        [chunk |-> seen[i], score |-> Score(found, seen[i])]]))

\* _partial_ranking: the first branch that found anything, with the scores of that
\* branch, which are not of the scale of fused ones.
Partial(found) ==
    LET r == IF found["dense"] # <<>> THEN found["dense"] ELSE found["bm25"]
    IN  Upto(TopK, [i \in 1..Len(r) |-> [chunk |-> r[i], score |-> 3 * Scale - i]])

\* What was found by the branches that were in time.
InTime == [b \in Branches |-> IF branch[b] = "found" THEN ranks[variant][b] ELSE <<>>]

-------------------------------------------------------------------------------
\* deduplicate_results

\* Every chunk once, where it was first seen, with its best score; then sorted.
ScoresOf(c, results) == {x.score : x \in {y \in Range(results) : y.chunk = c}}
Best(results) ==
    LET seen == Seen([i \in 1..Len(results) |-> results[i].chunk])
    IN  Descending([i \in 1..Len(seen) |->
            [chunk |-> seen[i], score |-> Max(ScoresOf(seen[i], results))]])

\* The candidates of the reranker.
Pool == LET best == Upto(MaxPool, Best(merged))
        IN  [i \in 1..Len(best) |-> best[i].chunk]

-------------------------------------------------------------------------------
RetrievalStart ==
    /\ stage = "idle" /\ variant = 0
    /\ branch = [b \in Branches |-> "off"]
    /\ cached = NotCached /\ merged = <<>> /\ late = FALSE

RetrievalInit == ranks \in Rankings /\ RetrievalStart

\* retrieve
AskQuestion ==
    /\ stage = "idle"
    /\ stage' = "looking" /\ variant' = 1 /\ merged' = <<>> /\ late' = FALSE
    /\ UNCHANGED <<ranks, branch, cached>>

\* The results of a variant are added; then comes the next.
Added(results) ==
    /\ merged' = merged \o results
    /\ variant' = variant + 1
    /\ stage' = IF variant = Variants THEN "ranked" ELSE "looking"

\* _search: the key of the cache is made from the question, not from its variant.
LookUp ==
    /\ stage = "looking"
    /\ IF cached.kept
       THEN Added(cached.results) /\ UNCHANGED branch
       ELSE /\ stage' = "searching" /\ branch' = [b \in Branches |-> "running"]
            /\ UNCHANGED <<variant, merged>>
    /\ UNCHANGED <<ranks, cached, late>>

\* A branch's thread comes back, or its deadline passes, or its request times out.
Return(b) ==
    /\ branch[b] = "running"
    /\ \E outcome \in {"found", "late", "error"} :
            /\ branch' = [branch EXCEPT ![b] = outcome]
            /\ late' = (late \/ outcome = "late")
    /\ UNCHANGED <<ranks, stage, variant, cached, merged>>

Collected == stage = "searching" /\ \A b \in Branches : branch[b] # "running"

\* Any error but that of a deadline ends the question.
FailSearch ==
    /\ Collected /\ \E b \in Branches : branch[b] = "error"
    /\ stage' = "failed"
    /\ UNCHANGED <<ranks, variant, branch, cached, merged, late>>

\* The results are stored, whatever the branches that were late would have added.
FuseAs(results) ==
    /\ Collected /\ \A b \in Branches : branch[b] # "error"
    /\ Added(results)
    /\ cached' = [kept |-> TRUE, results |-> results]
    /\ branch' = [b \in Branches |-> "off"]
    /\ UNCHANGED ranks

Fuse == FuseAs(Fused(InTime)) /\ UNCHANGED late

FuseLate == FuseAs(Partial(InTime)) /\ late' = TRUE

\* The candidates are taken on, to the reranker, or the error to the user.
EndQuestion ==
    /\ stage \in {"ranked", "failed"}
    /\ stage' = "idle" /\ variant' = 0 /\ branch' = [b \in Branches |-> "off"]
    /\ merged' = <<>>
    /\ UNCHANGED <<ranks, cached, late>>

RetrievalNext ==
    \/ AskQuestion \/ LookUp \/ FailSearch \/ Fuse \/ FuseLate \/ EndQuestion
    \/ \E b \in Branches : Return(b)

RetrievalSpec == RetrievalInit /\ [][RetrievalNext]_retrievalVars

-------------------------------------------------------------------------------
\* Properties.

\* In every search, whatever d is found by, c is found by too, at a better rank.
Dominates(c, d) ==
    /\ c # d
    /\ \A v \in 1..Variants : \A b \in Branches :
            LET r == ranks[v][b]
            IN  d \in Range(r) => c \in Range(r) /\ Rank(r, c) < Rank(r, d)

(***************************************************************************)
(* Fusing, merging, truncating, missing deadlines and reading from the     *)
(* cache in whatever combination never puts a chunk before one that every  *)
(* search prefers, nor instead of it; and no candidate comes twice, or     *)
(* from nowhere.                                                           *)
(***************************************************************************)
PoolIsFair ==
    stage = "ranked" =>
        /\ IsInjective(Pool)
        /\ \A j \in 1..Len(Pool) :
                /\ \E v \in 1..Variants : \E b \in Branches : Pool[j] \in Range(ranks[v][b])
                /\ \A c \in Chunks : Dominates(c, Pool[j]) => \E i \in 1..(j - 1) : Pool[i] = c

(***************************************************************************)
(* "Candidate counts, scores, ... ordering, reranker inputs, ... are       *)
(* unchanged" by the cache (FULL_STACK_INTEGRATION.md:223-224): a question for *)
(* which nothing was late has the candidates that it has without a cache.  *)
(***************************************************************************)
CacheIsTransparent ==
    stage = "ranked" /\ ~late =>
        LET all == FlattenSeq([v \in 1..Variants |-> Fused(ranks[v])])
        IN  Best(merged) = Best(all)

=============================================================================
