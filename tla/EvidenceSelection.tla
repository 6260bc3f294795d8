--------------------------- MODULE EvidenceSelection ---------------------------
(***************************************************************************)
(* EvidenceSelector.select: which of the reranked candidates are put       *)
(* before the model.  Three passes over the candidates in their order: the *)
(* strong ones, any that are new and not of a source too often seen, and,  *)
(* only if the floor is not reached, whatever is left.                     *)
(*                                                                         *)
(* A candidate is its place in the ranking.  All five strategies and the   *)
(* fallback are on, as the service configures them; candidates without     *)
(* text are left out before.  The reasons reported for the others are not  *)
(* modelled.                                                               *)
(***************************************************************************)
EXTENDS Integers, Sequences, FiniteSets

CONSTANTS
    Sources,
    Pools,          \* the rankings that may have to be selected from
    MinSelected, MaxSelected, FallbackTopN,
    TokenBudget, TargetMin, TargetMax,
    MaxPerSource

Candidate == [tokens : Nat \ {0}, source : Sources, strong : BOOLEAN]

\* What __init__ refuses, and the shape of the rankings: similar is the set of the
\* pairs of places at or above the redundancy threshold.
ASSUME EvidenceAssumption ==
    /\ {MaxSelected, FallbackTopN, TargetMax, MaxPerSource} \subseteq Nat \ {0}
    /\ {MinSelected, TargetMin, TokenBudget} \subseteq Nat
    /\ MinSelected <= MaxSelected
    /\ TargetMin <= TargetMax /\ TargetMax <= TokenBudget
    /\ \A p \in Pools : p.ranking \in Seq(Candidate)

VARIABLES
    pool,       \* the ranking that is selected from
    pass,       \* "threshold", "diverse", "relaxed" or "done"
    cursor,     \* the place this pass has come to
    selected,   \* the places selected, in order
    used,       \* the tokens of what is selected
    before      \* history: the tokens used before each of selected

evidenceVars == <<pool, pass, cursor, selected, used, before>>

-------------------------------------------------------------------------------
Least(a, b) == IF a < b THEN a ELSE b
Most(a, b) == IF a < b THEN b ELSE a

Size == Len(pool.ranking)
Tokens(c) == pool.ranking[c].tokens
Places(k) == {selected[i] : i \in 1..k}
IsSelected(c) == c \in Places(Len(selected))

\* required_floor
Floor ==
    LET least == Least(MinSelected, Least(Size, MaxSelected))
    IN  IF \E c \in 1..Size : pool.ranking[c].strong
        THEN least
        ELSE Least(Most(least, FallbackTopN), Least(Size, MaxSelected))

NeedFloor == Len(selected) < Floor
NeedTokens == used < TargetMin

\* is_redundant, judged by the first k of selected.
RedundantBy(c, k) == \E i \in 1..k : {c, selected[i]} \in pool.similar

FromSourceBy(c, k) ==
    {i \in 1..k : pool.ranking[selected[i]].source = pool.ranking[c].source}

\* Redundant, or of a source that has its share already.
BlockedBy(c, k) ==
    \/ RedundantBy(c, k)
    \/ Cardinality(FromSourceBy(c, k)) >= MaxPerSource

Blocked(c) == BlockedBy(c, Len(selected))
Over(limit, c) == used + Tokens(c) > limit

-------------------------------------------------------------------------------
EvidenceStart ==
    pass = "threshold" /\ cursor = 1 /\ selected = <<>> /\ used = 0 /\ before = <<>>

EvidenceInit == pool \in Pools /\ EvidenceStart

\* add_candidate
Add(c) ==
    /\ selected' = Append(selected, c)
    /\ used' = used + Tokens(c)
    /\ before' = Append(before, used)
    /\ cursor' = cursor + 1
    /\ UNCHANGED <<pool, pass>>

Skip == cursor' = cursor + 1 /\ UNCHANGED <<pool, pass, selected, used, before>>

To(next) == pass' = next /\ cursor' = 1 /\ UNCHANGED <<pool, selected, used, before>>

Visits(p) == pass = p /\ cursor <= Size /\ Len(selected) < MaxSelected

\* Pass 1: a candidate is not eligible at all,
Ineligible(c) == ~pool.ranking[c].strong \/ Blocked(c) \/ Over(TokenBudget, c)
\* or there is enough,
Enough == TargetMin > 0 /\ ~NeedFloor /\ ~NeedTokens
\* or it would be too much.
TooMuch(c) == ~NeedFloor /\ Over(TargetMax, c)

PassOver ==
    /\ Visits("threshold")
    /\ Ineligible(cursor) \/ (~Enough /\ TooMuch(cursor))
    /\ Skip

SelectStrong ==
    /\ Visits("threshold")
    /\ ~Ineligible(cursor) /\ ~Enough /\ ~TooMuch(cursor)
    /\ Add(cursor)

EndThreshold ==
    /\ pass = "threshold"
    /\ Visits("threshold") => ~Ineligible(cursor) /\ Enough
    /\ To("diverse")

\* fill_from_remaining: whether the pass goes on to the candidate it has come to.
Fills(p) == Visits(p) /\ (IsSelected(cursor) \/ NeedFloor \/ NeedTokens)

\* Mutant: tokens refuse a candidate always.
RefusedAlways(c) == Over(TokenBudget, c) \/ Over(TargetMax, c)

\* A candidate is refused by its tokens only when the floor is reached.
Refused(c) == ~NeedFloor /\ (Over(TokenBudget, c) \/ Over(TargetMax, c))

Unfit(p, c) == IsSelected(c) \/ (p = "diverse" /\ Blocked(c)) \/ Refused(c)

Leave(p) == Fills(p) /\ Unfit(p, cursor) /\ Skip
Fill(p) == Fills(p) /\ ~Unfit(p, cursor) /\ Add(cursor)

EndDiverse ==
    /\ pass = "diverse" /\ ~Fills("diverse")
    /\ To(IF NeedFloor THEN "relaxed" ELSE "done")

EndRelaxed == pass = "relaxed" /\ ~Fills("relaxed") /\ To("done")

\* The next call; a selection leaves nothing behind, so the same ranking again will do.
SelectAgain ==
    /\ pass = "done" /\ pass' = "threshold" /\ cursor' = 1
    /\ selected' = <<>> /\ used' = 0 /\ before' = <<>>
    /\ UNCHANGED pool

EvidenceNext ==
    \/ PassOver \/ SelectStrong \/ EndThreshold
    \/ \E p \in {"diverse", "relaxed"} : Leave(p) \/ Fill(p)
    \/ EndDiverse \/ EndRelaxed \/ SelectAgain

EvidenceSpec == EvidenceInit /\ [][EvidenceNext]_evidenceVars

-------------------------------------------------------------------------------
\* Properties.

\* The shape of a selection.
EvidenceTypeOK ==
    /\ pool.ranking \in Seq(Candidate)
    /\ pass \in {"threshold", "diverse", "relaxed", "done"}
    /\ cursor \in 1..(Size + 1)
    /\ selected \in Seq(1..Size) /\ before \in Seq(Nat) /\ Len(before) = Len(selected)
    /\ used \in Nat

\* No candidate twice, and never more than the model is to have.
FewAndDistinct ==
    /\ Len(selected) <= MaxSelected
    /\ \A i, j \in 1..Len(selected) : selected[i] = selected[j] => i = j

\* Only what the floor asks for is taken beyond the tokens that are aimed at.
TokensKeptToTheFloor ==
    \A i \in 1..Len(selected) : before[i] + Tokens(selected[i]) > TargetMax => i <= Floor

\* Only when nothing else is left is a redundant candidate, or one of a source that has
\* its share, taken.
RedundantLast ==
    \A i \in 1..Len(selected) :
        BlockedBy(selected[i], i - 1) =>
            \A c \in (1..Size) \ Places(i - 1) : BlockedBy(c, i - 1)

\* When it ends the floor is reached; and if there are fewer tokens than are aimed at,
\* nothing that fits is left.
NothingMissed ==
    pass = "done" =>
        /\ Len(selected) >= Floor
        /\ used < TargetMin /\ Len(selected) < MaxSelected =>
               \A c \in 1..Size : IsSelected(c) \/ Blocked(c) \/ Over(TargetMax, c)

(***************************************************************************)
(* "Thresholding is advisory when it would starve a non-empty candidate    *)
(* pool; the configured evidence floor and token target preserve           *)
(* answerability" (evidence_selector.py:74-75), at no other cost: what the *)
(* three passes select is what is described above.                         *)
(***************************************************************************)
EvidenceIsSound ==
    FewAndDistinct /\ TokensKeptToTheFloor /\ RedundantLast /\ NothingMissed

=============================================================================
