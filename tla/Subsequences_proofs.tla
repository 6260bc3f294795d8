-------------------------- MODULE Subsequences_proofs --------------------------
(***************************************************************************)
(* Induction and recursion, stated with sets and functions in place of     *)
(* operators, so that a prover of first-order logic can use them; what     *)
(* follows for the recursive function Only of Subsequences and for         *)
(* FlattenSeq; and how sequences without repetitions behave that are       *)
(* appended to, shortened and turned.                                      *)
(***************************************************************************)
EXTENDS Subsequences, SequencesExt, SequenceTheorems, WellFoundedInduction, TLAPS

\* A set of numbers that has 0 and the successor of each of its members has all.
LEMMA InductionOverSets ==
    ASSUME NEW S \in SUBSET Nat, 0 \in S, \A n \in S : n + 1 \in S
    PROVE  Nat = S
<1> DEFINE R == OpToRel(<, Nat)
           T == Nat \ S
<1>1. IsWellFoundedOn(R, Nat)
  BY NatLessThanWellFounded, Zenon
<1>2. \A m, n \in Nat : m < n => <<m, n>> \in R
  BY DEF OpToRel
<1> HIDE DEF R
<1>3. SUFFICES ASSUME T # {} PROVE FALSE
  OBVIOUS
<1>4. T \subseteq Nat
  OBVIOUS
<1> HIDE DEF T
<1>5. PICK n \in T : \A m \in T : <<m, n>> \notin R
  BY <1>1, <1>3, <1>4, WFMin
<1> USE DEF T
<1>6. n \in Nat /\ n \notin S /\ n # 0
  BY <1>5
<1>7. n - 1 \in Nat /\ n - 1 < n /\ (n - 1) + 1 = n
  BY <1>6
<1>8. n - 1 \in S
  BY <1>2, <1>5, <1>6, <1>7
<1> QED BY <1>6, <1>7, <1>8

\* The next two are not expanded where the lemma after them is used.
CanIterate(S, start, step) == start \in S /\ step \in [Nat -> [S -> S]]
Iterates(f, S, start, step) ==
    /\ f \in [Nat -> S]
    /\ f[0] = start
    /\ \A n \in Nat : f[n + 1] = step[n + 1][f[n]]

\* Whatever can be done once can be done n times, for every n at once.
LEMMA IterationExists ==
    ASSUME NEW S, NEW start, NEW step, CanIterate(S, start, step)
    PROVE  \E f : Iterates(f, S, start, step)
<1>0. start \in S /\ step \in [Nat -> [S -> S]]
  BY DEF CanIterate
<1> DEFINE Starts(h, n) == /\ h \in [0..n -> S]
                           /\ h[0] = start
                           /\ \A i \in 0..(n - 1) : h[i + 1] = step[i + 1][h[i]]
           Some == {n \in Nat : \E h : Starts(h, n)}
<1>1. 0 \in Some
  <2>1. Starts([i \in 0..0 |-> start], 0)
    BY <1>0
  <2> QED BY <2>1
<1>2. ASSUME NEW n \in Some PROVE n + 1 \in Some
  <2>1. PICK h : Starts(h, n)
    BY <1>2
  <2> DEFINE g == [i \in 0..(n + 1) |-> IF i = n + 1 THEN step[n + 1][h[n]] ELSE h[i]]
  <2>2. g \in [0..(n + 1) -> S]
    <3>1. n + 1 \in Nat /\ h[n] \in S
      BY <2>1
    <3>2. step[n + 1][h[n]] \in S
      BY <1>0, <3>1
    <3>3. ASSUME NEW i \in 0..(n + 1)
          PROVE  (IF i = n + 1 THEN step[n + 1][h[n]] ELSE h[i]) \in S
      <4>1. CASE i = n + 1
        BY <3>2, <4>1
      <4>2. CASE i # n + 1
        <5>1. i \in 0..n
          BY <3>1, <4>2
        <5> QED BY <2>1, <4>2, <5>1
      <4> QED BY <4>1, <4>2
    <3> HIDE DEF Some, Starts
    <3> QED BY <3>3
  <2>3. g[0] = start
    BY <2>1
  <2>4. ASSUME NEW i \in 0..((n + 1) - 1) PROVE g[i + 1] = step[i + 1][g[i]]
    <3>1. i \in 0..n /\ n \in Nat
      BY <2>4
    <3>2. g[i] = h[i]
      BY <3>1
    <3>3. CASE i = n
      <4>1. g[n + 1] = step[n + 1][h[n]]
        <5>1. n + 1 \in 0..(n + 1)
          BY <3>1
        <5> HIDE DEF Starts, Some
        <5> QED BY <5>1
      <4> HIDE DEF g, Starts, Some
      <4> QED BY <3>2, <3>3, <4>1
    <3>4. CASE i # n
      <4>1. i \in 0..(n - 1)
        BY <3>1, <3>4
      <4>2. g[i + 1] = h[i + 1]
        BY <3>1, <4>1
      <4>3. h[i + 1] = step[i + 1][h[i]]
        BY <2>1, <4>1
      <4> HIDE DEF g, Starts, Some
      <4> QED BY <3>2, <4>2, <4>3
    <3> QED BY <3>3, <3>4
  <2>5. Starts(g, n + 1)
    <3> HIDE DEF g
    <3> QED BY <2>2, <2>3, <2>4
  <2>6. n + 1 \in Nat
    OBVIOUS
  <2> HIDE DEF Starts
  <2> QED BY <2>5, <2>6
<1>3. Nat = Some
  <2> HIDE DEF Some
  <2>1. Some \subseteq Nat
    BY DEF Some
  <2> QED BY <1>1, <1>2, <2>1, InductionOverSets
<1>4. ASSUME NEW g, NEW h, NEW m \in Nat, NEW n \in Nat, Starts(g, m), Starts(h, n)
      PROVE  \A i \in Nat : i <= m /\ i <= n => g[i] = h[i]
  <2> DEFINE Agree == {i \in Nat : i <= m /\ i <= n => g[i] = h[i]}
  <2>1. 0 \in Agree
    BY <1>4
  <2>2. ASSUME NEW i \in Agree PROVE i + 1 \in Agree
    <3>1. SUFFICES ASSUME i + 1 <= m, i + 1 <= n PROVE g[i + 1] = h[i + 1]
      OBVIOUS
    <3>2. g[i] = h[i] /\ i \in 0..(m - 1) /\ i \in 0..(n - 1)
      BY <2>2, <3>1
    <3> QED BY <1>4, <3>2
  <2>3. Nat = Agree
    <3> HIDE DEF Agree, Starts
    <3>1. Agree \subseteq Nat
      BY DEF Agree
    <3> QED BY <2>1, <2>2, <3>1, InductionOverSets
  <2> QED BY <2>3
<1> DEFINE upTo == [n \in Nat |-> CHOOSE h : Starts(h, n)]
           f == [n \in Nat |-> upTo[n][n]]
<1>5. ASSUME NEW n \in Nat PROVE Starts(upTo[n], n)
  <2>1. PICK h : Starts(h, n)
    BY <1>3
  <2> HIDE DEF Starts, Some
  <2> QED BY <2>1
<1> HIDE DEF upTo
<1>6. f \in [Nat -> S]
  <2>1. ASSUME NEW n \in Nat PROVE upTo[n][n] \in S
    BY <1>5
  <2> QED BY <2>1
<1>7. f[0] = start
  BY <1>5
<1>8. ASSUME NEW n \in Nat PROVE f[n + 1] = step[n + 1][f[n]]
  <2>1. Starts(upTo[n], n) /\ Starts(upTo[n + 1], n + 1)
    BY <1>5
  <2>2. upTo[n + 1][n] = upTo[n][n]
    <3> HIDE DEF Starts, f, Some
    <3>1. n + 1 \in Nat /\ n <= n /\ n <= n + 1
      OBVIOUS
    <3> QED BY <1>4, <2>1, <3>1
  <2>3. upTo[n + 1][n + 1] = step[n + 1][upTo[n + 1][n]]
    BY <2>1
  <2>4. f[n] = upTo[n][n] /\ f[n + 1] = upTo[n + 1][n + 1]
    OBVIOUS
  <2> HIDE DEF f, Starts, Some
  <2> QED BY <2>2, <2>3, <2>4
<1> HIDE DEF f, Starts, Some
<1> QED BY <1>6, <1>7, <1>8 DEF Iterates

\* The least and the greatest of some numbers are among them.
LEMMA Extremes ==
    ASSUME NEW n \in Nat, NEW S \in SUBSET (1..n), S # {}
    PROVE  /\ Min(S) \in S /\ \A x \in S : Min(S) <= x
           /\ Max(S) \in S /\ \A x \in S : x <= Max(S)
<1>1. \E m \in S : \A x \in S : m <= x
  <2> DEFINE None == {i \in Nat : \A x \in S : i <= x}
  <2>1. SUFFICES ASSUME ~ \E m \in S : \A x \in S : m <= x PROVE FALSE
    OBVIOUS
  <2>2. 0 \in None
    OBVIOUS
  <2>3. ASSUME NEW i \in None PROVE i + 1 \in None
    <3>1. i \in Nat /\ \A x \in S : i <= x
      OBVIOUS
    <3> HIDE DEF None
    <3>2. i \notin S
      BY <2>1, <3>1
    <3>3. \A x \in S : i + 1 <= x
      BY <3>1, <3>2
    <3> QED BY <3>1, <3>3 DEF None
  <2>4. Nat = None
    <3>1. None \subseteq Nat
      OBVIOUS
    <3> HIDE DEF None
    <3> QED BY <2>2, <2>3, <3>1, InductionOverSets
  <2>5. n + 1 \in None
    BY <2>4
  <2>6. \A x \in S : n + 1 <= x
    BY <2>5
  <2>7. PICK x \in S : x \in 1..n
    OBVIOUS
  <2> QED BY <2>6, <2>7
<1>2. \E m \in S : \A x \in S : x <= m
  <2> DEFINE None == {i \in Nat : \A x \in S : x <= n - i}
  <2>1. SUFFICES ASSUME ~ \E m \in S : \A x \in S : x <= m PROVE FALSE
    OBVIOUS
  <2>2. 0 \in None
    OBVIOUS
  <2>3. ASSUME NEW i \in None PROVE i + 1 \in None
    <3>1. i \in Nat /\ \A x \in S : x <= n - i
      OBVIOUS
    <3> HIDE DEF None
    <3>2. n - i \notin S
      BY <2>1, <3>1
    <3>3. \A x \in S : x <= n - (i + 1)
      BY <3>1, <3>2
    <3> QED BY <3>1, <3>3 DEF None
  <2>4. Nat = None
    <3>1. None \subseteq Nat
      OBVIOUS
    <3> HIDE DEF None
    <3> QED BY <2>2, <2>3, <3>1, InductionOverSets
  <2>5. n \in None
    BY <2>4
  <2>6. \A x \in S : x <= n - n
    BY <2>5
  <2>7. PICK x \in S : x \in 1..n
    OBVIOUS
  <2> QED BY <2>6, <2>7
<1>3. Min(S) \in S /\ \A x \in S : Min(S) <= x
  BY <1>1 DEF Min
<1>4. Max(S) \in S /\ \A x \in S : x <= Max(S)
  <2>1. \E m \in S : \A x \in S : m >= x
    BY <1>2
  <2>2. Max(S) \in S /\ \A x \in S : Max(S) >= x
    BY <2>1 DEF Max
  <2> QED BY <2>2
<1> QED BY <1>3, <1>4

-------------------------------------------------------------------------------
\* The recursion of Only, place by place.
OnlyInSteps(kept, s, S, T) ==
    /\ kept \in [0..Len(s) -> Seq(T)]
    /\ Only(s, S) = kept[Len(s)]
    /\ kept[0] = <<>>
    /\ \A n \in 1..Len(s) :
          kept[n] = IF s[n] \in S THEN Append(kept[n - 1], s[n]) ELSE kept[n - 1]

\* The LET definition of Only determines a function that does this.
LEMMA OnlyUnfolds ==
    ASSUME NEW T, NEW s \in Seq(T), NEW S
    PROVE  \E kept : OnlyInSteps(kept, s, S, T)
<1> DEFINE Q == Seq(T)
           step == [n \in Nat |-> [r \in Q |->
                       IF n \in 1..Len(s) /\ s[n] \in S THEN Append(r, s[n]) ELSE r]]
           Unfolds(f) == f = [n \in 0..Len(s) |->
                                IF n = 0 THEN <<>>
                                ELSE IF s[n] \in S THEN Append(f[n - 1], s[n])
                                ELSE f[n - 1]]
           kept == CHOOSE f : Unfolds(f)
<1>1. CanIterate(Q, <<>>, step)
  BY DEF CanIterate
<1>2. PICK f \in [Nat -> Q] : /\ f[0] = <<>>
                              /\ \A n \in Nat : f[n + 1] = step[n + 1][f[n]]
  <2> HIDE DEF step, Q
  <2>1. PICK f : Iterates(f, Q, <<>>, step)
    BY <1>1, IterationExists
  <2> QED BY <2>1 DEF Iterates
<1>3. ASSUME NEW n \in 1..Len(s)
      PROVE  f[n] = IF s[n] \in S THEN Append(f[n - 1], s[n]) ELSE f[n - 1]
  <2>1. n - 1 \in Nat /\ (n - 1) + 1 = n /\ f[n - 1] \in Seq(T)
    BY <1>2
  <2>2. f[n] = step[n][f[n - 1]]
    <3> HIDE DEF step
    <3> QED BY <1>2, <2>1
  <2> QED BY <2>1, <2>2
<1>4. Len(s) \in Nat
  OBVIOUS
<1>5. Unfolds([n \in 0..Len(s) |-> f[n]])
  <2> DEFINE g == [n \in 0..Len(s) |-> f[n]]
  <2>1. ASSUME NEW n \in 0..Len(s)
        PROVE  g[n] = IF n = 0 THEN <<>>
                      ELSE IF s[n] \in S THEN Append(g[n - 1], s[n]) ELSE g[n - 1]
    <3>1. CASE n = 0
      BY <1>2, <3>1
    <3>2. CASE n # 0
      <4>1. n \in 1..Len(s) /\ n - 1 \in 0..Len(s)
        BY <1>4, <3>2
      <4>2. g[n - 1] = f[n - 1] /\ g[n] = f[n]
        BY <4>1
      <4> HIDE DEF g
      <4> QED BY <1>3, <3>2, <4>1, <4>2
    <3> QED BY <3>1, <3>2
  <2> QED BY <2>1
<1>6. Unfolds(kept)
  <2> HIDE DEF Unfolds
  <2> QED BY <1>5
<1>7. Only(s, S) = kept[Len(s)]
  BY DEF Only
<1>8. ASSUME NEW n \in 0..Len(s)
      PROVE  kept[n] = IF n = 0 THEN <<>>
                       ELSE IF s[n] \in S THEN Append(kept[n - 1], s[n]) ELSE kept[n - 1]
  <2> HIDE DEF kept
  <2> QED BY <1>6
<1> DEFINE Typed == {n \in Nat : n <= Len(s) => kept[n] \in Seq(T)}
<1>9. 0 \in Typed
  <2> HIDE DEF kept
  <2>1. 0 \in 0..Len(s)
    BY <1>4
  <2>2. kept[0] = <<>>
    BY <1>8, <2>1
  <2>3. <<>> \in Seq(T)
    OBVIOUS
  <2> QED BY <2>2, <2>3
<1>10. ASSUME NEW n \in Typed PROVE n + 1 \in Typed
  <2> HIDE DEF kept
  <2> SUFFICES ASSUME n + 1 <= Len(s) PROVE kept[n + 1] \in Seq(T)
    OBVIOUS
  <2>1. n + 1 \in 1..Len(s) /\ n + 1 # 0 /\ (n + 1) - 1 = n /\ kept[n] \in Seq(T) /\ s[n + 1] \in T
    <3>1. n \in Nat /\ (n <= Len(s) => kept[n] \in Seq(T))
      BY <1>10
    <3> HIDE DEF Typed, Unfolds, step, Q
    <3>2. n + 1 \in 1..Len(s) /\ n + 1 # 0 /\ (n + 1) - 1 = n /\ n <= Len(s)
      BY <1>4, <3>1
    <3>3. s[n + 1] \in T
      BY <3>2
    <3> QED BY <3>1, <3>2, <3>3
  <2>2. kept[n + 1] = IF s[n + 1] \in S THEN Append(kept[n], s[n + 1]) ELSE kept[n]
    BY <1>8, <2>1
  <2>3. Append(kept[n], s[n + 1]) \in Seq(T)
    BY <2>1
  <2>4. kept[n + 1] \in Seq(T)
    BY <2>1, <2>2, <2>3
  <2>5. n + 1 \in Nat
    OBVIOUS
  <2> QED BY <2>4, <2>5
<1>11. Nat = Typed
  <2> HIDE DEF Typed
  <2>1. Typed \subseteq Nat
    BY DEF Typed
  <2> QED BY <1>9, <1>10, <2>1, InductionOverSets
<1>12. kept \in [0..Len(s) -> Seq(T)]
  <2>1. kept = [n \in 0..Len(s) |-> kept[n]]
    <3> HIDE DEF kept
    <3> QED BY <1>6
  <2>2. \A n \in 0..Len(s) : kept[n] \in Seq(T)
    <3> SUFFICES ASSUME NEW n \in 0..Len(s) PROVE kept[n] \in Seq(T)
      OBVIOUS
    <3>1. n \in Nat /\ n <= Len(s)
      OBVIOUS
    <3>2. n \in Typed
      BY <1>11, <3>1
    <3> HIDE DEF kept
    <3> QED BY <3>1, <3>2
  <2> HIDE DEF kept
  <2> QED BY <2>1, <2>2
<1> HIDE DEF kept
<1>13. kept[0] = <<>>
  BY <1>4, <1>8
<1>14. ASSUME NEW n \in 1..Len(s)
       PROVE  kept[n] = IF s[n] \in S THEN Append(kept[n - 1], s[n]) ELSE kept[n - 1]
  BY <1>8
<1> QED BY <1>7, <1>12, <1>13, <1>14 DEF OnlyInSteps

\* h leads from the places of r to the places up to n of s that it was taken from.
Embeds(h, r, s, S, n) ==
    /\ h \in [1..Len(r) -> 1..n]
    /\ \A i \in 1..Len(r) : r[i] = s[h[i]] /\ r[i] \in S
    /\ \A i, j \in 1..Len(r) : i < j => h[i] < h[j]
    /\ \A k \in 1..n : s[k] \in S => \E i \in 1..Len(r) : h[i] = k

\* Only keeps what is in S, all of it, and in its order.
LEMMA OnlyIsSubsequence ==
    ASSUME NEW T, NEW s \in Seq(T), NEW S
    PROVE  Only(s, S) \in Seq(T) /\ \E h : Embeds(h, Only(s, S), s, S, Len(s))
<1>1. PICK kept \in [0..Len(s) -> Seq(T)] :
        /\ Only(s, S) = kept[Len(s)]
        /\ kept[0] = <<>>
        /\ \A n \in 1..Len(s) :
              kept[n] = IF s[n] \in S THEN Append(kept[n - 1], s[n]) ELSE kept[n - 1]
  <2>1. PICK kept : OnlyInSteps(kept, s, S, T)
    BY OnlyUnfolds
  <2> QED BY <2>1 DEF OnlyInSteps
<1> DEFINE Done == {n \in Nat : n <= Len(s) => \E h : Embeds(h, kept[n], s, S, n)}
<1>2. 0 \in Done
  <2>1. Len(kept[0]) = 0 /\ kept[0] = <<>>
    BY <1>1
  <2>2. Embeds([i \in 1..0 |-> i], kept[0], s, S, 0)
    BY <2>1 DEF Embeds
  <2> QED BY <2>2
<1>3. ASSUME NEW n \in Done PROVE n + 1 \in Done
  <2> SUFFICES ASSUME n + 1 <= Len(s) PROVE \E h : Embeds(h, kept[n + 1], s, S, n + 1)
    OBVIOUS
  <2>0. n \in Nat /\ n + 1 \in 1..Len(s) /\ (n + 1) - 1 = n /\ n \in 0..Len(s)
    BY <1>3
  <2>1. PICK h : Embeds(h, kept[n], s, S, n)
    BY <1>3, <2>0
  <2> DEFINE r == kept[n]
  <2>2. r \in Seq(T) /\ Len(r) \in Nat
    BY <1>1, <2>0
  <2>3. kept[n + 1] = IF s[n + 1] \in S THEN Append(r, s[n + 1]) ELSE r
    BY <1>1, <2>0
  <2> HIDE DEF r, Done
  <2>4. Embeds(h, r, s, S, n)
    BY <2>1 DEF r
  <2>5. CASE s[n + 1] \notin S
    <3>1. Embeds(h, r, s, S, n + 1)
      BY <2>0, <2>2, <2>4, <2>5 DEF Embeds
    <3> QED BY <2>3, <2>5, <3>1
  <2>6. CASE s[n + 1] \in S
    <3> DEFINE q == Append(r, s[n + 1])
               g == [i \in 1..Len(q) |-> IF i = Len(q) THEN n + 1 ELSE h[i]]
    <3>1. /\ Len(q) = Len(r) + 1 /\ q[Len(q)] = s[n + 1]
          /\ \A i \in 1..Len(r) : q[i] = r[i]
      <4>1. s[n + 1] \in T
        BY <2>0
      <4> QED BY <2>2, <4>1
    <3> HIDE DEF q
    <3>2. g \in [1..Len(q) -> 1..(n + 1)]
      BY <2>0, <2>2, <2>4, <3>1 DEF Embeds
    <3>3. \A i \in 1..Len(q) : q[i] = s[g[i]] /\ q[i] \in S
      BY <2>0, <2>2, <2>4, <2>6, <3>1 DEF Embeds
    <3>4. ASSUME NEW i \in 1..Len(q), NEW j \in 1..Len(q), i < j PROVE g[i] < g[j]
      <4>0. Len(q) = Len(r) + 1 /\ i # Len(q) /\ i \in 1..Len(r)
        BY <2>2, <3>1, <3>4
      <4>1. i \in 1..Len(r) /\ g[i] = h[i] /\ h[i] \in 1..n
        <5>1. g[i] = h[i]
          BY <4>0
        <5>2. h[i] \in 1..n
          BY <2>4, <4>0 DEF Embeds
        <5> QED BY <4>0, <5>1, <5>2
      <4>2. CASE j = Len(q)
        <5>1. g[j] = n + 1
          BY <4>2
        <5> QED BY <2>0, <4>1, <5>1
      <4>3. CASE j # Len(q)
        <5>1. j \in 1..Len(r) /\ g[j] = h[j]
          <6>1. j \in 1..Len(r)
            BY <2>2, <4>0, <4>3
          <6> QED BY <4>3, <6>1
        <5> QED BY <2>4, <3>4, <4>1, <5>1 DEF Embeds
      <4> QED BY <4>2, <4>3
    <3>5. ASSUME NEW k \in 1..(n + 1), s[k] \in S PROVE \E i \in 1..Len(q) : g[i] = k
      <4>1. CASE k = n + 1
        BY <2>2, <3>1, <4>1
      <4>2. CASE k # n + 1
        <5>1. k \in 1..n
          BY <2>0, <4>2
        <5>2. PICK i \in 1..Len(r) : h[i] = k
          BY <2>4, <3>5, <5>1 DEF Embeds
        <5>3. i \in 1..Len(q) /\ i # Len(q)
          BY <2>2, <3>1
        <5> QED BY <5>2, <5>3
      <4> QED BY <4>1, <4>2
    <3> HIDE DEF g
    <3>6. Embeds(g, q, s, S, n + 1)
      BY <3>2, <3>3, <3>4, <3>5 DEF Embeds
    <3> QED BY <2>3, <2>6, <3>6 DEF q
  <2> QED BY <2>5, <2>6
<1>4. Nat = Done
  <2> HIDE DEF Done
  <2>1. Done \subseteq Nat
    BY DEF Done
  <2> QED BY <1>2, <1>3, <2>1, InductionOverSets
<1>5. Len(s) \in Done /\ Len(s) \in 0..Len(s)
  <2>1. Len(s) \in Nat
    OBVIOUS
  <2> QED BY <1>4, <2>1
<1> QED BY <1>1, <1>5

-------------------------------------------------------------------------------
\* u comes before v in s, wherever they are.
Ahead(s, u, v) == \A i, j \in 1..Len(s) : s[i] = u /\ s[j] = v => i < j

\* Without takes out one value and leaves the others in their order.
LEMMA WithoutProperties ==
    ASSUME NEW T, NEW s \in Seq(T), NEW x
    PROVE  /\ Without(s, x) \in Seq(T)
           /\ Range(Without(s, x)) = Range(s) \ {x}
           /\ IsInjective(s) => IsInjective(Without(s, x))
           /\ \A u, v : Ahead(s, u, v) => Ahead(Without(s, x), u, v)
<1> DEFINE r == Without(s, x)
           S == Range(s) \ {x}
<1>1. r = Only(s, S)
  BY DEF Without
<1>2. Len(s) \in Nat /\ DOMAIN s = 1..Len(s)
  OBVIOUS
<1> HIDE DEF r, S
<1>3. r \in Seq(T) /\ \E h : Embeds(h, r, s, S, Len(s))
  BY <1>1, OnlyIsSubsequence
<1>4. PICK h : Embeds(h, r, s, S, Len(s))
  BY <1>3
<1>5. Len(r) \in Nat /\ DOMAIN r = 1..Len(r)
  BY <1>3
<1>6. Range(r) = S
  <2>1. ASSUME NEW i \in 1..Len(r) PROVE r[i] \in S
    BY <1>4 DEF Embeds
  <2>2. ASSUME NEW y \in S PROVE \E i \in 1..Len(r) : r[i] = y
    <3>1. PICK k \in 1..Len(s) : s[k] = y
      BY <1>2 DEF S, Range
    <3>2. PICK i \in 1..Len(r) : h[i] = k
      BY <1>4, <3>1 DEF Embeds
    <3> QED BY <1>4, <3>1, <3>2 DEF Embeds
  <2> QED BY <1>5, <2>1, <2>2 DEF Range
<1>7. ASSUME IsInjective(s) PROVE IsInjective(r)
  <2> SUFFICES ASSUME NEW i \in 1..Len(r), NEW j \in 1..Len(r), r[i] = r[j], i # j
               PROVE  FALSE
    BY <1>5 DEF IsInjective
  <2>1. h[i] \in 1..Len(s) /\ h[j] \in 1..Len(s) /\ s[h[i]] = s[h[j]]
    BY <1>4 DEF Embeds
  <2>2. h[i] = h[j]
    BY <1>2, <1>7, <2>1 DEF IsInjective
  <2>3. i < j \/ j < i
    BY <1>5
  <2> QED BY <1>4, <2>1, <2>2, <2>3 DEF Embeds
<1>8. ASSUME NEW u, NEW v, Ahead(s, u, v) PROVE Ahead(r, u, v)
  <2> SUFFICES ASSUME NEW i \in 1..Len(r), NEW j \in 1..Len(r), r[i] = u, r[j] = v,
                      ~(i < j)
               PROVE  FALSE
    BY DEF Ahead
  <2>1. h[i] \in 1..Len(s) /\ h[j] \in 1..Len(s) /\ s[h[i]] = u /\ s[h[j]] = v
    BY <1>4 DEF Embeds
  <2>2. h[i] < h[j]
    BY <1>8, <2>1 DEF Ahead
  <2>3. i = j \/ j < i
    BY <1>5
  <2> QED BY <1>4, <2>1, <2>2, <2>3 DEF Embeds
<1> QED BY <1>3, <1>6, <1>7, <1>8 DEF r, S

-------------------------------------------------------------------------------
\* Sequences without repetitions: their elements as a set, and in their order.

\* What is in a sequence.
LEMMA RangeOfSequence ==
    ASSUME NEW T, NEW s \in Seq(T)
    PROVE  /\ Range(s) \subseteq T
           /\ s = <<>> <=> Range(s) = {}
           /\ \A x : x \in Range(s) <=> \E i \in 1..Len(s) : s[i] = x
<1>1. Len(s) \in Nat /\ DOMAIN s = 1..Len(s) /\ \A i \in 1..Len(s) : s[i] \in T
  OBVIOUS
<1>2. Range(s) = {} <=> Len(s) = 0
  <2>1. CASE Len(s) = 0
    BY <1>1, <2>1 DEF Range
  <2>2. CASE Len(s) # 0
    <3>1. 1 \in DOMAIN s
      BY <1>1, <2>2
    <3> QED BY <2>2, <3>1 DEF Range
  <2> QED BY <2>1, <2>2
<1>3. s = <<>> <=> Len(s) = 0
  OBVIOUS
<1>4. \A x : x \in Range(s) <=> \E i \in 1..Len(s) : s[i] = x
  BY <1>1 DEF Range
<1> QED BY <1>1, <1>2, <1>3, <1>4 DEF Range

\* Something new goes to the end.
LEMMA AppendedOnce ==
    ASSUME NEW T, NEW s \in Seq(T), NEW x \in T, x \notin Range(s)
    PROVE  /\ Append(s, x) \in Seq(T) /\ Append(s, x) # <<>>
           /\ Range(Append(s, x)) = Range(s) \union {x}
           /\ IsInjective(s) => IsInjective(Append(s, x))
           /\ \A u \in Range(s) : \A v : Ahead(s, u, v) => Ahead(Append(s, x), u, v)
           /\ \A u : u # x => Ahead(Append(s, x), u, x)
<1> DEFINE r == Append(s, x)
<1>1. /\ Len(s) \in Nat /\ DOMAIN s = 1..Len(s) /\ Len(r) = Len(s) + 1
      /\ r \in Seq(T) /\ DOMAIN r = 1..Len(r)
      /\ r[Len(r)] = x /\ \A i \in 1..Len(s) : r[i] = s[i]
  OBVIOUS
<1>2. \A i \in 1..Len(s) : s[i] # x
  BY <1>1 DEF Range
<1> HIDE DEF r
<1>3. \A i \in 1..Len(r) : i \in 1..Len(s) \/ i = Len(r)
  BY <1>1
<1>4. Range(r) = Range(s) \union {x}
  <2>1. Len(r) \in 1..Len(r) /\ \A i \in 1..Len(s) : i \in 1..Len(r)
    BY <1>1
  <2>2. \A i \in DOMAIN r : r[i] \in Range(s) \union {x}
    BY <1>1, <1>3 DEF Range
  <2>3. \A i \in DOMAIN s : s[i] \in Range(r)
    BY <1>1, <2>1 DEF Range
  <2>4. x \in Range(r)
    BY <1>1, <2>1 DEF Range
  <2> QED BY <2>2, <2>3, <2>4 DEF Range
<1>5. IsInjective(s) => IsInjective(r)
  BY <1>1, <1>2, <1>3 DEF IsInjective
<1>6. ASSUME NEW u \in Range(s), NEW v, Ahead(s, u, v) PROVE Ahead(r, u, v)
  <2> SUFFICES ASSUME NEW i \in 1..Len(r), NEW j \in 1..Len(r), r[i] = u, r[j] = v
               PROVE  i < j
    BY DEF Ahead
  <2>1. i \in 1..Len(s)
    BY <1>1, <1>2, <1>3 DEF Range
  <2>2. CASE j \in 1..Len(s)
    BY <1>1, <1>6, <2>1, <2>2 DEF Ahead
  <2>3. CASE j = Len(r)
    BY <1>1, <2>1, <2>3
  <2> QED BY <1>3, <2>2, <2>3
<1>7. r # <<>>
  BY <1>1
<1>8. ASSUME NEW u, u # x PROVE Ahead(r, u, x)
  <2> SUFFICES ASSUME NEW i \in 1..Len(r), NEW j \in 1..Len(r), r[i] = u, r[j] = x
               PROVE  i < j
    BY DEF Ahead
  <2>1. j = Len(r) /\ i # Len(r)
    BY <1>1, <1>2, <1>3, <1>8
  <2> QED BY <1>1, <2>1
<1> QED BY <1>1, <1>4, <1>5, <1>6, <1>7, <1>8 DEF r

\* The first element is taken away.
LEMMA TailOnce ==
    ASSUME NEW T, NEW s \in Seq(T), s # <<>>, IsInjective(s)
    PROVE  /\ Head(s) \in Range(s) /\ Head(s) = s[1] /\ Head(s) \in T
           /\ Tail(s) \in Seq(T)
           /\ Range(Tail(s)) = Range(s) \ {Head(s)}
           /\ IsInjective(Tail(s))
<1> DEFINE r == Tail(s)
<1>1. /\ Len(s) \in Nat /\ Len(s) >= 1 /\ DOMAIN s = 1..Len(s) /\ Len(r) = Len(s) - 1
      /\ r \in Seq(T) /\ DOMAIN r = 1..Len(r) /\ Head(s) = s[1] /\ s[1] \in T
      /\ \A i \in 1..Len(r) : r[i] = s[i + 1]
  OBVIOUS
<1> HIDE DEF r
<1>2. \A i \in 1..Len(r) : i + 1 \in 1..Len(s) /\ i + 1 # 1
  BY <1>1
<1>3. \A i \in 1..Len(s) : i = 1 \/ (i - 1 \in 1..Len(r) /\ (i - 1) + 1 = i)
  BY <1>1
<1>4. 1 \in DOMAIN s
  BY <1>1
<1>5. Range(r) = Range(s) \ {s[1]}
  <2>1. \A i \in DOMAIN r : r[i] \in Range(s) \ {s[1]}
    BY <1>1, <1>2, <1>4 DEF Range, IsInjective
  <2>2. ASSUME NEW i \in DOMAIN s, s[i] # s[1] PROVE s[i] \in Range(r)
    <3>1. i - 1 \in 1..Len(r) /\ (i - 1) + 1 = i
      BY <1>1, <1>3, <2>2
    <3>2. r[i - 1] = s[i]
      BY <1>1, <3>1
    <3> QED BY <1>1, <3>1, <3>2 DEF Range
  <2> QED BY <2>1, <2>2 DEF Range
<1>6. IsInjective(r)
  <2> SUFFICES ASSUME NEW i \in 1..Len(r), NEW j \in 1..Len(r), r[i] = r[j] PROVE i = j
    BY <1>1 DEF IsInjective
  <2>1. i + 1 = j + 1
    BY <1>1, <1>2 DEF IsInjective
  <2> QED BY <1>1, <2>1
<1>7. s[1] \in Range(s)
  BY <1>4 DEF Range
<1> QED BY <1>1, <1>5, <1>6, <1>7 DEF r

\* The first element goes to the end.
LEMMA TurnedOnce ==
    ASSUME NEW T, NEW s \in Seq(T), Len(s) > 1, IsInjective(s),
           NEW r, r = Append(Tail(s), Head(s))
    PROVE  /\ r \in Seq(T) /\ Len(r) = Len(s) /\ IsInjective(r) /\ Range(r) = Range(s)
           /\ \A u, v : u # Head(s) /\ Ahead(s, u, v) => Ahead(r, u, v)
<1>0. PICK n : n = Len(s)
  OBVIOUS
<1>1. /\ n \in Nat /\ n > 1 /\ DOMAIN s = 1..n /\ s # <<>>
      /\ r \in Seq(T) /\ DOMAIN r = 1..n /\ Len(r) = n
      /\ r[n] = s[1] /\ Head(s) = s[1]
      /\ \A i \in 1..(n - 1) : r[i] = s[i + 1]
  BY <1>0
<1>2. \A i \in 1..n : i = n \/ (i \in 1..(n - 1) /\ i + 1 \in 1..n /\ i + 1 # 1)
  BY <1>1
<1>3. \A i \in 1..n : i = 1 \/ (i - 1 \in 1..(n - 1) /\ i - 1 \in 1..n /\ (i - 1) + 1 = i)
  BY <1>1
<1>4. 1 \in 1..n /\ n \in 1..n
  BY <1>1
<1>5. Range(r) = Range(s)
  <2>1. \A i \in DOMAIN r : r[i] \in Range(s)
    BY <1>1, <1>2, <1>4 DEF Range
  <2>2. ASSUME NEW i \in DOMAIN s PROVE s[i] \in Range(r)
    <3>1. CASE i = 1
      BY <1>1, <1>4, <3>1 DEF Range
    <3>2. CASE i # 1
      <4>1. i - 1 \in DOMAIN r /\ r[i - 1] = s[i]
        BY <1>1, <1>3, <3>2
      <4> QED BY <4>1 DEF Range
    <3> QED BY <3>1, <3>2
  <2> QED BY <2>1, <2>2 DEF Range
<1>6. IsInjective(r)
  <2> SUFFICES ASSUME NEW i \in 1..n, NEW j \in 1..n, r[i] = r[j] PROVE i = j
    BY <1>1 DEF IsInjective
  <2>1. CASE i = n /\ j = n
    BY <2>1
  <2>2. CASE i # n /\ j # n
    <3>1. i + 1 \in DOMAIN s /\ j + 1 \in DOMAIN s /\ s[i + 1] = s[j + 1]
      BY <1>1, <1>2, <2>2
    <3>2. i + 1 = j + 1
      BY <3>1 DEF IsInjective
    <3> QED BY <3>2
  <2>3. CASE i = n /\ j # n
    BY <1>1, <1>2, <1>4, <2>3 DEF IsInjective
  <2>4. CASE i # n /\ j = n
    BY <1>1, <1>2, <1>4, <2>4 DEF IsInjective
  <2> QED BY <2>1, <2>2, <2>3, <2>4
<1>7. ASSUME NEW u, NEW v, u # Head(s), Ahead(s, u, v) PROVE Ahead(r, u, v)
  <2> SUFFICES ASSUME NEW i \in 1..n, NEW j \in 1..n, r[i] = u, r[j] = v
               PROVE  i < j
    BY <1>1 DEF Ahead
  <2>1. i \in 1..(n - 1) /\ i + 1 \in 1..n /\ s[i + 1] = u
    BY <1>1, <1>2, <1>7
  <2>2. CASE j = n
    BY <1>1, <2>1, <2>2
  <2>3. CASE j # n
    <3>1. j + 1 \in 1..n /\ s[j + 1] = v
      BY <1>1, <1>2, <2>3
    <3>2. i + 1 < j + 1
      BY <1>0, <1>7, <2>1, <3>1 DEF Ahead
    <3> QED BY <2>1, <3>2
  <2> QED BY <2>2, <2>3
<1> QED BY <1>0, <1>1, <1>5, <1>6, <1>7

\* The i-th element is taken out, and those before it go behind the others.
LEMMA SkippedOnce ==
    ASSUME NEW T, NEW s \in Seq(T), NEW i \in 1..Len(s), IsInjective(s),
           NEW r, r = SubSeq(s, i + 1, Len(s)) \o SubSeq(s, 1, i - 1)
    PROVE  /\ r \in Seq(T) /\ IsInjective(r) /\ Range(r) = Range(s) \ {s[i]}
           /\ \A j \in (i + 1)..Len(s) : \A v : Ahead(s, s[j], v) => Ahead(r, s[j], v)
<1>0. PICK n : n = Len(s)
  OBVIOUS
<1>00. PICK a, b : a = SubSeq(s, i + 1, n) /\ b = SubSeq(s, 1, i - 1)
  OBVIOUS
<1>1. n \in Nat /\ DOMAIN s = 1..n /\ i \in Nat /\ 1 <= i /\ i <= n /\ \A k \in 1..n : s[k] \in T
  BY <1>0
<1>2. /\ a \in Seq(T) /\ Len(a) = n - i
      /\ \A k \in 1..(n - i) : a[k] = s[i + k]
  <2>1. \A k \in (i + 1)..n : s[k] \in T
    BY <1>1
  <2>2. /\ a \in Seq(T) /\ Len(a) = IF i + 1 <= n THEN n - (i + 1) + 1 ELSE 0
        /\ \A k \in 1..(n - (i + 1) + 1) : a[k] = s[(i + 1) + k - 1]
    BY <1>1, <1>00, <2>1, SubSeqProperties
  <2>3. Len(a) = n - i
    BY <1>1, <2>2
  <2>4. ASSUME NEW k \in 1..(n - i) PROVE a[k] = s[i + k]
    <3>1. k \in 1..(n - (i + 1) + 1) /\ (i + 1) + k - 1 = i + k
      BY <1>1
    <3> QED BY <2>2, <3>1
  <2> QED BY <2>2, <2>3, <2>4
<1>3. /\ b \in Seq(T) /\ Len(b) = i - 1
      /\ \A k \in 1..(i - 1) : b[k] = s[k]
  <2>1. \A k \in 1..(i - 1) : s[k] \in T
    BY <1>1
  <2>2. /\ b \in Seq(T) /\ Len(b) = IF 1 <= i - 1 THEN (i - 1) - 1 + 1 ELSE 0
        /\ \A k \in 1..((i - 1) - 1 + 1) : b[k] = s[1 + k - 1]
    BY <1>1, <1>00, <2>1, SubSeqProperties
  <2>3. Len(b) = i - 1
    BY <1>1, <2>2
  <2>4. ASSUME NEW k \in 1..(i - 1) PROVE b[k] = s[k]
    <3>1. k \in 1..((i - 1) - 1 + 1) /\ 1 + k - 1 = k
      BY <1>1
    <3> QED BY <2>2, <3>1
  <2> QED BY <2>2, <2>3, <2>4
<1>4. /\ r \in Seq(T) /\ Len(r) = n - 1 /\ DOMAIN r = 1..(n - 1)
      /\ \A k \in 1..(n - i) : r[k] = s[i + k]
      /\ \A k \in (n - i + 1)..(n - 1) : r[k] = s[k - (n - i)]
  <2>1. r = a \o b
    BY <1>0, <1>00
  <2>2. /\ r \in Seq(T) /\ Len(r) = Len(a) + Len(b)
        /\ \A k \in 1..(Len(a) + Len(b)) : r[k] = IF k <= Len(a) THEN a[k] ELSE b[k - Len(a)]
    <3>1. a \in Seq(T) /\ b \in Seq(T)
      BY <1>2, <1>3
    <3>2. PICK x \in Seq(T), y \in Seq(T) : x = a /\ y = b /\ r = x \o y
      BY <2>1, <3>1
    <3>3. /\ x \o y \in Seq(T) /\ Len(x \o y) = Len(x) + Len(y)
          /\ \A k \in 1..(Len(x) + Len(y)) :
                (x \o y)[k] = IF k <= Len(x) THEN x[k] ELSE y[k - Len(x)]
      BY ONLY ConcatProperties, Zenon
    <3> QED BY <3>2, <3>3
  <2>3. Len(r) = n - 1 /\ DOMAIN r = 1..(n - 1)
    <3>1. Len(a) = n - i /\ Len(b) = i - 1 /\ (n - i) + (i - 1) = n - 1
      BY <1>1, <1>2, <1>3
    <3>2. Len(r) = n - 1
      BY <2>2, <3>1
    <3>3. DOMAIN r = 1..Len(r)
      BY <2>2
    <3> QED BY <3>2, <3>3
  <2>4. ASSUME NEW k \in 1..(n - i) PROVE r[k] = s[i + k]
    <3>1. k \in 1..(Len(a) + Len(b)) /\ k <= Len(a)
      BY <1>1, <1>2, <1>3
    <3> QED BY <1>2, <2>2, <3>1
  <2>5. ASSUME NEW k \in (n - i + 1)..(n - 1) PROVE r[k] = s[k - (n - i)]
    <3>1. k \in 1..(Len(a) + Len(b)) /\ ~(k <= Len(a)) /\ k - (n - i) \in 1..(i - 1)
      BY <1>1, <1>2, <1>3
    <3> QED BY <1>2, <1>3, <2>2, <3>1
  <2> QED BY <2>2, <2>3, <2>4, <2>5
\* The place in s of the k-th element of r, and back.
<1> DEFINE from(k) == IF k <= n - i THEN i + k ELSE k - (n - i)
           to(k) == IF k > i THEN k - i ELSE k + (n - i)
<1>5. ASSUME NEW k \in 1..(n - 1)
      PROVE  from(k) \in 1..n /\ from(k) # i /\ r[k] = s[from(k)]
  <2>1. CASE k <= n - i
    <3>1. k \in 1..(n - i) /\ i + k \in 1..n /\ i + k # i
      BY <1>1, <2>1
    <3> QED BY <1>4, <2>1, <3>1
  <2>2. CASE ~(k <= n - i)
    <3>1. k \in (n - i + 1)..(n - 1) /\ k - (n - i) \in 1..n /\ k - (n - i) # i
      BY <1>1, <2>2
    <3> QED BY <1>4, <2>2, <3>1
  <2> QED BY <1>1, <2>1, <2>2
<1>6. \A k, l \in 1..(n - 1) : from(k) = from(l) => k = l
  BY <1>1
<1>7. \A k \in 1..n : k # i => to(k) \in 1..(n - 1) /\ from(to(k)) = k
  BY <1>1
<1>8. \A k, l \in 1..(n - 1) : from(k) > i /\ from(k) < from(l) => k < l
  BY <1>1
<1> HIDE DEF from, to
<1>9. IsInjective(r)
  <2> SUFFICES ASSUME NEW k \in 1..(n - 1), NEW l \in 1..(n - 1), r[k] = r[l] PROVE k = l
    BY <1>4 DEF IsInjective
  <2>1. s[from(k)] = s[from(l)] /\ from(k) \in DOMAIN s /\ from(l) \in DOMAIN s
    BY <1>1, <1>5
  <2>2. from(k) = from(l)
    BY <2>1 DEF IsInjective
  <2> QED BY <1>6, <2>2
<1>10. Range(r) = Range(s) \ {s[i]}
  <2>1. ASSUME NEW k \in DOMAIN r PROVE r[k] \in Range(s) \ {s[i]}
    <3>1. from(k) \in DOMAIN s /\ from(k) # i /\ r[k] = s[from(k)] /\ i \in DOMAIN s
      <4>1. k \in 1..(n - 1) /\ i \in 1..n
        BY <1>1, <1>4
      <4> QED BY <1>1, <1>5, <4>1
    <3> QED BY <3>1 DEF Range, IsInjective
  <2>2. ASSUME NEW k \in DOMAIN s, s[k] # s[i] PROVE s[k] \in Range(r)
    <3>1. k \in 1..n /\ k # i
      BY <1>1, <2>2
    <3>2. to(k) \in 1..(n - 1) /\ from(to(k)) = k
      BY <1>7, <3>1
    <3>3. to(k) \in DOMAIN r /\ r[to(k)] = s[k]
      BY <1>4, <1>5, <3>2
    <3> QED BY <3>3 DEF Range
  <2> QED BY <2>1, <2>2 DEF Range
<1>11. ASSUME NEW j \in (i + 1)..n, NEW v, Ahead(s, s[j], v) PROVE Ahead(r, s[j], v)
  <2> SUFFICES ASSUME NEW k \in 1..Len(r), NEW l \in 1..Len(r), r[k] = s[j], r[l] = v
               PROVE  k < l
    BY DEF Ahead
  <2>1. k \in 1..(n - 1) /\ l \in 1..(n - 1)
    BY <1>4
  <2>2. from(k) \in 1..n /\ from(l) \in 1..n /\ s[from(k)] = s[j] /\ s[from(l)] = v
    BY <1>5, <2>1
  <2>3. j \in DOMAIN s /\ j > i
    BY <1>1
  <2>4. from(k) = j
    BY <1>1, <2>2, <2>3 DEF IsInjective
  <2>5. from(k) < from(l)
    BY <1>0, <1>11, <2>2 DEF Ahead
  <2> QED BY <1>8, <2>1, <2>3, <2>4, <2>5
<1> QED BY <1>0, <1>4, <1>9, <1>10, <1>11

-------------------------------------------------------------------------------
\* FlattenSeq, place by place.
FlattenInSteps(f, ss, T) ==
    /\ f \in [Nat -> Seq(T)]
    /\ FlattenSeq(ss) = f[Len(ss)]
    /\ f[0] = <<>>
    /\ \A n \in 1..Len(ss) : f[n] = f[n - 1] \o ss[n]

\* The LET definition of FlattenSeq determines a function that does this.
LEMMA FlattenUnfolds ==
    ASSUME NEW T, NEW ss \in Seq(Seq(T))
    PROVE  \E f : FlattenInSteps(f, ss, T)
<1> DEFINE Q == Seq(T)
           step == [n \in Nat |-> [r \in Q |-> IF n \in 1..Len(ss) THEN r \o ss[n] ELSE r]]
           Unfolds(g) == g = [i \in 1..Len(ss) |-> IF i = 1 THEN ss[i] ELSE g[i - 1] \o ss[i]]
           flatten == CHOOSE g : Unfolds(g)
<1>0. Len(ss) \in Nat /\ \A n \in 1..Len(ss) : ss[n] \in Seq(T)
  OBVIOUS
<1>1. CanIterate(Q, <<>>, step)
  <2>1. ASSUME NEW n \in Nat, NEW r \in Seq(T)
        PROVE  (IF n \in 1..Len(ss) THEN r \o ss[n] ELSE r) \in Seq(T)
    <3>1. CASE n \in 1..Len(ss)
      <4>1. ss[n] \in Seq(T)
        BY <1>0, <3>1
      <4> QED BY <3>1, <4>1, ConcatProperties
    <3> QED BY <3>1
  <2> QED BY <2>1 DEF CanIterate
<1>2. PICK f \in [Nat -> Q] : /\ f[0] = <<>>
                              /\ \A n \in Nat : f[n + 1] = step[n + 1][f[n]]
  <2> HIDE DEF step, Q
  <2>1. PICK f : Iterates(f, Q, <<>>, step)
    BY <1>1, IterationExists
  <2> QED BY <2>1 DEF Iterates
<1>3. ASSUME NEW n \in 1..Len(ss) PROVE f[n] = f[n - 1] \o ss[n]
  <2>1. n - 1 \in Nat /\ (n - 1) + 1 = n /\ f[n - 1] \in Seq(T) /\ n \in Nat
    BY <1>2
  <2>2. f[n] = step[n][f[n - 1]]
    <3> HIDE DEF step
    <3> QED BY <1>2, <2>1
  <2>3. step[n][f[n - 1]] = f[n - 1] \o ss[n]
    BY <2>1
  <2> QED BY <2>2, <2>3
<1>4. CASE ss = <<>>
  <2>1. FlattenSeq(ss) = <<>> /\ Len(ss) = 0
    BY <1>4 DEF FlattenSeq
  <2> QED BY <1>2, <1>3, <2>1 DEF FlattenInSteps
<1>5. CASE ss # <<>>
  <2>0. Len(ss) # 0 /\ Len(ss) \in Nat
    BY <1>5
  <2>1. f[1] = ss[1]
    <3>0. 1 \in 1..Len(ss)
      BY <2>0
    <3>1. 1 \in 1..Len(ss) /\ ss[1] \in Seq(T)
      BY <1>0, <3>0
    <3>2. f[1] = f[1 - 1] \o ss[1]
      BY <1>3, <3>1
    <3>3. f[1 - 1] = <<>>
      BY <1>2
    <3> QED BY <3>1, <3>2, <3>3, ConcatEmptySeq
  <2>2. Unfolds([n \in 1..Len(ss) |-> f[n]])
    <3> DEFINE g == [n \in 1..Len(ss) |-> f[n]]
    <3>1. ASSUME NEW n \in 1..Len(ss)
          PROVE  g[n] = IF n = 1 THEN ss[n] ELSE g[n - 1] \o ss[n]
      <4>1. CASE n = 1
        BY <2>1, <4>1
      <4>2. CASE n # 1
        <5>1. n - 1 \in 1..Len(ss)
          BY <2>0, <4>2
        <5>2. g[n - 1] = f[n - 1] /\ g[n] = f[n]
          BY <5>1
        <5> HIDE DEF g
        <5> QED BY <1>3, <4>2, <5>2
      <4> QED BY <4>1, <4>2
    <3> QED BY <3>1
  <2>3. Unfolds(flatten)
    <3> HIDE DEF Unfolds
    <3> QED BY <2>2
  <2>4. FlattenSeq(ss) = flatten[Len(ss)]
    BY <2>0 DEF FlattenSeq
  <2>5. ASSUME NEW n \in 1..Len(ss)
        PROVE  flatten[n] = IF n = 1 THEN ss[n] ELSE flatten[n - 1] \o ss[n]
    <3> HIDE DEF flatten
    <3> QED BY <2>3
  <2> DEFINE Same == {n \in Nat : n + 1 <= Len(ss) => flatten[n + 1] = f[n + 1]}
  <2> HIDE DEF flatten
  <2>6. 0 \in Same
    <3>1. 1 \in 1..Len(ss) /\ 0 + 1 = 1
      BY <2>0
    <3>2. flatten[1] = ss[1]
      BY <2>5, <3>1
    <3> QED BY <2>1, <3>1, <3>2
  <2>7. ASSUME NEW n \in Same PROVE n + 1 \in Same
    <3> SUFFICES ASSUME (n + 1) + 1 <= Len(ss) PROVE flatten[(n + 1) + 1] = f[(n + 1) + 1]
      OBVIOUS
    <3>0. PICK m \in Nat : m = (n + 1) + 1
      OBVIOUS
    <3>1. n \in Nat /\ (n + 1 <= Len(ss) => flatten[n + 1] = f[n + 1])
      OBVIOUS
    <3> HIDE DEF Same, step, Unfolds, Q
    <3>2. m \in 1..Len(ss) /\ m # 1 /\ m - 1 = n + 1 /\ n + 1 <= Len(ss)
      BY <2>0, <3>0, <3>1
    <3>3. flatten[m - 1] = f[m - 1]
      BY <3>1, <3>2
    <3>4. flatten[m] = f[m - 1] \o ss[m]
      BY <2>5, <3>2, <3>3
    <3> QED BY <1>3, <3>0, <3>2, <3>4
  <2>8. Nat = Same
    <3> HIDE DEF Same
    <3>1. Same \subseteq Nat
      BY DEF Same
    <3> QED BY <2>6, <2>7, <3>1, InductionOverSets
  <2>9. flatten[Len(ss)] = f[Len(ss)]
    <3>1. Len(ss) - 1 \in Nat /\ (Len(ss) - 1) + 1 = Len(ss)
      BY <2>0
    <3>2. Len(ss) - 1 \in Same
      BY <2>8, <3>1
    <3> QED BY <2>0, <3>1, <3>2
  <2> HIDE DEF step, Same, Unfolds
  <2> QED BY <1>2, <1>3, <2>4, <2>9 DEF FlattenInSteps
<1> QED BY <1>4, <1>5

\* Nothing, and one sequence, flattened.
LEMMA FlattenFew ==
    ASSUME NEW T
    PROVE  /\ FlattenSeq(<<>>) = <<>>
           /\ \A s \in Seq(T) : FlattenSeq(<<s>>) = s
<1>1. FlattenSeq(<<>>) = <<>>
  BY DEF FlattenSeq
<1>2. ASSUME NEW s \in Seq(T) PROVE FlattenSeq(<<s>>) = s
  <2>1. PICK ss : ss = <<s>>
    OBVIOUS
  <2>4. ss \in Seq(Seq(T)) /\ Len(ss) = 1 /\ ss[1] = s
    BY <2>1
  <2>2. PICK f : FlattenInSteps(f, ss, T)
    BY <2>4, FlattenUnfolds
  <2>5. f[0] = <<>> /\ FlattenSeq(ss) = f[1] /\ f[1] = f[1 - 1] \o ss[1]
    BY <2>2, <2>4 DEF FlattenInSteps
  <2>3. f[0] = <<>> /\ FlattenSeq(ss) = f[1] /\ f[1] = f[0] \o s
    BY <2>4, <2>5
  <2> QED BY <2>1, <2>3, ConcatEmptySeq
<1> QED BY <1>1, <1>2

\* What is flattened in two parts.
LEMMA FlattenConcat ==
    ASSUME NEW T, NEW ss \in Seq(Seq(T)), NEW tt \in Seq(Seq(T))
    PROVE  /\ FlattenSeq(ss) \in Seq(T)
           /\ FlattenSeq(ss \o tt) = FlattenSeq(ss) \o FlattenSeq(tt)
<1>1. PICK uu : uu = ss \o tt
  OBVIOUS
<1>2. PICK m \in Nat, n \in Nat : m = Len(ss) /\ n = Len(tt)
  OBVIOUS
<1>3. /\ uu \in Seq(Seq(T)) /\ Len(uu) = m + n
      /\ \A i \in 1..(m + n) : uu[i] = IF i <= m THEN ss[i] ELSE tt[i - m]
  BY <1>1, <1>2, ConcatProperties
<1>4. PICK f : FlattenInSteps(f, ss, T)
  BY FlattenUnfolds
<1>5. PICK g : FlattenInSteps(g, tt, T)
  BY FlattenUnfolds
<1>6. PICK h : FlattenInSteps(h, uu, T)
  BY <1>3, FlattenUnfolds
<1>7. /\ f \in [Nat -> Seq(T)] /\ f[0] = <<>> /\ FlattenSeq(ss) = f[m]
      /\ \A i \in 1..m : f[i] = f[i - 1] \o ss[i]
  BY <1>2, <1>4 DEF FlattenInSteps
<1>8. /\ g \in [Nat -> Seq(T)] /\ g[0] = <<>> /\ FlattenSeq(tt) = g[n]
      /\ \A i \in 1..n : g[i] = g[i - 1] \o tt[i]
  BY <1>2, <1>5 DEF FlattenInSteps
<1>9. /\ h \in [Nat -> Seq(T)] /\ h[0] = <<>> /\ FlattenSeq(uu) = h[m + n]
      /\ \A i \in 1..(m + n) : h[i] = h[i - 1] \o uu[i]
  BY <1>3, <1>6 DEF FlattenInSteps
<1> DEFINE Left == {i \in Nat : i <= m => h[i] = f[i]}
<1>10. 0 \in Left
  BY <1>7, <1>9
<1>11. ASSUME NEW i \in Left PROVE i + 1 \in Left
  <2> SUFFICES ASSUME i + 1 <= m PROVE h[i + 1] = f[i + 1]
    OBVIOUS
  <2>1. PICK j \in Nat : j = i + 1
    OBVIOUS
  <2>2. j \in 1..m /\ j \in 1..(m + n) /\ j - 1 = i /\ h[i] = f[i] /\ j <= m
    BY <2>1
  <2>3. uu[j] = ss[j]
    BY <1>3, <2>2
  <2> QED BY <1>7, <1>9, <2>1, <2>2, <2>3
<1>12. Nat = Left
  <2>1. Left \subseteq Nat
    OBVIOUS
  <2> HIDE DEF Left
  <2> QED BY <1>10, <1>11, <2>1, InductionOverSets
<1>13. h[m] = f[m] /\ f[m] \in Seq(T)
  <2>1. m \in Left
    BY <1>2, <1>12
  <2> QED BY <1>7, <2>1
<1> DEFINE Right == {i \in Nat : i <= n => h[m + i] = f[m] \o g[i]}
<1> HIDE DEF Left
<1>14. 0 \in Right
  <2>1. f[m] \o g[0] = f[m]
    BY <1>8, <1>13, ConcatEmptySeq
  <2>2. m + 0 = m
    OBVIOUS
  <2> QED BY <1>13, <2>1, <2>2
<1> HIDE DEF Right
<1>15. ASSUME NEW i \in Right PROVE i + 1 \in Right
  <2>1. i \in Nat /\ (i <= n => h[m + i] = f[m] \o g[i])
    BY DEF Right
  <2>2. PICK j \in Nat, k \in Nat : k = i + 1 /\ j = m + k
    BY <2>1
  <2>3. ASSUME k <= n PROVE h[j] = f[m] \o g[k]
    <3>1. /\ j \in 1..(m + n) /\ j - 1 = m + i /\ ~(j <= m) /\ j - m = k
          /\ k \in 1..n /\ k - 1 = i /\ i <= n
      BY <2>1, <2>2, <2>3
    <3>2. uu[j] = tt[k]
      BY <1>3, <3>1
    <3>3. h[j] = h[m + i] \o tt[k]
      BY <1>9, <3>1, <3>2
    <3>4. \A l \in 1..Len(tt) : tt[l] \in Seq(T)
      OBVIOUS
    <3>5. g[i] \in Seq(T) /\ tt[k] \in Seq(T)
      <4>1. g[i] \in Seq(T)
        BY <1>8, <2>1
      <4>2. k \in 1..Len(tt)
        BY <1>2, <3>1
      <4> QED BY <3>4, <4>1, <4>2
    <3>6. g[k] = g[i] \o tt[k]
      <4>1. g[k] = g[k - 1] \o tt[k]
        BY <1>8, <3>1
      <4>2. k - 1 = i
        BY <3>1
      <4> QED BY <4>1, <4>2
    <3>7. h[m + i] = f[m] \o g[i]
      BY <2>1, <3>1
    <3>8. (f[m] \o g[i]) \o tt[k] = f[m] \o (g[i] \o tt[k])
      <4>1. PICK x \in Seq(T), y \in Seq(T), z \in Seq(T) : x = f[m] /\ y = g[i] /\ z = tt[k]
        BY <1>13, <3>5
      <4>2. (x \o y) \o z = x \o (y \o z)
        BY ConcatAssociative
      <4> QED BY <4>1, <4>2
    <3> QED BY <3>3, <3>6, <3>7, <3>8
  <2>4. k \in Right
    BY <2>2, <2>3 DEF Right
  <2> QED BY <2>2, <2>4
<1>16. Nat = Right
  <2>1. Right \subseteq Nat
    BY DEF Right
  <2> QED BY <1>14, <1>15, <2>1, InductionOverSets
<1>17. h[m + n] = f[m] \o g[n]
  <2>1. n \in Right /\ n <= n
    BY <1>2, <1>16
  <2> QED BY <2>1 DEF Right
<1> QED BY <1>1, <1>7, <1>8, <1>9, <1>13, <1>17

================================================================================
