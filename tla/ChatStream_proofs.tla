--------------------------- MODULE ChatStream_proofs ---------------------------
(***************************************************************************)
(* What ChatStream promises, for a channel and a connection of any size    *)
(* and an answer of any length.                                            *)
(*                                                                         *)
(* The text that a reader has got, what is in the connection, and what is  *)
(* still in the channel count from 1 up to the last token said, with one   *)
(* gap: where a piece made room for the terminal event.  So the invariant  *)
(* says that there are two numbers k and l, the gap is what was discarded, *)
(* and what has left the channel and what has not are the numbers up to k  *)
(* and from l on.  A token either appends a piece or makes one grow after  *)
(* which no text follows; either way the text gains its last number.  Room *)
(* is made by removing a stage, which has no text, or the first piece      *)
(* after a prefix without text: that is why the gap is at the front of the *)
(* channel.                                                                *)
(*                                                                         *)
(* That the terminal event is last, and comes once, is said of connection  *)
(* and channel as one sequence.  That a panel knows the end is said of the *)
(* last of them: the end has been read or is still there.                  *)
(***************************************************************************)
EXTENDS ChatStream, Subsequences_proofs

-------------------------------------------------------------------------------
(* Sequences of numbers *)

\* The numbers after k up to n.
Count(k, n) == [i \in 1..(n - k) |-> k + i]

Counts(s, k, n) ==
    s \in Seq(Nat) /\ Len(s) = n - k /\ \A i \in 1..Len(s) : s[i] = k + i

\* Nothing but Count(k, n) counts from k to n.
LEMMA CountCounts ==
    ASSUME NEW k \in Nat, NEW n \in Nat, k <= n
    PROVE  /\ Count(k, n) \in Seq(Nat) /\ Counts(Count(k, n), k, n)
           /\ \A s : Counts(s, k, n) => s = Count(k, n)
<1>1. PICK c : c = Count(k, n)
  OBVIOUS
<1>2. PICK m \in Nat : m = n - k
  OBVIOUS
<1>3. c = [i \in 1..m |-> k + i]
  BY <1>1, <1>2 DEF Count
<1>4. c \in Seq(Nat) /\ Len(c) = m /\ \A i \in 1..Len(c) : c[i] = k + i
  BY <1>3
<1>5. ASSUME NEW s, Counts(s, k, n) PROVE s = c
  <2>1. s \in Seq(Nat) /\ Len(s) = m /\ \A i \in 1..Len(s) : s[i] = k + i
    BY <1>2, <1>5 DEF Counts
  <2>2. \A i \in 1..Len(s) : s[i] = c[i]
    BY <1>4, <2>1
  <2> QED BY <1>4, <2>1, <2>2, SeqEqual
<1> QED BY <1>1, <1>2, <1>4, <1>5 DEF Counts

\* Counting on.
LEMMA CountsOn ==
    ASSUME NEW k \in Nat, NEW l \in Nat, NEW n \in Nat, k <= l, l <= n
    PROVE  Count(k, l) \o Count(l, n) = Count(k, n)
<1>1. PICK a \in Seq(Nat), b \in Seq(Nat) : a = Count(k, l) /\ b = Count(l, n)
  BY CountCounts
<1>2. /\ Len(a) = l - k /\ \A i \in 1..Len(a) : a[i] = k + i
      /\ Len(b) = n - l /\ \A i \in 1..Len(b) : b[i] = l + i
  BY <1>1, CountCounts DEF Counts
<1>3. PICK d : d = a \o b
  OBVIOUS
<1>4. /\ d \in Seq(Nat) /\ Len(d) = Len(a) + Len(b)
      /\ \A i \in 1..(Len(a) + Len(b)) : d[i] = IF i <= Len(a) THEN a[i] ELSE b[i - Len(a)]
  BY <1>3, ConcatProperties
<1>5. Len(d) = n - k
  BY <1>2, <1>4
<1>6. ASSUME NEW i \in 1..Len(d) PROVE d[i] = k + i
  <2>1. d[i] = IF i <= Len(a) THEN a[i] ELSE b[i - Len(a)]
    BY <1>4
  <2>2. CASE i <= Len(a)
    BY <1>2, <2>1, <2>2
  <2>3. CASE ~(i <= Len(a))
    <3>1. PICK j \in 1..Len(b) : j = i - Len(a)
      BY <1>4, <2>3
    <3>2. d[i] = l + j
      BY <1>2, <2>1, <2>3, <3>1
    <3> QED BY <1>2, <3>1, <3>2
  <2> QED BY <2>2, <2>3
<1>7. k <= n /\ Counts(d, k, n)
  BY <1>4, <1>5, <1>6 DEF Counts
<1> QED BY <1>1, <1>3, <1>7, CountCounts

\* Nothing, one number, and one number more.
LEMMA CountFew ==
    ASSUME NEW k \in Nat, NEW n \in Nat, k <= n
    PROVE  /\ Count(k, k) = <<>>
           /\ Append(Count(k, n), n + 1) = Count(k, n + 1)
           /\ \A x \in Nat : x \in Range(Count(k, n)) <=> x \in (k + 1)..n
<1>1. Count(k, k) = <<>>
  <2>1. PICK c \in Seq(Nat) : c = Count(k, k)
    BY CountCounts
  <2>3. Counts(c, k, k)
    BY <2>1, CountCounts
  <2>2. Len(c) = 0
    BY <2>3 DEF Counts
  <2> QED BY <2>1, <2>2
<1>2. PICK a \in Seq(Nat) : a = Count(k, n)
  BY CountCounts
<1>3. Len(a) = n - k /\ \A i \in 1..Len(a) : a[i] = k + i
  BY <1>2, CountCounts DEF Counts
<1>4. Append(a, n + 1) = Count(k, n + 1)
  <2>1. PICK d : d = Append(a, n + 1)
    OBVIOUS
  <2>2. /\ d \in Seq(Nat) /\ Len(d) = Len(a) + 1 /\ d[Len(a) + 1] = n + 1
        /\ \A i \in 1..Len(a) : d[i] = a[i]
    BY <2>1, AppendProperties
  <2>3. ASSUME NEW i \in 1..Len(d) PROVE d[i] = k + i
    <3>1. CASE i \in 1..Len(a)
      BY <1>3, <2>2, <3>1
    <3>2. CASE i = Len(a) + 1
      BY <1>3, <2>2, <3>2
    <3> QED BY <2>2, <3>1, <3>2
  <2>4. n + 1 \in Nat /\ k <= n + 1 /\ Counts(d, k, n + 1)
    BY <1>3, <2>2, <2>3 DEF Counts
  <2> QED BY <2>1, <2>4, CountCounts
<1>5. ASSUME NEW x \in Nat PROVE x \in Range(a) <=> x \in (k + 1)..n
  <2>1. x \in Range(a) <=> \E i \in 1..Len(a) : a[i] = x
    BY RangeOfSequence
  <2>2. ASSUME x \in (k + 1)..n PROVE \E i \in 1..Len(a) : a[i] = x
    <3>1. PICK i \in 1..Len(a) : i = x - k
      BY <1>3, <2>2
    <3>2. a[i] = x
      BY <1>3, <3>1
    <3> QED BY <3>2
  <2>3. ASSUME NEW i \in 1..Len(a), a[i] = x PROVE x \in (k + 1)..n
    BY <1>3, <2>3
  <2> QED BY <2>1, <2>2, <2>3
<1> QED BY <1>1, <1>2, <1>4, <1>5

\* Two texts that are the numbers after k up to n meet at some number.
LEMMA CountMeets ==
    ASSUME NEW k \in Nat, NEW n \in Nat, k <= n, NEW s \in Seq(Nat), NEW t \in Seq(Nat),
           s \o t = Count(k, n)
    PROVE  \E l \in k..n : s = Count(k, l) /\ t = Count(l, n)
<1>1. PICK c \in Seq(Nat) : c = Count(k, n)
  BY CountCounts
<1>2. Len(c) = n - k /\ \A i \in 1..Len(c) : c[i] = k + i
  BY <1>1, CountCounts DEF Counts
<1>3. PICK a \in Nat, b \in Nat : a = Len(s) /\ b = Len(t)
  OBVIOUS
<1>4. /\ Len(c) = a + b
      /\ \A i \in 1..Len(c) : c[i] = IF i <= a THEN s[i] ELSE t[i - a]
  BY <1>1, <1>3, ConcatProperties
<1>5. PICK l \in k..n : l = k + a
  BY <1>2, <1>4
<1>6. l \in Nat /\ k <= l /\ l <= n /\ n = l + b
  BY <1>2, <1>4, <1>5
<1>7. ASSUME NEW i \in 1..Len(s) PROVE s[i] = k + i
  BY <1>2, <1>3, <1>4
<1>8. ASSUME NEW i \in 1..Len(t) PROVE t[i] = l + i
  <2>0. i \in 1..b
    BY <1>3
  <2>1. PICK j \in 1..(a + b) : j = a + i
    BY <2>0
  <2>6. j \in 1..Len(c)
    BY <1>4
  <2>2. c[j] = IF j <= a THEN s[j] ELSE t[j - a]
    BY <1>4, <2>6
  <2>3. ~(j <= a) /\ j - a = i
    BY <2>0, <2>1
  <2>4. c[j] = t[i]
    BY <2>2, <2>3
  <2>5. c[j] = k + j
    BY <1>2, <2>6
  <2> QED BY <1>3, <1>5, <2>1, <2>4, <2>5
<1>9. Counts(s, k, l) /\ Counts(t, l, n)
  BY <1>3, <1>5, <1>6, <1>7, <1>8 DEF Counts
<1> QED BY <1>5, <1>6, <1>9, CountCounts

\* What is left of the answer without the numbers after k up to l.
LEMMA KeptCounts ==
    ASSUME NEW k \in Nat, NEW l \in Nat, said \in Nat, k <= l, l <= said,
           discarded = (k + 1)..l
    PROVE  Kept = Count(0, k) \o Count(l, said)
<1>1. PICK s : s = [n \in 1..said |-> n]
  OBVIOUS
<1>2. s \in Seq(Nat) /\ Len(s) = said /\ \A n \in 1..said : s[n] = n
  BY <1>1
<1>3. PICK D : D = (1..said) \ discarded
  OBVIOUS
<1>4. PICK kept : OnlyInSteps(kept, s, D, Nat)
  BY <1>2, OnlyUnfolds
<1>5. /\ Kept = kept[said] /\ kept[0] = <<>> /\ kept \in [0..said -> Seq(Nat)]
      /\ \A n \in 1..said : kept[n] = IF n \in D THEN Append(kept[n - 1], n) ELSE kept[n - 1]
  <2>1. /\ kept \in [0..Len(s) -> Seq(Nat)] /\ Only(s, D) = kept[Len(s)] /\ kept[0] = <<>>
        /\ \A n \in 1..Len(s) :
              kept[n] = IF s[n] \in D THEN Append(kept[n - 1], s[n]) ELSE kept[n - 1]
    BY <1>4 DEF OnlyInSteps
  <2>2. Kept = Only(s, D)
    BY <1>1, <1>3 DEF Kept
  <2> QED BY <1>2, <2>1, <2>2
<1> DEFINE First(n) == IF n <= k THEN Count(0, n) ELSE Count(0, k)
           Second(n) == IF n <= l THEN <<>> ELSE Count(l, n)
           Right == {n \in Nat : n <= said => kept[n] = First(n) \o Second(n)}
<1>6. Count(0, 0) = <<>> /\ Count(l, l) = <<>>
  BY CountFew
<1>7. ASSUME NEW n \in Nat PROVE First(n) \in Seq(Nat) /\ Second(n) \in Seq(Nat)
  BY CountCounts
<1>8. 0 \in Right
  <2>1. First(0) = <<>> /\ Second(0) = <<>>
    BY <1>6
  <2>2. <<>> \o <<>> = <<>>
    BY ConcatEmptySeq
  <2> HIDE DEF First, Second
  <2> QED BY <1>5, <2>1, <2>2
<1>9. ASSUME NEW n \in Right PROVE n + 1 \in Right
  <2>1. n \in Nat /\ (n <= said => kept[n] = First(n) \o Second(n))
    OBVIOUS
  <2> HIDE DEF Right
  <2>2. PICK m \in Nat : m = n + 1
    BY <2>1
  <2>3. ASSUME m <= said PROVE kept[m] = First(m) \o Second(m)
    <3>1. m \in 1..said /\ m - 1 = n /\ n <= said
      BY <2>1, <2>2, <2>3
    <3>2. PICK a \in Seq(Nat), b \in Seq(Nat) : a = First(n) /\ b = Second(n)
      BY <1>7, <2>1
    <3>3. kept[n] = a \o b
      BY <2>1, <3>1, <3>2
    <3>4. kept[m] = IF m \in D THEN Append(a \o b, m) ELSE a \o b
      BY <1>5, <3>1, <3>3
    <3>5. m \in D <=> m <= k \/ l < m
      BY <1>3, <3>1
    <3>6. CASE m <= k
      <4>1. a = Count(0, n) /\ b = <<>> /\ First(m) = Count(0, m) /\ Second(m) = <<>>
        BY <2>1, <2>2, <3>2, <3>6
      <4>2. Append(a, m) = Count(0, m)
        <5> HIDE DEF First, Second
        <5>1. Append(Count(0, n), n + 1) = Count(0, n + 1)
          <6>1. 0 \in Nat /\ n \in Nat /\ 0 <= n
            BY <2>1
          <6> QED BY <6>1, CountFew
        <5> QED BY <2>2, <4>1, <5>1
      <4>3. a \o b = a /\ Count(0, m) \o <<>> = Count(0, m)
        BY <2>2, <4>1, ConcatEmptySeq, CountCounts
      <4> HIDE DEF First, Second
      <4> QED BY <3>4, <3>5, <3>6, <4>1, <4>2, <4>3
    <3>7. CASE k < m /\ m <= l
      <4>1. a = First(m) /\ b = Second(m)
        <5>1. n <= k => n = k
          BY <2>1, <2>2, <3>7
        <5> QED BY <2>1, <2>2, <3>2, <3>7, <5>1
      <4> HIDE DEF First, Second
      <4> QED BY <3>4, <3>5, <3>7, <4>1
    <3>8. CASE l < m
      <4>1. a = First(m)
        <5>1. n <= k => n = k
          BY <2>1, <2>2, <3>8
        <5> QED BY <2>1, <2>2, <3>2, <3>8, <5>1
      <4>2. b = Count(l, n) /\ Second(m) = Count(l, m)
        <5>1. n <= l => n = l
          BY <2>1, <2>2, <3>8
        <5> QED BY <1>6, <2>1, <2>2, <3>2, <3>8, <5>1
      <4>3. Append(b, m) = Count(l, m)
        <5> HIDE DEF First, Second
        <5>1. Append(Count(l, n), n + 1) = Count(l, n + 1)
          <6>1. n \in Nat /\ l <= n
            BY <2>1, <2>2, <3>8
          <6> QED BY <6>1, CountFew
        <5> QED BY <2>2, <4>2, <5>1
      <4>4. Append(a \o b, m) = a \o Append(b, m)
        <5>1. Append(b, m) = b \o <<m>> /\ <<m>> \in Seq(Nat) /\ a \o b \in Seq(Nat)
          BY AppendIsConcat, ConcatProperties
        <5>2. Append(a \o b, m) = (a \o b) \o <<m>>
          BY <5>1, AppendIsConcat
        <5>3. PICK c \in Seq(Nat) : c = <<m>>
          BY <5>1
        <5>4. (a \o b) \o c = a \o (b \o c)
          BY ConcatAssociative
        <5> QED BY <5>1, <5>2, <5>3, <5>4
      <4> HIDE DEF First, Second
      <4> QED BY <3>4, <3>5, <3>8, <4>1, <4>2, <4>3, <4>4
    <3> HIDE DEF First, Second
    <3> QED BY <2>2, <3>6, <3>7, <3>8
  <2>4. m \in Right
    BY <2>3 DEF Right
  <2> QED BY <2>2, <2>4
<1>10. Nat = Right
  <2>1. Right \subseteq Nat
    OBVIOUS
  <2> HIDE DEF Right
  <2> QED BY <1>8, <1>9, <2>1, InductionOverSets
<1>11. kept[said] = First(said) \o Second(said)
  <2> HIDE DEF First, Second
  <2>1. \A n \in Nat : n <= said => kept[n] = First(n) \o Second(n)
    BY <1>10
  <2>2. said <= said
    OBVIOUS
  <2> QED BY <2>1, <2>2
<1>12. First(said) = Count(0, k)
  BY <1>6
<1>13. Second(said) = Count(l, said)
  BY <1>6
<1> HIDE DEF First, Second, Right
<1> QED BY <1>5, <1>11, <1>12, <1>13

-------------------------------------------------------------------------------
(* Texts of events *)

EventTypes == Terminal \union {"token", "stage"}
Events == {e \in [type : EventTypes, text : Seq(Nat)] : e.type # "token" => e.text = <<>>}

\* The text of events, and of no or one event.
LEMMA TextFew ==
    /\ TextOf(<<>>) = <<>>
    /\ \A e \in Events : e.text \in Seq(Nat) /\ TextOf(<<e>>) = e.text
<1>1. TextOf(<<>>) = <<>>
  <2>1. PICK ss : ss = [i \in 1..0 |-> <<>>[i].text]
    OBVIOUS
  <2>2. ss = <<>>
    BY <2>1
  <2>3. FlattenSeq(ss) = <<>>
    BY <2>2, FlattenFew
  <2>4. Len(<<>>) = 0
    OBVIOUS
  <2> QED BY <2>1, <2>2, <2>3, <2>4 DEF TextOf
<1>2. ASSUME NEW e \in Events PROVE e.text \in Seq(Nat) /\ TextOf(<<e>>) = e.text
  <2>1. PICK x \in Seq(Nat) : x = e.text
    BY DEF Events
  <2>2. PICK ss : ss = [i \in 1..1 |-> <<e>>[i].text]
    OBVIOUS
  <2>3. ss = <<x>>
    BY <2>1, <2>2
  <2>4. FlattenSeq(ss) = x
    BY <2>3, FlattenFew
  <2>5. Len(<<e>>) = 1
    OBVIOUS
  <2> QED BY <2>1, <2>2, <2>4, <2>5 DEF TextOf
<1> QED BY <1>1, <1>2

\* The texts, event by event.
LEMMA TextsOf ==
    ASSUME NEW s \in Seq(Events)
    PROVE  \E ss \in Seq(Seq(Nat)) : /\ TextOf(s) = FlattenSeq(ss) /\ Len(ss) = Len(s)
                                     /\ \A i \in 1..Len(s) : ss[i] = s[i].text
<1>1. PICK n \in Nat : n = Len(s)
  OBVIOUS
<1>2. PICK ss : ss = [i \in 1..n |-> s[i].text]
  OBVIOUS
<1>3. \A i \in 1..n : s[i].text \in Seq(Nat)
  BY <1>1 DEF Events
<1>4. ss \in [1..n -> Seq(Nat)]
  BY <1>2, <1>3
<1>5. ss \in Seq(Seq(Nat)) /\ Len(ss) = n /\ \A i \in 1..n : ss[i] = s[i].text
  BY <1>2, <1>4
<1>6. TextOf(s) = FlattenSeq(ss)
  BY <1>1, <1>2 DEF TextOf
<1> QED BY <1>1, <1>5, <1>6

\* The text of events in two parts.
LEMMA TextConcat ==
    ASSUME NEW s \in Seq(Events), NEW t \in Seq(Events)
    PROVE  TextOf(s) \in Seq(Nat) /\ TextOf(s \o t) = TextOf(s) \o TextOf(t)
<1>1. PICK ss \in Seq(Seq(Nat)) : /\ TextOf(s) = FlattenSeq(ss) /\ Len(ss) = Len(s)
                                  /\ \A i \in 1..Len(s) : ss[i] = s[i].text
  BY TextsOf
<1>2. PICK tt \in Seq(Seq(Nat)) : /\ TextOf(t) = FlattenSeq(tt) /\ Len(tt) = Len(t)
                                  /\ \A i \in 1..Len(t) : tt[i] = t[i].text
  BY TextsOf
<1>3. PICK u \in Seq(Events) : u = s \o t
  BY ConcatProperties
<1>4. PICK uu \in Seq(Seq(Nat)) : /\ TextOf(u) = FlattenSeq(uu) /\ Len(uu) = Len(u)
                                  /\ \A i \in 1..Len(u) : uu[i] = u[i].text
  BY TextsOf
<1>5. PICK v \in Seq(Seq(Nat)) : v = ss \o tt
  BY ConcatProperties
<1> DEFINE n == Len(s)
           m == Len(t)
<1>11. n \in Nat /\ m \in Nat /\ n = Len(ss) /\ m = Len(tt)
  BY <1>1, <1>2
<1>6. Len(u) = n + m /\ \A i \in 1..(n + m) : u[i] = IF i <= n THEN s[i] ELSE t[i - n]
  BY <1>3, ConcatProperties
<1>7. Len(v) = n + m /\ \A i \in 1..(n + m) : v[i] = IF i <= n THEN ss[i] ELSE tt[i - n]
  <2>1. /\ Len(v) = Len(ss) + Len(tt)
        /\ \A i \in 1..(Len(ss) + Len(tt)) :
               v[i] = IF i <= Len(ss) THEN ss[i] ELSE tt[i - Len(ss)]
    BY <1>5, ConcatProperties
  <2> HIDE DEF n, m
  <2> QED BY <1>11, <2>1
<1>12. /\ \A i \in 1..n : ss[i] = s[i].text
       /\ \A i \in 1..m : tt[i] = t[i].text
       /\ \A i \in 1..(n + m) : uu[i] = u[i].text
  BY <1>1, <1>2, <1>4, <1>6
<1>8. ASSUME NEW i \in 1..(n + m) PROVE uu[i] = v[i]
  <2> HIDE DEF n, m
  <2>1. uu[i] = u[i].text
    BY <1>12
  <2>2. CASE i <= n
    <3>1. i \in 1..n
      BY <1>11, <2>2
    <3>3. ss[i] = s[i].text
      BY <1>12, <3>1
    <3>2. u[i] = s[i] /\ v[i] = ss[i]
      BY <1>6, <1>7, <2>2
    <3> QED BY <2>1, <3>2, <3>3
  <2>3. CASE ~(i <= n)
    <3>0. n \in Nat /\ m \in Nat
      BY <1>11
    <3>1. PICK j \in 1..m : j = i - n
      <4>1. i - n \in 1..m
        BY <2>3, <3>0
      <4> QED BY <4>1
    <3>2. u[i] = t[j]
      BY <1>6, <2>3, <3>1
    <3>3. v[i] = tt[j]
      BY <1>7, <2>3, <3>1
    <3>4. tt[j] = t[j].text
      BY <1>12
    <3> QED BY <2>1, <3>2, <3>3, <3>4
  <2> QED BY <2>2, <2>3
<1>9. uu = v
  <2>1. Len(uu) = n + m /\ Len(v) = n + m
    BY <1>4, <1>6, <1>7
  <2> HIDE DEF n, m
  <2> QED BY <1>8, <2>1, SeqEqual
<1>10. FlattenSeq(ss) \in Seq(Nat) /\ FlattenSeq(v) = FlattenSeq(ss) \o FlattenSeq(tt)
  BY <1>5, FlattenConcat
<1> QED BY <1>1, <1>2, <1>3, <1>4, <1>9, <1>10

\* The text of events that have none.
LEMMA TextSilent ==
    ASSUME NEW s \in Seq(Events), \A i \in 1..Len(s) : s[i].text = <<>>
    PROVE  TextOf(s) = <<>>
<1>1. PICK ss \in Seq(Seq(Nat)) : /\ TextOf(s) = FlattenSeq(ss) /\ Len(ss) = Len(s)
                                  /\ \A i \in 1..Len(s) : ss[i] = s[i].text
  BY TextsOf
<1>2. PICK f : FlattenInSteps(f, ss, Nat)
  BY FlattenUnfolds
<1>3. PICK n \in Nat : n = Len(s)
  OBVIOUS
<1>4. /\ f[0] = <<>> /\ FlattenSeq(ss) = f[n]
      /\ \A i \in 1..n : f[i] = f[i - 1] \o <<>>
  BY <1>1, <1>2, <1>3 DEF FlattenInSteps
<1> DEFINE Empty == {i \in Nat : i <= n => f[i] = <<>>}
<1>5. 0 \in Empty
  BY <1>4
<1>6. ASSUME NEW i \in Empty PROVE i + 1 \in Empty
  <2>1. i \in Nat /\ (i <= n => f[i] = <<>>)
    OBVIOUS
  <2> HIDE DEF Empty
  <2>2. PICK j \in Nat : j = i + 1
    BY <2>1
  <2>3. ASSUME j <= n PROVE f[j] = <<>>
    <3>1. j \in 1..n /\ j - 1 = i /\ i <= n
      BY <2>1, <2>2, <2>3
    <3>2. f[j] = f[i] \o <<>> /\ f[i] = <<>>
      BY <1>4, <2>1, <3>1
    <3>3. <<>> \o <<>> = <<>>
      BY ConcatEmptySeq
    <3> QED BY <3>2, <3>3
  <2>4. j \in Empty
    BY <2>3 DEF Empty
  <2> QED BY <2>2, <2>4
<1>7. Nat = Empty
  <2>1. Empty \subseteq Nat
    OBVIOUS
  <2> HIDE DEF Empty
  <2> QED BY <1>5, <1>6, <2>1, InductionOverSets
<1>8. f[n] = <<>>
  BY <1>7
<1> QED BY <1>1, <1>4, <1>8

\* The text of events, from the first one, and to the last one.
LEMMA TextEnds ==
    ASSUME NEW s \in Seq(Events)
    PROVE  /\ \A e \in Events : TextOf(Append(s, e)) = TextOf(s) \o e.text
           /\ s # <<>> => TextOf(s) = Head(s).text \o TextOf(Tail(s))
<1>1. ASSUME NEW e \in Events PROVE TextOf(Append(s, e)) = TextOf(s) \o e.text
  <2>1. PICK t : t = <<e>>
    OBVIOUS
  <2>t. t \in Seq(Events) /\ Len(t) = 1 /\ t[1] = e
    BY <2>1
  <2>2. Append(s, e) = s \o t
    BY <2>1, AppendIsConcat
  <2>3. TextOf(s \o t) = TextOf(s) \o TextOf(t)
    BY <2>t, TextConcat
  <2>4. TextOf(t) = e.text
    BY <2>1, TextFew
  <2> QED BY <2>2, <2>3, <2>4
<1>2. ASSUME s # <<>> PROVE TextOf(s) = Head(s).text \o TextOf(Tail(s))
  <2>1. PICK e \in Events, r \in Seq(Events) : e = Head(s) /\ r = Tail(s)
    BY <1>2, HeadTailProperties
  <2>2. PICK t : t = <<e>>
    OBVIOUS
  <2>t. t \in Seq(Events) /\ Len(t) = 1 /\ t[1] = e
    BY <2>2
  <2>3. s = t \o r
    <3>1. PICK u \in Seq(Events) : u = t \o r
      BY <2>t, ConcatProperties
    <3>2. Len(t) = 1 /\ t[1] = e
      BY <2>t
    <3>3. /\ Len(u) = 1 + Len(r)
          /\ \A i \in 1..Len(u) : u[i] = IF i <= 1 THEN t[i] ELSE r[i - 1]
      <4>1. /\ Len(u) = Len(t) + Len(r)
            /\ \A i \in 1..(Len(t) + Len(r)) :
                   u[i] = IF i <= Len(t) THEN t[i] ELSE r[i - Len(t)]
        BY <2>t, <3>1, ConcatProperties
      <4> QED BY <3>2, <4>1
    <3>4. /\ e = s[1] /\ Len(r) = Len(s) - 1 /\ Len(s) \in Nat \ {0}
          /\ \A i \in 1..Len(r) : r[i] = s[i + 1]
      BY <1>2, <2>1, HeadTailProperties
    <3>5. ASSUME NEW i \in 1..Len(s) PROVE s[i] = u[i]
      <4>1. CASE i = 1
        BY <3>2, <3>3, <3>4, <4>1
      <4>2. CASE i # 1
        <5>1. PICK j \in 1..Len(r) : j = i - 1 /\ i = j + 1
          BY <3>4, <4>2
        <5> QED BY <3>3, <3>4, <4>2, <5>1
      <4> QED BY <4>1, <4>2
    <3>6. Len(u) = Len(s)
      BY <3>3, <3>4
    <3> QED BY <3>1, <3>5, <3>6, SeqEqual
  <2>4. TextOf(t) = e.text /\ TextOf(t \o r) = TextOf(t) \o TextOf(r)
    BY <2>2, <2>t, TextConcat, TextFew
  <2> QED BY <2>1, <2>3, <2>4
<1> QED BY <1>1, <1>2

\* An element after the second of two sequences.
LEMMA AppendAfter ==
    ASSUME NEW x \in Seq(Nat), NEW t \in Seq(Nat), NEW n \in Nat
    PROVE  x \o Append(t, n) = Append(x \o t, n)
<1>1. PICK y : y = <<n>>
  OBVIOUS
<1>5. y \in Seq(Nat)
  BY <1>1
<1>2. PICK z \in Seq(Nat) : z = x \o t
  BY ConcatProperties
<1>3. Append(t, n) = t \o y /\ Append(z, n) = z \o y
  BY <1>1, AppendIsConcat
<1>4. (x \o t) \o y = x \o (t \o y)
  BY <1>5, ConcatAssociative
<1> QED BY <1>2, <1>3, <1>4

\* Some events, one of them, and those before and after it.
Splits(c, p, a, b) ==
    /\ c \in Seq(Events) /\ p \in 1..Len(c)
    /\ a \in Seq(Events) /\ Len(a) = p - 1 /\ \A i \in 1..Len(a) : a[i] = c[i]
    /\ b \in Seq(Events) /\ Len(b) = Len(c) - p /\ \A i \in 1..Len(b) : b[i] = c[p + i]

\* Around one of them, events are two sequences of events.
LEMMA SplitsThere ==
    ASSUME NEW c \in Seq(Events), NEW p \in 1..Len(c)
    PROVE  Splits(c, p, SubSeq(c, 1, p - 1), SubSeq(c, p + 1, Len(c)))
<1>0. PICK m \in Nat : m = Len(c) /\ p \in 1..m
  OBVIOUS
<1>1. PICK a, b : a = SubSeq(c, 1, p - 1) /\ b = SubSeq(c, p + 1, m)
  OBVIOUS
<1>2. \A i \in 1..m : c[i] \in Events
  BY <1>0
<1>3. /\ a \in Seq(Events) /\ Len(a) = p - 1
      /\ \A i \in 1..(p - 1) : a[i] = c[i]
  <2>1. 1 \in Int /\ p - 1 \in Int /\ \A i \in 1..(p - 1) : c[i] \in Events
    BY <1>0, <1>2
  <2>2. /\ SubSeq(c, 1, p - 1) \in Seq(Events)
        /\ Len(SubSeq(c, 1, p - 1)) = IF 1 <= p - 1 THEN p - 1 - 1 + 1 ELSE 0
        /\ \A i \in 1..(p - 1 - 1 + 1) : SubSeq(c, 1, p - 1)[i] = c[1 + i - 1]
    BY <2>1, SubSeqProperties
  <2>3. (IF 1 <= p - 1 THEN p - 1 - 1 + 1 ELSE 0) = p - 1
    BY <1>0
  <2>4. ASSUME NEW i \in 1..(p - 1) PROVE a[i] = c[i]
    <3>1. i \in 1..(p - 1 - 1 + 1) /\ 1 + i - 1 = i
      BY <1>0
    <3> QED BY <1>1, <2>2, <3>1
  <2> QED BY <1>1, <2>2, <2>3, <2>4
<1>4. /\ b \in Seq(Events) /\ Len(b) = m - p
      /\ \A i \in 1..(m - p) : b[i] = c[p + i]
  <2>1. p + 1 \in Int /\ m \in Int /\ \A i \in (p + 1)..m : c[i] \in Events
    BY <1>0, <1>2
  <2>2. /\ SubSeq(c, p + 1, m) \in Seq(Events)
        /\ Len(SubSeq(c, p + 1, m)) = IF p + 1 <= m THEN m - (p + 1) + 1 ELSE 0
        /\ \A i \in 1..(m - (p + 1) + 1) : SubSeq(c, p + 1, m)[i] = c[(p + 1) + i - 1]
    BY <2>1, SubSeqProperties
  <2>3. (IF p + 1 <= m THEN m - (p + 1) + 1 ELSE 0) = m - p
    BY <1>0
  <2>4. ASSUME NEW i \in 1..(m - p) PROVE b[i] = c[p + i]
    <3>1. i \in 1..(m - (p + 1) + 1) /\ (p + 1) + i - 1 = p + i
      BY <1>0
    <3> QED BY <1>1, <2>2, <3>1
  <2> QED BY <1>1, <2>2, <2>3, <2>4
<1> QED BY <1>0, <1>1, <1>3, <1>4 DEF Splits

\* The text of events around one of them.
LEMMA SplitsText ==
    ASSUME NEW c, NEW p, NEW x, NEW y, Splits(c, p, x, y)
    PROVE  TextOf(c) = (TextOf(x) \o c[p].text) \o TextOf(y)
<1>0. PICK m \in Nat : m = Len(c) /\ p \in 1..m /\ c \in Seq(Events)
  BY DEF Splits
<1>1. /\ x \in Seq(Events) /\ Len(x) = p - 1 /\ \A i \in 1..(p - 1) : x[i] = c[i]
      /\ y \in Seq(Events) /\ Len(y) = m - p /\ \A i \in 1..(m - p) : y[i] = c[p + i]
  BY <1>0 DEF Splits
<1>2. PICK e \in Events : e = c[p]
  BY <1>0
<1>3. PICK z : z = Append(x, e)
  OBVIOUS
<1>4. /\ z \in Seq(Events) /\ Len(z) = p /\ z[p] = e /\ \A i \in 1..(p - 1) : z[i] = x[i]
  <2>1. /\ z \in Seq(Events) /\ Len(z) = Len(x) + 1 /\ z[Len(x) + 1] = e
        /\ \A i \in 1..Len(x) : z[i] = x[i]
    BY <1>1, <1>3, AppendProperties
  <2>2. Len(x) + 1 = p
    BY <1>0, <1>1
  <2> QED BY <1>1, <2>1, <2>2
<1>5. PICK u : u = z \o y
  OBVIOUS
<1>6. /\ u \in Seq(Events) /\ Len(u) = m
      /\ \A i \in 1..m : u[i] = IF i <= p THEN z[i] ELSE y[i - p]
  <2>1. /\ u \in Seq(Events) /\ Len(u) = Len(z) + Len(y)
        /\ \A i \in 1..(Len(z) + Len(y)) : u[i] = IF i <= Len(z) THEN z[i] ELSE y[i - Len(z)]
    BY <1>1, <1>4, <1>5, ConcatProperties
  <2>2. Len(z) + Len(y) = m
    BY <1>0, <1>1, <1>4
  <2> QED BY <1>4, <2>1, <2>2
<1>7. ASSUME NEW i \in 1..m PROVE u[i] = c[i]
  <2>1. CASE i <= p - 1
    BY <1>0, <1>1, <1>4, <1>6, <2>1
  <2>2. CASE i = p
    BY <1>0, <1>2, <1>4, <1>6, <2>2
  <2>3. CASE i > p
    <3>1. i - p \in 1..(m - p) /\ p + (i - p) = i /\ ~(i <= p)
      BY <1>0, <2>3
    <3>2. y[i - p] = c[p + (i - p)]
      BY <1>1, <3>1
    <3> QED BY <1>6, <3>1, <3>2
  <2> QED BY <1>0, <2>1, <2>2, <2>3
<1>8. u = c
  BY <1>0, <1>6, <1>7, SeqEqual
<1>9. TextOf(u) = TextOf(z) \o TextOf(y)
  BY <1>1, <1>4, <1>5, TextConcat
<1>10. TextOf(z) = TextOf(x) \o e.text
  BY <1>1, <1>3, TextEnds
<1> QED BY <1>2, <1>8, <1>9, <1>10

\* Without one event, the others are as they were; so is the text, if it had none.
Lacks(d, c, p) ==
    /\ d \in Seq(Events) /\ Len(d) = Len(c) - 1
    /\ \A j \in 1..Len(d) : d[j] = IF j < p THEN c[j] ELSE c[j + 1]
    /\ c[p].text = <<>> => TextOf(d) = TextOf(c)

\* RemoveAt takes out that event and no other.
LEMMA RemovedAt ==
    ASSUME NEW c \in Seq(Events), NEW p \in 1..Len(c)
    PROVE  Lacks(RemoveAt(c, p), c, p)
<1>0. PICK m \in Nat : m = Len(c) /\ p \in 1..m
  OBVIOUS
<1>1. PICK a, b : a = SubSeq(c, 1, p - 1) /\ b = SubSeq(c, p + 1, m)
  OBVIOUS
<1>2. Splits(c, p, a, b) /\ TextOf(c) = (TextOf(a) \o c[p].text) \o TextOf(b)
  <2>1. Splits(c, p, a, b)
    BY <1>0, <1>1, SplitsThere
  <2> QED BY <2>1, SplitsText
<1>3. /\ a \in Seq(Events) /\ Len(a) = p - 1 /\ \A i \in 1..(p - 1) : a[i] = c[i]
      /\ b \in Seq(Events) /\ Len(b) = m - p /\ \A i \in 1..(m - p) : b[i] = c[p + i]
  BY <1>0, <1>2 DEF Splits
<1>4. PICK d : d = a \o b
  OBVIOUS
<1>5. d = RemoveAt(c, p)
  BY <1>0, <1>1, <1>4 DEF RemoveAt
<1>6. /\ d \in Seq(Events) /\ Len(d) = m - 1
      /\ \A i \in 1..(m - 1) : d[i] = IF i <= p - 1 THEN a[i] ELSE b[i - (p - 1)]
  <2>1. /\ d \in Seq(Events) /\ Len(d) = Len(a) + Len(b)
        /\ \A i \in 1..(Len(a) + Len(b)) : d[i] = IF i <= Len(a) THEN a[i] ELSE b[i - Len(a)]
    BY <1>3, <1>4, ConcatProperties
  <2>2. Len(a) + Len(b) = m - 1
    BY <1>0, <1>3
  <2> QED BY <1>3, <2>1, <2>2
<1>7. ASSUME NEW j \in 1..(m - 1) PROVE d[j] = IF j < p THEN c[j] ELSE c[j + 1]
  <2>1. CASE j < p
    <3>1. j <= p - 1 /\ j \in 1..(p - 1)
      BY <1>0, <2>1
    <3> QED BY <1>3, <1>6, <2>1, <3>1
  <2>2. CASE ~(j < p)
    <3>1. ~(j <= p - 1) /\ j - (p - 1) \in 1..(m - p) /\ p + (j - (p - 1)) = j + 1
      BY <1>0, <2>2
    <3>2. b[j - (p - 1)] = c[p + (j - (p - 1))]
      BY <1>3, <3>1
    <3> QED BY <1>6, <2>2, <3>1, <3>2
  <2> QED BY <2>1, <2>2
<1>8. ASSUME c[p].text = <<>> PROVE TextOf(d) = TextOf(c)
  <2>1. TextOf(d) = TextOf(a) \o TextOf(b) /\ TextOf(a) \in Seq(Nat)
    BY <1>3, <1>4, TextConcat
  <2>2. TextOf(a) \o <<>> = TextOf(a)
    BY <2>1, ConcatEmptySeq
  <2> QED BY <1>2, <1>8, <2>1, <2>2
<1> QED BY <1>0, <1>5, <1>6, <1>7, <1>8 DEF Lacks

\* A piece that grows: no other event changes, and the text grows if no text follows it.
Grows(d, c, p, n) ==
    /\ d \in Seq(Events) /\ Len(d) = Len(c)
    /\ \A j \in 1..Len(c) : d[j].type = c[j].type
    /\ (\A i \in (p + 1)..Len(c) : c[i].text = <<>>) => TextOf(d) = Append(TextOf(c), n)

\* A number appended to the text of one event makes just that piece grow.
LEMMA GrownThere ==
    ASSUME NEW c \in Seq(Events), NEW p \in 1..Len(c), NEW n \in Nat, c[p].type = "token"
    PROVE  Grows([c EXCEPT ![p].text = Append(@, n)], c, p, n)
<1>0. PICK m \in Nat : m = Len(c) /\ p \in 1..m
  OBVIOUS
<1>1. PICK e \in Events : e = c[p]
  BY <1>0
<1>2. PICK f : f = [e EXCEPT !.text = Append(@, n)]
  OBVIOUS
<1>3. PICK t \in Seq(Nat) : t = e.text
  BY DEF Events
<1>4. f \in Events /\ f.type = e.type /\ f.text = Append(t, n)
  <2>1. e \in [type : EventTypes, text : Seq(Nat)] /\ e.type = "token"
    BY <1>1 DEF Events
  <2>2. Append(t, n) \in Seq(Nat)
    BY AppendProperties
  <2>3. f \in [type : EventTypes, text : Seq(Nat)] /\ f.type = e.type /\ f.text = Append(t, n)
    BY <1>2, <1>3, <2>1, <2>2
  <2> QED BY <2>1, <2>3 DEF Events
<1>5. PICK d : d = [c EXCEPT ![p] = f]
  OBVIOUS
<1>6. d = [c EXCEPT ![p].text = Append(@, n)]
  BY <1>1, <1>2, <1>5
<1>7. /\ d \in Seq(Events) /\ Len(d) = m
      /\ \A j \in 1..m : d[j] = IF j = p THEN f ELSE c[j]
  BY <1>0, <1>4, <1>5, ExceptSeq
<1>8. \A j \in 1..m : d[j].type = c[j].type
  BY <1>1, <1>4, <1>7
<1>9. ASSUME \A i \in (p + 1)..m : c[i].text = <<>>
      PROVE  TextOf(d) = Append(TextOf(c), n)
  <2>1. PICK a, b : Splits(c, p, a, b)
    BY SplitsThere
  <2>2. /\ a \in Seq(Events) /\ Len(a) = p - 1 /\ \A i \in 1..(p - 1) : a[i] = c[i]
        /\ b \in Seq(Events) /\ Len(b) = m - p /\ \A i \in 1..(m - p) : b[i] = c[p + i]
    BY <1>0, <2>1 DEF Splits
  <2>3. \A i \in 1..(p - 1) : a[i] = d[i]
    <3>1. ASSUME NEW i \in 1..(p - 1) PROVE a[i] = d[i]
      <4>1. i \in 1..m /\ i # p
        BY <1>0
      <4> QED BY <1>7, <2>2, <4>1
    <3> QED BY <3>1
  <2>4. \A i \in 1..(m - p) : b[i] = d[p + i]
    <3>1. ASSUME NEW i \in 1..(m - p) PROVE b[i] = d[p + i]
      <4>1. p + i \in 1..m /\ p + i # p
        BY <1>0
      <4> QED BY <1>7, <2>2, <4>1
    <3> QED BY <3>1
  <2>5. Splits(d, p, a, b)
    BY <1>0, <1>7, <2>2, <2>3, <2>4 DEF Splits
  <2>6. d[p] = f /\ p \in 1..Len(d)
    BY <1>0, <1>7
  <2>7. TextOf(b) = <<>>
    <3>1. ASSUME NEW i \in 1..(m - p) PROVE b[i].text = <<>>
      <4>1. p + i \in (p + 1)..m
        BY <1>0
      <4> QED BY <1>9, <2>2, <4>1
    <3> QED BY <2>2, <3>1, TextSilent
  <2>8. PICK x \in Seq(Nat), z \in Seq(Nat) : x = TextOf(a) /\ z = x \o t
    BY <2>2, TextConcat, ConcatProperties
  <2>9. z \o <<>> = z
    BY ConcatEmptySeq
  <2>10. TextOf(c) = z
    <3>1. TextOf(c) = (TextOf(a) \o c[p].text) \o TextOf(b)
      BY <2>1, SplitsText
    <3>2. c[p].text = t
      BY <1>1, <1>3
    <3> QED BY <2>7, <2>8, <2>9, <3>1, <3>2
  <2>11. TextOf(d) = (x \o Append(t, n)) \o <<>>
    <3>1. TextOf(d) = (TextOf(a) \o d[p].text) \o TextOf(b)
      BY <2>5, SplitsText
    <3> QED BY <1>4, <2>6, <2>7, <2>8, <3>1
  <2>12. x \o Append(t, n) = Append(z, n)
    BY <2>8, AppendAfter
  <2>13. Append(z, n) \o <<>> = Append(z, n)
    BY AppendProperties, ConcatEmptySeq
  <2> QED BY <2>10, <2>11, <2>12, <2>13
<1> QED BY <1>0, <1>6, <1>7, <1>8, <1>9 DEF Grows

-------------------------------------------------------------------------------
(* What becomes of the channel *)

NoEnd(s) == \A i \in 1..Len(s) : s[i].type \notin Terminal

\* A channel of pieces and stages, of which there are not too many, with this text.
Carries(c, text) ==
    c \in Seq(Events) /\ Len(c) <= MaxItems /\ NoEnd(c) /\ TextOf(c) = text

\* The first and the last place of some types.
LEMMA FirstAndLast ==
    ASSUME channel \in Seq(Events), NEW types, Places(types) # {}
    PROVE  /\ Min(Places(types)) \in 1..Len(channel) /\ Max(Places(types)) \in 1..Len(channel)
           /\ channel[Min(Places(types))].type \in types
           /\ channel[Max(Places(types))].type \in types
           /\ \A i \in 1..Len(channel) : channel[i].type \in types =>
                  Min(Places(types)) <= i /\ i <= Max(Places(types))
<1>1. PICK n \in Nat : n = Len(channel)
  OBVIOUS
<1>2. PICK S \in SUBSET (1..n) : S = Places(types) /\ S # {}
  BY <1>1 DEF Places
<1>3. \A i \in 1..n : i \in S <=> channel[i].type \in types
  BY <1>1, <1>2 DEF Places
<1>4. Min(S) \in S /\ Max(S) \in S /\ \A x \in S : Min(S) <= x /\ x <= Max(S)
  BY <1>2, Extremes
<1>5. Min(S) \in 1..n /\ Max(S) \in 1..n
  BY <1>4
<1> QED BY <1>1, <1>2, <1>3, <1>4, <1>5

\* Only pieces have a text.
LEMMA OthersAreSilent ==
    ASSUME NEW c \in Seq(Events), NEW i \in 1..Len(c), c[i].type # "token"
    PROVE  c[i].text = <<>>
<1>1. c[i] \in Events
  OBVIOUS
<1> QED BY <1>1 DEF Events

\* A new event at the end.
LEMMA AppendCarries ==
    ASSUME NEW c, NEW text \in Seq(Nat), Carries(c, text), Len(c) < MaxItems,
           NEW e \in Events, e.type \notin Terminal
    PROVE  Carries(Append(c, e), text \o e.text)
<1>1. c \in Seq(Events) /\ NoEnd(c) /\ TextOf(c) = text
  BY DEF Carries
<1>2. PICK d : d = Append(c, e)
  OBVIOUS
<1>3. /\ d \in Seq(Events) /\ Len(d) = Len(c) + 1 /\ d[Len(c) + 1] = e
      /\ \A i \in 1..Len(c) : d[i] = c[i]
  BY <1>1, <1>2, AppendProperties
<1>4. TextOf(d) = text \o e.text
  BY <1>1, <1>2, TextEnds
<1>5. ASSUME NEW i \in 1..Len(d) PROVE d[i].type \notin Terminal
  <2>1. CASE i = Len(c) + 1
    BY <1>3, <2>1
  <2>2. CASE i # Len(c) + 1
    <3>1. i \in 1..Len(c)
      BY <1>1, <1>3, <2>2
    <3> QED BY <1>1, <1>3, <3>1 DEF NoEnd
  <2> QED BY <2>1, <2>2
<1>6. Len(d) <= MaxItems
  <2>1. Len(c) \in Nat /\ MaxItems \in Nat
    BY <1>1, StreamAssumption
  <2> QED BY <1>3, <2>1
<1> QED BY <1>2, <1>3, <1>4, <1>5, <1>6 DEF Carries, NoEnd

\* Without the first stage (_discard_nonterminal_event_locked).
LEMMA StageGoes ==
    ASSUME NEW text, Carries(channel, text), Places({"stage"}) # {}
    PROVE  /\ Carries(WithoutStage, text) /\ Len(WithoutStage) < MaxItems
           /\ \A i \in Places({"token"}) :
                  \E j \in 1..Len(WithoutStage) : WithoutStage[j] = channel[i]
<1>1. channel \in Seq(Events) /\ Len(channel) <= MaxItems /\ NoEnd(channel)
      /\ TextOf(channel) = text
  BY DEF Carries
<1>2. PICK p \in 1..Len(channel) : p = Min(Places({"stage"})) /\ channel[p].type = "stage"
  BY <1>1, FirstAndLast
<1>3. channel[p].text = <<>>
  BY <1>1, <1>2, OthersAreSilent
<1>4. PICK d : d = WithoutStage
  OBVIOUS
<1>5. Lacks(d, channel, p)
  BY <1>1, <1>2, <1>4, RemovedAt DEF WithoutStage
<1>6. PICK n \in Nat : n = Len(channel) /\ p \in 1..n
  BY <1>1
<1>7. /\ d \in Seq(Events) /\ Len(d) = n - 1 /\ TextOf(d) = text
      /\ \A j \in 1..(n - 1) : d[j] = IF j < p THEN channel[j] ELSE channel[j + 1]
  BY <1>1, <1>3, <1>5, <1>6 DEF Lacks
<1>8. n - 1 < MaxItems /\ n - 1 <= MaxItems
  BY <1>1, <1>6, StreamAssumption
<1>9. ASSUME NEW j \in 1..(n - 1) PROVE d[j].type \notin Terminal
  <2>1. j \in 1..n /\ j + 1 \in 1..n
    BY <1>6
  <2> QED BY <1>1, <1>6, <1>7, <2>1 DEF NoEnd
<1>10. ASSUME NEW i \in Places({"token"}) PROVE \E j \in 1..(n - 1) : d[j] = channel[i]
  <2>1. i \in 1..n /\ i # p
    BY <1>2, <1>6 DEF Places
  <2>2. CASE i < p
    <3>1. i \in 1..(n - 1)
      BY <1>6, <2>1, <2>2
    <3> QED BY <1>7, <2>2, <3>1
  <2>3. CASE i > p
    <3>1. i - 1 \in 1..(n - 1) /\ ~(i - 1 < p) /\ (i - 1) + 1 = i
      BY <1>6, <2>1, <2>3
    <3> QED BY <1>7, <3>1
  <2> QED BY <1>6, <2>1, <2>2, <2>3
<1> QED BY <1>4, <1>7, <1>8, <1>9, <1>10 DEF Carries, NoEnd

\* A channel of pieces and stages that is full has one or the other.
LEMMA FullOfSomething ==
    ASSUME NEW text, Carries(channel, text), Full,
           Places({"token"}) = {}, Places({"stage"}) = {}
    PROVE  FALSE
<1>1. channel \in Seq(Events) /\ NoEnd(channel) /\ Len(channel) >= MaxItems
  BY DEF Carries, Full
<1>2. Len(channel) \in Nat /\ Len(channel) >= 1
  BY <1>1, StreamAssumption
<1>3. 1 \in 1..Len(channel) /\ channel[1] \in Events
  BY <1>1, <1>2
<1>4. channel[1].type \in {"token", "stage"}
  BY <1>1, <1>3 DEF Events, EventTypes, NoEnd
<1> QED BY <1>3, <1>4 DEF Places

\* A token joins a piece or makes one: the text grows by it (BoundedEventChannel.put).
LEMMA TokenIsPut ==
    ASSUME NEW text \in Seq(Nat), Carries(channel, text), NEW n \in Nat, NEW d \in PutToken(n)
    PROVE  Carries(d, Append(text, n))
<1>1. channel \in Seq(Events) /\ Len(channel) <= MaxItems /\ NoEnd(channel)
      /\ TextOf(channel) = text
  BY DEF Carries
<1>2. PICK e : e = Event("token", <<n>>)
  OBVIOUS
<1>3. e \in Events /\ e.type \notin Terminal /\ text \o e.text = Append(text, n)
  <2>1. e = [type |-> "token", text |-> <<n>>]
    BY <1>2 DEF Event
  <2>2. <<n>> \in Seq(Nat)
    OBVIOUS
  <2>3. e \in Events /\ e.type \notin Terminal
    BY <2>1, <2>2 DEF Events, EventTypes, Terminal
  <2>4. text \o <<n>> = Append(text, n)
    BY AppendIsConcat
  <2> QED BY <2>1, <2>3, <2>4
<1>4. Len(channel) \in Nat /\ MaxItems \in Nat
  BY <1>1, StreamAssumption
<1>5. CASE ~Full /\ d = Append(channel, e)
  <2>1. Len(channel) < MaxItems
    BY <1>4, <1>5 DEF Full
  <2> QED BY <1>3, <1>5, <2>1, AppendCarries
<1>6. CASE Places({"token"}) # {} /\ d = Grown(n)
  <2>1. PICK p \in 1..Len(channel) : p = Max(Places({"token"})) /\ channel[p].type = "token"
    BY <1>1, <1>6, FirstAndLast
  <2>2. \A i \in 1..Len(channel) : channel[i].type = "token" => i <= p
    BY <1>1, <1>6, <2>1, FirstAndLast
  <2>3. Grows(d, channel, p, n)
    BY <1>1, <1>6, <2>1, GrownThere DEF Grown
  <2>4. ASSUME NEW i \in (p + 1)..Len(channel) PROVE channel[i].text = <<>>
    <3>1. i \in 1..Len(channel) /\ ~(i <= p)
      BY <1>4
    <3> QED BY <1>1, <2>2, <3>1, OthersAreSilent
  <2>5. d \in Seq(Events) /\ Len(d) = Len(channel) /\ TextOf(d) = Append(text, n)
        /\ \A j \in 1..Len(channel) : d[j].type = channel[j].type
    BY <1>1, <2>3, <2>4 DEF Grows
  <2> QED BY <1>1, <2>5 DEF Carries, NoEnd
<1>7. CASE Full /\ Places({"stage"}) # {} /\ d = Append(WithoutStage, e)
  BY <1>3, <1>7, StageGoes, AppendCarries
<1>8. CASE Full /\ Places({"token"}) = {} /\ Places({"stage"}) = {}
  BY <1>8, FullOfSomething
<1>9. \/ ~Full /\ d = Append(channel, e)
      \/ Places({"token"}) # {} /\ d = Grown(n)
      \/ Full /\ Places({"stage"}) # {} /\ d = Append(WithoutStage, e)
      \/ Full /\ Places({"token"}) = {} /\ Places({"stage"}) = {}
  BY <1>2 DEF PutToken
<1> QED BY <1>5, <1>6, <1>7, <1>8, <1>9

\* A stage changes nothing of the text.
LEMMA StageIsPut ==
    ASSUME NEW text \in Seq(Nat), Carries(channel, text)
    PROVE  Carries(PutStage, text)
<1>1. channel \in Seq(Events) /\ Len(channel) <= MaxItems
  BY DEF Carries
<1>2. PICK e : e = Event("stage", <<>>)
  OBVIOUS
<1>3. e \in Events /\ e.type \notin Terminal /\ text \o e.text = text
  <2>1. e = [type |-> "stage", text |-> <<>>]
    BY <1>2 DEF Event
  <2>2. e \in Events /\ e.type \notin Terminal
    BY <2>1 DEF Events, EventTypes, Terminal
  <2>3. text \o <<>> = text
    BY ConcatEmptySeq
  <2> QED BY <2>1, <2>2, <2>3
<1>4. Len(channel) \in Nat /\ MaxItems \in Nat
  BY <1>1, StreamAssumption
<1>5. CASE ~Full
  <2>1. Len(channel) < MaxItems /\ PutStage = Append(channel, e)
    BY <1>2, <1>4, <1>5 DEF Full, PutStage
  <2>2. Carries(Append(channel, e), text \o e.text)
    BY <1>3, <2>1, AppendCarries
  <2> QED BY <1>3, <2>1, <2>2
<1>6. CASE Full /\ Places({"stage"}) # {}
  <2>1. PutStage = Append(WithoutStage, e)
    BY <1>2, <1>6 DEF PutStage
  <2>2. Carries(WithoutStage, text) /\ Len(WithoutStage) < MaxItems
    BY <1>6, StageGoes
  <2>3. Carries(Append(WithoutStage, e), text \o e.text)
    BY <1>3, <2>2, AppendCarries
  <2> QED BY <1>3, <2>1, <2>3
<1>7. CASE Full /\ Places({"stage"}) = {}
  BY <1>7 DEF PutStage
<1> QED BY <1>5, <1>6, <1>7

\* The text of an event is in that of the events.
LEMMA TextHasParts ==
    ASSUME NEW c \in Seq(Events), NEW i \in 1..Len(c), NEW x \in Range(c[i].text)
    PROVE  x \in Range(TextOf(c))
<1>1. PICK a, b : Splits(c, i, a, b)
  BY SplitsThere
<1>2. a \in Seq(Events) /\ b \in Seq(Events)
  BY <1>1 DEF Splits
<1>3. TextOf(c) = (TextOf(a) \o c[i].text) \o TextOf(b)
  BY <1>1, SplitsText
<1>4. PICK u \in Seq(Nat), v \in Seq(Nat), w \in Seq(Nat) :
        u = TextOf(a) /\ v = c[i].text /\ w = TextOf(b)
  <2>1. c[i] \in Events
    OBVIOUS
  <2>2. c[i].text \in Seq(Nat)
    BY <2>1 DEF Events
  <2> QED BY <1>2, <2>2, TextConcat
<1>5. PICK y \in Seq(Nat) : y = u \o v
  BY ConcatProperties
<1>6. Range(u \o v) = Range(u) \union Range(v)
  BY RangeConcatenation
<1>7. Range(y \o w) = Range(y) \union Range(w)
  BY RangeConcatenation
<1> QED BY <1>3, <1>4, <1>5, <1>6, <1>7

\* Without one event in front, or the first: the text of what is left counts on.
LEMMA RoomIsMade ==
    ASSUME NEW k \in Nat, said \in Nat, k <= said, Carries(channel, Count(k, said))
    PROVE  /\ Room \in Seq(Events) /\ Len(Room) < MaxItems /\ NoEnd(Room)
           /\ \E l \in k..said :
                 /\ TextOf(Room) = Count(l, said)
                 /\ {n \in 1..said :
                        /\ \E i \in Places({"token"}) : n \in Range(channel[i].text)
                        /\ \A i \in 1..Len(Room) : n \notin Range(Room[i].text)} = (k + 1)..l
<1> DEFINE Gone == {n \in 1..said :
                        /\ \E i \in Places({"token"}) : n \in Range(channel[i].text)
                        /\ \A i \in 1..Len(Room) : n \notin Range(Room[i].text)}
<1>0. /\ channel \in Seq(Events) /\ Len(channel) <= MaxItems /\ NoEnd(channel)
      /\ TextOf(channel) = Count(k, said) /\ Count(k, said) \in Seq(Nat)
  BY CountCounts DEF Carries
<1>1. Len(channel) \in Nat /\ MaxItems \in Nat /\ MaxItems > 0
  BY <1>0, StreamAssumption
<1>2. k \in k..said /\ (k + 1)..k = {}
  OBVIOUS
<1>3. ASSUME \A i \in Places({"token"}) : \E j \in 1..Len(Room) : Room[j] = channel[i]
      PROVE  Gone = (k + 1)..k
  <2>1. ASSUME NEW n \in Gone PROVE FALSE
    <3>1. PICK i \in Places({"token"}) : n \in Range(channel[i].text)
      BY <2>1
    <3>2. PICK j \in 1..Len(Room) : Room[j] = channel[i]
      BY <1>3
    <3>3. n \notin Range(Room[j].text)
      BY <2>1
    <3> QED BY <3>1, <3>2, <3>3
  <2> QED BY <1>2, <2>1
<1>4. CASE ~Full
  <2>1. Room = channel /\ Len(channel) < MaxItems
    BY <1>1, <1>4 DEF Room, Full
  <2>2. \A i \in Places({"token"}) : \E j \in 1..Len(Room) : Room[j] = channel[i]
    BY <2>1 DEF Places
  <2> QED BY <1>0, <1>2, <1>3, <2>1, <2>2
<1>5. CASE Full /\ Places({"stage"}) # {}
  <2>1. Room = WithoutStage
    BY <1>5 DEF Room
  <2>2. /\ Carries(WithoutStage, Count(k, said)) /\ Len(WithoutStage) < MaxItems
        /\ \A i \in Places({"token"}) :
               \E j \in 1..Len(WithoutStage) : WithoutStage[j] = channel[i]
    BY <1>5, StageGoes
  <2>3. Gone = (k + 1)..k
    BY <1>3, <2>1, <2>2
  <2>4. Room \in Seq(Events) /\ NoEnd(Room) /\ TextOf(Room) = Count(k, said)
    BY <2>1, <2>2 DEF Carries
  <2> HIDE DEF Gone
  <2>5. \E l \in k..said : TextOf(Room) = Count(l, said) /\ Gone = (k + 1)..l
    BY <1>2, <2>3, <2>4
  <2> QED BY <2>1, <2>2, <2>4, <2>5 DEF Gone
<1>6. CASE Full /\ Places({"stage"}) = {}
  <2>1. Places({"token"}) # {}
    BY <1>6, FullOfSomething
  <2>2. ASSUME NEW i \in 1..Len(channel) PROVE channel[i].type = "token"
    <3>1. channel[i] \in Events
      BY <1>0
    <3>2. channel[i].type \in {"token", "stage"}
      BY <1>0, <3>1 DEF Events, EventTypes, NoEnd
    <3> QED BY <1>6, <3>2 DEF Places
  <2>3. 1 \in 1..Len(channel) /\ channel # <<>>
    <3>1. Len(channel) >= 1
      BY <1>1, <1>6 DEF Full
    <3> QED BY <1>1, <3>1
  <2>4. Min(Places({"token"})) = 1
    <3>1. /\ Min(Places({"token"})) \in 1..Len(channel)
          /\ Min(Places({"token"})) <= 1
      BY <1>0, <2>1, <2>2, <2>3, FirstAndLast
    <3> QED BY <1>1, <3>1
  <2>5. PICK d : d = Room
    OBVIOUS
  <2>6. Lacks(d, channel, 1)
    <3>1. d = RemoveAt(channel, 1)
      BY <1>6, <2>1, <2>4, <2>5 DEF Room
    <3> QED BY <1>0, <2>3, <3>1, RemovedAt
  <2>7. /\ d \in Seq(Events) /\ Len(d) = Len(channel) - 1
        /\ \A j \in 1..Len(d) : d[j] = channel[j + 1]
    <3>1. /\ d \in Seq(Events) /\ Len(d) = Len(channel) - 1
          /\ \A j \in 1..Len(d) : d[j] = IF j < 1 THEN channel[j] ELSE channel[j + 1]
      BY <2>6 DEF Lacks
    <3>2. \A j \in 1..Len(d) : ~(j < 1)
      OBVIOUS
    <3> QED BY <3>1, <3>2
  <2>8. d = Tail(channel)
    <3>1. PICK r \in Seq(Events) : r = Tail(channel) /\ Len(r) = Len(channel) - 1
                                   /\ \A j \in 1..Len(r) : r[j] = channel[j + 1]
      BY <1>0, <2>3, HeadTailProperties
    <3> QED BY <2>7, <3>1, SeqEqual
  <2>9. NoEnd(d) /\ Len(d) < MaxItems
    <3>1. ASSUME NEW j \in 1..Len(d) PROVE d[j].type \notin Terminal
      <4>1. j + 1 \in 1..Len(channel)
        BY <1>1, <2>7
      <4> QED BY <1>0, <2>7, <4>1 DEF NoEnd
    <3> QED BY <1>0, <1>1, <2>7, <3>1 DEF NoEnd
  <2>10. PICK s \in Seq(Nat), t \in Seq(Nat) :
           s = channel[1].text /\ t = TextOf(d) /\ s \o t = Count(k, said)
    <3>1. channel[1] \in Events /\ Head(channel) = channel[1]
      BY <1>0, <2>3
    <3>2. channel[1].text \in Seq(Nat)
      BY <3>1 DEF Events
    <3>3. TextOf(channel) = channel[1].text \o TextOf(d)
      BY <1>0, <2>3, <2>8, <3>1, TextEnds
    <3>4. TextOf(d) \in Seq(Nat)
      BY <2>7, TextConcat
    <3> QED BY <1>0, <3>2, <3>3, <3>4
  <2>11. PICK l \in k..said : s = Count(k, l) /\ t = Count(l, said)
    <3>1. s \in Seq(Nat) /\ t \in Seq(Nat) /\ s \o t = Count(k, said)
      BY <2>10
    <3>2. k \in Nat /\ said \in Nat /\ k <= said
      BY <1>0
    <3> QED BY <3>1, <3>2, CountMeets
  <2>12. l \in Nat /\ k <= l /\ l <= said
    BY <2>11
  <2>13. \A n \in Nat : n \in Range(s) <=> n \in (k + 1)..l
    BY <2>11, <2>12, CountFew
  <2>14. \A n \in Nat : n \in Range(t) <=> n \in (l + 1)..said
    BY <2>11, <2>12, CountFew
  <2>15. ASSUME NEW n \in 1..said
         PROVE  n \in Gone <=> n \in (k + 1)..l
    <3>1. ASSUME n \in Gone PROVE n \in (k + 1)..l
      <4>1. PICK i \in Places({"token"}) : n \in Range(channel[i].text)
        BY <3>1
      <4>2. \A j \in 1..Len(d) : n \notin Range(d[j].text)
        BY <2>5, <3>1
      <4>3. i \in 1..Len(channel)
        BY DEF Places
      <4>4. CASE i = 1
        BY <2>10, <2>13, <4>1, <4>4
      <4>5. CASE i # 1
        <5>1. PICK j \in 1..Len(d) : j + 1 = i
          <6>1. i - 1 \in 1..Len(d) /\ (i - 1) + 1 = i
            BY <1>1, <2>7, <4>3, <4>5
          <6> QED BY <6>1
        <5>2. d[j] = channel[i]
          BY <2>7, <5>1
        <5> QED BY <4>1, <4>2, <5>2
      <4> QED BY <4>4, <4>5
    <3>2. ASSUME n \in (k + 1)..l PROVE n \in Gone
      <4>1. 1 \in Places({"token"})
        BY <2>2, <2>3 DEF Places
      <4>2. n \in Range(channel[1].text)
        BY <2>10, <2>13, <3>2
      <4>3. ASSUME NEW j \in 1..Len(d), n \in Range(d[j].text) PROVE FALSE
        <5>1. n \in Range(TextOf(d))
          BY <2>7, <4>3, TextHasParts
        <5>2. n \in (l + 1)..said
          BY <2>10, <2>14, <5>1
        <5> QED BY <2>12, <3>2, <5>2
      <4> QED BY <2>5, <4>1, <4>2, <4>3
    <3> QED BY <3>1, <3>2
  <2>16. Gone = (k + 1)..l
    <3>1. Gone \subseteq 1..said
      OBVIOUS
    <3>2. (k + 1)..l \subseteq 1..said
      BY <2>12
    <3> HIDE DEF Gone
    <3> QED BY <2>15, <3>1, <3>2
  <2> HIDE DEF Gone
  <2>17. \E x \in k..said : TextOf(Room) = Count(x, said) /\ Gone = (k + 1)..x
    BY <2>5, <2>10, <2>11, <2>16
  <2> QED BY <2>5, <2>7, <2>9, <2>17 DEF Gone
<1> QED BY <1>4, <1>5, <1>6

-------------------------------------------------------------------------------
(* What ends a stream *)

\* Nothing but the last of these events ends a stream, and it is this end.
LastOnly(s, end) ==
    \A i \in 1..Len(s) : s[i].type \in Terminal => i = Len(s) /\ s[i].type = end

\* Events one after another.
LEMMA Joined ==
    ASSUME NEW s \in Seq(Events), NEW t \in Seq(Events), NEW m, NEW n,
           m = Len(s), n = Len(t)
    PROVE  /\ s \o t \in Seq(Events) /\ Len(s \o t) = m + n
           /\ \A i \in 1..(m + n) : (s \o t)[i] = IF i <= m THEN s[i] ELSE t[i - m]
  BY ConcatProperties

\* And without the first of them.
LEMMA Shortened ==
    ASSUME NEW s \in Seq(Events), s # <<>>, NEW m, m = Len(s)
    PROVE  /\ Tail(s) \in Seq(Events) /\ Len(Tail(s)) = m - 1
           /\ \A i \in 1..(m - 1) : Tail(s)[i] = s[i + 1]
  BY HeadTailProperties

\* Before the end nothing on the way is an end, and the other way round.
LEMMA NoEndYet ==
    ASSUME NEW s \in Seq(Events), NEW t \in Seq(Events)
    PROVE  /\ LastOnly(s \o t, "none") => NoEnd(s) /\ NoEnd(t)
           /\ NoEnd(s) /\ NoEnd(t) => \A end : LastOnly(s \o t, end)
           /\ \A end : LastOnly(s \o t, end) => LastOnly(t, end)
<1>1. PICK u : u = s \o t
  OBVIOUS
<1>2. PICK m \in Nat, n \in Nat : m = Len(s) /\ n = Len(t)
  OBVIOUS
<1>3. /\ Len(u) = m + n
      /\ \A i \in 1..(m + n) : u[i] = IF i <= m THEN s[i] ELSE t[i - m]
  BY <1>1, <1>2, ConcatProperties
<1>4. ASSUME NEW i \in 1..m PROVE i \in 1..(m + n) /\ u[i] = s[i]
  <2>1. i \in 1..(m + n) /\ i <= m
    OBVIOUS
  <2> QED BY <1>3, <2>1
<1>5. ASSUME NEW i \in 1..n PROVE m + i \in 1..(m + n) /\ u[m + i] = t[i]
  <2>1. m + i \in 1..(m + n) /\ ~(m + i <= m) /\ (m + i) - m = i
    OBVIOUS
  <2> QED BY <1>3, <2>1
<1>6. ASSUME LastOnly(u, "none") PROVE NoEnd(s) /\ NoEnd(t)
  <2>1. \A i \in 1..(m + n) : u[i].type \notin Terminal
    BY <1>3, <1>6 DEF LastOnly, Terminal
  <2> QED BY <1>2, <1>4, <1>5, <2>1 DEF NoEnd
<1>7. ASSUME NoEnd(s), NoEnd(t), NEW end PROVE LastOnly(u, end)
  <2>1. ASSUME NEW i \in 1..(m + n) PROVE u[i].type \notin Terminal
    <3>1. CASE i <= m
      BY <1>2, <1>3, <1>7, <3>1 DEF NoEnd
    <3>2. CASE ~(i <= m)
      <4>1. i - m \in 1..n
        BY <3>2
      <4> QED BY <1>2, <1>3, <1>7, <3>2, <4>1 DEF NoEnd
    <3> QED BY <3>1, <3>2
  <2> QED BY <1>3, <2>1 DEF LastOnly
<1>8. ASSUME NEW end, LastOnly(u, end) PROVE LastOnly(t, end)
  <2>1. ASSUME NEW i \in 1..n, t[i].type \in Terminal PROVE i = n /\ t[i].type = end
    <3>1. m + i \in 1..(m + n) /\ u[m + i] = t[i]
      BY <1>5
    <3>2. m + i = m + n /\ u[m + i].type = end
      BY <1>3, <1>8, <2>1, <3>1 DEF LastOnly
    <3>3. i = n
      BY <3>2
    <3> QED BY <3>1, <3>2, <3>3
  <2> QED BY <1>2, <2>1 DEF LastOnly
<1> QED BY <1>1, <1>6, <1>7, <1>8

\* The end at the end.
LEMMA EndAppended ==
    ASSUME NEW s \in Seq(Events), NEW t \in Seq(Events), NEW e \in Events,
           NoEnd(s), NoEnd(t)
    PROVE  LastOnly(s \o Append(t, e), e.type)
<1>1. PICK r : r = Append(t, e)
  OBVIOUS
<1>2. PICK m \in Nat, n \in Nat : m = Len(s) /\ n = Len(t)
  OBVIOUS
<1>3. /\ r \in Seq(Events) /\ Len(r) = n + 1 /\ r[n + 1] = e
      /\ \A i \in 1..n : r[i] = t[i]
  BY <1>1, <1>2, AppendProperties
<1>4. PICK u : u = s \o r
  OBVIOUS
<1>5. /\ Len(u) = m + (n + 1)
      /\ \A i \in 1..(m + (n + 1)) : u[i] = IF i <= m THEN s[i] ELSE r[i - m]
  <2>1. PICK l : l = n + 1
    OBVIOUS
  <2>2. r \in Seq(Events) /\ l = Len(r) /\ m = Len(s)
    BY <1>2, <1>3, <2>1
  <2>3. /\ Len(s \o r) = m + l
        /\ \A i \in 1..(m + l) : (s \o r)[i] = IF i <= m THEN s[i] ELSE r[i - m]
    BY <2>2, Joined
  <2> QED BY <1>4, <2>1, <2>3
<1>6. ASSUME NEW i \in 1..(m + (n + 1)), u[i].type \in Terminal
      PROVE  i = m + (n + 1) /\ u[i].type = e.type
  <2>1. CASE i <= m
    BY <1>2, <1>5, <1>6, <2>1 DEF NoEnd
  <2>2. CASE ~(i <= m)
    <3>1. PICK j \in 1..(n + 1) : j = i - m
      BY <2>2
    <3>2. u[i] = r[j]
      BY <1>5, <2>2, <3>1
    <3>3. CASE j = n + 1
      BY <1>3, <3>1, <3>2, <3>3
    <3>4. CASE j # n + 1
      <4>1. j \in 1..n
        BY <3>4
      <4> QED BY <1>2, <1>3, <1>6, <3>2, <4>1 DEF NoEnd
    <3> QED BY <3>3, <3>4
  <2> QED BY <2>1, <2>2
<1> QED BY <1>1, <1>4, <1>5, <1>6 DEF LastOnly

\* Without its first event, a stream ends as it did.
LEMMA TailEnds ==
    ASSUME NEW s \in Seq(Events), s # <<>>, NEW end, LastOnly(s, end)
    PROVE  /\ LastOnly(Tail(s), end)
           /\ Head(s).type \in Terminal => Tail(s) = <<>> /\ Head(s).type = end
<1>1. PICK n \in Nat : n = Len(s) /\ n > 0
  OBVIOUS
<1>2. PICK r \in Seq(Events) : r = Tail(s) /\ Len(r) = n - 1
                               /\ \A i \in 1..(n - 1) : r[i] = s[i + 1]
  <2>1. s # <<>>
    OBVIOUS
  <2> QED BY <1>1, <2>1, Shortened
<1>3. \A i \in 1..n : s[i].type \in Terminal => i = n /\ s[i].type = end
  BY <1>1 DEF LastOnly
<1>4. ASSUME NEW i \in 1..(n - 1), r[i].type \in Terminal PROVE i = n - 1 /\ r[i].type = end
  <2>1. i + 1 \in 1..n
    BY <1>1
  <2> QED BY <1>2, <1>3, <1>4, <2>1
<1>5. ASSUME Head(s).type \in Terminal PROVE r = <<>> /\ Head(s).type = end
  <2>1. Head(s) = s[1] /\ 1 \in 1..n
    BY <1>1
  <2>2. n = 1 /\ s[1].type = end
    BY <1>3, <1>5, <2>1
  <2> QED BY <1>2, <2>1, <2>2
<1> QED BY <1>2, <1>4, <1>5 DEF LastOnly

\* An event moves from the front of one sequence to the end of the one before it.
LEMMA EventMoves ==
    ASSUME NEW s \in Seq(Events), NEW t \in Seq(Events)
    PROVE  /\ t # <<>> => Append(s, Head(t)) \o Tail(t) = s \o t
           /\ s # <<>> => Tail(s \o t) = Tail(s) \o t /\ Head(s \o t) = Head(s)
                          /\ s \o t # <<>>
<1>1. ASSUME t # <<>> PROVE Append(s, Head(t)) \o Tail(t) = s \o t
  <2>1. PICK e \in Events, r \in Seq(Events) : e = Head(t) /\ r = Tail(t)
    BY <1>1, HeadTailProperties
  <2>2. PICK x : x = <<e>>
    OBVIOUS
  <2>3. x \in Seq(Events) /\ Len(x) = 1 /\ x[1] = e
    BY <2>2
  <2>4. Append(s, e) = s \o x
    BY <2>2, AppendIsConcat
  <2>5. t = x \o r
    <3>1. SubSeq(t, 1, Len(t)) = <<t[1]>> \o SubSeq(t, 1 + 1, Len(t))
      <4>1. 1 \in 1..Len(t) /\ Len(t) \in 1..Len(t)
        BY <1>1
      <4> QED BY <4>1, SubSeqRecursiveFirst
    <3>2. SubSeq(t, 1, Len(t)) = t
      BY SubSeqFull
    <3>3. Tail(t) = SubSeq(t, 2, Len(t)) /\ 1 + 1 = 2
      BY <1>1, TailIsSubSeq
    <3>4. e = t[1]
      BY <1>1, <2>1
    <3> QED BY <2>1, <2>2, <3>1, <3>2, <3>3, <3>4
  <2>6. (s \o x) \o r = s \o (x \o r)
    BY <2>3, ConcatAssociative
  <2> QED BY <2>1, <2>4, <2>5, <2>6
<1>2. ASSUME s # <<>>
      PROVE  Tail(s \o t) = Tail(s) \o t /\ Head(s \o t) = Head(s) /\ s \o t # <<>>
  <2>1. PICK m \in Nat, n \in Nat : m = Len(s) /\ n = Len(t) /\ m > 0
    BY <1>2
  <2>2. PICK u \in Seq(Events) : u = s \o t
    BY ConcatProperties
  <2>3. /\ Len(u) = m + n
        /\ \A i \in 1..(m + n) : u[i] = IF i <= m THEN s[i] ELSE t[i - m]
    BY <2>1, <2>2, ConcatProperties
  <2>4. u # <<>> /\ u[1] = s[1]
    <3>1. 1 \in 1..(m + n) /\ 1 <= m
      BY <2>1
    <3> QED BY <2>3, <3>1
  <2>5. PICK r \in Seq(Events) : r = Tail(s) /\ Len(r) = m - 1
                                 /\ \A i \in 1..(m - 1) : r[i] = s[i + 1]
    BY <1>2, <2>1, Shortened
  <2>6. PICK v \in Seq(Events) : v = r \o t
    BY ConcatProperties
  <2>7. /\ Len(v) = (m - 1) + n
        /\ \A i \in 1..((m - 1) + n) : v[i] = IF i <= m - 1 THEN r[i] ELSE t[i - (m - 1)]
    <3>1. PICK l : l = m - 1
      OBVIOUS
    <3>2. l = Len(r) /\ n = Len(t)
      BY <2>1, <2>5, <3>1
    <3>3. /\ Len(r \o t) = l + n
          /\ \A i \in 1..(l + n) : (r \o t)[i] = IF i <= l THEN r[i] ELSE t[i - l]
      BY <3>2, Joined
    <3> QED BY <2>6, <3>1, <3>3
  <2>8. PICK w \in Seq(Events) : w = Tail(u) /\ Len(w) = (m + n) - 1
                                 /\ \A i \in 1..((m + n) - 1) : w[i] = u[i + 1]
    <3>1. PICK l : l = m + n
      OBVIOUS
    <3>2. l = Len(u)
      BY <2>3, <3>1
    <3>3. /\ Tail(u) \in Seq(Events) /\ Len(Tail(u)) = l - 1
          /\ \A i \in 1..(l - 1) : Tail(u)[i] = u[i + 1]
      BY <2>4, <3>2, Shortened
    <3> QED BY <3>1, <3>3
  <2>9. ASSUME NEW i \in 1..((m + n) - 1) PROVE w[i] = v[i]
    <3>1. i + 1 \in 1..(m + n) /\ i \in 1..((m - 1) + n)
      BY <2>1
    <3>2. CASE i <= m - 1
      <4>1. i \in 1..(m - 1) /\ i + 1 <= m
        BY <2>1, <3>2
      <4> QED BY <2>3, <2>5, <2>7, <2>8, <3>1, <3>2, <4>1
    <3>3. CASE ~(i <= m - 1)
      <4>1. ~(i + 1 <= m) /\ (i + 1) - m = i - (m - 1)
        BY <2>1, <3>3
      <4> QED BY <2>3, <2>7, <2>8, <3>1, <3>3, <4>1
    <3> QED BY <3>2, <3>3
  <2>10. w = v
    <3>1. Len(w) = Len(v) /\ Len(w) = (m + n) - 1
      BY <2>1, <2>7, <2>8
    <3> QED BY <2>9, <3>1, SeqEqual
  <2>11. Head(u) = Head(s)
    BY <1>2, <2>4
  <2> QED BY <2>2, <2>4, <2>5, <2>6, <2>8, <2>10, <2>11
<1> QED BY <1>1, <1>2

-------------------------------------------------------------------------------
(* The invariant *)

\* What a panel may be.
Panels == [status : {"reading", "completed", "failed", "stopped", "timed out"},
           shown : Seq(Nat), buffer : Seq(Nat), result : BOOLEAN]

\* The shape of channel, connection and panel.
Shape ==
    /\ said \in 0..MaxTokens /\ staged \in 0..MaxStages
    /\ channel \in Seq(Events) /\ Len(channel) <= MaxItems
    /\ wire \in Seq(Events) /\ Len(wire) <= MaxWire
    /\ ending \in Terminal \union {"none"} /\ link \in {"open", "ended", "cut"}
    /\ panel \in Panels

\* The body ends after the thread has, and a turn that failed, unless on the way, is over.
Phases ==
    /\ hungUp => ending # "none"
    /\ link = "ended" => channel = <<>> /\ hungUp
    /\ panel.status = "failed" /\ link # "cut" => ending # "none"

\* The reader is still there; the panel was told of the failure.
Listens == panel.status = "reading" /\ link # "cut"
Failed == panel.status = "failed" /\ link # "cut"

\* What has left the channel.
Got == (panel.shown \o panel.buffer) \o TextOf(wire)

\* The tokens after k up to l were discarded; the channel goes on where the wire ends.
WholeAt(k, l) ==
    /\ k <= l /\ l <= said /\ discarded = (k + 1)..l
    /\ ending = "none" => /\ k = l /\ TextOf(channel) = Count(l, said)
                          /\ Listens => Got = Count(0, k)
    /\ ending # "none" =>
          /\ Listens => Got \o TextOf(channel) = Count(0, k) \o Count(l, said)
          /\ Failed => panel.shown = Count(0, k) \o Count(l, said)

\* For some two numbers it is so.
Whole == \E k, l \in Nat : WholeAt(k, l)

StreamInv == Shape /\ Phases /\ LastOnly(wire \o channel, ending) /\ Whole

-------------------------------------------------------------------------------
\* The thread emits a token (emit_token).
LEMMA SayKeeps == ASSUME StreamInv, Say PROVE StreamInv'
<1>1. /\ ending = "none" /\ said < MaxTokens /\ said' = said + 1
      /\ channel' \in PutToken(said + 1) /\ staged' = staged /\ hungUp' = hungUp
      /\ ending' = ending /\ link' = link /\ wire' = wire /\ panel' = panel
      /\ discarded' = discarded
  BY DEF Say
<1>2. /\ channel \in Seq(Events) /\ wire \in Seq(Events) /\ said \in Nat /\ MaxTokens \in Nat
      /\ Len(channel) <= MaxItems
  BY StreamAssumption DEF StreamInv, Shape
<1>3. NoEnd(wire) /\ NoEnd(channel)
  BY <1>1, <1>2, NoEndYet DEF StreamInv
<1>4. PICK k \in Nat, l \in Nat : WholeAt(k, l)
  BY DEF StreamInv, Whole
<1>5. /\ k = l /\ l <= said /\ TextOf(channel) = Count(l, said) /\ discarded = (k + 1)..l
      /\ Listens => Got = Count(0, k)
  BY <1>1, <1>4 DEF WholeAt
<1>6. PICK text \in Seq(Nat) : text = Count(l, said)
  BY <1>2, <1>5, CountCounts
<1>7. Carries(channel, text)
  BY <1>2, <1>3, <1>5, <1>6 DEF Carries
<1>8. PICK n, d : n \in Nat /\ n = said + 1 /\ d = channel' /\ d \in PutToken(n)
  BY <1>1, <1>2
<1>9. Carries(d, Append(text, n))
  BY <1>6, <1>7, <1>8, TokenIsPut
<1>10. Append(text, n) = Count(l, n)
  BY <1>2, <1>5, <1>6, <1>8, CountFew
<1>11. /\ channel' \in Seq(Events) /\ Len(channel') <= MaxItems /\ NoEnd(channel')
       /\ TextOf(channel') = Count(l, said')
  BY <1>1, <1>8, <1>9, <1>10 DEF Carries
<1>12. Shape'
  BY <1>1, <1>2, <1>11 DEF StreamInv, Shape
<1>13. Phases'
  BY <1>1 DEF StreamInv, Phases
<1>14. LastOnly(wire' \o channel', ending')
  BY <1>1, <1>2, <1>3, <1>11, NoEndYet
<1>15. WholeAt(k, l)'
  <2>1. Got' = Got /\ Listens' = Listens
    BY <1>1 DEF Got, Listens, TextOf
  <2>2. l <= said' /\ k <= l
    BY <1>1, <1>2, <1>5
  <2> QED BY <1>1, <1>5, <1>11, <2>1, <2>2 DEF WholeAt
<1> QED BY <1>12, <1>13, <1>14, <1>15 DEF StreamInv, Whole

\* The thread reports a stage (progress).
LEMMA ReportStageKeeps == ASSUME StreamInv, ReportStage PROVE StreamInv'
<1>1. /\ ending = "none" /\ staged < MaxStages /\ staged' = staged + 1
      /\ channel' = PutStage /\ said' = said /\ hungUp' = hungUp
      /\ ending' = ending /\ link' = link /\ wire' = wire /\ panel' = panel
      /\ discarded' = discarded
  BY DEF ReportStage
<1>2. /\ channel \in Seq(Events) /\ wire \in Seq(Events) /\ said \in Nat /\ MaxStages \in Nat
      /\ staged \in 0..MaxStages /\ Len(channel) <= MaxItems
  BY StreamAssumption DEF StreamInv, Shape
<1>3. NoEnd(wire) /\ NoEnd(channel)
  BY <1>1, <1>2, NoEndYet DEF StreamInv
<1>4. PICK k \in Nat, l \in Nat : WholeAt(k, l)
  BY DEF StreamInv, Whole
<1>5. /\ k = l /\ l <= said /\ TextOf(channel) = Count(l, said) /\ discarded = (k + 1)..l
      /\ Listens => Got = Count(0, k)
  BY <1>1, <1>4 DEF WholeAt
<1>6. PICK text \in Seq(Nat) : text = Count(l, said)
  BY <1>2, <1>5, CountCounts
<1>7. Carries(channel, text)
  BY <1>2, <1>3, <1>5, <1>6 DEF Carries
<1>8. Carries(channel', text)
  BY <1>1, <1>6, <1>7, StageIsPut
<1>9. /\ channel' \in Seq(Events) /\ Len(channel') <= MaxItems /\ NoEnd(channel')
      /\ TextOf(channel') = Count(l, said')
  BY <1>1, <1>6, <1>8 DEF Carries
<1>10. staged' \in 0..MaxStages
  BY <1>1, <1>2
<1>11. Shape'
  BY <1>1, <1>9, <1>10 DEF StreamInv, Shape
<1>12. Phases'
  BY <1>1 DEF StreamInv, Phases
<1>13. LastOnly(wire' \o channel', ending')
  BY <1>1, <1>2, <1>3, <1>9, NoEndYet
<1>14. WholeAt(k, l)'
  <2>1. Got' = Got /\ Listens' = Listens
    BY <1>1 DEF Got, Listens, TextOf
  <2> QED BY <1>1, <1>2, <1>5, <1>9, <2>1 DEF WholeAt
<1> QED BY <1>11, <1>12, <1>13, <1>14 DEF StreamInv, Whole

\* The terminal event makes room for itself (emit_terminal).
LEMMA FinishKeeps == ASSUME StreamInv, Finish PROVE StreamInv'
<1>1. /\ ending = "none" /\ ending' \in Terminal
      /\ channel' = Append(Room, Event(ending', <<>>))
      /\ discarded' = {n \in 1..said :
                        /\ \E i \in Places({"token"}) : n \in Range(channel[i].text)
                        /\ \A i \in 1..Len(Room) : n \notin Range(Room[i].text)}
      /\ said' = said /\ staged' = staged /\ hungUp' = hungUp
      /\ link' = link /\ wire' = wire /\ panel' = panel
  BY DEF Finish
<1>2. /\ channel \in Seq(Events) /\ wire \in Seq(Events) /\ said \in Nat
      /\ Len(channel) <= MaxItems
  BY StreamAssumption DEF StreamInv, Shape
<1>3. NoEnd(wire) /\ NoEnd(channel)
  BY <1>1, <1>2, NoEndYet DEF StreamInv
<1>4. PICK k \in Nat, l \in Nat : WholeAt(k, l)
  BY DEF StreamInv, Whole
<1>5. /\ k = l /\ k <= said /\ TextOf(channel) = Count(k, said)
      /\ Listens => Got = Count(0, k)
  BY <1>1, <1>4 DEF WholeAt
<1>6. Carries(channel, Count(k, said))
  BY <1>2, <1>3, <1>5 DEF Carries
<1>7. Room \in Seq(Events) /\ Len(Room) < MaxItems /\ NoEnd(Room)
  BY <1>2, <1>5, <1>6, RoomIsMade
<1>8. PICK m \in k..said : TextOf(Room) = Count(m, said) /\ discarded' = (k + 1)..m
  BY <1>1, <1>2, <1>5, <1>6, RoomIsMade
<1>9. m \in Nat /\ k <= m /\ m <= said
  BY <1>2, <1>8
<1>10. PICK e : e = Event(ending', <<>>)
  OBVIOUS
<1>11. e \in Events /\ e.type = ending' /\ e.text = <<>>
  <2>1. e = [type |-> ending', text |-> <<>>]
    BY <1>10 DEF Event
  <2>2. ending' # "token"
    BY <1>1 DEF Terminal
  <2> QED BY <1>1, <2>1, <2>2 DEF Events, EventTypes
<1>12. /\ channel' \in Seq(Events) /\ Len(channel') = Len(Room) + 1
       /\ TextOf(channel') = Count(m, said)
  <2>1. channel' = Append(Room, e)
    BY <1>1, <1>10
  <2>2. TextOf(channel') = TextOf(Room) \o <<>>
    BY <1>7, <1>11, <2>1, TextEnds
  <2>3. Count(m, said) \in Seq(Nat)
    BY <1>2, <1>9, CountCounts
  <2>4. Count(m, said) \o <<>> = Count(m, said)
    BY <2>3, ConcatEmptySeq
  <2> QED BY <1>7, <1>8, <1>11, <2>1, <2>2, <2>4, AppendProperties
<1>13. Len(channel') <= MaxItems
  <2>1. Len(Room) \in Nat /\ MaxItems \in Nat
    BY <1>7, StreamAssumption
  <2> QED BY <1>7, <1>12, <2>1
<1>14. Shape'
  BY <1>1, <1>12, <1>13 DEF StreamInv, Shape
<1>15. Phases'
  BY <1>1 DEF StreamInv, Phases, Terminal
<1>16. LastOnly(wire' \o channel', ending')
  <2>1. LastOnly(wire \o Append(Room, e), e.type)
    BY <1>2, <1>3, <1>7, <1>11, EndAppended
  <2> QED BY <1>1, <1>10, <1>11, <2>1
<1>17. WholeAt(k, m)'
  <2>1. Got' = Got /\ Listens' = Listens /\ Failed' = Failed
    BY <1>1 DEF Got, Listens, Failed, TextOf
  <2>2. ~Failed
    BY <1>1 DEF StreamInv, Phases, Failed
  <2>3. ending' # "none"
    BY <1>1 DEF Terminal
  <2> QED BY <1>1, <1>5, <1>8, <1>9, <1>12, <2>1, <2>2, <2>3 DEF WholeAt
<1> QED BY <1>9, <1>14, <1>15, <1>16, <1>17 DEF StreamInv, Whole

\* Steps that move nothing: the thread hangs up, a cancellation, the end of the body.
LEMMA OthersKeep ==
    ASSUME StreamInv, HangUp \/ CancelTurn \/ EndBody \/ UNCHANGED streamVars
    PROVE  StreamInv'
<1>1. /\ said' = said /\ staged' = staged /\ channel' = channel /\ ending' = ending
      /\ wire' = wire /\ panel' = panel /\ discarded' = discarded
      /\ link' = link \/ (link = "open" /\ link' = "ended" /\ channel = <<>> /\ hungUp)
      /\ hungUp' = hungUp \/ ending # "none"
  BY DEF HangUp, CancelTurn, EndBody, streamVars
<1>2. Shape'
  BY <1>1 DEF StreamInv, Shape
<1>3. link' = "cut" <=> link = "cut"
  BY <1>1
<1>4. Phases'
  BY DEF StreamInv, Phases, HangUp, CancelTurn, EndBody, streamVars
<1>5. LastOnly(wire' \o channel', ending')
  BY <1>1 DEF StreamInv
<1>6. PICK k \in Nat, l \in Nat : WholeAt(k, l)
  BY DEF StreamInv, Whole
<1>7. WholeAt(k, l)'
  <2>1. Got' = Got /\ Listens' = Listens /\ Failed' = Failed
        /\ TextOf(channel') = TextOf(channel)
    BY <1>1, <1>3 DEF Got, Listens, Failed, TextOf
  <2> QED BY <1>1, <1>6, <2>1 DEF WholeAt
<1> QED BY <1>2, <1>4, <1>5, <1>7 DEF StreamInv, Whole

\* The connection breaks: nothing is claimed of what the panel shows.
LEMMA CutKeeps == ASSUME StreamInv, Cut PROVE StreamInv'
<1>1. /\ said' = said /\ staged' = staged /\ channel' = channel /\ ending' = ending
      /\ wire' = <<>> /\ panel' = panel /\ discarded' = discarded
      /\ link' = "cut" /\ hungUp' = hungUp
  BY DEF Cut
<1>2. wire' \in Seq(Events) /\ Len(wire') = 0 /\ MaxWire \in Nat
  BY <1>1, StreamAssumption
<1>3. Shape'
  BY <1>1, <1>2 DEF StreamInv, Shape
<1>4. Phases'
  BY <1>1 DEF StreamInv, Phases
<1>5. LastOnly(wire' \o channel', ending')
  <2>1. channel \in Seq(Events) /\ wire \in Seq(Events)
    BY DEF StreamInv, Shape
  <2>2. LastOnly(channel, ending)
    BY <2>1, NoEndYet DEF StreamInv
  <2>3. <<>> \o channel = channel
    BY <2>1, ConcatEmptySeq
  <2> QED BY <1>1, <2>2, <2>3
<1>6. PICK k \in Nat, l \in Nat : WholeAt(k, l)
  BY DEF StreamInv, Whole
<1>7. WholeAt(k, l)'
  <2>1. ~Listens' /\ ~Failed' /\ TextOf(channel') = TextOf(channel)
    BY <1>1 DEF Listens, Failed, TextOf
  <2> QED BY <1>1, <1>6, <2>1 DEF WholeAt
<1> QED BY <1>3, <1>4, <1>5, <1>7 DEF StreamInv, Whole

\* Three texts, one after another.
LEMMA ThreeTexts ==
    ASSUME NEW x \in Seq(Nat), NEW y \in Seq(Nat), NEW z \in Seq(Nat)
    PROVE  (x \o y) \o z = x \o (y \o z)
  BY ONLY ConcatAssociative, SMTT(20)

\* No text is a text.
LEMMA NoText == <<>> \in Seq(Nat)
  OBVIOUS

\* The texts on the way are texts.
LEMMA TextsThere ==
    ASSUME Shape
    PROVE  /\ panel.shown \in Seq(Nat) /\ panel.buffer \in Seq(Nat)
           /\ panel.shown \o panel.buffer \in Seq(Nat)
           /\ TextOf(wire) \in Seq(Nat) /\ TextOf(channel) \in Seq(Nat) /\ Got \in Seq(Nat)
<1>1. wire \in Seq(Events) /\ channel \in Seq(Events) /\ panel \in Panels
  BY DEF Shape
<1>2. PICK s \in Seq(Nat), b \in Seq(Nat) : s = panel.shown /\ b = panel.buffer
  BY <1>1 DEF Panels
<1>3. s \o b \in Seq(Nat)
  BY <1>2, ConcatProperties
<1>4. PICK w \in Seq(Nat), p \in Seq(Nat) : w = TextOf(wire) /\ p = s \o b
  BY <1>1, <1>3, TextConcat
<1>5. p \o w \in Seq(Nat)
  BY <1>4, ConcatProperties
<1> QED BY <1>1, <1>2, <1>4, <1>5, TextConcat DEF Got

\* The first of some events takes the first of their numbers.
LEMMA NextNumbers ==
    ASSUME NEW l \in Nat, NEW n \in Nat, l <= n, NEW c \in Seq(Events), c # <<>>,
           TextOf(c) = Count(l, n)
    PROVE  \E m \in l..n : Head(c).text = Count(l, m) /\ TextOf(Tail(c)) = Count(m, n)
<1>1. PICK e \in Events, r \in Seq(Events) : e = Head(c) /\ r = Tail(c)
  BY HeadTailProperties
<1>2. PICK h \in Seq(Nat), t \in Seq(Nat) : h = e.text /\ t = TextOf(r)
  BY <1>1, TextFew, TextConcat
<1>3. h \o t = Count(l, n)
  BY <1>1, <1>2, TextEnds
<1>4. \E m \in l..n : h = Count(l, m) /\ t = Count(m, n)
  BY <1>3, CountMeets
<1> QED BY <1>1, <1>2, <1>4

\* The body sends the first event (stream_chat.body).
LEMMA SendKeeps == ASSUME StreamInv, Send PROVE StreamInv'
<1>1. /\ link = "open" /\ channel # <<>> /\ Len(wire) < MaxWire
      /\ wire' = Append(wire, Head(channel)) /\ channel' = Tail(channel)
      /\ said' = said /\ staged' = staged /\ hungUp' = hungUp /\ ending' = ending
      /\ link' = link /\ panel' = panel /\ discarded' = discarded
  BY DEF Send
<1>2. /\ channel \in Seq(Events) /\ wire \in Seq(Events) /\ said \in Nat
      /\ MaxItems \in Nat /\ MaxWire \in Nat
      /\ Len(channel) <= MaxItems
  BY StreamAssumption DEF StreamInv, Shape
<1>3. PICK e \in Events, r \in Seq(Events) : e = Head(channel) /\ r = Tail(channel)
  BY <1>1, <1>2, HeadTailProperties
<1>4. e.text \in Seq(Nat)
  BY <1>3, TextFew
<1>5. Shape'
  <2>1. channel' \in Seq(Events) /\ Len(channel') <= MaxItems
    BY <1>1, <1>2, HeadTailProperties
  <2>2. wire' \in Seq(Events) /\ Len(wire') = Len(wire) + 1
    BY <1>1, <1>2, <1>3, AppendProperties
  <2>3. Len(wire') <= MaxWire
    BY <1>1, <1>2, <2>2
  <2> QED BY <1>1, <2>1, <2>2, <2>3 DEF StreamInv, Shape
<1>6. Phases'
  BY <1>1 DEF StreamInv, Phases
<1>7. LastOnly(wire' \o channel', ending')
  <2>1. wire' \o channel' = wire \o channel
    BY <1>1, <1>2, EventMoves
  <2> QED BY <1>1, <2>1 DEF StreamInv
<1>8. PICK t \in Seq(Nat), g \in Seq(Nat) : t = TextOf(r) /\ g = Got
  BY <1>3, TextConcat, TextsThere DEF StreamInv
<1>9. TextOf(channel) = e.text \o t /\ TextOf(channel') = t
  BY <1>1, <1>2, <1>3, <1>8, TextEnds
<1>10. Got' = g \o e.text
  <2>1. PICK p \in Seq(Nat), w \in Seq(Nat), h \in Seq(Nat) :
             p = panel.shown \o panel.buffer /\ w = TextOf(wire) /\ h = e.text
    BY <1>4, TextsThere DEF StreamInv
  <2>2. TextOf(wire') = w \o h
    BY <1>1, <1>2, <1>3, <2>1, TextEnds
  <2>3. Got' = p \o (w \o h)
    BY <1>1, <2>1, <2>2 DEF Got, TextOf
  <2>4. (p \o w) \o h = p \o (w \o h)
    BY ThreeTexts
  <2> QED BY <1>8, <2>1, <2>3, <2>4 DEF Got
<1>11. Got' \o TextOf(channel') = Got \o TextOf(channel)
  <2>1. PICK h \in Seq(Nat) : h = e.text
    BY <1>4
  <2>2. (g \o h) \o t = g \o (h \o t)
    BY ThreeTexts
  <2> QED BY <1>8, <1>9, <1>10, <2>1, <2>2
<1>12. Listens' = Listens /\ Failed' = Failed
  BY <1>1 DEF Listens, Failed
<1>13. PICK k \in Nat, l \in Nat : WholeAt(k, l)
  BY DEF StreamInv, Whole
<1>14. CASE ending = "none"
  <2>1. /\ k = l /\ l <= said /\ TextOf(channel) = Count(l, said) /\ discarded = (k + 1)..l
        /\ Listens => Got = Count(0, k)
    BY <1>13, <1>14 DEF WholeAt
  <2>2. PICK m \in l..said : e.text = Count(l, m) /\ t = Count(m, said)
    <3>1. \E m \in l..said : Head(channel).text = Count(l, m)
                             /\ TextOf(Tail(channel)) = Count(m, said)
      BY <1>1, <1>2, <2>1, NextNumbers
    <3> QED BY <1>3, <1>8, <3>1
  <2>3. m \in Nat /\ l <= m /\ m <= said
    BY <1>2, <2>2
  <2>4. Count(0, l) \o Count(l, m) = Count(0, m)
    <3>1. 0 \in Nat /\ 0 <= l
      OBVIOUS
    <3> QED BY <2>3, <3>1, CountsOn
  <2>5. Listens => Got' = Count(0, m)
    BY <1>8, <1>10, <2>1, <2>2, <2>4
  <2>6. discarded' = (m + 1)..m
    BY <1>1, <1>2, <2>1, <2>3
  <2>7. WholeAt(m, m)'
    BY <1>1, <1>9, <1>12, <1>14, <2>2, <2>3, <2>5, <2>6 DEF WholeAt
  <2> QED BY <1>5, <1>6, <1>7, <2>3, <2>7 DEF StreamInv, Whole
<1>15. CASE ending # "none"
  <2>1. WholeAt(k, l)'
    BY <1>1, <1>11, <1>12, <1>13, <1>15 DEF WholeAt
  <2> QED BY <1>5, <1>6, <1>7, <2>1 DEF StreamInv, Whole
<1> QED BY <1>14, <1>15

-------------------------------------------------------------------------------
(* The steps of the browser that read nothing *)

\* Showing what waits loses nothing.
LEMMA ShownIsGot ==
    ASSUME StreamInv,
           panel'.shown = panel.shown \o panel.buffer, panel'.buffer = <<>>, wire' = wire
    PROVE  Got' = Got
<1>1. PICK p \in Seq(Nat) : p = panel.shown \o panel.buffer
  BY TextsThere DEF StreamInv
<1>2. p \o <<>> = p
  BY <1>1, ConcatEmptySeq
<1> QED BY <1>1, <1>2 DEF Got, TextOf

\* The panel paints (requestAnimationFrame).
LEMMA FrameKeeps == ASSUME StreamInv, Frame PROVE StreamInv'
<1>1. /\ panel' = [panel EXCEPT !.shown = @ \o panel.buffer, !.buffer = <<>>]
      /\ said' = said /\ staged' = staged /\ channel' = channel /\ hungUp' = hungUp
      /\ ending' = ending /\ link' = link /\ wire' = wire /\ discarded' = discarded
  BY DEF Frame
<1>2. panel \in Panels /\ panel.shown \o panel.buffer \in Seq(Nat)
  BY TextsThere DEF StreamInv, Shape
<1>3. /\ panel' \in Panels /\ panel'.status = panel.status
      /\ panel'.shown = panel.shown \o panel.buffer /\ panel'.buffer = <<>>
  <2>1. PICK p \in Seq(Nat), b \in Seq(Nat) : p = panel.shown \o panel.buffer /\ b = <<>>
    BY <1>2, NoText
  <2>2. panel' = [panel EXCEPT !.shown = p, !.buffer = b]
    BY <1>1, <1>2, <2>1 DEF Panels
  <2>3. /\ panel' \in Panels /\ panel'.status = panel.status
        /\ panel'.shown = p /\ panel'.buffer = b
    BY <1>2, <2>2 DEF Panels
  <2> QED BY <2>1, <2>3
<1>4. Shape'
  BY <1>1, <1>3 DEF StreamInv, Shape
<1>5. Phases'
  BY <1>1, <1>3 DEF StreamInv, Phases
<1>6. LastOnly(wire' \o channel', ending')
  BY <1>1 DEF StreamInv
<1>7. PICK k \in Nat, l \in Nat : WholeAt(k, l)
  BY DEF StreamInv, Whole
<1>8. WholeAt(k, l)'
  <2>1. Got' = Got
    BY <1>1, <1>3, ShownIsGot
  <2>2. Listens' = Listens /\ ~Failed' /\ TextOf(channel') = TextOf(channel)
    BY <1>1, <1>3 DEF Listens, Failed, TextOf, Frame
  <2> QED BY <1>1, <1>7, <2>1, <2>2 DEF WholeAt
<1> QED BY <1>4, <1>5, <1>6, <1>8 DEF StreamInv, Whole

\* What a panel that closes shows.
LEMMA ClosedShows ==
    ASSUME Shape, NEW status \in {"failed", "stopped", "timed out"}, panel' = Closed(status)
    PROVE  /\ panel' \in Panels /\ panel'.status = status
           /\ panel'.shown = panel.shown \o panel.buffer /\ panel'.buffer = <<>>
<1>1. panel \in Panels /\ panel.shown \o panel.buffer \in Seq(Nat)
  BY TextsThere DEF Shape
<1>2. PICK p \in Seq(Nat), b \in Seq(Nat) : p = panel.shown \o panel.buffer /\ b = <<>>
  BY <1>1, NoText
<1>3. panel' = [panel EXCEPT !.status = status, !.shown = p, !.buffer = b]
  BY <1>1, <1>2 DEF Panels, Closed
<1>4. /\ panel' \in Panels /\ panel'.status = status
      /\ panel'.shown = p /\ panel'.buffer = b
  BY <1>1, <1>3 DEF Panels
<1> QED BY <1>2, <1>4

\* A panel that no longer reads, when its turn has not failed: nothing more is claimed.
LEMMA PanelLeaves ==
    ASSUME StreamInv, panel' \in Panels,
           panel'.status \in {"completed", "stopped", "timed out"},
           said' = said, staged' = staged, channel' = channel, hungUp' = hungUp,
           ending' = ending, link' = link, discarded' = discarded,
           wire' \in Seq(Events), Len(wire') <= MaxWire,
           LastOnly(wire' \o channel', ending')
    PROVE  StreamInv'
<1>1. Shape'
  BY DEF StreamInv, Shape
<1>2. Phases'
  BY DEF StreamInv, Phases
<1>3. PICK k \in Nat, l \in Nat : WholeAt(k, l)
  BY DEF StreamInv, Whole
<1>4. WholeAt(k, l)'
  <2>1. ~Listens' /\ ~Failed' /\ TextOf(channel') = TextOf(channel)
    BY DEF Listens, Failed, TextOf
  <2> QED BY <1>3, <2>1 DEF WholeAt
<1> QED BY <1>1, <1>2, <1>4 DEF StreamInv, Whole

\* A panel whose turn failed keeps all that it got, when all that was said has arrived.
LEMMA PanelFails ==
    ASSUME StreamInv, panel.status = "reading", panel' = Closed("failed"),
           said' = said, staged' = staged, channel' = channel, hungUp' = hungUp,
           ending' = ending, link' = link, discarded' = discarded,
           wire' = <<>>,
           link # "cut" => /\ TextOf(wire) = <<>> /\ TextOf(channel) = <<>>
                           /\ ending # "none"
    PROVE  StreamInv'
<1>1. /\ panel' \in Panels /\ panel'.status = "failed"
      /\ panel'.shown = panel.shown \o panel.buffer
  BY ClosedShows DEF StreamInv
<1>2. wire' \in Seq(Events) /\ Len(wire') = 0 /\ MaxWire \in Nat
  BY StreamAssumption
<1>3. Shape'
  BY <1>1, <1>2 DEF StreamInv, Shape
<1>4. Phases'
  BY <1>1 DEF StreamInv, Phases
<1>5. LastOnly(wire' \o channel', ending')
  <2>1. channel \in Seq(Events) /\ wire \in Seq(Events)
    BY DEF StreamInv, Shape
  <2>2. LastOnly(channel, ending)
    BY <2>1, NoEndYet DEF StreamInv
  <2>3. <<>> \o channel = channel
    BY <2>1, ConcatEmptySeq
  <2> QED BY <2>2, <2>3
<1>6. PICK k \in Nat, l \in Nat : WholeAt(k, l)
  BY DEF StreamInv, Whole
<1>7. TextOf(channel') = TextOf(channel) /\ ~Listens'
  BY <1>1 DEF TextOf, Listens
<1>8. CASE link = "cut"
  <2>1. ~Failed'
    BY <1>8 DEF Failed
  <2> QED BY <1>3, <1>4, <1>5, <1>6, <1>7, <2>1 DEF WholeAt, StreamInv, Whole
<1>9. CASE link # "cut"
  <2>1. /\ k <= l /\ l <= said /\ discarded = (k + 1)..l
        /\ Got \o TextOf(channel) = Count(0, k) \o Count(l, said)
    BY <1>6, <1>9 DEF WholeAt, Listens
  <2>2. PICK p \in Seq(Nat) : p = panel.shown \o panel.buffer
    BY TextsThere DEF StreamInv
  <2>3. p \o <<>> = p
    BY <2>2, ConcatEmptySeq
  <2>4. Got \o TextOf(channel) = p
    BY <1>9, <2>2, <2>3 DEF Got
  <2>5. WholeAt(k, l)'
    BY <1>1, <1>7, <1>9, <2>1, <2>2, <2>4 DEF WholeAt
  <2> QED BY <1>3, <1>4, <1>5, <2>5 DEF StreamInv, Whole
<1> QED BY <1>8, <1>9

\* The reader is done (handleSend).
LEMMA ConcludeKeeps == ASSUME StreamInv, Conclude PROVE StreamInv'
<1>1. /\ panel.status = "reading" /\ wire = <<>> /\ link # "open"
      /\ said' = said /\ staged' = staged /\ channel' = channel /\ hungUp' = hungUp
      /\ ending' = ending /\ link' = link /\ wire' = wire /\ discarded' = discarded
  BY DEF Conclude
<1>2. CASE link = "ended" /\ panel.result
  <2>1. panel' = [panel EXCEPT !.status = "completed", !.shown = <<>>, !.buffer = <<>>]
    BY <1>2 DEF Conclude
  <2>2. panel' \in Panels /\ panel'.status = "completed"
    <3>1. panel \in Panels
      BY DEF StreamInv, Shape
    <3>2. PICK b \in Seq(Nat) : b = <<>>
      BY NoText
    <3>3. panel' = [panel EXCEPT !.status = "completed", !.shown = b, !.buffer = b]
      BY <2>1, <3>2
    <3> QED BY <3>1, <3>3 DEF Panels
  <2>3. wire' \in Seq(Events) /\ Len(wire') <= MaxWire /\ LastOnly(wire' \o channel', ending')
    BY <1>1 DEF StreamInv, Shape
  <2> QED BY <1>1, <2>2, <2>3, PanelLeaves
<1>3. CASE ~(link = "ended" /\ panel.result)
  <2>1. panel' = Closed("failed")
    BY <1>3 DEF Conclude
  <2>2. link # "cut" => TextOf(wire) = <<>> /\ TextOf(channel) = <<>> /\ ending # "none"
    <3>1. link # "cut" => link = "ended"
      BY <1>1 DEF StreamInv, Shape
    <3>2. link = "ended" => channel = <<>> /\ ending # "none"
      BY DEF StreamInv, Phases
    <3> QED BY <1>1, <3>1, <3>2, TextFew
  <2> QED BY <1>1, <2>1, <2>2, PanelFails
<1> QED BY <1>2, <1>3

\* The user stops the answer, or the request times out.
LEMMA AbortKeeps == ASSUME StreamInv, Abort PROVE StreamInv'
<1>1. /\ panel' \in {Closed("stopped"), Closed("timed out")}
      /\ said' = said /\ staged' = staged /\ channel' = channel /\ hungUp' = hungUp
      /\ ending' = ending /\ link' = link /\ wire' = wire /\ discarded' = discarded
  BY DEF Abort
<1>2. panel' \in Panels /\ panel'.status \in {"completed", "stopped", "timed out"}
  BY <1>1, ClosedShows DEF StreamInv
<1>3. wire' \in Seq(Events) /\ Len(wire') <= MaxWire /\ LastOnly(wire' \o channel', ending')
  BY <1>1 DEF StreamInv, Shape
<1> QED BY <1>1, <1>2, <1>3, PanelLeaves

\* The panel reads an event (streamQuestion).
LEMMA ReadKeeps == ASSUME StreamInv, Read PROVE StreamInv'
<1>1. /\ panel.status = "reading" /\ wire # <<>>
      /\ panel' = Seen(Head(wire)) /\ wire' = Tail(wire)
      /\ said' = said /\ staged' = staged /\ channel' = channel /\ hungUp' = hungUp
      /\ ending' = ending /\ link' = link /\ discarded' = discarded
  BY DEF Read
<1>2. channel \in Seq(Events) /\ wire \in Seq(Events) /\ MaxWire \in Nat /\ panel \in Panels
  BY StreamAssumption DEF StreamInv, Shape
<1>3. PICK e \in Events, r \in Seq(Events) : e = Head(wire) /\ r = Tail(wire)
  BY <1>1, <1>2, HeadTailProperties
<1>4. wire' \in Seq(Events) /\ Len(wire') <= MaxWire
  <2>1. Len(wire) \in Nat /\ Len(wire) > 0 /\ Len(Tail(wire)) = Len(wire) - 1
        /\ Tail(wire) \in Seq(Events)
    BY <1>1, <1>2, HeadTailProperties
  <2>2. Len(wire) <= MaxWire
    BY DEF StreamInv, Shape
  <2> QED BY <1>1, <1>2, <2>1, <2>2
<1>5. PICK s \in Seq(Events) : s = wire \o channel
  BY <1>2, ConcatProperties
<1>6. s # <<>> /\ Head(s) = e /\ Tail(s) = wire' \o channel'
  BY <1>1, <1>2, <1>3, <1>5, EventMoves
<1>7. LastOnly(s, ending)
  BY <1>5 DEF StreamInv
<1>8. LastOnly(wire' \o channel', ending')
  BY <1>1, <1>6, <1>7, TailEnds
<1>9. PICK h \in Seq(Nat), t \in Seq(Nat) : h = e.text /\ t = TextOf(r)
  BY <1>3, TextFew, TextConcat
<1>10. TextOf(wire) = h \o t /\ TextOf(wire') = t
  BY <1>1, <1>2, <1>3, <1>9, TextEnds
<1>11. CASE e.type \in {"token", "stage", "result"}
  <2>1. /\ panel' \in Panels /\ panel'.status = "reading"
        /\ panel'.shown = panel.shown /\ panel'.buffer = panel.buffer \o h
    <3>1. CASE e.type = "token"
      <4>1. panel' = [panel EXCEPT !.buffer = @ \o e.text]
        BY <1>1, <1>3, <3>1 DEF Seen
      <4>2. panel.buffer \o h \in Seq(Nat)
        BY <1>2, <1>9, ConcatProperties DEF Panels
      <4> QED BY <1>1, <1>2, <1>9, <4>1, <4>2 DEF Panels
    <3>2. CASE e.type # "token"
      <4>1. h = <<>>
        BY <1>9, <3>2 DEF Events
      <4>2. panel.buffer \o <<>> = panel.buffer
        BY <1>2, ConcatEmptySeq DEF Panels
      <4>3. panel' = panel \/ panel' = [panel EXCEPT !.result = TRUE]
        BY <1>1, <1>3, <1>11, <3>2 DEF Seen
      <4>4. panel' \in Panels /\ panel'.status = panel.status
            /\ panel'.shown = panel.shown /\ panel'.buffer = panel.buffer
        BY <1>2, <4>3 DEF Panels
      <4> QED BY <1>1, <4>1, <4>2, <4>4
    <3> QED BY <3>1, <3>2
  <2>2. Got' = Got
    <3>1. PICK p \in Seq(Nat), b \in Seq(Nat) : p = panel.shown /\ b = panel.buffer
      BY <1>2 DEF Panels
    <3>2. Got' = (p \o (b \o h)) \o t
      BY <1>10, <2>1, <3>1 DEF Got, TextOf
    <3>3. Got = (p \o b) \o (h \o t)
      BY <1>10, <3>1 DEF Got
    <3>4. p \o (b \o h) = (p \o b) \o h
      BY ThreeTexts
    <3>5. PICK q \in Seq(Nat) : q = p \o b
      BY <3>1, ConcatProperties
    <3>6. (q \o h) \o t = q \o (h \o t)
      BY ThreeTexts
    <3> QED BY <3>2, <3>3, <3>4, <3>5, <3>6
  <2>3. Shape'
    BY <1>1, <1>4, <2>1 DEF StreamInv, Shape
  <2>4. Phases'
    BY <1>1, <2>1 DEF StreamInv, Phases
  <2>5. PICK k \in Nat, l \in Nat : WholeAt(k, l)
    BY DEF StreamInv, Whole
  <2>6. WholeAt(k, l)'
    <3>1. Listens' = Listens /\ ~Failed' /\ TextOf(channel') = TextOf(channel)
      BY <1>1, <2>1 DEF Listens, Failed, TextOf
    <3> QED BY <1>1, <2>2, <2>5, <3>1 DEF WholeAt
  <2> QED BY <1>8, <2>3, <2>4, <2>6 DEF StreamInv, Whole
<1>12. CASE e.type = "error"
  <2>1. panel' = Closed("failed")
    BY <1>1, <1>3, <1>12 DEF Seen
  <2>2. wire' \o channel' = <<>> /\ ending = "error"
    <3>1. Head(s).type \in Terminal
      BY <1>6, <1>12 DEF Terminal
    <3> QED BY <1>6, <1>7, <1>12, <3>1, TailEnds
  <2>3. wire' = <<>> /\ channel = <<>>
    BY <1>1, <1>2, <1>4, <2>2, ConcatEqualIffEmpty
  <2>4. TextOf(wire) = <<>> /\ TextOf(channel) = <<>>
    <3>1. h = <<>>
      BY <1>9, <1>12 DEF Events
    <3>2. t = <<>>
      BY <1>10, <2>3, TextFew DEF TextOf
    <3>3. <<>> \o <<>> = <<>>
      BY <1>9, <3>1, ConcatEmptySeq
    <3> QED BY <1>10, <2>3, <3>1, <3>2, <3>3, TextFew
  <2> QED BY <1>1, <2>1, <2>2, <2>3, <2>4, PanelFails
<1>13. CASE e.type = "cancelled"
  <2>1. panel' = Closed("stopped")
    BY <1>1, <1>3, <1>13 DEF Seen
  <2>2. panel' \in Panels /\ panel'.status = "stopped"
    BY <2>1, ClosedShows DEF StreamInv
  <2> QED BY <1>1, <1>4, <1>8, <2>2, PanelLeaves
<1>14. e.type \in {"token", "stage", "result", "error", "cancelled"}
  BY DEF Events, EventTypes, Terminal
<1> QED BY <1>11, <1>12, <1>13, <1>14

-------------------------------------------------------------------------------
\* The invariant holds at first, ...
LEMMA StreamStarts == ASSUME StreamInit PROVE StreamInv
<1>1. Shape
  BY StreamAssumption DEF StreamInit, Shape, Panels, Terminal
<1>2. Phases
  BY DEF StreamInit, Phases
<1>3. LastOnly(wire \o channel, ending)
  <2>1. wire \in Seq(Events) /\ channel \in Seq(Events) /\ NoEnd(wire) /\ NoEnd(channel)
    BY DEF StreamInit, NoEnd
  <2> QED BY <2>1, NoEndYet
<1>4. WholeAt(0, 0)
  <2>1. Count(0, 0) = <<>>
    BY CountFew
  <2>2. TextOf(channel) = <<>> /\ TextOf(wire) = <<>>
    BY TextFew DEF StreamInit
  <2>3. PICK x \in Seq(Nat) : x = <<>>
    BY NoText
  <2>4. x \o x = x
    BY <2>3, ConcatEmptySeq
  <2>5. Got = <<>>
    BY <2>2, <2>3, <2>4 DEF Got, StreamInit
  <2>6. (0 + 1)..0 = {}
    OBVIOUS
  <2> QED BY <2>1, <2>2, <2>5, <2>6 DEF WholeAt, StreamInit
<1> QED BY <1>1, <1>2, <1>3, <1>4 DEF StreamInv, Whole

\* ... and every step keeps it.
LEMMA StreamKeeps == ASSUME StreamInv, [StreamNext]_streamVars PROVE StreamInv'
<1>1. CASE Say
  BY <1>1, SayKeeps
<1>2. CASE ReportStage
  BY <1>2, ReportStageKeeps
<1>3. CASE Finish
  BY <1>3, FinishKeeps
<1>4. CASE HangUp \/ CancelTurn \/ EndBody \/ UNCHANGED streamVars
  BY <1>4, OthersKeep
<1>5. CASE Send
  BY <1>5, SendKeeps
<1>6. CASE Read
  BY <1>6, ReadKeeps
<1>7. CASE Frame
  BY <1>7, FrameKeeps
<1>8. CASE Conclude
  BY <1>8, ConcludeKeeps
<1>9. CASE Cut
  BY <1>9, CutKeeps
<1>10. CASE Abort
  BY <1>10, AbortKeeps
<1> QED BY <1>1, <1>2, <1>3, <1>4, <1>5, <1>6, <1>7, <1>8, <1>9, <1>10
        DEF StreamNext, TurnThread, Body, Browser

\* So it holds always.
LEMMA StreamInvHolds == StreamSpec => []StreamInv
<1>1. StreamInit => StreamInv
  BY StreamStarts
<1>2. StreamInv /\ [StreamNext]_streamVars => StreamInv'
  BY StreamKeeps
<1> QED BY <1>1, <1>2, PTL DEF StreamSpec

\* The types, out of the invariant.
LEMMA StreamTyped == ASSUME StreamInv PROVE StreamTypeOK
<1>1. channel \in Seq(Events) /\ wire \in Seq(Events)
  BY DEF StreamInv, Shape
<1>2. PICK u \in Seq(Events) : u = channel \o wire
  BY <1>1, ConcatProperties
<1>3. ASSUME NEW e \in Range(u) PROVE e.type \in Terminal \union {"token", "stage"}
  <2>1. PICK i \in 1..Len(u) : u[i] = e
    BY DEF Range
  <2>2. u[i] \in Events
    BY <2>1
  <2> QED BY <2>1, <2>2 DEF Events, EventTypes
<1> QED BY <1>2, <1>3 DEF StreamTypeOK, StreamInv, Shape, Panels

(***************************************************************************)
(* Every variable of a stream has its type, and channel and connection     *)
(* hold no more than they can.                                             *)
(***************************************************************************)
THEOREM StreamTypes == StreamSpec => []StreamTypeOK
<1>1. StreamInv => StreamTypeOK
  BY StreamTyped
<1> QED BY <1>1, StreamInvHolds, PTL

\* What the panel has and what is on its way is the answer, out of the invariant.
LEMMA WholeIsWhole == ASSUME StreamInv PROVE TextIsWhole
<1>1. PICK k \in Nat, l \in Nat : WholeAt(k, l)
  BY DEF StreamInv, Whole
<1>2. k <= l /\ l <= said /\ discarded = (k + 1)..l /\ said \in Nat
  BY <1>1 DEF WholeAt, StreamInv, Shape
<1>3. Kept = Count(0, k) \o Count(l, said)
  BY <1>2, KeptCounts
<1>4. Listens => Got \o TextOf(channel) = Kept
  <2>1. ending = "none" /\ Listens => Got = Count(0, k) /\ TextOf(channel) = Count(l, said)
    BY <1>1 DEF WholeAt
  <2> QED BY <1>1, <1>3, <2>1 DEF WholeAt
<1>5. Failed => panel.shown = Kept
  <2>1. Failed => ending # "none"
    BY DEF StreamInv, Phases, Failed
  <2> QED BY <1>1, <1>3, <2>1 DEF WholeAt
<1>6. discarded # {} => ending # "none" /\ discarded = Min(discarded)..Max(discarded)
  <2>1. SUFFICES ASSUME discarded # {}
                 PROVE  ending # "none" /\ discarded = Min(discarded)..Max(discarded)
    OBVIOUS
  <2>2. k < l
    BY <1>2, <2>1
  <2>3. ending # "none"
    BY <1>1, <2>2 DEF WholeAt
  <2>4. k + 1 \in discarded /\ l \in discarded /\ discarded \in SUBSET (1..l)
    BY <1>2, <2>2
  <2>5. /\ Min(discarded) \in discarded /\ \A x \in discarded : Min(discarded) <= x
        /\ Max(discarded) \in discarded /\ \A x \in discarded : x <= Max(discarded)
    BY <2>1, <2>4, Extremes
  <2>6. Min(discarded) = k + 1 /\ Max(discarded) = l
    BY <1>2, <2>4, <2>5
  <2> QED BY <1>2, <2>3, <2>6
<1>7. Got \o TextOf(channel) =
        panel.shown \o panel.buffer \o TextOf(wire) \o TextOf(channel)
  BY DEF Got
<1> QED BY <1>4, <1>5, <1>6, <1>7 DEF TextIsWhole, Listens, Failed

-------------------------------------------------------------------------------
(* The end is known *)

\* Events of which the last one ends the stream.
EndThere(s) == s # <<>> /\ s[Len(s)].type \in Terminal

\* The end is on its way, or the panel has the result; no panel says what is not so.
Aware ==
    /\ panel.result => ending = "result"
    /\ panel.status = "completed" => ending = "result"
    /\ Failed => ending = "error"
    /\ Listens /\ ending # "none" => panel.result \/ EndThere(wire \o channel)

\* An event before the end may be read; the end comes by being put.
LEMMA EndStays ==
    ASSUME NEW s \in Seq(Events)
    PROVE  /\ EndThere(s) /\ Head(s).type \notin Terminal => EndThere(Tail(s))
           /\ \A t \in Seq(Events), e \in Events :
                  e.type \in Terminal => EndThere(s \o Append(t, e))
<1>1. ASSUME EndThere(s), Head(s).type \notin Terminal PROVE EndThere(Tail(s))
  <2>1. PICK n \in Nat : n = Len(s) /\ n > 0 /\ s[n].type \in Terminal
    BY <1>1 DEF EndThere
  <2>2. s # <<>> /\ Head(s) = s[1]
    BY <2>1
  <2>3. n # 1
    BY <1>1, <2>1, <2>2
  <2>4. PICK r \in Seq(Events) : r = Tail(s) /\ Len(r) = n - 1
                                 /\ \A i \in 1..(n - 1) : r[i] = s[i + 1]
    BY <2>1, <2>2, Shortened
  <2>5. n - 1 \in 1..(n - 1) /\ (n - 1) + 1 = n
    BY <2>1, <2>3
  <2>6. r[n - 1] = s[n] /\ r # <<>>
    <3>1. r[n - 1] = s[n]
      BY <2>4, <2>5
    <3>2. Len(r) > 0
      BY <2>4, <2>5
    <3> QED BY <3>1, <3>2
  <2> QED BY <2>1, <2>4, <2>6 DEF EndThere
<1>2. ASSUME NEW t \in Seq(Events), NEW e \in Events, e.type \in Terminal
      PROVE  EndThere(s \o Append(t, e))
  <2>1. PICK m \in Nat, n \in Nat : m = Len(s) /\ n = Len(t)
    OBVIOUS
  <2>2. PICK r \in Seq(Events) : r = Append(t, e)
    BY AppendProperties
  <2>3. Len(r) = n + 1 /\ r[n + 1] = e
    BY <2>1, <2>2, AppendProperties
  <2>4. PICK l \in Nat : l = n + 1
    OBVIOUS
  <2>5. l = Len(r) /\ m = Len(s) /\ r[l] = e
    BY <2>1, <2>3, <2>4
  <2>6. PICK u \in Seq(Events) : u = s \o r
    BY ConcatProperties
  <2>7. /\ Len(u) = m + l
        /\ \A i \in 1..(m + l) : u[i] = IF i <= m THEN s[i] ELSE r[i - m]
    BY <2>5, <2>6, Joined
  <2>8. m + l \in 1..(m + l) /\ ~(m + l <= m) /\ (m + l) - m = l
    BY <2>4
  <2>9. u[m + l] = e /\ u # <<>>
    BY <2>5, <2>7, <2>8
  <2> QED BY <1>2, <2>2, <2>6, <2>7, <2>9 DEF EndThere
<1> QED BY <1>1, <1>2

\* The thread ends the stream: the end is on its way.
LEMMA FinishTells == ASSUME StreamInv, Aware, Finish PROVE Aware'
<1>1. /\ ending = "none" /\ ending' \in Terminal
      /\ channel' = Append(Room, Event(ending', <<>>))
      /\ wire' = wire /\ panel' = panel /\ link' = link
  BY DEF Finish
<1>2. channel \in Seq(Events) /\ wire \in Seq(Events) /\ said \in Nat /\ Len(channel) <= MaxItems
  BY DEF StreamInv, Shape
<1>3. NoEnd(channel)
  BY <1>1, <1>2, NoEndYet DEF StreamInv
<1>4. PICK k \in Nat : k <= said /\ TextOf(channel) = Count(k, said)
  BY <1>1 DEF StreamInv, Whole, WholeAt
<1>5. Carries(channel, Count(k, said))
  BY <1>2, <1>3, <1>4 DEF Carries
<1>6. Room \in Seq(Events)
  BY <1>2, <1>4, <1>5, RoomIsMade
<1>7. PICK e : e = Event(ending', <<>>)
  OBVIOUS
<1>8. e \in Events /\ e.type \in Terminal
  <2>1. e = [type |-> ending', text |-> <<>>]
    BY <1>7 DEF Event
  <2>2. ending' # "token"
    BY <1>1 DEF Terminal
  <2> QED BY <1>1, <2>1, <2>2 DEF Events, EventTypes
<1>9. EndThere(wire' \o channel')
  BY <1>1, <1>2, <1>6, <1>7, <1>8, EndStays
<1>10. ~panel.result /\ panel.status # "completed" /\ ~Failed
  BY <1>1 DEF Aware
<1> QED BY <1>1, <1>9, <1>10 DEF Aware, Failed

\* The panel reads an event, perhaps the end.
LEMMA ReadTells == ASSUME StreamInv, Aware, Read PROVE Aware'
<1>1. /\ panel.status = "reading" /\ wire # <<>>
      /\ panel' = Seen(Head(wire)) /\ wire' = Tail(wire)
      /\ channel' = channel /\ ending' = ending /\ link' = link
  BY DEF Read
<1>2. channel \in Seq(Events) /\ wire \in Seq(Events) /\ panel \in Panels
  BY DEF StreamInv, Shape
<1>3. PICK e \in Events : e = Head(wire)
  BY <1>1, <1>2, HeadTailProperties
<1>4. PICK s \in Seq(Events) : s = wire \o channel
  BY <1>2, ConcatProperties
<1>5. s # <<>> /\ Head(s) = e /\ Tail(s) = wire' \o channel'
  BY <1>1, <1>2, <1>3, <1>4, EventMoves
<1>6. e.type \in Terminal => e.type = ending
  BY <1>4, <1>5, TailEnds DEF StreamInv
<1>7. CASE e.type \in {"token", "stage"}
  <2>1. panel'.status = "reading" /\ panel'.result = panel.result
    BY <1>1, <1>2, <1>3, <1>7 DEF Seen, Panels
  <2>2. EndThere(wire \o channel) => EndThere(wire' \o channel')
    BY <1>4, <1>5, <1>7, EndStays DEF Terminal
  <2>3. Listens' = Listens /\ ~Failed'
    BY <1>1, <2>1 DEF Listens, Failed
  <2> QED BY <1>1, <2>1, <2>2, <2>3 DEF Aware
<1>8. CASE e.type = "result"
  <2>1. panel'.status = "reading" /\ panel'.result
    BY <1>1, <1>2, <1>3, <1>8 DEF Seen, Panels
  <2>2. ending = "result"
    BY <1>6, <1>8 DEF Terminal
  <2> QED BY <1>1, <2>1, <2>2 DEF Aware, Failed
<1>9. CASE e.type \in {"error", "cancelled"}
  <2>1. PICK status : panel' = Closed(status)
                      /\ status = IF e.type = "error" THEN "failed" ELSE "stopped"
    BY <1>1, <1>3, <1>9 DEF Seen
  <2>2. panel'.status = status /\ panel'.result = panel.result
    BY <1>2, <2>1 DEF Closed, Panels
  <2>3. ending = e.type
    BY <1>6, <1>9 DEF Terminal
  <2> QED BY <1>1, <1>9, <2>1, <2>2, <2>3 DEF Aware, Listens, Failed
<1>10. e.type \in {"token", "stage", "result", "error", "cancelled"}
  BY <1>3 DEF Events, EventTypes, Terminal
<1> QED BY <1>7, <1>8, <1>9, <1>10

\* The reader is done: it has the result, or the connection broke.
LEMMA ConcludeTells == ASSUME StreamInv, Aware, Conclude PROVE Aware'
<1>1. /\ panel.status = "reading" /\ wire = <<>> /\ link # "open"
      /\ channel' = channel /\ ending' = ending /\ link' = link /\ wire' = wire
  BY DEF Conclude
<1>2. panel \in Panels /\ link \in {"open", "ended", "cut"}
  BY DEF StreamInv, Shape
<1>3. CASE link = "ended" /\ panel.result
  <2>1. panel' = [panel EXCEPT !.status = "completed", !.shown = <<>>, !.buffer = <<>>]
    BY <1>3 DEF Conclude
  <2>2. panel'.status = "completed" /\ panel'.result
    BY <1>2, <1>3, <2>1 DEF Panels
  <2> QED BY <1>1, <1>3, <2>2 DEF Aware, Listens, Failed
<1>4. CASE link = "ended" /\ ~panel.result
  <2>1. channel = <<>> /\ ending # "none"
    BY <1>4 DEF StreamInv, Phases
  <2>2. EndThere(wire \o channel)
    BY <1>1, <1>4, <2>1 DEF Aware, Listens
  <2>3. <<>> \o channel = channel
    BY ConcatEmptySeq DEF StreamInv, Shape
  <2> QED BY <1>1, <2>1, <2>2, <2>3 DEF EndThere
<1>5. CASE link = "cut"
  <2>1. panel' = Closed("failed")
    BY <1>5 DEF Conclude
  <2>2. panel'.status = "failed" /\ panel'.result = panel.result
    BY <1>2, <2>1 DEF Closed, Panels
  <2> QED BY <1>1, <1>5, <2>2 DEF Aware, Listens, Failed
<1> QED BY <1>1, <1>2, <1>3, <1>4, <1>5

\* Every step keeps it: what is known, and what is on its way.
LEMMA AwareKeeps == ASSUME StreamInv, Aware, [StreamNext]_streamVars PROVE Aware'
<1>1. CASE Say \/ ReportStage
  <2>1. ending = "none" /\ ending' = ending /\ panel' = panel /\ link' = link
    BY <1>1 DEF Say, ReportStage
  <2> QED BY <2>1 DEF Aware, Failed
<1>2. CASE Finish
  BY <1>2, FinishTells
<1>3. CASE HangUp \/ CancelTurn \/ EndBody \/ UNCHANGED streamVars
  <2>1. /\ channel' = channel /\ wire' = wire /\ panel' = panel /\ ending' = ending
        /\ link' = link \/ (link = "open" /\ link' = "ended")
    BY <1>3 DEF HangUp, CancelTurn, EndBody, streamVars
  <2>2. Listens' = Listens /\ Failed' = Failed
    BY <2>1 DEF Listens, Failed
  <2> QED BY <2>1, <2>2 DEF Aware
<1>4. CASE Send
  <2>1. /\ channel # <<>> /\ wire' = Append(wire, Head(channel)) /\ channel' = Tail(channel)
        /\ panel' = panel /\ ending' = ending /\ link' = link
    BY <1>4 DEF Send
  <2>2. wire' \o channel' = wire \o channel
    BY <2>1, EventMoves DEF StreamInv, Shape
  <2>3. Listens' = Listens /\ Failed' = Failed
    BY <2>1 DEF Listens, Failed
  <2> QED BY <2>1, <2>2, <2>3 DEF Aware
<1>5. CASE Read
  BY <1>5, ReadTells
<1>6. CASE Frame \/ Abort
  <2>1. /\ channel' = channel /\ wire' = wire /\ ending' = ending /\ link' = link
        /\ panel.status = "reading" /\ panel \in Panels
    BY <1>6 DEF Frame, Abort, StreamInv, Shape
  <2>2. /\ panel'.result = panel.result
        /\ panel'.status \in {"reading", "stopped", "timed out"}
    BY <1>6, <2>1 DEF Frame, Abort, Closed, Panels
  <2>3. (Listens' => Listens) /\ ~Failed'
    BY <2>1, <2>2 DEF Listens, Failed
  <2> QED BY <2>1, <2>2, <2>3 DEF Aware
<1>7. CASE Conclude
  BY <1>7, ConcludeTells
<1>8. CASE Cut
  <2>1. panel' = panel /\ ending' = ending /\ link' = "cut"
    BY <1>8 DEF Cut
  <2> QED BY <2>1 DEF Aware, Listens, Failed
<1> QED BY <1>1, <1>2, <1>3, <1>4, <1>5, <1>6, <1>7, <1>8
        DEF StreamNext, TurnThread, Body, Browser

(***************************************************************************)
(* A panel that says completed has the result of its turn, and one that    *)
(* says failed was told so or lost the connection: the terminal event      *)
(* reaches every reader that stays (streamQuestion, handleSend).           *)
(***************************************************************************)
THEOREM PanelsKnowTheEnd == StreamSpec => []EndIsKnown
<1>1. StreamInit => Aware
  BY DEF StreamInit, Aware, Failed
<1>2. StreamInv /\ Aware /\ [StreamNext]_streamVars => Aware'
  BY AwareKeeps
<1>3. Aware => EndIsKnown
  BY DEF Aware, EndIsKnown, Failed
<1> QED BY <1>1, <1>2, <1>3, StreamInvHolds, PTL DEF StreamSpec

(***************************************************************************)
(* No word of an answer is lost, doubled or out of order on its way, but   *)
(* for the piece that makes room for the terminal event; that event comes  *)
(* once and last, and the panel says how the turn has ended                *)
(* (BoundedEventChannel, stream_chat.body, streamQuestion).                *)
(***************************************************************************)
THEOREM AnswersArriveWhole == StreamSpec => []StreamIsSound
<1>1. StreamInv => EndIsLast
  BY DEF StreamInv, LastOnly, EndIsLast
<1>2. StreamInv => TextIsWhole
  BY WholeIsWhole
<1>3. StreamInv /\ EndIsKnown => StreamIsSound
  BY <1>1, <1>2 DEF StreamIsSound
<1> QED BY <1>3, StreamInvHolds, PanelsKnowTheEnd, PTL

================================================================================
