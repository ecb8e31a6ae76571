---------------------------- MODULE TextsProofs -----------------------------
(***************************************************************************)
(* Proofs about Texts, for whatever texts and files there are.             *)
(***************************************************************************)
EXTENDS Texts, LazcProofs

-----------------------------------------------------------------------------
(* Where fields end.                                                       *)

Count(a, sep, i) == Cardinality(SepsTo(a, sep, i))

Seps(a, sep) == SepsTo(a, sep, Len(a))

Ends(a, sep) == {0, Len(a) + 1} \cup Seps(a, sep)

Rank(a, sep, i) == Cardinality({j \in Ends(a, sep) : j < i})

\* The end of rank m: the beginning, the m-th separator, or the end of the text.
EndAt(a, sep, m, x) ==
    \/ m = 0 /\ x = 0
    \/ m = Count(a, sep, Len(a)) + 1 /\ x = Len(a) + 1
    \/ /\ x \in Seps(a, sep) /\ Count(a, sep, x) = m
       /\ \A y \in 0..(x - 1) : Count(a, sep, y) < m

LEMMA CountFacts ==
    ASSUME NEW a, NEW sep
    PROVE  /\ \A i \in Nat : Count(a, sep, i) \in Nat
           /\ Count(a, sep, 0) = 0
           /\ \A i, k \in Nat : k <= i => Count(a, sep, k) <= Count(a, sep, i)
<1>1. ASSUME NEW i \in Nat PROVE Count(a, sep, i) \in Nat
  BY SepsFinite DEF Count
<1>2. Count(a, sep, 0) = 0
  <2>1. SepsTo(a, sep, 0) = {}
    BY DEF SepsTo
  <2> QED BY <2>1, FS_EmptySet DEF Count
<1>3. ASSUME NEW i \in Nat, NEW k \in Nat, k <= i PROVE Count(a, sep, k) <= Count(a, sep, i)
  <2>1. k \in 0..i
    BY <1>3
  <2> QED BY <2>1, SepsGrow DEF Count
<1> QED BY <1>1, <1>2, <1>3

LEMMA CountStep ==
    ASSUME NEW T, NEW a \in Seq(T), NEW sep, NEW i \in 1..Len(a)
    PROVE  Count(a, sep, i) = IF i \in Seps(a, sep) THEN Count(a, sep, i - 1) + 1
                                                    ELSE Count(a, sep, i - 1)
<1>1. i - 1 \in Nat /\ Len(a) \in Nat
  OBVIOUS
<1>2. IsFiniteSet(SepsTo(a, sep, i - 1)) /\ i \notin SepsTo(a, sep, i - 1)
  <2>1. i \notin SepsTo(a, sep, i - 1)
    BY DEF SepsTo
  <2> QED BY <1>1, <2>1, SepsFinite, Zenon
<1>3. CASE i \in Seps(a, sep)
  <2>1. SepsTo(a, sep, i) = SepsTo(a, sep, i - 1) \cup {i}
    BY <1>1, <1>3 DEF Seps, SepsTo
  <2> QED BY <1>2, <1>3, <2>1, FS_AddElement DEF Count
<1>4. CASE i \notin Seps(a, sep)
  <2>1. SepsTo(a, sep, i) = SepsTo(a, sep, i - 1)
    BY <1>1, <1>4 DEF Seps, SepsTo
  <2> QED BY <1>4, <2>1 DEF Count
<1> QED BY <1>3, <1>4

LEMMA RankFacts ==
    ASSUME NEW T, NEW a \in Seq(T), NEW sep
    PROVE  /\ Rank(a, sep, 0) = 0
           /\ \A i \in 1..(Len(a) + 1) : Rank(a, sep, i) = Count(a, sep, i - 1) + 1
           /\ Cardinality(Ends(a, sep)) = Count(a, sep, Len(a)) + 2
<1>1. Len(a) \in Nat /\ Seps(a, sep) \in SUBSET (1..Len(a))
  BY DEF Seps, SepsTo
<1>2. Rank(a, sep, 0) = 0
  <2>1. {j \in Ends(a, sep) : j < 0} = {}
    BY <1>1 DEF Ends
  <2> QED BY <2>1, FS_EmptySet DEF Rank
<1>3. ASSUME NEW i \in 1..(Len(a) + 1) PROVE Rank(a, sep, i) = Count(a, sep, i - 1) + 1
  <2>1. i - 1 \in Nat
    BY <1>1
  <2>2. IsFiniteSet(SepsTo(a, sep, i - 1)) /\ 0 \notin SepsTo(a, sep, i - 1)
    <3>1. 0 \notin SepsTo(a, sep, i - 1)
      BY DEF SepsTo
    <3> QED BY <2>1, <3>1, SepsFinite, Zenon
  <2>3. {j \in Ends(a, sep) : j < i} = SepsTo(a, sep, i - 1) \cup {0}
    BY <1>1, <2>1 DEF Ends, Seps, SepsTo
  <2> QED BY <2>2, <2>3, FS_AddElement DEF Rank, Count
<1>4. Cardinality(Ends(a, sep)) = Count(a, sep, Len(a)) + 2
  <2> DEFINE E == Seps(a, sep) \cup {0}
  <2>1. IsFiniteSet(Seps(a, sep)) /\ 0 \notin Seps(a, sep) /\ Len(a) + 1 \notin E
    BY <1>1, SepsFinite DEF Seps
  <2>2. IsFiniteSet(E) /\ Cardinality(E) = Count(a, sep, Len(a)) + 1
    BY <2>1, FS_AddElement DEF Count, Seps
  <2>3. Ends(a, sep) = E \cup {Len(a) + 1}
    BY DEF Ends
  <2> HIDE DEF E
  <2>4. Cardinality(Ends(a, sep)) = Cardinality(E) + 1
    BY <2>1, <2>2, <2>3, FS_AddElement
  <2>5. Count(a, sep, Len(a)) \in Nat
    BY <1>1, CountFacts
  <2> QED BY <2>2, <2>4, <2>5
<1> QED BY <1>2, <1>3, <1>4

LEMMA EndExists ==
    ASSUME NEW T, NEW a \in Seq(T), NEW sep, NEW m \in 0..(Count(a, sep, Len(a)) + 1)
    PROVE  \E x : EndAt(a, sep, m, x)
<1>1. Len(a) \in Nat /\ \A i \in 0..Len(a) : Count(a, sep, i) \in Nat
  <2>1. Len(a) \in Nat /\ \A i \in 0..Len(a) : i \in Nat
    OBVIOUS
  <2> QED BY <2>1, CountFacts, Zenon
<1>2. CASE m = 0 \/ m = Count(a, sep, Len(a)) + 1
  BY <1>2 DEF EndAt
<1>3. CASE m # 0 /\ m # Count(a, sep, Len(a)) + 1
  <2> DEFINE S == {i \in 1..Len(a) : Count(a, sep, i) >= m}
  <2>1. m \in Nat /\ m > 0 /\ m <= Count(a, sep, Len(a))
    BY <1>1, <1>3
  <2>2. Len(a) # 0
    BY <2>1, CountFacts
  <2>3. Len(a) \in S /\ S \in SUBSET Nat
    BY <1>1, <2>1, <2>2
  <2>4. PICK x \in S : \A y \in S : x <= y
    BY <2>3, LeastNat
  <2>5. x \in 1..Len(a) /\ Count(a, sep, x) >= m
    OBVIOUS
  <2>6. ASSUME NEW y \in 0..(x - 1) PROVE Count(a, sep, y) < m
    <3>1. CASE y = 0
      BY <2>1, <3>1, CountFacts
    <3>2. CASE y # 0
      <4>1. y \in 1..Len(a) /\ ~(x <= y)
        BY <1>1, <2>5, <3>2
      <4> QED BY <1>1, <2>1, <2>4, <4>1
    <3> QED BY <3>1, <3>2
  <2>7. Count(a, sep, x - 1) < m /\ Count(a, sep, x - 1) \in Nat /\ Count(a, sep, x) \in Nat
    BY <1>1, <2>5, <2>6
  <2>8. x \in Seps(a, sep) /\ Count(a, sep, x) = m
    BY <2>1, <2>5, <2>7, CountStep
  <2> QED BY <2>6, <2>8 DEF EndAt
<1> QED BY <1>2, <1>3

\* Seen from an end, the others are before it or behind it.
Splits(a, sep, m, x) ==
    /\ x \in 0..(Len(a) + 1) /\ x \in Ends(a, sep) /\ Rank(a, sep, x) = m
    /\ m <= Count(a, sep, Len(a)) + 1
    /\ \A y \in 0..(x - 1) : Count(a, sep, y) < m
    /\ \A y \in Seps(a, sep) : y > x => Count(a, sep, y) > m

LEMMA EndSplits ==
    ASSUME NEW T, NEW a \in Seq(T), NEW sep, NEW m \in Nat, NEW x, EndAt(a, sep, m, x)
    PROVE  Splits(a, sep, m, x)
<1>1. /\ Len(a) \in Nat /\ Seps(a, sep) \in SUBSET (1..Len(a))
      /\ \A i \in 0..Len(a) : Count(a, sep, i) \in Nat /\ Count(a, sep, i) <= Count(a, sep, Len(a))
  <2>1. Len(a) \in Nat /\ \A i \in 0..Len(a) : i \in Nat /\ i <= Len(a)
    OBVIOUS
  <2>2. Seps(a, sep) \in SUBSET (1..Len(a))
    BY DEF Seps, SepsTo
  <2> QED BY <2>1, <2>2, CountFacts, Zenon
<1>2. \A y \in Seps(a, sep) :
         y \in 1..Len(a) /\ y - 1 \in 0..Len(a) /\ Count(a, sep, y) = Count(a, sep, y - 1) + 1
  BY <1>1, CountStep
<1>3. CASE m = 0 /\ x = 0
  <2>1. x \in Ends(a, sep) /\ Rank(a, sep, x) = 0
    BY <1>3, RankFacts DEF Ends
  <2>2. \A y \in Seps(a, sep) : Count(a, sep, y) > 0
    BY <1>1, <1>2, <1>3
  <2>3. 0..(x - 1) = {} /\ 0 <= Count(a, sep, Len(a)) + 1
    BY <1>1, <1>3
  <2> QED BY <1>1, <1>3, <2>1, <2>2, <2>3 DEF Splits
<1>4. CASE m = Count(a, sep, Len(a)) + 1 /\ x = Len(a) + 1
  <2>1. x \in Ends(a, sep) /\ Rank(a, sep, x) = Count(a, sep, Len(a)) + 1
    <3>1. Len(a) + 1 \in 1..(Len(a) + 1) /\ (Len(a) + 1) - 1 = Len(a)
      BY <1>1
    <3> QED BY <1>4, <3>1, RankFacts DEF Ends
  <2>2. \A y \in Seps(a, sep) : ~(y > x)
    BY <1>1, <1>2, <1>4
  <2>3. \A y \in 0..(x - 1) : Count(a, sep, y) < m
    BY <1>1, <1>4
  <2> QED BY <1>1, <1>4, <2>1, <2>2, <2>3 DEF Splits
<1>5. CASE /\ x \in Seps(a, sep) /\ Count(a, sep, x) = m
           /\ \A y \in 0..(x - 1) : Count(a, sep, y) < m
  <2>1. x \in 1..Len(a) /\ Count(a, sep, x) = Count(a, sep, x - 1) + 1
    BY <1>2, <1>5
  <2>2. x \in Ends(a, sep) /\ Rank(a, sep, x) = m
    <3>1. x \in 1..(Len(a) + 1)
      BY <1>1, <2>1
    <3> QED BY <1>5, <2>1, <3>1, RankFacts DEF Ends
  <2>3. ASSUME NEW y \in Seps(a, sep), y > x PROVE Count(a, sep, y) > m
    <3>1. x \in Nat /\ y - 1 \in Nat /\ x <= y - 1
      BY <1>2, <2>1, <2>3
    <3>2. Count(a, sep, x) <= Count(a, sep, y - 1)
      BY <3>1, CountFacts
    <3> QED BY <1>1, <1>2, <1>5, <3>2
  <2>4. x \in 0..(Len(a) + 1) /\ m <= Count(a, sep, Len(a)) + 1
    BY <1>1, <1>5, <2>1
  <2> QED BY <1>5, <2>2, <2>3, <2>4 DEF Splits
<1> QED BY <1>3, <1>4, <1>5 DEF EndAt

LEMMA RankGrows ==
    ASSUME NEW T, NEW a \in Seq(T), NEW sep,
           NEW i \in Ends(a, sep), NEW k \in Ends(a, sep), i < k
    PROVE  Rank(a, sep, i) < Rank(a, sep, k)
<1>1. Len(a) \in Nat /\ i \in 0..Len(a) /\ k \in 1..(Len(a) + 1) /\ k - 1 \in Nat /\ i <= k - 1
  BY DEF Ends, Seps, SepsTo
<1>2. Count(a, sep, k - 1) \in Nat /\ Rank(a, sep, k) = Count(a, sep, k - 1) + 1
  BY <1>1, CountFacts, RankFacts
<1>3. CASE i = 0
  <2>1. Rank(a, sep, i) = 0
    BY <1>3, RankFacts
  <2> QED BY <1>2, <2>1
<1>4. CASE i # 0
  <2>1. i \in Seps(a, sep) /\ i \in 1..Len(a) /\ i \in Nat
    BY <1>1, <1>4 DEF Ends
  <2>2. Rank(a, sep, i) = Count(a, sep, i)
    <3>1. i \in 1..(Len(a) + 1)
      BY <1>1, <2>1
    <3> QED BY <2>1, <3>1, CountStep, RankFacts
  <2>3. Count(a, sep, i) <= Count(a, sep, k - 1) /\ Count(a, sep, i) \in Nat
    BY <1>1, <2>1, CountFacts
  <2> QED BY <1>2, <2>2, <2>3
<1> QED BY <1>3, <1>4

LEMMA EndChosen ==
    ASSUME NEW T, NEW a \in Seq(T), NEW sep, NEW m \in Nat, NEW x, EndAt(a, sep, m, x)
    PROVE  (CHOOSE i \in Ends(a, sep) : Rank(a, sep, i) = m) = x
<1>1. x \in Ends(a, sep) /\ Rank(a, sep, x) = m /\ x \in 0..(Len(a) + 1)
  BY EndSplits DEF Splits
<1>2. ASSUME NEW i \in Ends(a, sep), Rank(a, sep, i) = m PROVE i = x
  <2>1. i \in Int
    BY DEF Ends, Seps, SepsTo
  <2>2. ~(i < x) /\ ~(x < i)
    BY <1>1, <1>2, RankGrows
  <2> QED BY <1>1, <2>1, <2>2
<1> QED BY <1>1, <1>2

\* x and e are an end and the next one.
Between(a, sep, x, e) ==
    /\ x \in 0..Len(a) /\ e \in (x + 1)..(Len(a) + 1)
    /\ x # 0 => x \in Seps(a, sep)
    /\ e # Len(a) + 1 => e \in Seps(a, sep)
    /\ \A y \in Seps(a, sep) : y <= x \/ y >= e

LEMMA NextEnd ==
    ASSUME NEW T, NEW a \in Seq(T), NEW sep, NEW m \in Nat, NEW x, NEW e,
           EndAt(a, sep, m, x), EndAt(a, sep, m + 1, e)
    PROVE  Between(a, sep, x, e)
<1>1. /\ x \in 0..(Len(a) + 1) /\ x \in Ends(a, sep) /\ Rank(a, sep, x) = m
      /\ \A y \in Seps(a, sep) : y > x => Count(a, sep, y) > m
  BY EndSplits DEF Splits
<1>2. /\ e \in 0..(Len(a) + 1) /\ e \in Ends(a, sep) /\ Rank(a, sep, e) = m + 1
      /\ \A y \in 0..(e - 1) : Count(a, sep, y) < m + 1
  <2>1. PICK k \in Nat : k = m + 1
    OBVIOUS
  <2>2. Splits(a, sep, k, e)
    BY <2>1, EndSplits
  <2> QED BY <2>1, <2>2 DEF Splits
<1>3. Len(a) \in Nat /\ \A y \in Seps(a, sep) : y \in 1..Len(a) /\ Count(a, sep, y) \in Nat
  <2>1. Len(a) \in Nat /\ \A y \in Seps(a, sep) : y \in 1..Len(a) /\ y \in Nat
    BY DEF Seps, SepsTo
  <2> QED BY <2>1, CountFacts, Zenon
<1>4. x < e
  <2>1. ~(e < x)
    <3>1. ~(m + 1 < m)
      OBVIOUS
    <3> QED BY <1>1, <1>2, <3>1, RankGrows
  <2>2. e # x
    BY <1>1, <1>2
  <2> QED BY <1>1, <1>2, <2>1, <2>2
<1>5. /\ x \in 0..Len(a) /\ e \in (x + 1)..(Len(a) + 1)
      /\ x # 0 => x \in Seps(a, sep)
      /\ e # Len(a) + 1 => e \in Seps(a, sep)
  BY <1>1, <1>2, <1>3, <1>4 DEF Ends
<1>6. ASSUME NEW y \in Seps(a, sep), ~(y <= x), ~(y >= e) PROVE FALSE
  <2>1. y > x /\ y \in 0..(e - 1)
    BY <1>3, <1>5, <1>6
  <2> QED BY <1>1, <1>2, <1>3, <2>1
<1> QED BY <1>5, <1>6 DEF Between

LEMMA FieldOfIs ==
    ASSUME NEW T, NEW a \in Seq(T), NEW sep, NEW l \in Nat \ {0}
    PROVE  /\ l > Count(a, sep, Len(a)) + 1 => FieldOf(a, l, sep) = <<>>
           /\ \A x, e : EndAt(a, sep, l - 1, x) /\ EndAt(a, sep, l, e) =>
                FieldOf(a, l, sep) = SubSeq(a, x + 1, e - 1)
<1>1. FieldOf(a, l, sep) =
        IF l >= Cardinality(Ends(a, sep)) THEN <<>>
        ELSE SubSeq(a, (CHOOSE i \in Ends(a, sep) : Rank(a, sep, i) = l - 1) + 1,
                       (CHOOSE i \in Ends(a, sep) : Rank(a, sep, i) = l) - 1)
  BY DEF FieldOf, Ends, Rank, Seps, SepsTo
<1>2. Cardinality(Ends(a, sep)) = Count(a, sep, Len(a)) + 2 /\ Count(a, sep, Len(a)) \in Nat
  <2>1. Len(a) \in Nat
    OBVIOUS
  <2> QED BY <2>1, RankFacts, CountFacts
<1>3. l > Count(a, sep, Len(a)) + 1 => FieldOf(a, l, sep) = <<>>
  BY <1>1, <1>2
<1>4. ASSUME NEW x, NEW e, EndAt(a, sep, l - 1, x), EndAt(a, sep, l, e)
      PROVE  FieldOf(a, l, sep) = SubSeq(a, x + 1, e - 1)
  <2>1. l - 1 \in Nat /\ l \in Nat
    OBVIOUS
  <2>2. /\ (CHOOSE i \in Ends(a, sep) : Rank(a, sep, i) = l - 1) = x
        /\ (CHOOSE i \in Ends(a, sep) : Rank(a, sep, i) = l) = e
    BY <1>4, <2>1, EndChosen
  <2>3. ~(l >= Cardinality(Ends(a, sep)))
    <3>1. l <= Count(a, sep, Len(a)) + 1
      BY <1>4, <2>1, EndSplits DEF Splits
    <3> QED BY <1>2, <3>1
  <2> QED BY <1>1, <2>2, <2>3
<1> QED BY <1>3, <1>4

-----------------------------------------------------------------------------
(* Where GetLineToStr begins and ends a field.                             *)

\* The separator put behind the text changes nothing before it.
LEMMA SameBefore ==
    ASSUME NEW T, NEW a \in Seq(T), NEW sep \in T, NEW i \in 0..Len(a)
    PROVE  SepsTo(Append(a, sep), sep, i) = SepsTo(a, sep, i)
<1> DEFINE s == Append(a, sep)
<1>1. Len(a) \in Nat /\ \A j \in 1..Len(a) : s[j] = a[j]
  OBVIOUS
<1> HIDE DEF s
<1>2. ASSUME NEW k \in 1..i PROVE Quoted(s, 1, k) <=> Quoted(a, 1, k)
  <2>1. {j \in 1..k : s[j] = Quote} = {j \in 1..k : a[j] = Quote}
    BY <1>1
  <2> QED BY <2>1 DEF Quoted
<1>3. \A k \in 1..i : s[k] = a[k]
  BY <1>1
<1>4. SepsTo(s, sep, i) = SepsTo(a, sep, i)
  BY <1>2, <1>3, Zenon DEF SepsTo
<1> QED BY <1>4 DEF s

\* The place from which a field is taken.
Begins(a, sep, l, from) == FieldStart(Append(a, sep), l, sep) = from

LEMMA BeginsAt ==
    ASSUME NEW T, NEW a \in Seq(T), NEW sep \in T, NEW l \in Nat \ {0}
    PROVE  LET At == {i \in 1..Len(a) : 1 + Count(a, sep, i) = l}
           IN /\ At = {} => Begins(a, sep, l, Len(a) + 2)
              /\ \A i \in At : (\A y \in At : i <= y) =>
                    Begins(a, sep, l, IF a[i] = sep THEN i + 1 ELSE i)
<1> DEFINE s == Append(a, sep)
           At == {i \in 1..Len(a) : 1 + Count(a, sep, i) = l}
           AtS == {i \in 1..(Len(s) - 1) : 1 + Cardinality(SepsTo(s, sep, i)) = l}
           Skip(i) == IF s[i] = sep THEN i + 1 ELSE i
<1>1. Len(s) = Len(a) + 1 /\ Len(a) \in Nat /\ s[Len(a) + 1] = sep /\ \A i \in 1..Len(a) : s[i] = a[i]
  OBVIOUS
<1>2. AtS = At
  <2>1. \A i \in 1..Len(a) : SepsTo(s, sep, i) = SepsTo(a, sep, i)
    BY SameBefore
  <2>2. Len(s) - 1 = Len(a)
    BY <1>1
  <2> HIDE DEF s
  <2> QED BY <2>1, <2>2 DEF Count
<1>3. FieldStart(s, l, sep) = Skip(FirstIn(At, Len(s)))
  <2>1. FieldStart(s, l, sep) = Skip(FirstIn(AtS, Len(s)))
    BY DEF FieldStart, SepsTo
  <2> HIDE DEF At, AtS, Skip
  <2> QED BY <1>2, <2>1
<1> HIDE DEF s
<1>4. ASSUME At = {} PROVE Begins(a, sep, l, Len(a) + 2)
  <2>1. FirstIn(At, Len(s)) = Len(a) + 1
    BY <1>1, <1>4 DEF FirstIn
  <2>2. FieldStart(s, l, sep) = (Len(a) + 1) + 1
    BY <1>1, <1>3, <2>1
  <2>3. FieldStart(s, l, sep) = Len(a) + 2
    BY <1>1, <2>2
  <2> QED BY <2>3 DEF Begins, s
<1>5. ASSUME NEW i \in At, \A y \in At : i <= y
      PROVE  Begins(a, sep, l, IF a[i] = sep THEN i + 1 ELSE i)
  <2>1. At \in SUBSET Nat /\ i \in 1..Len(a)
    BY <1>1
  <2> HIDE DEF At
  <2>2. FirstIn(At, Len(s)) = i
    BY <1>5, <2>1, FirstIs
  <2>3. FieldStart(s, l, sep) = IF a[i] = sep THEN i + 1 ELSE i
    BY <1>1, <1>3, <2>1, <2>2
  <2> QED BY <2>3 DEF Begins, s
<1> QED BY <1>4, <1>5

LEMMA FieldBegins ==
    ASSUME NEW T, NEW a \in Seq(T), NEW sep \in T, sep # Quote, NEW l \in Nat \ {0}
    PROVE  /\ l > Count(a, sep, Len(a)) + 1 => Begins(a, sep, l, Len(a) + 2)
           /\ \A x, e : EndAt(a, sep, l - 1, x) /\ EndAt(a, sep, l, e) =>
                Begins(a, sep, l, IF e = 1 THEN Len(a) + 2 ELSE x + 1)
<1> DEFINE At == {i \in 1..Len(a) : 1 + Count(a, sep, i) = l}
<1>1. /\ Len(a) \in Nat /\ Count(a, sep, 0) = 0
      /\ \A i \in 0..Len(a) : Count(a, sep, i) \in Nat /\ Count(a, sep, i) <= Count(a, sep, Len(a))
  <2>1. Len(a) \in Nat /\ \A i \in 0..Len(a) : i \in Nat /\ i <= Len(a)
    OBVIOUS
  <2> QED BY <2>1, CountFacts, Zenon
<1>2. ASSUME l > Count(a, sep, Len(a)) + 1 PROVE Begins(a, sep, l, Len(a) + 2)
  <2>1. At = {}
    BY <1>1, <1>2
  <2> QED BY <2>1, BeginsAt
<1>3. ASSUME NEW x, NEW e, EndAt(a, sep, l - 1, x), EndAt(a, sep, l, e)
      PROVE  Begins(a, sep, l, IF e = 1 THEN Len(a) + 2 ELSE x + 1)
  <2>1. l - 1 \in Nat /\ l \in Nat /\ (l - 1) + 1 = l
    OBVIOUS
  <2>2. Splits(a, sep, l - 1, x) /\ Between(a, sep, x, e)
    BY <1>3, <2>1, EndSplits, NextEnd
  <2>3. x \in 0..Len(a) /\ e \in (x + 1)..(Len(a) + 1) /\ (x # 0 => x \in Seps(a, sep))
    BY <2>2 DEF Between
  <2>4. CASE x # 0
    <3>1. Count(a, sep, x) = l - 1 /\ x \in 1..Len(a) /\ a[x] = sep
      <4>1. x \in Seps(a, sep) /\ x # Len(a) + 1
        BY <1>1, <2>3, <2>4
      <4>2. Count(a, sep, x) = l - 1
        BY <1>3, <2>4, <4>1 DEF EndAt
      <4> QED BY <4>1, <4>2 DEF Seps, SepsTo
    <3>2. x \in At
      BY <2>1, <3>1
    <3>3. \A y \in At : x <= y
      <4> SUFFICES ASSUME NEW y \in 1..Len(a), 1 + Count(a, sep, y) = l, ~(x <= y) PROVE FALSE
        OBVIOUS
      <4>1. y \in 0..(x - 1) /\ Count(a, sep, y) \in Nat
        BY <1>1, <3>1
      <4>2. Count(a, sep, y) < l - 1
        BY <2>2, <4>1 DEF Splits
      <4> QED BY <4>1, <4>2
    <3>4. Begins(a, sep, l, x + 1)
      BY <3>1, <3>2, <3>3, BeginsAt
    <3>5. e # 1
      BY <1>1, <2>3, <2>4
    <3> QED BY <3>4, <3>5
  <2>5. CASE x = 0
    <3>1. l = 1
      <4>1. Rank(a, sep, x) = l - 1
        BY <2>2 DEF Splits
      <4> QED BY <2>1, <2>5, <4>1, RankFacts
    <3>2. CASE e = 1
      <4>1. At = {}
        <5> SUFFICES ASSUME NEW y \in 1..Len(a), 1 + Count(a, sep, y) = 1 PROVE FALSE
          BY <3>1
        <5>1. 1 \in Seps(a, sep) /\ 1 \in 1..Len(a)
          BY <1>1, <2>2, <3>2 DEF Between
        <5>2. Count(a, sep, 1) = Count(a, sep, 1 - 1) + 1
          BY <5>1, CountStep
        <5>3. Count(a, sep, 1) <= Count(a, sep, y)
          <6>1. y \in Nat /\ 1 \in Nat /\ 1 <= y
            OBVIOUS
          <6> QED BY <6>1, CountFacts, Zenon
        <5> QED BY <1>1, <5>1, <5>2, <5>3
      <4>2. Begins(a, sep, l, Len(a) + 2)
        BY <4>1, BeginsAt
      <4> QED BY <3>2, <4>2
    <3>3. CASE e # 1
      <4>1. 1 \in 1..Len(a) /\ 1 \notin Seps(a, sep)
        BY <1>1, <2>2, <2>3, <2>5, <3>3 DEF Between
      <4>2. Count(a, sep, 1) = Count(a, sep, 1 - 1)
        BY <4>1, CountStep
      <4>3. 1 \in At /\ \A y \in At : 1 <= y
        BY <1>1, <3>1, <4>1, <4>2
      <4>4. a[1] # sep
        <5> SUFFICES ASSUME a[1] = sep PROVE FALSE
          OBVIOUS
        <5>1. ~Quoted(a, 1, 1)
          <6>1. \A j \in 1..1 : a[j] # Quote
            OBVIOUS
          <6> QED BY <6>1, NothingQuoted
        <5> QED BY <4>1, <5>1 DEF Seps, SepsTo
      <4>5. Begins(a, sep, l, 1)
        BY <4>3, <4>4, BeginsAt
      <4> QED BY <2>5, <3>3, <4>5
    <3> QED BY <3>2, <3>3
  <2> QED BY <2>4, <2>5
<1> QED BY <1>2, <1>3

\* Before the next quote a place is within quotes if the end before it is.
LEMMA QuotedSince ==
    ASSUME NEW a, NEW from \in Nat, NEW i \in Nat, from <= i,
           \A j \in (from + 1)..i : a[j] # Quote
    PROVE  Quoted(a, 1, i) <=> Quoted(a, 1, from)
<1>1. {j \in 1..i : a[j] = Quote} = {j \in 1..from : a[j] = Quote}
  OBVIOUS
<1> QED BY <1>1 DEF Quoted

LEMMA EndUnquoted ==
    ASSUME NEW T, NEW a \in Seq(T), NEW sep, NEW x, NEW e, Between(a, sep, x, e)
    PROVE  ~Quoted(a, 1, x)
<1>1. CASE x = 0
  <2>1. \A j \in 1..0 : a[j] # Quote
    OBVIOUS
  <2>2. ~Quoted(a, 1, 0)
    BY <2>1, NothingQuoted
  <2> QED BY <1>1, <2>2
<1>2. CASE x # 0
  BY <1>2 DEF Between, Seps, SepsTo
<1> QED BY <1>1, <1>2

\* A field without quotes goes on to its end.
LEMMA PlainField ==
    ASSUME NEW T, NEW a \in Seq(T), NEW sep \in T, sep # Quote, NEW x, NEW e,
           Between(a, sep, x, e), \A j \in (x + 1)..(e - 1) : a[j] # Quote
    PROVE  FieldFrom(Append(a, sep), x + 1, sep, TRUE) = SubSeq(a, x + 1, e - 1)
<1> DEFINE s == Append(a, sep)
           ends == {j \in (x + 1)..Len(s) : \/ s[j] = sep /\ ~(TRUE /\ Quoted(s, x + 1, j))
                                            \/ s[j] = Quote /\ ~Quoted(s, x + 1, j)}
           f == SubSeq(a, x + 1, e - 1)
<1>1. /\ s \in Seq(T) /\ Len(s) = Len(a) + 1 /\ Len(a) \in Nat /\ s[Len(a) + 1] = sep
      /\ \A i \in 1..Len(a) : s[i] = a[i]
  OBVIOUS
<1>2. FieldFrom(s, x + 1, sep, TRUE) = Dequote(SubSeq(s, x + 1, FirstIn(ends, Len(s) + 1) - 1), sep)
  BY DEF FieldFrom
<1> HIDE DEF s
<1>3. x \in 0..Len(a) /\ e \in (x + 1)..(Len(a) + 1) /\ (e # Len(a) + 1 => e \in Seps(a, sep))
  BY DEF Between
<1>4. s[e] = sep
  BY <1>1, <1>3 DEF Seps, SepsTo
<1>5. ASSUME NEW j \in (x + 1)..(e - 1) PROVE s[j] = a[j] /\ a[j] # sep /\ a[j] # Quote
  <2>1. j \in 1..Len(a) /\ j \in Nat /\ x \in Nat /\ x <= j /\ ~(j <= x) /\ ~(j >= e)
    BY <1>1, <1>3
  <2>2. ~Quoted(a, 1, j)
    <3>1. \A i \in (x + 1)..j : a[i] # Quote
      BY <1>3
    <3> QED BY <2>1, <3>1, QuotedSince, EndUnquoted
  <2>3. j \notin Seps(a, sep)
    BY <2>1 DEF Between
  <2> QED BY <1>1, <2>1, <2>2, <2>3 DEF Seps, SepsTo
<1>6. \A j \in (x + 1)..e : ~Quoted(s, x + 1, j)
  <2> SUFFICES ASSUME NEW j \in (x + 1)..e PROVE ~Quoted(s, x + 1, j)
    OBVIOUS
  <2>1. \A i \in (x + 1)..j : s[i] # Quote
    BY <1>3, <1>4, <1>5
  <2>2. x + 1 \in Int /\ j \in Int
    BY <1>3
  <2> QED BY <2>1, <2>2, NothingQuoted
<1>7. FirstIn(ends, Len(s) + 1) = e
  <2>1. e \in ends
    BY <1>1, <1>3, <1>4, <1>6
  <2>2. \A j \in ends : e <= j
    BY <1>1, <1>3, <1>5
  <2>3. ends \in SUBSET Nat
    BY <1>1, <1>3
  <2> HIDE DEF ends
  <2> QED BY <2>1, <2>2, <2>3, FirstIs
<1>8. SubSeq(s, x + 1, e - 1) = f
  BY <1>1, <1>3
<1>9. Dequote(f, sep) = f
  <2>1. f \in Seq(T) /\ \A i \in 1..Len(f) : f[i] = a[x + i] /\ x + i \in (x + 1)..(e - 1)
    BY <1>1, <1>3
  <2>2. \A i \in 1..Len(f) : f[i] # sep /\ f[i] # Quote
    BY <1>5, <2>1
  <2> HIDE DEF f
  <2> QED BY <2>1, <2>2, DequotePlain
<1> QED BY <1>2, <1>7, <1>8, <1>9 DEF s

\* A field that is quoted as a whole goes on to its second quote, whatever is
\* in it, and is cut to what is within them.
LEMMA QuotedField ==
    ASSUME NEW T, NEW a \in Seq(T), NEW sep \in T, sep # Quote, NEW x, NEW e,
           Between(a, sep, x, e), e - x > 3,
           a[x + 1] = Quote, a[e - 1] = Quote, a[x + 2] # sep, a[e - 2] # sep,
           \A j \in (x + 2)..(e - 2) : a[j] # Quote
    PROVE  FieldFrom(Append(a, sep), x + 1, sep, TRUE) = SubSeq(a, x + 2, e - 2)
<1> DEFINE s == Append(a, sep)
           ends == {j \in (x + 1)..Len(s) : \/ s[j] = sep /\ ~(TRUE /\ Quoted(s, x + 1, j))
                                            \/ s[j] = Quote /\ ~Quoted(s, x + 1, j)}
           f == SubSeq(a, x + 1, e - 2)
           g == SubSeq(a, x + 2, e - 2)
<1>1. /\ s \in Seq(T) /\ Len(s) = Len(a) + 1 /\ Len(a) \in Nat /\ s[Len(a) + 1] = sep
      /\ \A i \in 1..Len(a) : s[i] = a[i]
  OBVIOUS
<1>2. FieldFrom(s, x + 1, sep, TRUE) = Dequote(SubSeq(s, x + 1, FirstIn(ends, Len(s) + 1) - 1), sep)
  BY DEF FieldFrom
<1> HIDE DEF s
<1>3. x \in 0..Len(a) /\ e \in (x + 4)..(Len(a) + 1) /\ x \in Nat /\ e \in Nat
  <2>1. x \in 0..Len(a) /\ e \in (x + 1)..(Len(a) + 1)
    BY DEF Between
  <2> QED BY <1>1, <2>1
<1>4. s[x + 1] = Quote /\ s[e - 1] = Quote /\ \A j \in (x + 2)..(e - 2) : s[j] # Quote
  <2>1. /\ x + 1 \in 1..Len(a) /\ e - 1 \in 1..Len(a)
        /\ \A j \in (x + 2)..(e - 2) : j \in 1..Len(a)
    BY <1>1, <1>3
  <2> QED BY <1>1, <2>1, Zenon
<1>5. ASSUME NEW j \in (x + 1)..(e - 2) PROVE Quoted(s, x + 1, j)
  <2>1. \A i \in (x + 1)..j : s[i] = Quote <=> i = x + 1
    BY <1>3, <1>4
  <2>2. {i \in (x + 1)..j : s[i] = Quote} = {x + 1}
    BY <1>3, <2>1
  <2>3. Cardinality({x + 1}) = 1 /\ 1 % 2 = 1
    <3>1. Cardinality({x + 1}) = 1
      BY FS_Singleton
    <3> QED BY <3>1
  <2> QED BY <2>2, <2>3, Zenon DEF Quoted
<1>6. ~Quoted(s, x + 1, e - 1)
  <2>4. \A i \in (x + 1)..(e - 1) : s[i] = Quote <=> (i = x + 1 \/ i = e - 1)
    <3>1. \A i \in (x + 1)..(e - 1) : i = x + 1 \/ i = e - 1 \/ i \in (x + 2)..(e - 2)
      BY <1>3
    <3> QED BY <1>4, <3>1, Zenon
  <2>5. x + 1 \in (x + 1)..(e - 1) /\ e - 1 \in (x + 1)..(e - 1)
    BY <1>3
  <2>1. {i \in (x + 1)..(e - 1) : s[i] = Quote} = {x + 1} \cup {e - 1}
    BY <2>4, <2>5, Zenon
  <2>2. Cardinality({x + 1} \cup {e - 1}) = 2
    <3>1. IsFiniteSet({x + 1}) /\ Cardinality({x + 1}) = 1
      BY FS_Singleton
    <3>2. e - 1 \notin {x + 1}
      BY <1>3
    <3>3. Cardinality({x + 1} \cup {e - 1}) = Cardinality({x + 1}) + 1
      BY <3>1, <3>2, FS_AddElement
    <3> QED BY <3>1, <3>3
  <2>3. ~(2 % 2 = 1)
    OBVIOUS
  <2> QED BY <2>1, <2>2, <2>3, Zenon DEF Quoted
<1>7. FirstIn(ends, Len(s) + 1) = e - 1
  <2>1. e - 1 \in ends
    <3>1. e - 1 \in (x + 1)..Len(s)
      BY <1>1, <1>3
    <3> QED BY <1>6, <1>4, <3>1, Zenon
  <2>2. \A j \in ends : e - 1 <= j
    BY <1>1, <1>3, <1>5
  <2>3. ends \in SUBSET Nat
    BY <1>1, <1>3
  <2> HIDE DEF ends
  <2>4. e - 1 \in Nat
    BY <1>3
  <2>5. \A z \in ends : (\A j \in ends : z <= j) => FirstIn(ends, Len(s) + 1) = z
    BY <2>3, FirstIs
  <2> QED BY <2>1, <2>2, <2>5, Zenon
<1>8. SubSeq(s, x + 1, (e - 1) - 1) = f
  <2>1. PICK u \in Nat : u = e - 2
    BY <1>3
  <2>2. (e - 1) - 1 = u /\ u \in x..Len(a)
    BY <1>1, <1>3, <2>1
  <2>3. SubSeq(s, x + 1, u) = SubSeq(a, x + 1, u)
    <3>1. x + 1 \in 1..(Len(a) + 1) /\ x + 1 \in Nat /\ u <= Len(a) /\ u <= Len(s) /\ x <= u
      BY <1>1, <1>3, <2>2
    <3>2. \A i \in (x + 1)..u : s[i] = a[i]
      BY <1>1, <1>3, <3>1
    <3> QED BY <1>1, <3>1, <3>2, SameWithin, SMTT(20)
  <2> QED BY <2>1, <2>2, <2>3
<1>9. f # <<>> /\ f[1] = Quote /\ Tail(f) = g
  BY <1>1, <1>3
<1>10. g \in Seq(T) /\ g # <<>> /\ g[1] = a[x + 2] /\ Last(g) = a[e - 2]
  <2>1. x + 2 \in 1..(e - 2) /\ e - 2 \in 1..Len(a)
    BY <1>1, <1>3
  <2>2. g \in Seq(T) /\ Len(g) = (e - 2) - (x + 2) + 1
    BY <1>3, <2>1
  <2>3. 1 \in 1..Len(g) /\ g[1] = a[x + 2]
    BY <1>3, <2>1, <2>2
  <2>4. g[Len(g)] = a[e - 2]
    BY <1>3, <2>1, <2>2
  <2>6. Last(g) = g[Len(g)]
    BY DEF Last
  <2> HIDE DEF g
  <2>5. g # <<>>
    BY <2>3
  <2> QED BY <2>2, <2>3, <2>4, <2>5, <2>6, Zenon
<1> HIDE DEF f, g
<1>11. Dequote(f, sep) = g
  <2>1. DropFirst(f, Quote) = g
    BY <1>9 DEF DropFirst
  <2>2. DropFirst(g, sep) = g
    BY <1>10 DEF DropFirst
  <2>3. DropLast(g, sep) = g
    BY <1>10 DEF DropLast
  <2> QED BY <2>1, <2>2, <2>3 DEF Dequote
<1> QED BY <1>2, <1>7, <1>8, <1>11 DEF s, g

\* What is within the quotes.
LEMMA Within ==
    ASSUME NEW T, NEW f \in Seq(T), NEW k \in Nat, k \in 1..(Len(f) - 2)
    PROVE  f[k + 1] \in Range(SubSeq(f, 2, Len(f) - 1))
<1> DEFINE g == SubSeq(f, 2, Len(f) - 1)
<1>1. Len(f) \in Nat /\ Len(f) - 1 \in 2..Len(f)
  OBVIOUS
<1>2. DOMAIN g = 1..(Len(f) - 2) /\ g[k] = f[k + 1]
  BY <1>1
<1> HIDE DEF g
<1>3. g[k] \in Range(g)
  BY <1>2 DEF Range
<1> QED BY <1>2, <1>3 DEF g

\* f is the field between the ends x and e.
Lies(a, sep, x, e, f) == Between(a, sep, x, e) /\ f = SubSeq(a, x + 1, e - 1)

LEMMA FieldIs ==
    ASSUME NEW T, NEW a \in Seq(T), NEW sep \in T, sep # Quote, NEW x, NEW e, NEW f,
           Lies(a, sep, x, e, f), WellQuoted(f, sep)
    PROVE  FieldFrom(Append(a, sep), x + 1, sep, TRUE) = Unquoted(f)
<1>. Between(a, sep, x, e) /\ f = SubSeq(a, x + 1, e - 1)
  BY DEF Lies
<1>1. x \in Nat /\ e \in Nat /\ x + 1 <= e /\ e <= Len(a) + 1 /\ Len(a) \in Nat
  BY DEF Between
<1>2. f \in Seq(T) /\ Len(f) = e - (x + 1) /\ \A i \in 1..Len(f) : f[i] = a[x + i]
  <2>1. x + 1 \in 1..(Len(a) + 1) /\ e - 1 \in x..Len(a)
    BY <1>1
  <2>2. f \in Seq(T) /\ Len(f) = e - (x + 1)
    BY <1>1, <2>1
  <2>3. \A i \in 1..Len(f) : f[i] = a[(x + 1) + i - 1] /\ (x + 1) + i - 1 = x + i
    BY <1>1, <2>1, <2>2
  <2> QED BY <2>2, <2>3, Zenon
<1>3. CASE Quote \notin Range(f)
  <2>1. \A j \in (x + 1)..(e - 1) : a[j] # Quote
    <3> SUFFICES ASSUME NEW j \in (x + 1)..(e - 1) PROVE a[j] # Quote
      OBVIOUS
    <3>1. j - x \in 1..Len(f) /\ x + (j - x) = j
      BY <1>1, <1>2
    <3>2. f[j - x] = a[j] /\ f[j - x] \in Range(f)
      BY <1>2, <3>1 DEF Range
    <3> QED BY <1>3, <3>2
  <2>2. FieldFrom(Append(a, sep), x + 1, sep, TRUE) = f
    BY <2>1, PlainField
  <2> QED BY <1>3, <2>2 DEF Unquoted
<1>4. CASE /\ Len(f) > 2 /\ f[1] = Quote /\ Last(f) = Quote
           /\ Quote \notin Range(SubSeq(f, 2, Len(f) - 1))
           /\ f[2] # sep /\ f[Len(f) - 1] # sep
  <2> DEFINE g == SubSeq(f, 2, Len(f) - 1)
  <2>1. g = SubSeq(a, x + 2, e - 2)
    BY <1>1, <1>2, <1>4
  <2>2. /\ e - x > 3 /\ a[x + 1] = Quote /\ a[e - 1] = Quote
        /\ a[x + 2] # sep /\ a[e - 2] # sep
    <3>1. Len(f) \in Nat /\ Len(f) > 2 /\ e - x > 3
      BY <1>1, <1>2, <1>4
    <3>2. f[1] = a[x + 1] /\ f[2] = a[x + 2] /\ f[Len(f)] = a[e - 1] /\ f[Len(f) - 1] = a[e - 2]
      <4>1. /\ 1 \in 1..Len(f) /\ 2 \in 1..Len(f) /\ Len(f) \in 1..Len(f) /\ Len(f) - 1 \in 1..Len(f)
            /\ x + Len(f) = e - 1 /\ x + (Len(f) - 1) = e - 2
        BY <1>1, <1>2, <3>1
      <4> QED BY <1>2, <4>1
    <3> QED BY <1>4, <3>1, <3>2 DEF Last
  <2>3. \A j \in (x + 2)..(e - 2) : a[j] # Quote
    <3> SUFFICES ASSUME NEW j \in (x + 2)..(e - 2) PROVE a[j] # Quote
      OBVIOUS
    <3>1. PICK k \in Nat : k = j - x - 1
      BY <1>1
    <3>2. k \in 1..(Len(f) - 2) /\ k + 1 \in 1..Len(f) /\ x + (k + 1) = j /\ Len(f) \in Nat
      BY <1>1, <1>2, <3>1
    <3>3. f[k + 1] \in Range(g)
      BY <1>2, <3>2, Within
    <3> HIDE DEF g
    <3> QED BY <1>2, <1>4, <3>2, <3>3 DEF g
  <2>4. FieldFrom(Append(a, sep), x + 1, sep, TRUE) = SubSeq(a, x + 2, e - 2)
    BY <2>2, <2>3, QuotedField
  <2>5. Quote \in Range(f)
    <3>1. 1 \in DOMAIN f /\ f[1] = Quote
      BY <1>2, <1>4
    <3> QED BY <3>1 DEF Range
  <2> QED BY <2>1, <2>4, <2>5 DEF Unquoted
<1> QED BY <1>3, <1>4 DEF WellQuoted

\* GetLineToStr by the definition of the l-th field.
LEMMA GetLineToStrIs ==
    ASSUME NEW T, NEW a \in Seq(T), NEW sep \in T, sep # Quote, NEW l \in Nat \ {0},
           NEW default, NEW f, f = FieldOf(a, l, sep), WellQuoted(f, sep)
    PROVE  GetLineToStr(a, l, sep, default) = OrDefault(Unquoted(f), default)
<1>1. /\ Len(a) \in Nat /\ Count(a, sep, Len(a)) \in Nat
      /\ l \in Nat /\ l - 1 \in Nat /\ (l - 1) + 1 = l
  <2>1. Len(a) \in Nat /\ l \in Nat /\ l - 1 \in Nat /\ (l - 1) + 1 = l
    OBVIOUS
  <2>2. Count(a, sep, Len(a)) \in Nat
    BY <2>1, CountFacts
  <2> QED BY <2>1, <2>2
<1>2. \A from : Begins(a, sep, l, from) =>
         GetLineToStr(a, l, sep, default) =
           OrDefault(FieldFrom(Append(a, sep), from, sep, TRUE), default)
  BY DEF GetLineToStr, FieldEnding, Begins
<1>3. Unquoted(<<>>) = <<>>
  <2>1. Range(<<>>) = {}
    BY DEF Range
  <2> QED BY <2>1 DEF Unquoted
<1>6. \A x, e : Lies(a, sep, x, e, f) =>
         FieldFrom(Append(a, sep), x + 1, sep, TRUE) = Unquoted(f)
  BY FieldIs
<1>4. CASE l > Count(a, sep, Len(a)) + 1
  <2>1. Begins(a, sep, l, Len(a) + 2) /\ f = <<>>
    BY <1>4, FieldBegins, FieldOfIs
  <2> QED BY <1>2, <1>3, <2>1, NothingBehind
<1>5. CASE ~(l > Count(a, sep, Len(a)) + 1)
  <2>1. /\ l \in 0..(Count(a, sep, Len(a)) + 1) /\ l - 1 \in 0..(Count(a, sep, Len(a)) + 1)
        /\ l - 1 \in Nat /\ (l - 1) + 1 = l
    BY <1>1, <1>5
  <2>2. PICK x : EndAt(a, sep, l - 1, x)
    BY <2>1, EndExists
  <2>3. PICK e : EndAt(a, sep, l, e)
    BY <2>1, EndExists
  <2>4. f = SubSeq(a, x + 1, e - 1) /\ Between(a, sep, x, e)
    BY <1>1, <2>2, <2>3, FieldOfIs, NextEnd
  <2>5. Begins(a, sep, l, IF e = 1 THEN Len(a) + 2 ELSE x + 1)
    BY <2>2, <2>3, FieldBegins
  <2>6. CASE e = 1
    <3>1. Begins(a, sep, l, Len(a) + 2)
      BY <2>5, <2>6
    <3>2. x = 0 /\ SubSeq(a, 1, 0) = <<>>
      BY <1>1, <2>4, <2>6 DEF Between
    <3>3. f = <<>>
      BY <2>4, <2>6, <3>2
    <3> QED BY <1>2, <1>3, <3>1, <3>3, NothingBehind
  <2>7. CASE e # 1
    <3>1. Begins(a, sep, l, x + 1)
      BY <2>5, <2>7
    <3>2. FieldFrom(Append(a, sep), x + 1, sep, TRUE) = Unquoted(f)
      BY <1>6, <2>4, Zenon DEF Lies
    <3> QED BY <1>2, <3>1, <3>2
  <2> QED BY <2>6, <2>7
<1> QED BY <1>4, <1>5

\* What a text is split into.
FieldTaken ==
    task.kind = "field" =>
      /\ task \in FieldTask
      /\ result # None =>
           result = [kind |-> "field", text |-> GetLineToStr(task.text, task.l, "=", <<"D">>)]

LEMMA FieldInit == Init => FieldTaken
BY DEF Init, FieldTaken, FieldTask, ServerTask, CommandTask, KeyTask, NumberTask

LEMMA FieldStep == FieldTaken /\ [Next]_tvars => FieldTaken'
<1> SUFFICES ASSUME FieldTaken, [Next]_tvars PROVE FieldTaken'
  OBVIOUS
<1>1. CASE UNCHANGED tvars
  BY <1>1 DEF FieldTaken, tvars
<1>2. CASE SplitField
  BY <1>2 DEF SplitField, Done, FieldTaken
<1>3. CASE RunCommand \/ DefaultWritten \/ ReadOptions \/ TakeKeys \/ ConvertNumber
  BY <1>3 DEF RunCommand, DefaultWritten, ReadOptions, TakeKeys, ConvertNumber, Done, FieldTaken
<1> QED BY <1>1, <1>2, <1>3 DEF Next

LEMMA TakenFound == FieldTaken => FieldFound
<1> SUFFICES ASSUME FieldTaken, task.kind = "field", result # None,
                    NEW f, f = FieldOf(task.text, task.l, "="), WellQuoted(f, "=")
             PROVE  result.text = IF Unquoted(f) = <<>> THEN <<"D">> ELSE Unquoted(f)
  BY DEF FieldFound
<1>1. task.text \in Seq(STRING) /\ task.l \in Nat \ {0}
  <2>1. task.text \in FieldTexts /\ task.l \in 1..4
    BY DEF FieldTaken, FieldTask
  <2> QED BY <2>1, FieldTextsAssumption
<1> DEFINE T == STRING \cup {"="}
<1>2. task.text \in Seq(T) /\ "=" \in T
  BY <1>1
<1>3. "=" # Quote
  BY DEF Quote
<1> HIDE DEF T
<1>4. GetLineToStr(task.text, task.l, "=", <<"D">>) = OrDefault(Unquoted(f), <<"D">>)
  BY <1>1, <1>2, <1>3, GetLineToStrIs
<1>5. result.text = OrDefault(Unquoted(f), <<"D">>)
  BY <1>4 DEF FieldTaken
<1> QED BY <1>5 DEF OrDefault

\* For all texts: GetLineToStr finds the field it is asked for, without its
\* quotes, or the default.
THEOREM FieldsAreFound == Spec => []FieldFound
BY FieldInit, FieldStep, TakenFound, PTL DEF Spec

-----------------------------------------------------------------------------
(* Client and server agree.                                                *)

Asked(line, what) == <<LineWord[line], "=", what>>

What == {"on", "off", "status"}

LEMMA LineWords ==
    /\ \A l \in 1..8 : LineWord[l] \notin {Quote, "="}
    /\ \A l, k \in 1..8 : LineWord[l] = LineWord[k] => l = k
<1>1. /\ LineWord[1] = "gpio" /\ LineWord[2] = "gpio2" /\ LineWord[3] = "gpio3"
      /\ LineWord[4] = "gpio4" /\ LineWord[5] = "gpio5" /\ LineWord[6] = "gpio6"
      /\ LineWord[7] = "gpio7" /\ LineWord[8] = "gpio8"
  BY DEF LineWord
<1>2. \A l \in 1..8 : l \in {1, 2, 3, 4, 5, 6, 7, 8}
  OBVIOUS
<1>3. ASSUME NEW l \in 1..8 PROVE LineWord[l] \notin {Quote, "="}
  BY <1>1, <1>2 DEF Quote
<1>4. ASSUME NEW l \in 1..8, NEW k \in 1..8, LineWord[l] = LineWord[k] PROVE l = k
  <2> DEFINE words == {"gpio", "gpio2", "gpio3", "gpio4", "gpio5", "gpio6", "gpio7", "gpio8"}
             numbers == 1..8
  <2>1. CASE l = 1 \/ l = 2 \/ l = 3 \/ l = 4
    BY <1>1, <1>2, <1>4, <2>1
  <2>2. CASE l = 5 \/ l = 6 \/ l = 7 \/ l = 8
    BY <1>1, <1>2, <1>4, <2>2
  <2> QED BY <2>1, <2>2
<1> QED BY <1>3, <1>4

LEMMA Single ==
    ASSUME NEW T, NEW b \in Seq(T), NEW x \in T, Len(b) = 1, b[1] = x
    PROVE  b = <<x>>
<1>1. <<x>> \in Seq(T) /\ Len(<<x>>) = 1 /\ <<x>>[1] = x
  OBVIOUS
<1> QED BY <1>1, SeqEqual

LEMMA OneToken ==
    ASSUME NEW T, NEW a \in Seq(T), NEW i \in 1..Len(a)
    PROVE  SubSeq(a, i, i) = <<a[i]>>
<1>1. SubSeq(a, i, i) \in Seq(T) /\ Len(SubSeq(a, i, i)) = 1 /\ SubSeq(a, i, i)[1] = a[i]
  OBVIOUS
<1>2. a[i] \in T
  OBVIOUS
<1> QED BY <1>1, <1>2, Single

LEMMA AskedFields ==
    ASSUME NEW l \in 1..8, NEW what \in What
    PROVE  /\ GetLineToStr(Asked(l, what), 1, "=", <<>>) = <<LineWord[l]>>
           /\ GetLineToStr(Asked(l, what), 2, "=", <<>>) = <<what>>
<1>. PICK a : a = Asked(l, what)
  OBVIOUS
<1>. PICK w : w = LineWord[l]
  OBVIOUS
<1> DEFINE T == {w, "=", what}
<1>1. /\ w # "=" /\ w # Quote /\ what # "=" /\ what # Quote /\ "=" # Quote
      /\ "=" \in T /\ w \in T /\ what \in T
  BY LineWords DEF What, Quote
<1> HIDE DEF T
<1>6. /\ a \in Seq(T) /\ Len(a) = 3 /\ a[1] = w /\ a[2] = "=" /\ a[3] = what
      /\ SubSeq(a, 1, 1) = <<w>> /\ SubSeq(a, 3, 3) = <<what>>
  <2>1. a = <<w, "=", what>>
    BY DEF Asked
  <2>2. a \in Seq(T) /\ Len(a) = 3 /\ a[1] = w /\ a[2] = "=" /\ a[3] = what
    BY <1>1, <2>1
  <2>3. SubSeq(a, 1, 1) = <<a[1]>> /\ SubSeq(a, 3, 3) = <<a[3]>>
    <3>1. 1 \in 1..Len(a) /\ 3 \in 1..Len(a)
      BY <2>2
    <3> QED BY <2>2, <3>1, OneToken
  <2> QED BY <2>2, <2>3
<1>2. \A i \in 1..Len(a) : a[i] # Quote
  BY <1>1, <1>6
<1>3. FirstAt(a, 1, "=", 2) /\ FirstAt(a, 3, "=", 4)
  BY <1>1, <1>6 DEF FirstAt
<1>5. /\ GetLineToStr(a, 1, "=", <<>>) = OrDefault(SubSeq(a, 1, 2 - 1), <<>>)
      /\ 2 <= Len(a) => \A g \in Nat : FirstAt(a, 2 + 1, "=", g) =>
           GetLineToStr(a, 2, "=", <<>>) = OrDefault(SubSeq(a, 2 + 1, g - 1), <<>>)
  <2>. PICK e : e = 2
    OBVIOUS
  <2>1. e \in Nat /\ FirstAt(a, 1, "=", e)
    BY <1>3
  <2>2. /\ GetLineToStr(a, 1, "=", <<>>) = OrDefault(SubSeq(a, 1, e - 1), <<>>)
        /\ e <= Len(a) => \A g \in Nat : FirstAt(a, e + 1, "=", g) =>
             GetLineToStr(a, 2, "=", <<>>) = OrDefault(SubSeq(a, e + 1, g - 1), <<>>)
    <3>1. a \in Seq(T) /\ "=" \in T /\ "=" # Quote
      BY <1>1, <1>6
    <3> QED BY <1>2, <2>1, <3>1, FirstTwoFields
  <2> QED BY <2>2
<1>7. GetLineToStr(a, 1, "=", <<>>) = OrDefault(SubSeq(a, 1, 1), <<>>)
  BY <1>5
<1>8. GetLineToStr(a, 2, "=", <<>>) = OrDefault(SubSeq(a, 3, 3), <<>>)
  BY <1>3, <1>5, <1>6
<1> QED BY <1>6, <1>7, <1>8 DEF OrDefault

\* A field that begins with neither quote nor separator keeps what it begins
\* with, whatever is behind it.
BeginsWith(T, f, x) == f \in Seq(T) /\ Len(f) > 0 /\ f[1] = x

LEMMA FieldHead ==
    ASSUME NEW T, NEW a \in Seq(T), NEW sep \in T, NEW from \in 1..Len(a),
           a[from] # sep, a[from] # Quote
    PROVE  BeginsWith(T, FieldFrom(Append(a, sep), from, sep, TRUE), a[from])
<1>. PICK f : f = FieldFrom(Append(a, sep), from, sep, TRUE)
  OBVIOUS
<1> SUFFICES f \in Seq(T) /\ Len(f) > 0 /\ f[1] = a[from]
  BY DEF BeginsWith
<1> DEFINE s == Append(a, sep)
           ends == {j \in from..Len(s) : \/ s[j] = sep /\ ~(TRUE /\ Quoted(s, from, j))
                                         \/ s[j] = Quote /\ ~Quoted(s, from, j)}
<1>1. /\ s \in Seq(T) /\ Len(s) = Len(a) + 1 /\ Len(a) \in Nat /\ \A i \in 1..Len(a) : s[i] = a[i]
  OBVIOUS
<1>2. f = Dequote(SubSeq(s, from, FirstIn(ends, Len(s) + 1) - 1), sep)
  BY DEF FieldFrom
<1> HIDE DEF s
<1>3. PICK m : m = FirstIn(ends, Len(s) + 1)
  OBVIOUS
<1>4. m \in (from + 1)..(Len(s) + 1)
  <2>1. CASE ends = {}
    BY <1>1, <1>3, <2>1 DEF FirstIn
  <2>2. CASE ends # {}
    <3>1. ends \in SUBSET Nat /\ \A j \in ends : j \in (from + 1)..Len(s)
      BY <1>1
    <3> HIDE DEF ends
    <3>2. Min(ends) \in ends
      BY <2>2, <3>1, MinIs
    <3> QED BY <1>1, <1>3, <2>2, <3>1, <3>2 DEF FirstIn
  <2> QED BY <2>1, <2>2
<1>5. PICK g : g = SubSeq(s, from, m - 1)
  OBVIOUS
<1>6. g \in Seq(T) /\ Len(g) = m - from /\ g[1] = a[from]
  BY <1>1, <1>4, <1>5
<1>7. f = DropLast(g, sep)
  <2>1. g # <<>>
    BY <1>4, <1>6
  <2>2. DropFirst(g, Quote) = g /\ DropFirst(g, sep) = g
    BY <1>6, <2>1 DEF DropFirst
  <2> QED BY <1>2, <1>3, <1>5, <2>2 DEF Dequote
<1>8. CASE ~(g # <<>> /\ Last(g) = sep)
  <2>1. f = g
    BY <1>7, <1>8, Zenon DEF DropLast
  <2>2. Len(g) > 0
    BY <1>1, <1>4, <1>6
  <2> QED BY <1>6, <2>1, <2>2
<1>9. CASE g # <<>> /\ Last(g) = sep
  <2>1. f = SubSeq(g, 1, Len(g) - 1)
    BY <1>7, <1>9 DEF DropLast, Front
  <2>2. Len(g) # 1 /\ Len(g) \in Nat /\ Len(g) > 0
    BY <1>4, <1>6, <1>9 DEF Last
  <2>3. PICK k : k = Len(g) - 1
    OBVIOUS
  <2>4. g \in Seq(T) /\ 1 \in 1..(Len(g) + 1) /\ k \in (1 - 1)..Len(g) /\ 1 \in 1..(k - 1 + 1)
    BY <1>6, <2>2, <2>3
  <2>5. /\ SubSeq(g, 1, k) \in Seq(T) /\ Len(SubSeq(g, 1, k)) = k - 1 + 1
        /\ \A i \in 1..(k - 1 + 1) : SubSeq(g, 1, k)[i] = g[1 + i - 1]
    BY <2>4, CutIs
  <2>6. f = SubSeq(g, 1, k)
    BY <2>1, <2>3
  <2>7. f[1] = g[1 + 1 - 1]
    BY <2>4, <2>5, <2>6
  <2>8. Len(f) = k - 1 + 1 /\ f \in Seq(T)
    BY <2>5, <2>6, Zenon
  <2>9. k - 1 + 1 > 0 /\ 1 + 1 - 1 = 1
    BY <2>2, <2>3
  <2>10. f[1] = a[from]
    BY <1>6, <2>7, <2>9, Zenon
  <2>11. Len(f) > 0
    BY <2>8, <2>9, Zenon
  <2> QED BY <2>8, <2>10, <2>11
<1> QED BY <1>8, <1>9

\* A text that begins with a token and a separator: its first field is the
\* token, and its second begins with what is behind the separator.
LEMMA SplitHead ==
    ASSUME NEW T, NEW a \in Seq(T), NEW sep \in T, sep # Quote, Len(a) > 2,
           a[1] \notin {Quote, sep}, a[2] = sep, a[3] \notin {Quote, sep}
    PROVE  /\ GetLineToStr(a, 1, sep, <<>>) = <<a[1]>>
           /\ GetLineToStr(a, 2, sep, <<>>) \in Seq(T)
           /\ GetLineToStr(a, 2, sep, <<>>) # <<>> /\ GetLineToStr(a, 2, sep, <<>>)[1] = a[3]
<1>1. /\ Len(a) \in Nat /\ 1 \in 1..Len(a) /\ 2 \in 1..Len(a) /\ 3 \in 1..Len(a)
      /\ \A j \in 1..2 : a[j] # Quote
  OBVIOUS
<1>2. 1 \notin Seps(a, sep) /\ 2 \in Seps(a, sep)
  <2>1. ~Quoted(a, 1, 2)
    <3>1. 1 \in Int /\ 2 \in Int /\ \A j \in 1..2 : a[j] # Quote
      BY <1>1
    <3> QED BY <3>1, NothingQuoted
  <2> QED BY <1>1, <2>1 DEF Seps, SepsTo
<1>3. Count(a, sep, 0) = 0 /\ Count(a, sep, 1) = 0 /\ Count(a, sep, 2) = 1
  <2>1. Count(a, sep, 0) = 0
    BY CountFacts
  <2>2. Count(a, sep, 1) = Count(a, sep, 1 - 1)
    BY <1>1, <1>2, CountStep
  <2>3. Count(a, sep, 2) = Count(a, sep, 2 - 1) + 1
    BY <1>1, <1>2, CountStep
  <2> QED BY <2>1, <2>2, <2>3
<1>4. \A l, from : Begins(a, sep, l, from) =>
         GetLineToStr(a, l, sep, <<>>) =
           OrDefault(FieldFrom(Append(a, sep), from, sep, TRUE), <<>>)
  BY DEF GetLineToStr, FieldEnding, Begins
<1>5. GetLineToStr(a, 1, sep, <<>>) = <<a[1]>>
  <2>1. Begins(a, sep, 1, 1)
    <3> DEFINE At == {i \in 1..Len(a) : 1 + Count(a, sep, i) = 1}
    <3>1. 1 \in At /\ \A y \in At : 1 <= y
      BY <1>1, <1>3
    <3>2. 1 \in Nat \ {0}
      OBVIOUS
    <3>3. Begins(a, sep, 1, IF a[1] = sep THEN 1 + 1 ELSE 1)
      BY <3>1, <3>2, BeginsAt
    <3> QED BY <3>3
  <2>2. Between(a, sep, 0, 2) /\ \A j \in (0 + 1)..(2 - 1) : a[j] # Quote
    BY <1>1, <1>2 DEF Between, Seps, SepsTo
  <2>3. FieldFrom(Append(a, sep), 0 + 1, sep, TRUE) = SubSeq(a, 0 + 1, 2 - 1)
    BY <2>2, PlainField
  <2>4. SubSeq(a, 1, 1) = <<a[1]>>
    BY <1>1, OneToken
  <2>5. FieldFrom(Append(a, sep), 1, sep, TRUE) = SubSeq(a, 1, 1)
    <3>1. 0 + 1 = 1 /\ 2 - 1 = 1
      OBVIOUS
    <3> QED BY <2>3, <3>1, Zenon
  <2>6. GetLineToStr(a, 1, sep, <<>>) = OrDefault(SubSeq(a, 1, 1), <<>>)
    BY <1>4, <2>1, <2>5
  <2> QED BY <2>4, <2>6 DEF OrDefault
<1>6. Begins(a, sep, 2, 3)
  <2> DEFINE At == {i \in 1..Len(a) : 1 + Count(a, sep, i) = 2}
  <2>1. 2 \in At /\ \A y \in At : 2 <= y
    BY <1>1, <1>3
  <2>2. 2 \in Nat \ {0}
    OBVIOUS
  <2>3. Begins(a, sep, 2, IF a[2] = sep THEN 2 + 1 ELSE 2)
    BY <2>1, <2>2, BeginsAt
  <2> QED BY <2>3
<1>7. PICK f : f = FieldFrom(Append(a, sep), 3, sep, TRUE)
  OBVIOUS
<1>8. f \in Seq(T) /\ Len(f) > 0 /\ f[1] = a[3]
  <2>1. 3 \in 1..Len(a) /\ a[3] # sep /\ a[3] # Quote
    BY <1>1
  <2>2. BeginsWith(T, FieldFrom(Append(a, sep), 3, sep, TRUE), a[3])
    BY <2>1, FieldHead
  <2> QED BY <1>7, <2>2 DEF BeginsWith
<1>9. GetLineToStr(a, 2, sep, <<>>) = f
  BY <1>4, <1>6, <1>7, <1>8 DEF OrDefault
<1> QED BY <1>5, <1>8, <1>9

\* What the server splits: the request with what the buffer holds behind it.
AskedRead(s, l, what, rest) ==
    /\ GetLineToStr(s, 1, "=", <<>>) = <<LineWord[l]>>
    /\ \A v \in What : GetLineToStr(s, 2, "=", <<>>) = <<v>> => v = what
    /\ rest = <<>> => GetLineToStr(s, 2, "=", <<>>) = <<what>>

LEMMA AskedWithRest ==
    ASSUME NEW l \in 1..8, NEW what \in What, NEW rest \in Seq(STRING)
    PROVE  AskedRead(Asked(l, what) \o rest, l, what, rest)
<1>. PICK s : s = Asked(l, what) \o rest
  OBVIOUS
<1>. PICK w : w = LineWord[l]
  OBVIOUS
<1> DEFINE T == STRING \cup {w, "=", what}
<1>1. /\ w # "=" /\ w # Quote /\ what # "=" /\ what # Quote /\ "=" # Quote
      /\ "=" \in T /\ w \in T /\ what \in T /\ STRING \in SUBSET T
  BY LineWords DEF What, Quote
<1> HIDE DEF T
<1>2. PICK a : a = <<w, "=", what>>
  OBVIOUS
<1>3. a \in Seq(T) /\ Len(a) = 3 /\ a[1] = w /\ a[2] = "=" /\ a[3] = what /\ rest \in Seq(T)
  <2>1. rest \in Seq(T)
    BY <1>1, SeqMonotonic
  <2> QED BY <1>1, <1>2, <2>1
<1>4. s = a \o rest
  BY <1>2 DEF Asked
<1>5. s \in Seq(T) /\ Len(s) > 2 /\ s[1] = w /\ s[2] = "=" /\ s[3] = what
  <2>1. /\ a \o rest \in Seq(T) /\ Len(a \o rest) = Len(a) + Len(rest)
        /\ \A i \in 1..(Len(a) + Len(rest)) :
             (a \o rest)[i] = IF i <= Len(a) THEN a[i] ELSE rest[i - Len(a)]
    BY <1>3, ConcatProperties
  <2>2. Len(rest) \in Nat
    OBVIOUS
  <2>3. 1 \in 1..(Len(a) + Len(rest)) /\ 2 \in 1..(Len(a) + Len(rest)) /\ 3 \in 1..(Len(a) + Len(rest))
    BY <1>3, <2>2
  <2> QED BY <1>3, <1>4, <2>1, <2>2, <2>3
<1>6. /\ GetLineToStr(s, 1, "=", <<>>) = <<s[1]>>
      /\ GetLineToStr(s, 2, "=", <<>>)[1] = s[3]
  BY <1>1, <1>5, SplitHead
<1>7. ASSUME NEW v \in What, GetLineToStr(s, 2, "=", <<>>) = <<v>> PROVE v = what
  BY <1>5, <1>6, <1>7
<1>8. ASSUME rest = <<>> PROVE GetLineToStr(s, 2, "=", <<>>) = <<what>>
  <2>1. s = Asked(l, what)
    BY <1>2, <1>3, <1>4, <1>8 DEF Asked
  <2> QED BY <2>1, AskedFields
<1> QED BY <1>5, <1>6, <1>7, <1>8 DEF AskedRead

\* What the server takes a command for.
Taken(l, what, rest, does) ==
    \/ does = [line |-> l, act |-> what]
    \/ rest # <<>> /\ does = Nothing

LEMMA AskedDone ==
    ASSUME NEW l \in 1..8, NEW what \in What, NEW rest \in Seq(STRING)
    PROVE  /\ Taken(l, what, rest, ServerDoes(Asked(l, what), rest))
           /\ Waits(Asked(l, what)) <=> what = "status"
<1>1. \A k \in 1..8 : <<LineWord[l]>> = <<LineWord[k]>> <=> k = l
  BY LineWords
<1>2. {k \in 1..8 : <<LineWord[l]>> = <<LineWord[k]>>} = {l}
  BY <1>1
<1>3. Min({l}) = l
  <2>1. {l} \in SUBSET Nat /\ {l} # {}
    OBVIOUS
  <2> QED BY <2>1, MinIs
<1>4. \A v \in What : <<v>> \in {<<"on">>, <<"off">>, <<"status">>} /\ Head(<<v>>) = v
  BY DEF What
<1>5. Taken(l, what, rest, ServerDoes(Asked(l, what), rest))
  <2>. PICK s : s = Asked(l, what) \o rest
    OBVIOUS
  <2> DEFINE s1 == GetLineToStr(s, 1, "=", <<>>)
             s2 == GetLineToStr(s, 2, "=", <<>>)
             lines == {k \in 1..8 : s1 = <<LineWord[k]>>}
             Known == {<<"on">>, <<"off">>, <<"status">>}
  <2>1. s1 = <<LineWord[l]>> /\ (\A v \in What : s2 = <<v>> => v = what) /\ (rest = <<>> => s2 = <<what>>)
    <3>1. AskedRead(Asked(l, what) \o rest, l, what, rest)
      BY AskedWithRest
    <3> QED BY <3>1 DEF AskedRead
  <2>2. lines = {l}
    BY <1>2, <2>1, Zenon
  <2>3. ServerDoes(Asked(l, what), rest) =
           IF lines # {} /\ s2 \in Known THEN [line |-> Min(lines), act |-> Head(s2)] ELSE Nothing
    BY Zenon DEF ServerDoes, Received
  <2>4. {l} # {} /\ \A x \in Known : \E v \in What : x = <<v>>
    BY DEF What
  <2> HIDE DEF s1, s2, lines, Known
  <2>5. CASE s2 \in Known
    <3>1. s2 = <<what>>
      BY <2>1, <2>4, <2>5
    <3>2. ServerDoes(Asked(l, what), rest) = [line |-> l, act |-> what]
      BY <1>3, <1>4, <2>2, <2>3, <2>4, <2>5, <3>1, Zenon
    <3> QED BY <3>2 DEF Taken
  <2>6. CASE s2 \notin Known
    <3>1. ServerDoes(Asked(l, what), rest) = Nothing
      BY <2>3, <2>6, Zenon
    <3>2. <<what>> \in Known
      BY <1>4 DEF Known
    <3> QED BY <2>1, <2>6, <3>1, <3>2 DEF Taken
  <2> QED BY <2>5, <2>6
<1>6. ASSUME NEW k \in 1..8, Asked(l, what) = <<LineWord[k], "=", "status">> PROVE what = "status"
  BY <1>6 DEF Asked
<1> QED BY <1>5, <1>6 DEF Waits, Asked

\* What a command is turned into.
CommandTaken ==
    task.kind = "command" =>
      /\ task \in CommandTask
      /\ result # None =>
           \/ result = Unsent(TRUE)
           \/ \E skips \in BOOLEAN :
                result = Outcome(skips, RequestFor(upcase(task.verb), task.line), task.rest)

LEMMA CommandInit == Init => CommandTaken
BY DEF Init, CommandTaken, FieldTask, ServerTask, CommandTask, KeyTask, NumberTask

LEMMA CommandStep == CommandTaken /\ [Next]_tvars => CommandTaken'
<1> SUFFICES ASSUME CommandTaken, [Next]_tvars PROVE CommandTaken'
  OBVIOUS
<1>1. CASE UNCHANGED tvars
  BY <1>1 DEF CommandTaken, tvars
<1>2. CASE RunCommand
  BY <1>2 DEF RunCommand, Done, CommandTaken
<1>4. CASE DefaultWritten
  BY <1>4 DEF DefaultWritten, Done, CommandTaken
<1>3. CASE SplitField \/ ReadOptions \/ TakeKeys \/ ConvertNumber
  BY <1>3 DEF SplitField, ReadOptions, TakeKeys, ConvertNumber, Done, CommandTaken
<1> QED BY <1>1, <1>2, <1>3, <1>4 DEF Next

LEMMA TakenUnderstood == CommandTaken => CommandUnderstood
<1> DEFINE act == CASE task.verb \in {"ON", "on", "AUTO-ON", "auto-on"} -> "on"
                    [] task.verb \in {"OFF", "AUTO-OFF"} -> "off"
                    [] task.verb = "STATUS" -> "status"
<1> SUFFICES ASSUME CommandTaken, task.kind = "command", result # None, result.sent,
                    task.line = 1 \/ task.verb \in {"ON", "on", "OFF", "STATUS"}
             PROVE  Taken(task.line, act, task.rest, result.does) /\ (result.waits <=> act = "status")
  BY DEF CommandUnderstood, Taken
<1>1. /\ task.line \in 1..8 /\ task.rest \in Seq(STRING)
      /\ task.verb \in {"ON", "on", "OFF", "STATUS", "AUTO-ON", "AUTO-OFF", "auto-on"}
  BY LeftoversAssumption DEF CommandTaken, CommandTask
<1>2. act \in What /\ RequestFor(upcase(task.verb), task.line) = Asked(task.line, act)
  BY <1>1 DEF What, RequestFor, upcase, Asked
<1>3. /\ result.does = ServerDoes(Asked(task.line, act), task.rest)
      /\ result.waits = Waits(Asked(task.line, act))
  <2>1. Unsent(TRUE).sent = FALSE /\ Unsent(FALSE).sent = FALSE
    BY DEF Unsent
  <2>2. PICK skips \in BOOLEAN : result = Outcome(skips, Asked(task.line, act), task.rest)
    BY <1>2, <2>1 DEF CommandTaken
  <2> HIDE DEF act
  <2>3. skips = FALSE
    <3>1. CASE skips = TRUE
      <4>1. result = Unsent(FALSE)
        BY <2>2, <3>1 DEF Outcome
      <4> QED BY <2>1, <4>1
    <3> QED BY <3>1
  <2> QED BY <2>2, <2>3 DEF Outcome
<1> HIDE DEF act
<1> QED BY <1>1, <1>2, <1>3, AskedDone

\* For all configuration files and whatever the server's buffer holds behind
\* the request, which ends with no NUL: what the client asks for a command is
\* never taken by n_gpio.c for another act or another line, and lost only if
\* something is behind it; and the client waits for an answer exactly when it
\* has asked for the state.
THEOREM CommandsAreUnderstood == Spec => []CommandUnderstood
BY CommandInit, CommandStep, TakenUnderstood, PTL DEF Spec

-----------------------------------------------------------------------------
(* Numbers.                                                                *)

\* What a number is converted to.
Converted(n, size) ==
    LET b == IntToB256(n, size)
    IN [kind |-> "number", hex |-> HexToDec(StrBase(IntToSys(n, 16), size)),
        fits |-> b.len # -1, int |-> IF b.len = -1 THEN 0 ELSE B256ToInt(b.buffer)]

NumberTaken ==
    task.kind = "number" =>
      /\ task \in NumberTask
      /\ result # None => result = Converted(task.n, task.size)

LEMMA NumberInit == Init => NumberTaken
BY DEF Init, NumberTaken, FieldTask, ServerTask, CommandTask, KeyTask, NumberTask

LEMMA NumberStep == NumberTaken /\ [Next]_tvars => NumberTaken'
<1> SUFFICES ASSUME NumberTaken, [Next]_tvars PROVE NumberTaken'
  OBVIOUS
<1>1. CASE UNCHANGED tvars
  BY <1>1 DEF NumberTaken, tvars
<1>2. CASE ConvertNumber
  BY <1>2 DEF ConvertNumber, Done, NumberTaken, Converted
<1>3. CASE RunCommand \/ DefaultWritten \/ ReadOptions \/ TakeKeys \/ SplitField
  BY <1>3 DEF RunCommand, DefaultWritten, ReadOptions, TakeKeys, SplitField, Done, NumberTaken
<1> QED BY <1>1, <1>2, <1>3 DEF Next

LEMMA ConvertedBack ==
    ASSUME NEW n \in Nat, NEW size \in 1..3, NEW c, c = Converted(n, size)
    PROVE  /\ c.hex = n
           /\ c.fits <=> n < Limit[size]
           /\ c.fits => c.int = n
<1>1. 16 \in Base /\ 256 \in Base /\ 16 \in Nat /\ 256 \in Nat /\ size \in Nat
  BY DEF Base
<1>2. c.hex = n
  <2>1. c.hex = ValueOf(StrBase(IntToSys(n, 16), size), 16)
    BY DEF Converted, HexToDec
  <2>2. IntToSys(n, 16) \in Seq(Nat) /\ ValueOf(IntToSys(n, 16), 16) = n
    BY <1>1, DigitsTold DEF Told
  <2> QED BY <1>1, <2>1, <2>2, StrBaseKeeps
<1> PICK bytes : bytes = IntToSys(n, 256)
  OBVIOUS
<1>3. bytes \in Seq(Nat) /\ Len(bytes) \in Nat /\ ValueOf(bytes, 256) = n
  BY <1>1, DigitsTold DEF Told
<1>4. Len(bytes) <= size <=> n < Limit[size]
  <2>1. Limit[1] = 256 /\ Limit[2] = 65536 /\ Limit[3] = 16777216
    BY DEF Limit
  <2>2. /\ Len(bytes) <= 1 <=> n < 256
        /\ Len(bytes) <= 2 <=> n < 65536
        /\ Len(bytes) <= 3 <=> n < 16777216
    <3>1. BoundIs(n, Bytes(n)) /\ Bytes(n) = Len(bytes)
      BY BytesBound DEF Bytes
    <3> QED BY <3>1 DEF BoundIs
  <2>3. size = 1 \/ size = 2 \/ size = 3
    OBVIOUS
  <2> QED BY <2>1, <2>2, <2>3
<1>5. PICK b : b = IntToB256(n, size)
  OBVIOUS
<1>6. c.fits = (b.len # -1) /\ c.int = IF b.len = -1 THEN 0 ELSE B256ToInt(b.buffer)
  BY <1>5 DEF Converted
<1>7. CASE Len(bytes) > size
  <2>1. b = [len |-> -1, buffer |-> <<>>]
    BY <1>7, <1>5 DEF IntToB256
  <2>2. ~c.fits
    BY <1>6, <2>1
  <2>3. ~(n < Limit[size])
    <3>1. ~(Len(bytes) <= size)
      BY <1>1, <1>3, <1>7
    <3> QED BY <1>4, <3>1, Zenon
  <2> QED BY <1>2, <2>2, <2>3
<1>8. CASE ~(Len(bytes) > size)
  <2>1. b = [len |-> Len(bytes), buffer |-> StrBase(bytes, size)]
    BY <1>8, <1>5 DEF IntToB256
  <2>2. b.len # -1 /\ b.buffer = StrBase(bytes, size)
    BY <1>3, <2>1
  <2>3. c.fits /\ c.int = ValueOf(StrBase(bytes, size), 256)
    BY <1>6, <2>2 DEF B256ToInt
  <2>4. c.int = n
    BY <1>1, <1>3, <2>3, StrBaseKeeps
  <2>5. n < Limit[size]
    <3>1. Len(bytes) <= size
      BY <1>1, <1>3, <1>8
    <3> QED BY <1>4, <3>1, Zenon
  <2> QED BY <1>2, <2>3, <2>4, <2>5
<1> QED BY <1>7, <1>8

LEMMA TakenBack == NumberTaken => NumbersComeBack
<1> SUFFICES ASSUME NumberTaken, task.kind = "number", result # None
             PROVE  /\ result.hex = task.n
                    /\ result.fits <=> task.n < Limit[task.size]
                    /\ result.fits => result.int = task.n
  BY DEF NumbersComeBack
<1>1. task.n \in Nat /\ task.size \in 1..3
  <2>1. task.n \in Numbers /\ task.size \in 1..3
    BY DEF NumberTaken, NumberTask
  <2> QED BY <2>1, NumbersAssumption
<1>2. result = Converted(task.n, task.size)
  BY DEF NumberTaken
<1> QED BY <1>1, <1>2, ConvertedBack

\* For all numbers: what IntToSys and IntToB256 write, StrBase pads, and
\* HexToDec and B256ToInt read, is the number again.
THEOREM NumbersAreReadBack == Spec => []NumbersComeBack
BY NumberInit, NumberStep, TakenBack, PTL DEF Spec

-----------------------------------------------------------------------------
(* Buttons keep their meaning.                                              *)

\* The key codes that the buttons send or that are put in, as tokens.
Token == {"1", "2", "3", "4", "5", "6", "9", "key2_up", "key2_down", "key_power", "key_right"}

\* The codes of the buttons pressed, each by itself.
Codes(C, pressed) == [i \in 1..Len(pressed) |-> C[pressed[i]]]

\* The codes of the table, and what takes the place of one of them.
WordsOf(C, rep) == {C[k] : k \in DOMAIN C} \cup {rep}

\* The codes after each replacement.
Buttons1 == [Buttons EXCEPT !.down = <<"key2_down">>]
Buttons2 == [Buttons1 EXCEPT !.up = <<>>]
Buttons3 == [Buttons2 EXCEPT !.info = <<>>]
Buttons4 == [Buttons3 EXCEPT !.plain = <<>>]

Down  == <<"4", "2", "6", "3">>
Up    == <<"2", "9", "key2_up">>
Info  == <<"5", "6", "1", "2", "5", "2", "5">>
Plain == <<"6", "3">>
Copy  == <<"2", "9", "4", "2", "3", "1">>

\* The names of the table.
ButtonName == {"down", "up", "info", "plain", "copy", "power", "right"}

\* What is put in, and the codes that stay.
Shown == {<<"key2_down">>, <<"key_power">>, <<"key_right">>, <<>>}

\* The codes, token by token.
LEMMA DownTokens == /\ Down \in Seq(Token) /\ Len(Down) = 4
                    /\ Down[1] = "4" /\ Down[2] = "2" /\ Down[3] = "6" /\ Down[4] = "3"
BY DEF Down, Token

LEMMA UpTokens == /\ Up \in Seq(Token) /\ Len(Up) = 3
                  /\ Up[1] = "2" /\ Up[2] = "9" /\ Up[3] = "key2_up"
BY DEF Up, Token

LEMMA InfoTokens == /\ Info \in Seq(Token) /\ Len(Info) = 7
                    /\ Info[1] = "5" /\ Info[2] = "6" /\ Info[3] = "1" /\ Info[4] = "2" /\ Info[5] = "5" /\ Info[6] = "2" /\ Info[7] = "5"
BY DEF Info, Token

LEMMA PlainTokens == /\ Plain \in Seq(Token) /\ Len(Plain) = 2
                     /\ Plain[1] = "6" /\ Plain[2] = "3"
BY DEF Plain, Token

LEMMA CopyTokens == /\ Copy \in Seq(Token) /\ Len(Copy) = 6
                    /\ Copy[1] = "2" /\ Copy[2] = "9" /\ Copy[3] = "4" /\ Copy[4] = "2" /\ Copy[5] = "3" /\ Copy[6] = "1"
BY DEF Copy, Token

LEMMA ShownTokens ==
    ASSUME NEW w \in Shown
    PROVE  w \in Seq(Token) /\ Len(w) \in 0..1 /\ (Len(w) = 1 => w[1] \in {"key2_down", "key_power", "key_right"})
<1>1. CASE w = <<>>
  BY <1>1
<1>2. CASE w = <<"key2_down">>
  BY <1>2 DEF Token
<1>3. CASE w = <<"key_power">>
  BY <1>3 DEF Token
<1>4. CASE w = <<"key_right">>
  BY <1>4 DEF Token
<1> QED BY <1>1, <1>2, <1>3, <1>4, Zenon DEF Shown

\* Where each code is told from all the others that are left when it is replaced:
\* its token at the first place is found elsewhere only where the one at the
\* second is not beside it.
LEMMA DownAnchored == Anchored({Down, Up, Info, Plain, Copy} \cup Shown, Down, 1, 3)
<1> DEFINE Good(w) == \A p \in 1..Len(w) :
          w[p] = Down[1] => (w = Down /\ p = 1) \/ (p + 3 - 1 \in 1..Len(w) /\ w[p + 3 - 1] # Down[3])
<1>1. Good(Down)
  BY DownTokens
<1>2. Good(Up)
  BY DownTokens, UpTokens
<1>3. Good(Info)
  BY DownTokens, InfoTokens
<1>4. Good(Plain)
  BY DownTokens, PlainTokens
<1>5. Good(Copy)
  BY CopyTokens, DownTokens
<1>6. ASSUME NEW w \in Shown PROVE Good(w)
  BY ShownTokens, DownTokens
<1> HIDE DEF Good
<1>7. \A w \in {Down, Up, Info, Plain, Copy} \cup Shown : Good(w)
  BY <1>1, <1>2, <1>3, <1>4, <1>5, <1>6
<1> QED BY <1>7, Zenon DEF Anchored, Good

LEMMA UpAnchored == Anchored({Up, Info, Plain, Copy} \cup Shown, Up, 3, 3)
<1> DEFINE Good(w) == \A p \in 1..Len(w) :
          w[p] = Up[3] => (w = Up /\ p = 3) \/ (p + 3 - 3 \in 1..Len(w) /\ w[p + 3 - 3] # Up[3])
<1>1. Good(Up)
  BY UpTokens
<1>2. Good(Info)
  BY InfoTokens, UpTokens
<1>3. Good(Plain)
  BY PlainTokens, UpTokens
<1>4. Good(Copy)
  BY CopyTokens, UpTokens
<1>5. ASSUME NEW w \in Shown PROVE Good(w)
  BY ShownTokens, UpTokens
<1> HIDE DEF Good
<1>6. \A w \in {Up, Info, Plain, Copy} \cup Shown : Good(w)
  BY <1>1, <1>2, <1>3, <1>4, <1>5
<1> QED BY <1>6, Zenon DEF Anchored, Good

LEMMA InfoAnchored == Anchored({Info, Plain, Copy} \cup Shown, Info, 3, 2)
<1> DEFINE Good(w) == \A p \in 1..Len(w) :
          w[p] = Info[3] => (w = Info /\ p = 3) \/ (p + 2 - 3 \in 1..Len(w) /\ w[p + 2 - 3] # Info[2])
<1>1. Good(Info)
  BY InfoTokens
<1>2. Good(Plain)
  BY InfoTokens, PlainTokens
<1>3. Good(Copy)
  BY CopyTokens, InfoTokens
<1>4. ASSUME NEW w \in Shown PROVE Good(w)
  BY ShownTokens, InfoTokens
<1> HIDE DEF Good
<1>5. \A w \in {Info, Plain, Copy} \cup Shown : Good(w)
  BY <1>1, <1>2, <1>3, <1>4
<1> QED BY <1>5, Zenon DEF Anchored, Good

LEMMA PlainAnchored == Anchored({Plain, Copy} \cup Shown, Plain, 1, 1)
<1> DEFINE Good(w) == \A p \in 1..Len(w) :
          w[p] = Plain[1] => (w = Plain /\ p = 1) \/ (p + 1 - 1 \in 1..Len(w) /\ w[p + 1 - 1] # Plain[1])
<1>1. Good(Plain)
  BY PlainTokens
<1>2. Good(Copy)
  BY CopyTokens, PlainTokens
<1>3. ASSUME NEW w \in Shown PROVE Good(w)
  BY ShownTokens, PlainTokens
<1> HIDE DEF Good
<1>4. \A w \in {Plain, Copy} \cup Shown : Good(w)
  BY <1>1, <1>2, <1>3
<1> QED BY <1>4, Zenon DEF Anchored, Good

LEMMA CopyAnchored == Anchored({Copy} \cup Shown, Copy, 2, 2)
<1> DEFINE Good(w) == \A p \in 1..Len(w) :
          w[p] = Copy[2] => (w = Copy /\ p = 2) \/ (p + 2 - 2 \in 1..Len(w) /\ w[p + 2 - 2] # Copy[2])
<1>1. Good(Copy)
  BY CopyTokens
<1>2. ASSUME NEW w \in Shown PROVE Good(w)
  BY ShownTokens, CopyTokens
<1> HIDE DEF Good
<1>3. \A w \in {Copy} \cup Shown : Good(w)
  BY <1>1, <1>2
<1> QED BY <1>3, Zenon DEF Anchored, Good

\* The table after each replacement, and its words.
Table(C, down, up, info, plain, copy) ==
    /\ C \in [ButtonName -> Seq(Token)]
    /\ C["down"] = down /\ C["up"] = up /\ C["info"] = info /\ C["plain"] = plain /\ C["copy"] = copy
    /\ C["power"] = <<"key_power">> /\ C["right"] = <<"key_right">>

LEMMA Tables ==
    /\ Table(Buttons, Down, Up, Info, Plain, Copy)
    /\ Table(Buttons1, <<"key2_down">>, Up, Info, Plain, Copy)
    /\ Table(Buttons2, <<"key2_down">>, <<>>, Info, Plain, Copy)
    /\ Table(Buttons3, <<"key2_down">>, <<>>, <<>>, Plain, Copy)
    /\ Table(Buttons4, <<"key2_down">>, <<>>, <<>>, <<>>, Copy)
    /\ Table(Meaning, <<"key2_down">>, <<>>, <<>>, <<>>, <<>>)
    /\ Buttons1 = [Buttons EXCEPT !["down"] = <<"key2_down">>]
    /\ Buttons2 = [Buttons1 EXCEPT !["up"] = <<>>]
    /\ Buttons3 = [Buttons2 EXCEPT !["info"] = <<>>]
    /\ Buttons4 = [Buttons3 EXCEPT !["plain"] = <<>>]
    /\ Meaning = [Buttons4 EXCEPT !["copy"] = <<>>]
<1>0. /\ <<"key2_down">> \in Seq(Token) /\ <<"key_power">> \in Seq(Token)
      /\ <<"key_right">> \in Seq(Token) /\ <<>> \in Seq(Token)
  BY DEF Token
<1>1. Table(Buttons, Down, Up, Info, Plain, Copy)
  <2>1. /\ Buttons["down"] = Down /\ Buttons["up"] = Up /\ Buttons["info"] = Info
        /\ Buttons["plain"] = Plain /\ Buttons["copy"] = Copy
        /\ Buttons["power"] = <<"key_power">> /\ Buttons["right"] = <<"key_right">>
    BY DEF Buttons, Down, Up, Info, Plain, Copy
  <2>2. Buttons = [k \in ButtonName |-> Buttons[k]]
    BY DEF Buttons, ButtonName
  <2>3. \A k \in ButtonName : Buttons[k] \in Seq(Token)
    <3>1. /\ Down \in Seq(Token) /\ Up \in Seq(Token) /\ Info \in Seq(Token)
          /\ Plain \in Seq(Token) /\ Copy \in Seq(Token)
      BY DownTokens, UpTokens, InfoTokens, PlainTokens, CopyTokens, Zenon
    <3>2. /\ Buttons["down"] \in Seq(Token) /\ Buttons["up"] \in Seq(Token)
          /\ Buttons["info"] \in Seq(Token) /\ Buttons["plain"] \in Seq(Token)
          /\ Buttons["copy"] \in Seq(Token) /\ Buttons["power"] \in Seq(Token)
          /\ Buttons["right"] \in Seq(Token)
      BY <1>0, <2>1, <3>1, Zenon
    <3> QED BY <3>2 DEF ButtonName
  <2>4. Buttons \in [ButtonName -> Seq(Token)]
    BY <2>2, <2>3
  <2> QED BY <2>1, <2>4, Zenon DEF Table
<1>2. Table(Buttons1, <<"key2_down">>, Up, Info, Plain, Copy)
  <2>1. Buttons1 = [Buttons EXCEPT !["down"] = <<"key2_down">>]
    BY Zenon DEF Buttons1
  <2>. PICK C, D : C = Buttons /\ D = Buttons1
    OBVIOUS
  <2>2. D = [C EXCEPT !["down"] = <<"key2_down">>]
    BY <2>1
  <2> QED BY <1>0, <1>1, <2>2 DEF Table, ButtonName
<1>3. Table(Buttons2, <<"key2_down">>, <<>>, Info, Plain, Copy)
  <2>1. Buttons2 = [Buttons1 EXCEPT !["up"] = <<>>]
    BY Zenon DEF Buttons2
  <2>. PICK C, D : C = Buttons1 /\ D = Buttons2
    OBVIOUS
  <2>2. D = [C EXCEPT !["up"] = <<>>]
    BY <2>1
  <2> QED BY <1>0, <1>2, <2>2 DEF Table, ButtonName
<1>4. Table(Buttons3, <<"key2_down">>, <<>>, <<>>, Plain, Copy)
  <2>1. Buttons3 = [Buttons2 EXCEPT !["info"] = <<>>]
    BY Zenon DEF Buttons3
  <2>. PICK C, D : C = Buttons2 /\ D = Buttons3
    OBVIOUS
  <2>2. D = [C EXCEPT !["info"] = <<>>]
    BY <2>1
  <2> QED BY <1>0, <1>3, <2>2 DEF Table, ButtonName
<1>5. Table(Buttons4, <<"key2_down">>, <<>>, <<>>, <<>>, Copy)
  <2>1. Buttons4 = [Buttons3 EXCEPT !["plain"] = <<>>]
    BY Zenon DEF Buttons4
  <2>. PICK C, D : C = Buttons3 /\ D = Buttons4
    OBVIOUS
  <2>2. D = [C EXCEPT !["plain"] = <<>>]
    BY <2>1
  <2> QED BY <1>0, <1>4, <2>2 DEF Table, ButtonName
<1>6. Meaning = [Buttons4 EXCEPT !["copy"] = <<>>]
  <2>. PICK C : C = [Buttons4 EXCEPT !["copy"] = <<>>]
    OBVIOUS
  <2>. PICK D : D = Buttons4
    OBVIOUS
  <2>0. C = [D EXCEPT !["copy"] = <<>>]
    OBVIOUS
  <2>1. Table(C, <<"key2_down">>, <<>>, <<>>, <<>>, <<>>)
    BY <1>0, <1>5, <2>0 DEF Table, ButtonName
  <2>2. C = [k \in ButtonName |-> C[k]]
    BY <2>1 DEF Table
  <2>3. \A k \in ButtonName : C[k] = Meaning[k]
    BY <2>1 DEF Table, ButtonName, Meaning
  <2>4. Meaning = [k \in ButtonName |-> Meaning[k]]
    BY DEF ButtonName, Meaning
  <2>5. C = Meaning
    BY <2>2, <2>3, <2>4
  <2> QED BY <2>5
<1>7. Table(Meaning, <<"key2_down">>, <<>>, <<>>, <<>>, <<>>)
  <2>. PICK C, D : C = Meaning /\ D = Buttons4
    OBVIOUS
  <2>1. C = [D EXCEPT !["copy"] = <<>>]
    BY <1>6
  <2> QED BY <1>0, <1>5, <2>1 DEF Table, ButtonName
<1>8. /\ Buttons1 = [Buttons EXCEPT !["down"] = <<"key2_down">>]
      /\ Buttons2 = [Buttons1 EXCEPT !["up"] = <<>>]
      /\ Buttons3 = [Buttons2 EXCEPT !["info"] = <<>>]
      /\ Buttons4 = [Buttons3 EXCEPT !["plain"] = <<>>]
  BY Zenon DEF Buttons1, Buttons2, Buttons3, Buttons4
<1> QED BY <1>1, <1>2, <1>3, <1>4, <1>5, <1>6, <1>7, <1>8

\* What is read when the buttons send the codes of a table.
Heard(C, pressed) == FlattenSeq(Codes(C, pressed))

\* Replacing the code of a button in a table: it can be told from the others.
Ready(C, D, b, code, rep, d, e) ==
    /\ C \in [ButtonName -> Seq(Token)] /\ b \in ButtonName /\ code \in Seq(Token) /\ C[b] = code
    /\ rep \in Seq(Token) /\ Len(rep) < Len(code) /\ D = [C EXCEPT ![b] = rep]
    /\ \A k \in ButtonName : k # b => C[k] # code
    /\ d \in 1..Len(code) /\ e \in 1..Len(code) /\ Anchored(WordsOf(C, rep), code, d, e)

\* What one replacement does to what is read.
LEMMA OneReplaced ==
    ASSUME NEW pressed \in Seq(ButtonName), NEW C, NEW D, NEW b, NEW code, NEW rep, NEW d, NEW e,
           Ready(C, D, b, code, rep, d, e)
    PROVE  StringReplace(Heard(C, pressed), code, rep) = Heard(D, pressed)
<1>. PICK W : W = WordsOf(C, rep)
  OBVIOUS
<1>. PICK ws : ws = Codes(C, pressed)
  OBVIOUS
<1>1. W \in SUBSET Seq(Token) /\ code \in W /\ rep \in W
  BY DEF WordsOf, Ready
<1>2. ws \in Seq(W)
  <2>1. \A i \in 1..Len(pressed) : C[pressed[i]] \in W
    BY DEF WordsOf, Ready
  <2> QED BY <2>1 DEF Codes
<1>3. StringReplace(FlattenSeq(ws), code, rep) = FlattenSeq(Instead(ws, code, rep))
  <2>1. /\ Len(rep) < Len(code) /\ Anchored(W, code, d, e) /\ code \in Seq(Token)
        /\ rep \in Seq(Token) /\ d \in 1..Len(code) /\ e \in 1..Len(code)
    BY Zenon DEF Ready
  <2> QED BY <1>1, <1>2, <2>1, PartsReplaced
<1>4. Instead(ws, code, rep) = Codes(D, pressed)
  <2>1. Len(ws) = Len(pressed) /\ \A i \in 1..Len(pressed) : ws[i] = C[pressed[i]] /\ pressed[i] \in ButtonName
    BY DEF Codes
  <2>2. \A k \in ButtonName : D[k] = IF C[k] = code THEN rep ELSE C[k]
    BY DEF Ready
  <2>3. \A i \in 1..Len(pressed) : (IF ws[i] = code THEN rep ELSE ws[i]) = D[pressed[i]]
    BY <2>1, <2>2
  <2> QED BY <2>1, <2>3 DEF Instead, Codes
<1>5. StringReplace(FlattenSeq(Codes(C, pressed)), code, rep) = FlattenSeq(Codes(D, pressed))
  BY <1>3, <1>4
<1> QED BY <1>5, Zenon DEF Heard

\* The five replacements turn the codes of the buttons into their meaning.
LEMMA KeysTold ==
    ASSUME NEW pressed \in Seq(DOMAIN Buttons)
    PROVE  Normalise(FlattenSeq(Codes(Buttons, pressed))) = FlattenSeq(Codes(Meaning, pressed))
<1>0. pressed \in Seq(ButtonName)
  BY Tables DEF Table
<1>1. StringReplace(Heard(Buttons, pressed), Down, <<"key2_down">>) = Heard(Buttons1, pressed)
  <2>. PICK C, D, rep : C = Buttons /\ D = Buttons1 /\ rep = <<"key2_down">>
    OBVIOUS
  <2>1. Table(C, Down, Up, Info, Plain, Copy) /\ D = [C EXCEPT !["down"] = rep]
    BY Tables, Zenon
  <2>2. rep \in Seq(Token) /\ Len(rep) < Len(Down) /\ 1 \in 1..Len(Down) /\ 3 \in 1..Len(Down)
    BY DownTokens DEF Token
  <2>3. WordsOf(C, rep) \subseteq {Down, Up, Info, Plain, Copy} \cup Shown
    <3>1. rep \in Shown
      BY Zenon DEF Shown
    <3>2. \A k \in ButtonName : C[k] \in {Down, Up, Info, Plain, Copy} \cup Shown
      BY <2>1, Zenon DEF Table, Shown, ButtonName
    <3>3. DOMAIN C = ButtonName
      BY <2>1, Zenon DEF Table
    <3> QED BY <3>1, <3>2, <3>3, Zenon DEF WordsOf
  <2>4. \A k \in ButtonName : k # "down" => C[k] # Down
    BY <2>1, DownTokens, UpTokens, InfoTokens, PlainTokens, CopyTokens DEF Table, ButtonName
  <2>5. "down" \in ButtonName /\ C["down"] = Down /\ C \in [ButtonName -> Seq(Token)] /\ Down \in Seq(Token)
    BY <2>1, DownTokens DEF Table, ButtonName
  <2>6. Anchored(WordsOf(C, rep), Down, 1, 3)
    BY <2>3, DownAnchored, Zenon DEF Anchored
  <2>7. Ready(C, D, "down", Down, rep, 1, 3)
    BY <2>1, <2>2, <2>4, <2>5, <2>6, Zenon DEF Ready
  <2> QED BY <1>0, <2>7, OneReplaced
<1>2. StringReplace(Heard(Buttons1, pressed), Up, <<>>) = Heard(Buttons2, pressed)
  <2>. PICK C, D, rep : C = Buttons1 /\ D = Buttons2 /\ rep = <<>>
    OBVIOUS
  <2>1. Table(C, <<"key2_down">>, Up, Info, Plain, Copy) /\ D = [C EXCEPT !["up"] = rep]
    BY Tables, Zenon
  <2>2. rep \in Seq(Token) /\ Len(rep) < Len(Up) /\ 3 \in 1..Len(Up) /\ 3 \in 1..Len(Up)
    BY UpTokens DEF Token
  <2>3. WordsOf(C, rep) \subseteq {Up, Info, Plain, Copy} \cup Shown
    <3>1. rep \in Shown
      BY Zenon DEF Shown
    <3>2. \A k \in ButtonName : C[k] \in {Up, Info, Plain, Copy} \cup Shown
      BY <2>1, Zenon DEF Table, Shown, ButtonName
    <3>3. DOMAIN C = ButtonName
      BY <2>1, Zenon DEF Table
    <3> QED BY <3>1, <3>2, <3>3, Zenon DEF WordsOf
  <2>4. \A k \in ButtonName : k # "up" => C[k] # Up
    BY <2>1, UpTokens, InfoTokens, PlainTokens, CopyTokens DEF Table, ButtonName
  <2>5. "up" \in ButtonName /\ C["up"] = Up /\ C \in [ButtonName -> Seq(Token)] /\ Up \in Seq(Token)
    BY <2>1, UpTokens DEF Table, ButtonName
  <2>6. Anchored(WordsOf(C, rep), Up, 3, 3)
    BY <2>3, UpAnchored, Zenon DEF Anchored
  <2>7. Ready(C, D, "up", Up, rep, 3, 3)
    BY <2>1, <2>2, <2>4, <2>5, <2>6, Zenon DEF Ready
  <2> QED BY <1>0, <2>7, OneReplaced
<1>3. StringReplace(Heard(Buttons2, pressed), Info, <<>>) = Heard(Buttons3, pressed)
  <2>. PICK C, D, rep : C = Buttons2 /\ D = Buttons3 /\ rep = <<>>
    OBVIOUS
  <2>1. Table(C, <<"key2_down">>, <<>>, Info, Plain, Copy) /\ D = [C EXCEPT !["info"] = rep]
    BY Tables, Zenon
  <2>2. rep \in Seq(Token) /\ Len(rep) < Len(Info) /\ 3 \in 1..Len(Info) /\ 2 \in 1..Len(Info)
    BY InfoTokens DEF Token
  <2>3. WordsOf(C, rep) \subseteq {Info, Plain, Copy} \cup Shown
    <3>1. rep \in Shown
      BY Zenon DEF Shown
    <3>2. \A k \in ButtonName : C[k] \in {Info, Plain, Copy} \cup Shown
      BY <2>1, Zenon DEF Table, Shown, ButtonName
    <3>3. DOMAIN C = ButtonName
      BY <2>1, Zenon DEF Table
    <3> QED BY <3>1, <3>2, <3>3, Zenon DEF WordsOf
  <2>4. \A k \in ButtonName : k # "info" => C[k] # Info
    BY <2>1, InfoTokens, PlainTokens, CopyTokens DEF Table, ButtonName
  <2>5. "info" \in ButtonName /\ C["info"] = Info /\ C \in [ButtonName -> Seq(Token)] /\ Info \in Seq(Token)
    BY <2>1, InfoTokens DEF Table, ButtonName
  <2>6. Anchored(WordsOf(C, rep), Info, 3, 2)
    BY <2>3, InfoAnchored, Zenon DEF Anchored
  <2>7. Ready(C, D, "info", Info, rep, 3, 2)
    BY <2>1, <2>2, <2>4, <2>5, <2>6, Zenon DEF Ready
  <2> QED BY <1>0, <2>7, OneReplaced
<1>4. StringReplace(Heard(Buttons3, pressed), Plain, <<>>) = Heard(Buttons4, pressed)
  <2>. PICK C, D, rep : C = Buttons3 /\ D = Buttons4 /\ rep = <<>>
    OBVIOUS
  <2>1. Table(C, <<"key2_down">>, <<>>, <<>>, Plain, Copy) /\ D = [C EXCEPT !["plain"] = rep]
    BY Tables, Zenon
  <2>2. rep \in Seq(Token) /\ Len(rep) < Len(Plain) /\ 1 \in 1..Len(Plain) /\ 1 \in 1..Len(Plain)
    BY PlainTokens DEF Token
  <2>3. WordsOf(C, rep) \subseteq {Plain, Copy} \cup Shown
    <3>1. rep \in Shown
      BY Zenon DEF Shown
    <3>2. \A k \in ButtonName : C[k] \in {Plain, Copy} \cup Shown
      BY <2>1, Zenon DEF Table, Shown, ButtonName
    <3>3. DOMAIN C = ButtonName
      BY <2>1, Zenon DEF Table
    <3> QED BY <3>1, <3>2, <3>3, Zenon DEF WordsOf
  <2>4. \A k \in ButtonName : k # "plain" => C[k] # Plain
    BY <2>1, PlainTokens, CopyTokens DEF Table, ButtonName
  <2>5. "plain" \in ButtonName /\ C["plain"] = Plain /\ C \in [ButtonName -> Seq(Token)] /\ Plain \in Seq(Token)
    BY <2>1, PlainTokens DEF Table, ButtonName
  <2>6. Anchored(WordsOf(C, rep), Plain, 1, 1)
    BY <2>3, PlainAnchored, Zenon DEF Anchored
  <2>7. Ready(C, D, "plain", Plain, rep, 1, 1)
    BY <2>1, <2>2, <2>4, <2>5, <2>6, Zenon DEF Ready
  <2> QED BY <1>0, <2>7, OneReplaced
<1>5. StringReplace(Heard(Buttons4, pressed), Copy, <<>>) = Heard(Meaning, pressed)
  <2>. PICK C, D, rep : C = Buttons4 /\ D = Meaning /\ rep = <<>>
    OBVIOUS
  <2>1. Table(C, <<"key2_down">>, <<>>, <<>>, <<>>, Copy) /\ D = [C EXCEPT !["copy"] = rep]
    BY Tables, Zenon
  <2>2. rep \in Seq(Token) /\ Len(rep) < Len(Copy) /\ 2 \in 1..Len(Copy) /\ 2 \in 1..Len(Copy)
    BY CopyTokens DEF Token
  <2>3. WordsOf(C, rep) \subseteq {Copy} \cup Shown
    <3>1. rep \in Shown
      BY Zenon DEF Shown
    <3>2. \A k \in ButtonName : C[k] \in {Copy} \cup Shown
      BY <2>1, Zenon DEF Table, Shown, ButtonName
    <3>3. DOMAIN C = ButtonName
      BY <2>1, Zenon DEF Table
    <3> QED BY <3>1, <3>2, <3>3, Zenon DEF WordsOf
  <2>4. \A k \in ButtonName : k # "copy" => C[k] # Copy
    BY <2>1, CopyTokens DEF Table, ButtonName
  <2>5. "copy" \in ButtonName /\ C["copy"] = Copy /\ C \in [ButtonName -> Seq(Token)] /\ Copy \in Seq(Token)
    BY <2>1, CopyTokens DEF Table, ButtonName
  <2>6. Anchored(WordsOf(C, rep), Copy, 2, 2)
    BY <2>3, CopyAnchored, Zenon DEF Anchored
  <2>7. Ready(C, D, "copy", Copy, rep, 2, 2)
    BY <2>1, <2>2, <2>4, <2>5, <2>6, Zenon DEF Ready
  <2> QED BY <1>0, <2>7, OneReplaced
<1>6. Normalise(Heard(Buttons, pressed)) = Heard(Meaning, pressed)
  BY <1>1, <1>2, <1>3, <1>4, <1>5 DEF Normalise, NormaliseIn, Down, Up, Info, Plain, Copy
<1> QED BY <1>6 DEF Heard

\* Keys read are the codes of the task's buttons, joined, after Normalise.
KeysTaken ==
    task.kind = "keys" =>
      /\ task \in KeyTask
      /\ result # None =>
           result.s = Normalise(FlattenSeq([i \in DOMAIN task.pressed |-> Buttons[task.pressed[i]]]))

LEMMA KeysInit == Init => KeysTaken
BY DEF Init, KeysTaken, FieldTask, ServerTask, CommandTask, KeyTask, NumberTask

LEMMA KeysStep == KeysTaken /\ [Next]_tvars => KeysTaken'
<1> SUFFICES ASSUME KeysTaken, [Next]_tvars PROVE KeysTaken'
  OBVIOUS
<1>1. CASE UNCHANGED tvars
  BY <1>1 DEF KeysTaken, tvars
<1>2. CASE TakeKeys
  BY <1>2 DEF TakeKeys, Done, KeysTaken
<1>3. CASE RunCommand \/ DefaultWritten \/ ReadOptions \/ ConvertNumber \/ SplitField
  BY <1>3 DEF RunCommand, DefaultWritten, ReadOptions, ConvertNumber, SplitField, Done, KeysTaken
<1> QED BY <1>1, <1>2, <1>3 DEF Next

LEMMA TakenMeans == KeysTaken => ButtonsKeepMeaning
<1> SUFFICES ASSUME KeysTaken, task.kind = "keys", result # None
             PROVE  result.s = FlattenSeq([i \in DOMAIN task.pressed |-> Meaning[task.pressed[i]]])
  BY DEF ButtonsKeepMeaning
<1>. PICK pressed : pressed = task.pressed
  OBVIOUS
<1>1. pressed \in Seq(DOMAIN Buttons)
  <2>1. pressed \in Presses
    BY DEF KeysTaken, KeyTask
  <2> QED BY <2>1, PressesAssumption
<1>2. DOMAIN pressed = 1..Len(pressed)
  BY <1>1
<1>3. result.s = Normalise(FlattenSeq([i \in DOMAIN pressed |-> Buttons[pressed[i]]]))
  BY DEF KeysTaken
<1>4. Normalise(FlattenSeq(Codes(Buttons, pressed))) = FlattenSeq(Codes(Meaning, pressed))
  BY <1>1, KeysTold
<1> QED BY <1>2, <1>3, <1>4, Zenon DEF Codes

\* However many buttons are pressed between two wakings of the sender, and in
\* whatever order: the replacements of f_pilot.c find in their joined codes each
\* button's own code and no other.
THEOREM ButtonsMeanTheSame == Spec => []ButtonsKeepMeaning
BY KeysInit, KeysStep, TakenMeans, PTL DEF Spec

-----------------------------------------------------------------------------
(* The rows of the options.                                                *)

\* Without quotes, GetLineToStr answers the field.
LEMMA PlainFound ==
    ASSUME NEW T, NEW a \in Seq(T), NEW sep \in T, sep # Quote, Lacks(a, Quote), NEW l \in Nat \ {0}
    PROVE  GetLineToStr(a, l, sep, <<>>) = FieldOf(a, l, sep)
<1>1. PICK f : f = FieldOf(a, l, sep)
  OBVIOUS
<1>2. Len(a) \in Nat /\ l \in Nat /\ l - 1 \in Nat /\ Count(a, sep, Len(a)) \in Nat
  <2>1. Len(a) \in Nat /\ l \in Nat /\ l - 1 \in Nat
    OBVIOUS
  <2> QED BY <2>1, CountFacts
<1>3. f \in Seq(T) /\ Lacks(f, Quote)
  <2>1. CASE l > Count(a, sep, Len(a)) + 1
    <3>1. f = <<>>
      BY <1>1, <2>1, FieldOfIs
    <3> QED BY <3>1 DEF Lacks
  <2>2. CASE ~(l > Count(a, sep, Len(a)) + 1)
    <3>1. PICK m \in Nat : m = l - 1
      BY <1>2
    <3>2. m \in 0..(Count(a, sep, Len(a)) + 1) /\ l \in 0..(Count(a, sep, Len(a)) + 1) /\ l = m + 1
      BY <1>2, <2>2, <3>1
    <3>3. PICK x : EndAt(a, sep, m, x)
      BY <3>2, EndExists
    <3>4. PICK e : EndAt(a, sep, l, e)
      BY <3>2, EndExists
    <3>5. f = SubSeq(a, x + 1, e - 1)
      <4>1. EndAt(a, sep, l - 1, x)
        BY <3>1, <3>3
      <4> QED BY <1>1, <3>4, <4>1, FieldOfIs
    <3>6. Between(a, sep, x, e)
      <4>1. EndAt(a, sep, m + 1, e)
        BY <3>2, <3>4
      <4> QED BY <3>3, <4>1, NextEnd
    <3>7. x \in 0..Len(a) /\ e \in (x + 1)..(Len(a) + 1)
      BY <3>6 DEF Between
    <3>8. /\ x + 1 \in 1..(Len(a) + 1) /\ e - 1 \in ((x + 1) - 1)..Len(a)
          /\ \A k \in (x + 1)..(e - 1) : a[k] # Quote
      BY <1>2, <3>7 DEF Lacks
    <3>9. SubSeq(a, x + 1, e - 1) \in Seq(T) /\ Lacks(SubSeq(a, x + 1, e - 1), Quote)
      BY <3>8, CutIs, CutLacks
    <3> QED BY <3>5, <3>9
  <2> QED BY <2>1, <2>2
<1>4. Quote \notin Range(f)
  <2>1. DOMAIN f = 1..Len(f)
    BY <1>3
  <2> QED BY <1>3, <2>1 DEF Lacks, Range
<1>5. WellQuoted(f, sep) /\ Unquoted(f) = f
  BY <1>4 DEF WellQuoted, Unquoted
<1>6. GetLineToStr(a, l, sep, <<>>) = OrDefault(Unquoted(f), <<>>)
  BY <1>1, <1>5, GetLineToStrIs
<1> QED BY <1>1, <1>5, <1>6 DEF OrDefault

\* Rows as ConfToBufor writes them.
RowTexts(T) == {r \in Seq(T) : r # <<>> /\ Lacks(r, Quote) /\ Lacks(r, Newline)}

\* The end of the k-th.
Upto(rs, k) == Len(FlattenSeq(SubSeq(Ended(rs), 1, k)))

\* r between x and the end of line at y.
RowAt(b, x, y, r) ==
    /\ x \in Nat /\ y \in Nat /\ y = x + Len(r) + 1 /\ Len(r) \in Nat /\ y <= Len(b)
    /\ b[y] = Newline /\ SubSeq(b, x + 1, y - 1) = r
    /\ \A j \in (x + 1)..(y - 1) : b[j] # Newline

EndedRows(T, rs) == rs \in Seq(RowTexts(T)) /\ Newline \in T

LEMMA EndedType ==
    ASSUME NEW T, NEW rs, EndedRows(T, rs)
    PROVE  /\ Ended(rs) \in Seq(Seq(T)) /\ Len(Ended(rs)) = Len(rs) /\ Len(rs) \in Nat
           /\ \A k \in 1..Len(rs) : Ended(rs)[k] = Append(rs[k], Newline) /\ rs[k] \in RowTexts(T)
           /\ FlattenSeq(Ended(rs)) \in Seq(T)
<1>. PICK S : S = Seq(T)
  OBVIOUS
<1>1. rs \in Seq(RowTexts(T)) /\ Newline \in T
  BY DEF EndedRows
<1>2. Len(rs) \in Nat /\ \A k \in 1..Len(rs) : rs[k] \in RowTexts(T)
  BY <1>1
<1>3. \A r \in RowTexts(T) : Append(r, Newline) \in S
  BY <1>1 DEF RowTexts
<1>4. Ended(rs) \in Seq(S) /\ Len(Ended(rs)) = Len(rs)
      /\ \A k \in 1..Len(rs) : Ended(rs)[k] = Append(rs[k], Newline)
  BY <1>2, <1>3 DEF Ended
<1>5. FlattenSeq(Ended(rs)) \in Seq(T)
  BY <1>4, FlatType
<1> QED BY <1>2, <1>4, <1>5

LEMMA RowIsAt ==
    ASSUME NEW T, NEW rs, EndedRows(T, rs), NEW k \in 1..Len(rs)
    PROVE  RowAt(FlattenSeq(Ended(rs)), Upto(rs, k - 1), Upto(rs, k), rs[k])
<1>1. PICK E, b : E = Ended(rs) /\ b = FlattenSeq(E)
  OBVIOUS
<1>2. PICK r, w : r = rs[k] /\ w = E[k]
  OBVIOUS
<1>3. /\ E \in Seq(Seq(T)) /\ Len(E) = Len(rs) /\ Len(rs) \in Nat /\ w = Append(r, Newline)
      /\ r \in RowTexts(T) /\ b \in Seq(T) /\ k \in 1..Len(E)
  BY <1>1, <1>2, EndedType
<1>4. r \in Seq(T) /\ Lacks(r, Newline) /\ Len(r) \in Nat
  BY <1>3 DEF RowTexts
<1>5. w \in Seq(T) /\ Len(w) = Len(r) + 1 /\ w[Len(r) + 1] = Newline /\ \A i \in 1..Len(r) : w[i] = r[i]
  <2>1. Newline \in T
    BY DEF EndedRows
  <2> QED BY <1>3, <1>4, <2>1, AppendProperties
<1>6. PICK us, vs : CutAt(E, k, us, vs)
  BY DEF CutAt
<1>7. PICK p, q : p = FlattenSeq(us) /\ q = FlattenSeq(vs)
  OBVIOUS
<1>8. Pieces(T, b, p, w, q) /\ us \in Seq(Seq(T))
  BY <1>1, <1>2, <1>3, <1>6, <1>7, FlatCut
<1>9. Apart(T, b, p, w, q)
  BY <1>8, PartTold
<1>10. /\ Len(b) = Len(p) + Len(w) + Len(q) /\ Len(p) \in Nat /\ Len(w) \in Nat /\ Len(q) \in Nat
       /\ \A i \in 1..Len(w) : b[Len(p) + i] = w[i]
  BY <1>9 DEF Apart
<1>11. PICK x \in Nat, y \in Nat : x = Len(p) /\ y = x + Len(r) + 1
  <2>1. Len(p) \in Nat /\ Len(p) + Len(r) + 1 \in Nat
    BY <1>4, <1>10
  <2> QED BY <2>1
<1>12. Upto(rs, k - 1) = x
  <2>1. us = SubSeq(E, 1, k - 1)
    BY <1>6 DEF CutAt
  <2> QED BY <1>1, <1>7, <1>11, <2>1 DEF Upto
<1>13. Upto(rs, k) = y
  <2>1. SubSeq(E, 1, k) = Append(us, w)
    <3>1. Append(SubSeq(E, 1, k - 1), E[k]) = SubSeq(E, 1, k)
      BY <1>3, PrefixGrows
    <3> QED BY <1>2, <1>6, <3>1 DEF CutAt
  <2>2. FlattenSeq(SubSeq(E, 1, k)) = p \o w
    <3>1. FlattenSeq(Append(us, w)) = FlattenSeq(us) \o w
      BY <1>5, <1>8, FlatAppend
    <3> QED BY <1>7, <2>1, <3>1
  <2>3. Len(p \o w) = Len(p) + Len(w)
    <3>1. p \in Seq(T)
      BY <1>8 DEF Pieces
    <3> QED BY <1>5, <3>1, ConcatProperties
  <2>4. Upto(rs, k) = Len(p) + Len(w)
    BY <1>1, <2>2, <2>3 DEF Upto
  <2> QED BY <1>4, <1>5, <1>10, <1>11, <2>4
<1>14. y <= Len(b)
  BY <1>4, <1>5, <1>10, <1>11
<1>15. b[y] = Newline
  <2>1. Len(r) + 1 \in 1..Len(w) /\ Len(p) + (Len(r) + 1) = y
    BY <1>4, <1>5, <1>10, <1>11
  <2>2. b[Len(p) + (Len(r) + 1)] = w[Len(r) + 1]
    BY <1>10, <2>1
  <2> QED BY <1>5, <2>1, <2>2
<1>16. \A i \in 1..Len(r) : b[x + i] = r[i]
  <2>1. \A i \in 1..Len(r) : i \in 1..Len(w)
    BY <1>4, <1>5
  <2> QED BY <1>5, <1>10, <1>11, <2>1
<1>17. \A j \in (x + 1)..(y - 1) : b[j] # Newline
  <2> SUFFICES ASSUME NEW j \in (x + 1)..(y - 1) PROVE b[j] # Newline
    OBVIOUS
  <2>1. j - x \in 1..Len(r) /\ x + (j - x) = j
    BY <1>4, <1>11
  <2>2. b[j] = r[j - x]
    BY <1>16, <2>1
  <2> QED BY <1>4, <2>1, <2>2 DEF Lacks
<1>18. SubSeq(b, x + 1, y - 1) = r
  <2>1. x + 1 \in 1..(Len(b) + 1) /\ y - 1 \in ((x + 1) - 1)..Len(b)
    BY <1>3, <1>4, <1>11, <1>14
  <2>2. PICK c : c = SubSeq(b, x + 1, y - 1)
    OBVIOUS
  <2>3. /\ c \in Seq(T) /\ Len(c) = (y - 1) - (x + 1) + 1
        /\ \A i \in 1..((y - 1) - (x + 1) + 1) : c[i] = b[(x + 1) + i - 1]
    BY <1>3, <2>1, <2>2, CutIs
  <2>4. (y - 1) - (x + 1) + 1 = Len(r) /\ \A i \in 1..Len(r) : (x + 1) + i - 1 = x + i
    BY <1>4, <1>11
  <2>5. Len(c) = Len(r) /\ \A i \in 1..Len(c) : c[i] = r[i]
    BY <1>16, <2>3, <2>4
  <2> QED BY <1>4, <2>2, <2>3, <2>5, SeqEqual
<1>19. RowAt(b, x, y, r)
  BY <1>4, <1>11, <1>14, <1>15, <1>17, <1>18 DEF RowAt
<1> QED BY <1>1, <1>2, <1>12, <1>13, <1>19

LEMMA RowsPlain ==
    ASSUME NEW T, NEW rs, EndedRows(T, rs)
    PROVE  Lacks(FlattenSeq(Ended(rs)), Quote)
<1>1. PICK E, b : E = Ended(rs) /\ b = FlattenSeq(E)
  OBVIOUS
<1>2. ASSUME NEW j \in 1..Len(b) PROVE b[j] # Quote
  <2>1. E \in Seq(Seq(T)) /\ Len(E) = Len(rs) /\ Len(rs) \in Nat
        /\ \A k \in 1..Len(rs) : E[k] = Append(rs[k], Newline) /\ rs[k] \in RowTexts(T)
    BY <1>1, EndedType
  <2>2. PICK k \in Nat, p \in Nat : PartAt(E, j, k, p)
    BY <1>1, <2>1, PartExists
  <2>3. k \in 1..Len(E) /\ p \in 1..Len(E[k]) /\ j = Len(FlattenSeq(SubSeq(E, 1, k - 1))) + p
    BY <2>2 DEF PartAt
  <2>4. PICK us, vs : CutAt(E, k, us, vs)
    BY DEF CutAt
  <2>5. Pieces(T, b, FlattenSeq(us), E[k], FlattenSeq(vs))
    BY <1>1, <2>1, <2>3, <2>4, FlatCut
  <2>6. Apart(T, b, FlattenSeq(us), E[k], FlattenSeq(vs))
    BY <2>5, PartTold
  <2>7. b[j] = E[k][p]
    <3>1. us = SubSeq(E, 1, k - 1)
      BY <2>4 DEF CutAt
    <3> QED BY <2>3, <2>6, <3>1 DEF Apart
  <2>8. PICK r : r = rs[k]
    OBVIOUS
  <2>9. r \in Seq(T) /\ Lacks(r, Quote) /\ E[k] = Append(r, Newline)
    BY <2>1, <2>3, <2>8 DEF RowTexts
  <2>10. Newline \in T /\ Newline # Quote
    BY DEF EndedRows, Newline, Quote
  <2>11. Len(E[k]) = Len(r) + 1 /\ E[k][Len(r) + 1] = Newline /\ \A i \in 1..Len(r) : E[k][i] = r[i]
    BY <2>9, <2>10, AppendProperties
  <2>12. Len(r) \in Nat /\ (p \in 1..Len(r) \/ p = Len(r) + 1)
    BY <2>3, <2>9, <2>11
  <2>13. E[k][p] # Quote
    BY <2>9, <2>10, <2>11, <2>12 DEF Lacks
  <2> QED BY <2>7, <2>13
<1> QED BY <1>1, <1>2 DEF Lacks

LEMMA CountNone ==
    ASSUME NEW a, NEW sep, NEW x \in Nat, NEW y \in Nat, x <= y, \A j \in (x + 1)..y : a[j] # sep
    PROVE  Count(a, sep, y) = Count(a, sep, x)
<1>1. SepsTo(a, sep, y) = SepsTo(a, sep, x)
  <2>1. \A j \in 1..y : j \in 1..x \/ j \in (x + 1)..y
    OBVIOUS
  <2>2. \A j \in 1..x : j \in 1..y
    OBVIOUS
  <2> QED BY <2>1, <2>2 DEF SepsTo
<1> QED BY <1>1 DEF Count

\* As many ends of line as rows.
Counted(rs, k) == Upto(rs, k) \in Nat /\ Upto(rs, k) <= Len(FlattenSeq(Ended(rs)))
                  /\ Count(FlattenSeq(Ended(rs)), Newline, Upto(rs, k)) = k

LEMMA FirstUpto ==
    ASSUME NEW rs
    PROVE  Upto(rs, 0) = 0
<1>1. PICK u : u = SubSeq(Ended(rs), 1, 0)
  OBVIOUS
<1>2. u \in Seq({}) /\ u = <<>>
  BY <1>1
<1>3. FlattenSeq(u) = <<>>
  BY <1>2, FlatIs
<1>4. Len(FlattenSeq(u)) = 0
  BY <1>3
<1> QED BY <1>1, <1>4 DEF Upto

LEMMA NextCounted ==
    ASSUME NEW T, NEW rs, EndedRows(T, rs), NEW k \in 1..Len(rs), Counted(rs, k - 1)
    PROVE  Counted(rs, k) /\ Upto(rs, k) \in Seps(FlattenSeq(Ended(rs)), Newline)
           /\ Count(FlattenSeq(Ended(rs)), Newline, Upto(rs, k) - 1) = k - 1
<1>1. PICK b, x, y, r : b = FlattenSeq(Ended(rs)) /\ x = Upto(rs, k - 1) /\ y = Upto(rs, k) /\ r = rs[k]
  OBVIOUS
<1>2. RowAt(b, x, y, r)
  BY <1>1, RowIsAt
<1>3. /\ x \in Nat /\ y \in Nat /\ y = x + Len(r) + 1 /\ Len(r) \in Nat /\ y <= Len(b) /\ b[y] = Newline
      /\ \A j \in (x + 1)..(y - 1) : b[j] # Newline
  BY <1>2 DEF RowAt
<1>4. b \in Seq(T) /\ Len(b) \in Nat
  BY <1>1, EndedType
<1>5. Count(b, Newline, x) = k - 1
  BY <1>1 DEF Counted
<1>6. y - 1 \in Nat /\ x <= y - 1 /\ y \in 1..Len(b)
  BY <1>3, <1>4
<1>7. Count(b, Newline, y - 1) = k - 1
  <2>1. Count(b, Newline, y - 1) = Count(b, Newline, x)
    BY <1>3, <1>6, CountNone
  <2> QED BY <1>5, <2>1
<1>8. y \in Seps(b, Newline)
  <2>1. \A j \in 1..Len(b) : b[j] # Quote
    <3>1. Lacks(b, Quote)
      BY <1>1, RowsPlain
    <3> QED BY <3>1 DEF Lacks
  <2>2. ~Quoted(b, 1, y)
    <3>1. 1 \in Int /\ y \in Int /\ \A j \in 1..y : b[j] # Quote
      BY <1>4, <1>6, <2>1
    <3> QED BY <3>1, NothingQuoted
  <2> QED BY <1>3, <1>6, <2>2 DEF Seps, SepsTo
<1>9. Count(b, Newline, y) = k
  <2>1. Count(b, Newline, y) = Count(b, Newline, y - 1) + 1
    BY <1>4, <1>6, <1>8, CountStep
  <2> QED BY <1>7, <2>1
<1> QED BY <1>1, <1>3, <1>7, <1>8, <1>9 DEF Counted

LEMMA RowsCounted ==
    ASSUME NEW T, NEW rs, EndedRows(T, rs), NEW k \in 0..Len(rs)
    PROVE  Counted(rs, k)
<1>1. Len(rs) \in Nat
  BY EndedType
<1> DEFINE Bad == {n \in 0..Len(rs) : ~Counted(rs, n)}
<1> SUFFICES ASSUME k \in Bad PROVE FALSE
  OBVIOUS
<1>2. PICK n \in Bad : \A m \in Bad : n <= m
  <2>1. Bad \in SUBSET Nat
    BY <1>1
  <2> HIDE DEF Bad
  <2> QED BY <2>1, LeastNat
<1>3. n \in 0..Len(rs) /\ n \in Nat /\ ~Counted(rs, n)
  BY <1>1
<1>4. CASE n = 0
  <2>1. Count(FlattenSeq(Ended(rs)), Newline, 0) = 0 /\ Len(FlattenSeq(Ended(rs))) \in Nat
    <3>1. FlattenSeq(Ended(rs)) \in Seq(T)
      BY EndedType
    <3> QED BY <3>1, CountFacts
  <2> QED BY <1>3, <1>4, <2>1, FirstUpto DEF Counted
<1>5. CASE n # 0
  <2>1. n - 1 \in 0..Len(rs) /\ ~(n <= n - 1) /\ n \in 1..Len(rs)
    BY <1>1, <1>3, <1>5
  <2>2. Counted(rs, n - 1)
    <3>1. n - 1 \notin Bad
      <4> HIDE DEF Bad
      <4> QED BY <1>2, <2>1
    <3> QED BY <2>1, <3>1
  <2> QED BY <1>3, <2>1, <2>2, NextCounted
<1> QED BY <1>4, <1>5

\* All rows end where the text does.
LEMMA LastUpto ==
    ASSUME NEW T, NEW rs, EndedRows(T, rs)
    PROVE  Upto(rs, Len(rs)) = Len(FlattenSeq(Ended(rs)))
<1>1. Ended(rs) \in Seq(Seq(T)) /\ Len(Ended(rs)) = Len(rs)
  BY EndedType
<1>2. SubSeq(Ended(rs), 1, Len(rs)) = Ended(rs)
  BY <1>1, SubSeqFull
<1> QED BY <1>2 DEF Upto

LEMMA RowEnds ==
    ASSUME NEW T, NEW rs, EndedRows(T, rs), NEW b, b = FlattenSeq(Ended(rs))
    PROVE  /\ \A k \in 0..Len(rs) : EndAt(b, Newline, k, Upto(rs, k))
           /\ EndAt(b, Newline, Len(rs) + 1, Len(b) + 1)
<1>1. Len(rs) \in Nat /\ Len(b) \in Nat /\ b \in Seq(T)
  BY EndedType
<1>2. ASSUME NEW k \in 0..Len(rs) PROVE EndAt(b, Newline, k, Upto(rs, k))
  <2>1. CASE k = 0
    BY <2>1, FirstUpto DEF EndAt
  <2>2. CASE k # 0
    <3>1. k \in 1..Len(rs) /\ k - 1 \in 0..Len(rs)
      BY <1>1, <2>2
    <3>2. PICK y : y = Upto(rs, k)
      OBVIOUS
    <3>3. y \in Nat /\ y \in Seps(b, Newline) /\ Count(b, Newline, y) = k /\ Count(b, Newline, y - 1) = k - 1
      BY <3>1, <3>2, RowsCounted, NextCounted DEF Counted
    <3>4. ASSUME NEW j \in 0..(y - 1) PROVE Count(b, Newline, j) < k
      <4>1. j \in Nat /\ y - 1 \in Nat /\ j <= y - 1
        BY <3>3
      <4>2. Count(b, Newline, j) <= Count(b, Newline, y - 1) /\ Count(b, Newline, j) \in Nat
        BY <4>1, CountFacts
      <4> QED BY <3>1, <3>3, <4>2
    <3> QED BY <3>2, <3>3, <3>4 DEF EndAt
  <2> QED BY <2>1, <2>2
<1>3. Count(b, Newline, Len(b)) = Len(rs)
  <2>1. Len(rs) \in 0..Len(rs)
    BY <1>1
  <2> QED BY <2>1, RowsCounted, LastUpto DEF Counted
<1>4. EndAt(b, Newline, Len(rs) + 1, Len(b) + 1)
  BY <1>3 DEF EndAt
<1> QED BY <1>2, <1>4

LEMMA RowFound ==
    ASSUME NEW T, NEW rs, EndedRows(T, rs), NEW b, b = FlattenSeq(Ended(rs))
    PROVE  /\ \A i \in 1..Len(rs) : Row(b, i) = rs[i]
           /\ Row(b, Len(rs) + 1) = <<>>
<1>1. Len(rs) \in Nat /\ Len(b) \in Nat /\ b \in Seq(T) /\ Lacks(b, Quote)
  BY EndedType, RowsPlain
<1>2. PICK nl \in T : nl = Newline /\ nl # Quote
  BY DEF EndedRows, Newline, Quote
<1>3. ASSUME NEW i \in Nat \ {0} PROVE Row(b, i) = FieldOf(b, i, nl)
  BY <1>1, <1>2, PlainFound DEF Row
<1>4. ASSUME NEW i \in 1..Len(rs) PROVE Row(b, i) = rs[i]
  <2>1. i \in Nat \ {0} /\ i - 1 \in 0..Len(rs) /\ i \in 0..Len(rs)
    BY <1>1
  <2>2. PICK x, y : x = Upto(rs, i - 1) /\ y = Upto(rs, i)
    OBVIOUS
  <2>3. EndAt(b, nl, i - 1, x) /\ EndAt(b, nl, i, y)
    BY <1>2, <2>1, <2>2, RowEnds
  <2>4. FieldOf(b, i, nl) = SubSeq(b, x + 1, y - 1)
    BY <1>1, <2>1, <2>3, FieldOfIs
  <2>5. SubSeq(b, x + 1, y - 1) = rs[i]
    BY <2>2, RowIsAt DEF RowAt
  <2> QED BY <1>3, <2>1, <2>4, <2>5
<1>5. Row(b, Len(rs) + 1) = <<>>
  <2>1. PICK n \in Nat, m \in Nat : n = Len(rs) + 1 /\ m = Len(rs)
    BY <1>1
  <2>2. n \in Nat \ {0} /\ n - 1 = m /\ m \in 0..Len(rs)
    BY <1>1, <2>1
  <2>3. EndAt(b, nl, n - 1, Len(b)) /\ EndAt(b, nl, n, Len(b) + 1)
    <3>1. EndAt(b, nl, m, Upto(rs, m)) /\ EndAt(b, nl, n, Len(b) + 1)
      BY <1>2, <2>1, <2>2, RowEnds
    <3> QED BY <2>1, <2>2, <3>1, LastUpto
  <2>4. FieldOf(b, n, nl) = SubSeq(b, Len(b) + 1, (Len(b) + 1) - 1)
    BY <1>1, <2>2, <2>3, FieldOfIs
  <2>5. SubSeq(b, Len(b) + 1, (Len(b) + 1) - 1) = <<>>
    BY <1>1
  <2> QED BY <1>3, <2>1, <2>2, <2>4, <2>5
<1> QED BY <1>4, <1>5

LEMMA RowsAre ==
    ASSUME NEW T, NEW rs, EndedRows(T, rs), NEW b, b = FlattenSeq(Ended(rs))
    PROVE  Rows(b, 1) = 1..Len(rs)
<1> DEFINE empty == {i \in 1..(Len(b) + 1) : Row(b, i) = <<>>}
<1>1. PICK n \in Nat : n = Len(rs)
  BY EndedType
<1>2. Len(b) \in Nat /\ b \in Seq(T)
  BY EndedType
<1>3. n <= Len(b)
  <2>1. Count(b, Newline, Len(b)) = n
    <3>1. n \in 0..Len(rs)
      BY <1>1
    <3> QED BY <1>1, <3>1, RowsCounted, LastUpto DEF Counted
  <2>2. SepsTo(b, Newline, Len(b)) \in SUBSET (1..Len(b))
    BY DEF SepsTo
  <2>3. IsFiniteSet(1..Len(b)) /\ Cardinality(1..Len(b)) = Len(b)
    <3>1. 1 \in Int /\ Len(b) \in Int
      BY <1>2
    <3>2. IsFiniteSet(1..Len(b))
      BY <3>1, FS_Interval
    <3>3. Cardinality(1..Len(b)) = IF 1 > Len(b) THEN 0 ELSE Len(b) - 1 + 1
      BY <3>1, FS_Interval
    <3> QED BY <1>2, <3>2, <3>3
  <2>4. Cardinality(SepsTo(b, Newline, Len(b))) <= Cardinality(1..Len(b))
    BY <2>2, <2>3, FS_Subset
  <2> QED BY <2>1, <2>3, <2>4 DEF Count
<1>4. n + 1 \in empty /\ \A i \in empty : n + 1 <= i
  <2>1. Row(b, n + 1) = <<>> /\ \A i \in 1..n : Row(b, i) = rs[i]
    BY <1>1, RowFound
  <2>2. \A i \in 1..n : rs[i] # <<>>
    <3>1. \A i \in 1..n : rs[i] \in RowTexts(T)
      BY <1>1, EndedType
    <3> QED BY <3>1 DEF RowTexts
  <2>3. n + 1 \in 1..(Len(b) + 1)
    BY <1>2, <1>3
  <2>4. ASSUME NEW i \in empty PROVE n + 1 <= i
    <3>1. i \in Nat /\ i \notin 1..n /\ i >= 1
      BY <1>2, <2>1, <2>2
    <3> QED BY <3>1
  <2> QED BY <2>1, <2>3, <2>4
<1>5. empty \in SUBSET Nat
  BY <1>2
<1>6. Rows(b, 1) = 1..(FirstIn(empty, Len(b) + 1) - 1)
  BY DEF Rows
<1> HIDE DEF empty
<1>7. FirstIn(empty, Len(b) + 1) = n + 1
  BY <1>4, <1>5, FirstIs
<1> QED BY <1>1, <1>6, <1>7

\* The rows of a name, and the value of the first.
Hits(rs, name) == {i \in 1..Len(rs) : GetLineToStr(rs[i], 1, "=", <<>>) = name}

Found(rs, name, default) ==
    IF Hits(rs, name) = {} THEN default ELSE GetLineToStr(rs[Min(Hits(rs, name))], 2, "=", <<>>)

LEMMA ValueFound ==
    ASSUME NEW T, NEW rs, EndedRows(T, rs), NEW name, NEW default
    PROVE  GetConfValue(FlattenSeq(Ended(rs)), name, default) = Found(rs, name, default)
<1>1. PICK b : b = FlattenSeq(Ended(rs))
  OBVIOUS
<1>2. Rows(b, 1) = 1..Len(rs) /\ Len(rs) \in Nat /\ \A i \in 1..Len(rs) : Row(b, i) = rs[i]
  BY <1>1, RowsAre, RowFound, EndedType
<1>3. RowsNamed(b, 1, name) = Hits(rs, name)
  BY <1>2 DEF Hits, RowsNamed
<1>4. Hits(rs, name) # {} => Row(b, Min(Hits(rs, name))) = rs[Min(Hits(rs, name))]
  <2> SUFFICES ASSUME Hits(rs, name) # {} PROVE Min(Hits(rs, name)) \in 1..Len(rs)
    BY <1>2
  <2>1. Hits(rs, name) \in SUBSET Nat /\ Hits(rs, name) \subseteq 1..Len(rs)
    BY <1>2 DEF Hits
  <2> QED BY <2>1, MinIs
<1>5. GetConfValue(b, name, default) = ValueIn(b, Hits(rs, name), default)
  BY <1>3 DEF GetConfValue, ConfValueFrom
<1> QED BY <1>1, <1>4, <1>5 DEF ValueIn, Found

LEMMA FoundMore ==
    ASSUME NEW S, NEW rs \in Seq(S), NEW r \in S, NEW name, NEW default
    PROVE  Found(Append(rs, r), name, default) =
             Found(rs, name, IF GetLineToStr(r, 1, "=", <<>>) = name
                             THEN GetLineToStr(r, 2, "=", <<>>) ELSE default)
<1>1. PICK ts : ts = Append(rs, r)
  OBVIOUS
<1>2. Len(ts) = Len(rs) + 1 /\ Len(rs) \in Nat /\ ts[Len(rs) + 1] = r /\ \A i \in 1..Len(rs) : ts[i] = rs[i]
  BY <1>1
<1>3. \A i \in 1..Len(ts) : i \in 1..Len(rs) \/ i = Len(rs) + 1
  BY <1>2
<1>4. PICK A, B : A = Hits(rs, name) /\ B = Hits(ts, name)
  OBVIOUS
<1>5. \A i : i \in B <=> \/ i \in A
                         \/ i = Len(rs) + 1 /\ GetLineToStr(r, 1, "=", <<>>) = name
  BY <1>2, <1>3, <1>4 DEF Hits
<1>6. A \in SUBSET Nat /\ B \in SUBSET Nat /\ A \subseteq 1..Len(rs)
  BY <1>2, <1>4 DEF Hits
<1>7. CASE A # {}
  <2>1. Min(A) \in A /\ (\A i \in A : Min(A) <= i) /\ Min(B) \in B /\ \A i \in B : Min(B) <= i
    BY <1>5, <1>6, <1>7, MinIs
  <2>2. Min(A) \in 1..Len(rs) /\ Min(A) \in B /\ Min(B) <= Min(A) /\ Min(B) \in Nat
    BY <1>5, <1>6, <2>1
  <2>3. Min(B) \in A
    BY <1>2, <1>5, <2>1, <2>2
  <2>4. Min(B) = Min(A)
    <3>1. Min(A) <= Min(B)
      BY <2>1, <2>3
    <3> QED BY <2>2, <3>1
  <2>5. ts[Min(B)] = rs[Min(A)] /\ B # {}
    BY <1>2, <2>1, <2>2, <2>4
  <2> QED BY <1>1, <1>4, <1>7, <2>5 DEF Found
<1>8. CASE A = {}
  <2>1. CASE GetLineToStr(r, 1, "=", <<>>) = name
    <3>1. B # {} /\ Min(B) \in B
      <4>1. B # {}
        BY <1>5, <2>1
      <4> QED BY <1>6, <4>1, MinIs
    <3>2. Min(B) = Len(rs) + 1
      BY <1>5, <1>8, <3>1
    <3> QED BY <1>1, <1>2, <1>4, <1>8, <2>1, <3>1, <3>2 DEF Found
  <2>2. CASE GetLineToStr(r, 1, "=", <<>>) # name
    <3>1. B = {}
      BY <1>5, <1>8, <2>2
    <3> QED BY <1>1, <1>4, <1>8, <2>2, <3>1 DEF Found
  <2> QED BY <2>1, <2>2
<1> QED BY <1>7, <1>8

\* What a further line says holds only if none before it says something.
Said(line, name, default) ==
    IF Says(line, name) = {} THEN default ELSE CHOOSE v \in Says(line, name) : TRUE

LEMMA InFileMore ==
    ASSUME NEW S, NEW ls \in Seq(S), NEW l \in S, NEW name, NEW default
    PROVE  InFile(Append(ls, l), name, default) = InFile(ls, name, Said(l, name, default))
<1>1. PICK ts : ts = Append(ls, l)
  OBVIOUS
<1>2. Len(ts) = Len(ls) + 1 /\ Len(ls) \in Nat /\ ts[Len(ls) + 1] = l /\ \A i \in 1..Len(ls) : ts[i] = ls[i]
  BY <1>1
<1>3. \A i \in 1..Len(ts) : i \in 1..Len(ls) \/ i = Len(ls) + 1
  BY <1>2
<1>4. PICK A, B : A = Sayers(ls, name) /\ B = Sayers(ts, name)
  OBVIOUS
<1>5. \A i : i \in B <=> \/ i \in A
                         \/ i = Len(ls) + 1 /\ Says(l, name) # {}
  BY <1>2, <1>3, <1>4 DEF Sayers
<1>6. A \in SUBSET Nat /\ B \in SUBSET Nat /\ A \subseteq 1..Len(ls)
  BY <1>2, <1>4 DEF Sayers
<1>10. \A f, d : InFile(f, name, d) = IF Sayers(f, name) = {} THEN d
                                      ELSE CHOOSE v \in Says(f[Min(Sayers(f, name))], name) : TRUE
  BY Zenon DEF InFile, Sayers
<1>7. /\ \A d : InFile(ls, name, d) = IF A = {} THEN d ELSE CHOOSE v \in Says(ls[Min(A)], name) : TRUE
      /\ \A d : InFile(ts, name, d) = IF B = {} THEN d ELSE CHOOSE v \in Says(ts[Min(B)], name) : TRUE
  BY <1>4, <1>10, Zenon
<1>8. CASE A # {}
  <2>1. Min(A) \in A /\ (\A i \in A : Min(A) <= i) /\ Min(B) \in B /\ \A i \in B : Min(B) <= i
    BY <1>5, <1>6, <1>8, MinIs
  <2>2. Min(A) \in 1..Len(ls) /\ Min(A) \in B /\ Min(B) <= Min(A) /\ Min(B) \in Nat
    BY <1>5, <1>6, <2>1
  <2>3. Min(B) \in A
    BY <1>2, <1>5, <2>1, <2>2
  <2>4. Min(B) = Min(A)
    <3>1. Min(A) <= Min(B)
      BY <2>1, <2>3
    <3> QED BY <2>2, <3>1
  <2>5. ts[Min(B)] = ls[Min(A)] /\ B # {}
    BY <1>2, <2>1, <2>2, <2>4
  <2> QED BY <1>1, <1>7, <1>8, <2>5
<1>9. CASE A = {}
  <2>1. CASE Says(l, name) # {}
    <3>1. B # {} /\ Min(B) \in B
      <4>1. B # {}
        BY <1>5, <2>1
      <4> QED BY <1>6, <4>1, MinIs
    <3>2. Min(B) = Len(ls) + 1
      BY <1>5, <1>9, <3>1
    <3> QED BY <1>1, <1>2, <1>7, <1>9, <2>1, <3>1, <3>2 DEF Said
  <2>2. CASE Says(l, name) = {}
    <3>1. B = {}
      BY <1>5, <1>9, <2>2
    <3> QED BY <1>1, <1>7, <1>9, <2>2, <3>1 DEF Said
  <2> QED BY <2>1, <2>2
<1> QED BY <1>8, <1>9

-----------------------------------------------------------------------------
(* Files of options.                                                       *)

\* A line whose quotes are in its comment.
CodeLines(T) ==
    {l \in Seq(T) : /\ Lacks(l, Newline)
                    /\ \A i \in 1..Len(l) : l[i] = Quote => \E k \in 1..(i - 1) : l[k] = "#"}

\* A line of which nothing is kept, and one of which row r is.
Silent(l) == ConfLine(l) = <<>> /\ \A name : Says(l, name) = {}

Tells(T, l, r) ==
    /\ r \in RowTexts(T) /\ ConfLine(l) = Append(r, Newline)
    /\ \A name : Says(l, name) = IF GetLineToStr(r, 1, "=", <<>>) = <<name>>
                                 THEN {GetLineToStr(r, 2, "=", <<>>)} ELSE {}

LEMMA LineTold ==
    ASSUME NEW T, "=" \in T, Newline \in T, NEW l \in CodeLines(T)
    PROVE  /\ l \in Lines(T) /\ (Silent(l) \/ \E r : Tells(T, l, r))
           /\ \A name : \A v \in Says(l, name) : v \in Seq(T) /\ trim(v) = v
<1>. PICK eq \in T : eq = "="
  OBVIOUS
<1>1. /\ l \in Seq(T) /\ Len(l) \in Nat /\ Lacks(l, Newline)
      /\ \A i \in 1..Len(l) : l[i] = Quote => \E k \in 1..(i - 1) : l[k] = "#"
  BY DEF CodeLines
<1>2. PICK h \in Nat : FirstAt(l, 1, "#", h)
  <2>1. 1 \in 1..(Len(l) + 1)
    BY <1>1
  <2> QED BY <1>1, <2>1, FirstExists
<1>3. /\ h \in 1..(Len(l) + 1) /\ (h <= Len(l) => l[h] = "#") /\ \A i \in 1..(h - 1) : l[i] # "#"
  BY <1>2 DEF FirstAt
<1>4. PICK c : c = SubSeq(l, 1, h - 1)
  OBVIOUS
<1>5. c \in Seq(T) /\ Lacks(c, Quote) /\ Lacks(c, Newline)
  <2>1. 1 \in 1..(Len(l) + 1) /\ h - 1 \in (1 - 1)..Len(l)
    BY <1>1, <1>3
  <2>2. ASSUME NEW k \in 1..(h - 1) PROVE l[k] # Quote /\ l[k] # Newline
    <3>1. k \in 1..Len(l) /\ \A j \in 1..(k - 1) : j \in 1..(h - 1)
      BY <1>1, <1>3
    <3> QED BY <1>1, <1>3, <3>1 DEF Lacks
  <2> QED BY <1>1, <1>4, <2>1, <2>2, CutIs, CutLacks
<1>6. Bare(T, NameOf(c)) /\ Bare(T, TextOf(c))
  BY <1>5, FieldsBare
<1>7. ASSUME NEW name
      PROVE  Says(l, name) = IF NameOf(c) = <<name>> THEN {TextOf(c)} ELSE {}
  <2> DEFINE marks == {i \in 1..Len(l) : l[i] = "#"}
  <2>1. FirstIn(marks, Len(l) + 1) = h
    <3>1. CASE h <= Len(l)
      <4>1. h \in marks /\ marks \in SUBSET Nat /\ \A i \in marks : h <= i
        BY <1>1, <1>3, <3>1
      <4> HIDE DEF marks
      <4> QED BY <4>1, FirstIs
    <3>2. CASE ~(h <= Len(l))
      <4>1. h = Len(l) + 1 /\ marks = {}
        BY <1>1, <1>3, <3>2
      <4> QED BY <4>1 DEF FirstIn
    <3> QED BY <3>1, <3>2
  <2>2. SubSeq(l, 1, FirstIn(marks, Len(l) + 1) - 1) = c
    <3> HIDE DEF marks
    <3> QED BY <1>4, <2>1
  <2>3. FieldOf(c, 1, "=") = GetLineToStr(c, 1, "=", <<>>) /\ FieldOf(c, 2, "=") = GetLineToStr(c, 2, "=", <<>>)
    <3>1. eq # Quote /\ 1 \in Nat \ {0} /\ 2 \in Nat \ {0}
      BY DEF Quote
    <3>2. GetLineToStr(c, 1, eq, <<>>) = FieldOf(c, 1, eq)
      BY <1>5, <3>1, PlainFound
    <3>3. GetLineToStr(c, 2, eq, <<>>) = FieldOf(c, 2, eq)
      BY <1>5, <3>1, PlainFound
    <3> QED BY <3>2, <3>3
  <2>4. Says(l, name) = LET code == SubSeq(l, 1, FirstIn(marks, Len(l) + 1) - 1)
                        IN IF trim(FieldOf(code, 1, "=")) = <<name>>
                           THEN {trim(FieldOf(code, 2, "="))} ELSE {}
    BY Zenon DEF Says
  <2>5. Says(l, name) = IF trim(FieldOf(c, 1, "=")) = <<name>> THEN {trim(FieldOf(c, 2, "="))} ELSE {}
    <3> HIDE DEF marks
    <3> QED BY <2>2, <2>4, Zenon
  <2> QED BY <2>3, <2>5, Zenon DEF NameOf, TextOf
<1>8. \/ ConfLine(l) = <<>> /\ NameOf(c) = <<>>
      \/ ConfLine(l) = RowOf(NameOf(c), TextOf(c)) \o <<Newline>>
  BY <1>1, <1>2, <1>4, <1>5, ConfLineIs
<1>9. \A name : \A v \in Says(l, name) : v \in Seq(T) /\ trim(v) = v
  <2>1. TextOf(c) \in Seq(T) /\ trim(TextOf(c)) = TextOf(c)
    <3>1. GetLineToStr(c, 2, "=", <<>>) \in Seq(T)
      BY <1>5, SecondType
    <3> QED BY <3>1, TrimIs DEF TextOf
  <2> QED BY <1>7, <2>1
<1>10. CASE ConfLine(l) = <<>> /\ NameOf(c) = <<>>
  <2>1. Silent(l)
    <3>1. \A name : <<>> # <<name>>
      OBVIOUS
    <3> QED BY <1>7, <1>10, <3>1 DEF Silent
  <2>2. l \in Lines(T)
    BY <1>1, <1>10 DEF Lines
  <2> QED BY <1>9, <2>1, <2>2
<1>11. CASE ConfLine(l) = RowOf(NameOf(c), TextOf(c)) \o <<Newline>>
  <2>1. PICK r : r = RowOf(NameOf(c), TextOf(c))
    OBVIOUS
  <2>2. RowReads(T, r, NameOf(c), TextOf(c))
    BY <1>6, <2>1, RowFields
  <2>3. /\ r \in RowTexts(T) /\ r \in Seq(T)
        /\ GetLineToStr(r, 1, "=", <<>>) = NameOf(c) /\ GetLineToStr(r, 2, "=", <<>>) = TextOf(c)
    BY <2>2 DEF RowReads, RowTexts
  <2>4. ConfLine(l) = Append(r, Newline) /\ Append(r, Newline) \in Seq(T)
    BY <1>11, <2>1, <2>3, AppendIsConcat, AppendProperties
  <2>5. Tells(T, l, r)
    BY <1>7, <2>3, <2>4 DEF Tells
  <2>6. l \in Lines(T)
    BY <1>1, <2>4 DEF Lines
  <2> QED BY <1>9, <2>5, <2>6
<1> QED BY <1>8, <1>10, <1>11

\* The rows of a file say what its lines do.
Filed(T, ls) ==
    \E rs : /\ EndedRows(T, rs) /\ FlattenSeq(Ended(rs)) = FlattenSeq(Confs(ls))
            /\ \A name, default : Found(rs, <<name>>, default) = InFile(ls, name, default)

LEMMA EndedMore ==
    ASSUME NEW T, NEW rs, EndedRows(T, rs), NEW r \in RowTexts(T)
    PROVE  /\ EndedRows(T, Append(rs, r))
           /\ FlattenSeq(Ended(Append(rs, r))) = FlattenSeq(Ended(rs)) \o Append(r, Newline)
<1>1. PICK ts : ts = Append(rs, r)
  OBVIOUS
<1>2. rs \in Seq(RowTexts(T)) /\ Newline \in T
  BY DEF EndedRows
<1>3. /\ ts \in Seq(RowTexts(T)) /\ Len(ts) = Len(rs) + 1 /\ ts[Len(rs) + 1] = r /\ Len(rs) \in Nat
      /\ \A i \in 1..Len(rs) : ts[i] = rs[i]
  BY <1>1, <1>2, AppendProperties
<1>4. EndedRows(T, ts)
  BY <1>2, <1>3 DEF EndedRows
<1>5. PICK S : S = Seq(T)
  OBVIOUS
<1>6. Ended(rs) \in Seq(S) /\ Ended(ts) \in Seq(S)
  BY <1>4, <1>5, EndedType
<1>7. Append(r, Newline) \in S
  <2>1. r \in Seq(T)
    BY DEF RowTexts
  <2> QED BY <1>2, <1>5, <2>1, AppendProperties
<1>8. Ended(ts) = Append(Ended(rs), Append(r, Newline))
  <2>1. \A i \in 1..(Len(rs) + 1) : i \in 1..Len(rs) \/ i = Len(rs) + 1
    BY <1>3
  <2>2. Len(Ended(ts)) = Len(rs) + 1 /\ \A i \in 1..(Len(rs) + 1) : Ended(ts)[i] = Append(ts[i], Newline)
    BY <1>3 DEF Ended
  <2>3. Len(Ended(rs)) = Len(rs) /\ \A i \in 1..Len(rs) : Ended(rs)[i] = Append(rs[i], Newline)
    BY <1>3 DEF Ended
  <2>4. PICK u : u = Append(Ended(rs), Append(r, Newline))
    OBVIOUS
  <2>5. /\ u \in Seq(S) /\ Len(u) = Len(rs) + 1 /\ u[Len(rs) + 1] = Append(r, Newline)
        /\ \A i \in 1..Len(rs) : u[i] = Ended(rs)[i]
    BY <1>6, <1>7, <2>3, <2>4, AppendProperties
  <2>6. \A i \in 1..(Len(rs) + 1) : Ended(ts)[i] = u[i]
    BY <1>3, <2>1, <2>2, <2>3, <2>5
  <2>7. Ended(ts) = u
    BY <1>6, <2>2, <2>5, <2>6, SeqEqual
  <2> QED BY <2>4, <2>7
<1>9. FlattenSeq(Append(Ended(rs), Append(r, Newline))) = FlattenSeq(Ended(rs)) \o Append(r, Newline)
  BY <1>5, <1>6, <1>7, FlatAppend
<1> QED BY <1>1, <1>4, <1>8, <1>9

LEMMA FoundAfter ==
    ASSUME NEW S, NEW rs \in Seq(S), NEW r \in S, NEW name, NEW default, NEW d,
           d = IF GetLineToStr(r, 1, "=", <<>>) = name THEN GetLineToStr(r, 2, "=", <<>>) ELSE default
    PROVE  Found(Append(rs, r), name, default) = Found(rs, name, d)
BY FoundMore

LEMMA FiledMore ==
    ASSUME NEW T, "=" \in T, Newline \in T, NEW ls \in Seq(CodeLines(T)), NEW l \in CodeLines(T),
           Filed(T, ls)
    PROVE  Filed(T, Append(ls, l))
<1>1. PICK rs : /\ EndedRows(T, rs) /\ FlattenSeq(Ended(rs)) = FlattenSeq(Confs(ls))
                /\ \A name, default : Found(rs, <<name>>, default) = InFile(ls, name, default)
  BY DEF Filed
<1>2. l \in Lines(T) /\ (Silent(l) \/ \E r : Tells(T, l, r)) /\ CodeLines(T) \in SUBSET Lines(T)
  BY LineTold
<1>3. FlattenSeq(Confs(Append(ls, l))) = FlattenSeq(Confs(ls)) \o ConfLine(l)
  <2>1. Confs(Append(ls, l)) = Append(Confs(ls), ConfLine(l)) /\ Confs(ls) \in Seq(Seq(T))
    BY <1>2, EndedAppend
  <2>2. ConfLine(l) \in Seq(T)
    BY <1>2 DEF Lines
  <2> QED BY <2>1, <2>2, FlatAppend
<1>4. \A name, default : InFile(Append(ls, l), name, default) = InFile(ls, name, Said(l, name, default))
  BY InFileMore
<1>5. CASE Silent(l)
  <2>1. ConfLine(l) = <<>> /\ \A name : Says(l, name) = {}
    BY <1>5 DEF Silent
  <2>2. FlattenSeq(Confs(Append(ls, l))) = FlattenSeq(Ended(rs))
    <3>1. FlattenSeq(Ended(rs)) \in Seq(T)
      BY <1>1, EndedType
    <3> QED BY <1>1, <1>3, <2>1, <3>1, ConcatEmptySeq
  <2>3. ASSUME NEW name, NEW default
        PROVE  Found(rs, <<name>>, default) = InFile(Append(ls, l), name, default)
    <3>1. Said(l, name, default) = default
      BY <2>1 DEF Said
    <3> QED BY <1>1, <1>4, <3>1
  <2> QED BY <1>1, <2>2, <2>3 DEF Filed
<1>6. ASSUME NEW r, Tells(T, l, r) PROVE Filed(T, Append(ls, l))
  <2>1. PICK ts : ts = Append(rs, r)
    OBVIOUS
  <2>2. /\ r \in RowTexts(T) /\ ConfLine(l) = Append(r, Newline)
        /\ \A name : Says(l, name) = IF GetLineToStr(r, 1, "=", <<>>) = <<name>>
                                     THEN {GetLineToStr(r, 2, "=", <<>>)} ELSE {}
    BY <1>6 DEF Tells
  <2>3. EndedRows(T, ts) /\ FlattenSeq(Ended(ts)) = FlattenSeq(Ended(rs)) \o Append(r, Newline)
    BY <1>1, <2>1, <2>2, EndedMore
  <2>4. FlattenSeq(Ended(ts)) = FlattenSeq(Confs(Append(ls, l)))
    BY <1>1, <1>3, <2>2, <2>3
  <2>5. ASSUME NEW name, NEW default
        PROVE  Found(ts, <<name>>, default) = InFile(Append(ls, l), name, default)
    <3>1. PICK d : d = IF GetLineToStr(r, 1, "=", <<>>) = <<name>>
                       THEN GetLineToStr(r, 2, "=", <<>>) ELSE default
      OBVIOUS
    <3>2. Found(ts, <<name>>, default) = Found(rs, <<name>>, d)
      <4>1. rs \in Seq(RowTexts(T))
        BY <1>1 DEF EndedRows
      <4>2. r \in RowTexts(T)
        BY <2>2
      <4>3. PICK n : n = <<name>>
        OBVIOUS
      <4>4. d = IF GetLineToStr(r, 1, "=", <<>>) = n THEN GetLineToStr(r, 2, "=", <<>>) ELSE default
        BY <3>1, <4>3
      <4>5. Found(Append(rs, r), n, default) = Found(rs, n, d)
        BY <4>1, <4>2, <4>4, FoundAfter
      <4> QED BY <2>1, <4>3, <4>5
    <3>3. Said(l, name, default) = d
      <4>1. PICK v, A : v = GetLineToStr(r, 2, "=", <<>>) /\ A = Says(l, name)
        OBVIOUS
      <4>2. Said(l, name, default) = IF A = {} THEN default ELSE CHOOSE x \in A : TRUE
        <5>1. Said(l, name, default) = IF Says(l, name) = {} THEN default ELSE CHOOSE x \in Says(l, name) : TRUE
          BY Zenon DEF Said
        <5> QED BY <4>1, <5>1, Zenon
      <4>3. CASE GetLineToStr(r, 1, "=", <<>>) = <<name>>
        <5>1. A = {v} /\ d = v
          BY <2>2, <3>1, <4>1, <4>3
        <5>2. A # {} /\ (CHOOSE x \in A : TRUE) \in A
          BY <5>1
        <5> QED BY <4>2, <5>1, <5>2
      <4>4. CASE GetLineToStr(r, 1, "=", <<>>) # <<name>>
        <5>1. A = {} /\ d = default
          BY <2>2, <3>1, <4>1, <4>4
        <5> QED BY <4>2, <5>1
      <4> QED BY <4>3, <4>4
    <3> QED BY <1>1, <1>4, <3>2, <3>3
  <2> QED BY <2>3, <2>4, <2>5 DEF Filed
<1> QED BY <1>2, <1>5, <1>6

LEMMA AllFiled ==
    ASSUME NEW T, "=" \in T, Newline \in T, NEW ls \in Seq(CodeLines(T))
    PROVE  Filed(T, ls)
<1> DEFINE Bad == {n \in Nat : \E vs \in Seq(CodeLines(T)) : Len(vs) = n /\ ~Filed(T, vs)}
<1> SUFFICES ASSUME ~Filed(T, ls) PROVE FALSE
  OBVIOUS
<1>1. Len(ls) \in Bad
  OBVIOUS
<1>2. PICK n \in Bad : \A y \in Bad : n <= y
  <2>1. Bad \in SUBSET Nat
    OBVIOUS
  <2> HIDE DEF Bad
  <2> QED BY <1>1, <2>1, LeastNat
<1>3. PICK vs \in Seq(CodeLines(T)) : n \in Nat /\ Len(vs) = n /\ ~Filed(T, vs)
  OBVIOUS
<1>4. CASE vs = <<>>
  <2>1. EndedRows(T, vs)
    BY <1>4 DEF EndedRows
  <2>2. Ended(vs) = Confs(vs)
    BY <1>4 DEF Ended, Confs
  <2>3. ASSUME NEW name, NEW default
        PROVE  Found(vs, <<name>>, default) = InFile(vs, name, default)
    <3>1. Hits(vs, <<name>>) = {} /\ Sayers(vs, name) = {}
      BY <1>4 DEF Hits, Sayers
    <3>2. Found(vs, <<name>>, default) = default
      BY <3>1 DEF Found
    <3>3. InFile(vs, name, default) = default
      BY <3>1, Zenon DEF InFile
    <3> QED BY <3>2, <3>3
  <2>4. Filed(T, vs)
    BY <2>1, <2>2, <2>3 DEF Filed
  <2> QED BY <1>3, <2>4
<1>5. CASE vs # <<>>
  <2>1. PICK xs \in Seq(CodeLines(T)), l \in CodeLines(T) : vs = Append(xs, l)
    BY <1>5, SequenceEmptyOrAppend
  <2>2. Len(xs) \in Nat /\ ~(n <= Len(xs))
    BY <1>3, <2>1
  <2>3. Filed(T, xs)
    <3>1. Len(xs) \notin Bad
      <4> HIDE DEF Bad
      <4> QED BY <1>2, <2>2
    <3> QED BY <2>2, <3>1
  <2> QED BY <1>3, <2>1, <2>3, FiledMore
<1> QED BY <1>4, <1>5

\* The lines of a file that are read.
Kept(file, ended) == IF ended \/ file = <<>> THEN file ELSE Front(file)

LEMMA FileIsKept ==
    ASSUME NEW T, "=" \in T, Newline \in T, NEW file \in Seq(CodeLines(T)), NEW ended \in BOOLEAN
    PROVE  /\ Kept(file, ended) \in Seq(CodeLines(T))
           /\ ConfToBufor(FileText(file, ended)) = FlattenSeq(Confs(Kept(file, ended)))
<1>1. PICK W : W = CodeLines(T)
  OBVIOUS
<1>2. W \in SUBSET Lines(T) /\ file \in Seq(W)
  BY <1>1, LineTold
<1>3. PICK text : text = FlattenSeq(Ended(file))
  OBVIOUS
<1>4. FileText(file, ended) = IF ended \/ text = <<>> THEN text ELSE Front(text)
  BY <1>3, Zenon DEF FileText, Ended
<1>5. CASE file = <<>>
  <2>1. <<>> \in W
    BY <1>1 DEF CodeLines, Lacks
  <2>2. ConfToBufor(text) = FlattenSeq(Confs(file))
    BY <1>2, <1>3, <2>1, FileReads
  <2>3. text = <<>>
    <3>1. Ended(file) \in Seq({}) /\ Ended(file) = <<>>
      BY <1>5 DEF Ended
    <3> QED BY <1>3, <3>1, FlatIs
  <2>4. Kept(file, ended) = file /\ FileText(file, ended) = text
    BY <1>4, <1>5, <2>3 DEF Kept
  <2> QED BY <1>1, <1>2, <2>2, <2>4
<1>6. CASE file # <<>>
  <2>1. PICK vs \in Seq(W), l \in W : file = Append(vs, l)
    BY <1>2, <1>6, SequenceEmptyOrAppend
  <2>2. l \in Seq(T)
    BY <1>1 DEF CodeLines
  <2>3. PICK F, e : F = FlattenSeq(Ended(vs)) /\ e = Append(l, Newline)
    OBVIOUS
  <2>4. Ended(file) = Append(Ended(vs), e) /\ Ended(vs) \in Seq(Seq(T))
    BY <1>2, <2>1, <2>3, EndedAppend
  <2>5. e \in Seq(T) /\ Len(e) = Len(l) + 1 /\ Len(l) \in Nat /\ \A i \in 1..Len(l) : e[i] = l[i]
    BY <2>2, <2>3, AppendProperties
  <2>6. text = F \o e /\ F \in Seq(T)
    BY <1>3, <2>3, <2>4, <2>5, FlatAppend, FlatType
  <2>7. CASE ended
    <3>1. ConfToBufor(text) = FlattenSeq(Confs(file))
      BY <1>2, <1>3, <2>1, FileReads
    <3>2. Kept(file, ended) = file /\ FileText(file, ended) = text
      BY <1>4, <2>7 DEF Kept
    <3> QED BY <1>1, <1>2, <3>1, <3>2
  <2>8. CASE ~ended
    <3>1. Front(text) = F \o l /\ text # <<>>
      <4>1. /\ text \in Seq(T) /\ Len(text) = Len(F) + Len(e) /\ Len(F) \in Nat
            /\ \A i \in 1..(Len(F) + Len(e)) : text[i] = IF i <= Len(F) THEN F[i] ELSE e[i - Len(F)]
        <5>1. /\ F \o e \in Seq(T) /\ Len(F \o e) = Len(F) + Len(e)
              /\ \A i \in 1..(Len(F) + Len(e)) : (F \o e)[i] = IF i <= Len(F) THEN F[i] ELSE e[i - Len(F)]
          <6>1. F \in Seq(T) /\ e \in Seq(T)
            BY <2>5, <2>6
          <6> QED BY <6>1, ConcatProperties
        <5>2. text = F \o e /\ Len(F) \in Nat
          BY <2>6
        <5> QED BY <5>1, <5>2
      <4>2. PICK u : u = F \o l
        OBVIOUS
      <4>3. /\ u \in Seq(T) /\ Len(u) = Len(F) + Len(l)
            /\ \A i \in 1..(Len(F) + Len(l)) : u[i] = IF i <= Len(F) THEN F[i] ELSE l[i - Len(F)]
        BY <2>2, <2>6, <4>2, ConcatProperties
      <4>4. PICK n \in Nat : n = Len(F) + Len(l)
        BY <2>5, <4>1
      <4>5. Len(text) = n + 1 /\ Len(u) = n /\ text # <<>>
        BY <2>5, <4>1, <4>3, <4>4
      <4>6. ASSUME NEW i \in 1..n PROVE text[i] = u[i]
        <5>1. i \in 1..(Len(F) + Len(e)) /\ i \in 1..(Len(F) + Len(l))
          BY <2>5, <4>1, <4>4
        <5>2. i > Len(F) => i - Len(F) \in 1..Len(l)
          BY <2>5, <4>1, <4>4
        <5>3. PICK a \in Nat : a = Len(F)
          BY <4>1
        <5>4. /\ text[i] = IF i <= a THEN F[i] ELSE e[i - a]
              /\ u[i] = IF i <= a THEN F[i] ELSE l[i - a]
          BY <4>1, <4>3, <5>1, <5>3
        <5>5. CASE i <= a
          BY <5>4, <5>5
        <5>6. CASE ~(i <= a)
          <6>1. PICK k : k = i - a
            OBVIOUS
          <6>2. k \in 1..Len(l)
            <7>1. i > a
              BY <4>4, <5>6
            <7> QED BY <5>2, <5>3, <6>1, <7>1
          <6>3. e[k] = l[k]
            BY <2>5, <6>2
          <6> QED BY <5>4, <5>6, <6>1, <6>3
        <5> QED BY <5>5, <5>6
      <4>7. SubSeq(text, 1, n) = u
        <5>1. 1 \in 1..(Len(text) + 1) /\ n \in (1 - 1)..Len(text)
          BY <4>5
        <5>2. PICK c : c = SubSeq(text, 1, n)
          OBVIOUS
        <5>3. c \in Seq(T) /\ Len(c) = n - 1 + 1 /\ \A k \in 1..(n - 1 + 1) : c[k] = text[1 + k - 1]
          BY <4>1, <5>1, <5>2, CutIs
        <5>4. n - 1 + 1 = n /\ \A k \in 1..n : 1 + k - 1 = k
          OBVIOUS
        <5>5. Len(c) = Len(u) /\ \A k \in 1..Len(c) : c[k] = u[k]
          BY <4>5, <4>6, <5>3, <5>4
        <5> QED BY <4>3, <5>2, <5>3, <5>5, SeqEqual
      <4>8. Front(text) = SubSeq(text, 1, Len(text) - 1) /\ Len(text) - 1 = n
        BY <4>5 DEF Front
      <4> QED BY <4>2, <4>5, <4>7, <4>8
    <3>2. Front(file) = vs
      <4>1. Len(file) = Len(vs) + 1 /\ Len(vs) \in Nat /\ \A i \in 1..Len(vs) : file[i] = vs[i]
        BY <2>1, AppendProperties
      <4>2. SubSeq(file, 1, Len(vs)) = vs
        <5>1. 1 \in 1..(Len(file) + 1) /\ Len(vs) \in (1 - 1)..Len(file)
          BY <4>1
        <5>2. PICK c, n : c = SubSeq(file, 1, Len(vs)) /\ n = Len(vs)
          OBVIOUS
        <5>3. c \in Seq(W) /\ Len(c) = n - 1 + 1 /\ \A k \in 1..(n - 1 + 1) : c[k] = file[1 + k - 1]
          BY <1>2, <5>1, <5>2, CutIs
        <5>4. n - 1 + 1 = n /\ \A k \in 1..n : 1 + k - 1 = k
          BY <4>1, <5>2
        <5>5. Len(c) = Len(vs) /\ \A k \in 1..Len(c) : c[k] = vs[k]
          BY <4>1, <5>2, <5>3, <5>4
        <5> QED BY <5>2, <5>3, <5>5, SeqEqual
      <4>3. Front(file) = SubSeq(file, 1, Len(file) - 1) /\ Len(file) - 1 = Len(vs)
        BY <4>1 DEF Front
      <4> QED BY <4>2, <4>3
    <3>3. Kept(file, ended) = vs /\ FileText(file, ended) = F \o l
      BY <1>4, <1>6, <2>8, <3>1, <3>2 DEF Kept
    <3>4. ConfToBufor(F \o l) = FlattenSeq(Confs(vs))
      BY <1>2, <2>3, FileReads
    <3> QED BY <1>1, <3>3, <3>4
  <2> QED BY <2>7, <2>8
<1> QED BY <1>5, <1>6

\* What a program finds for a name is what the file says.
LEMMA ValueInFile ==
    ASSUME NEW T, "=" \in T, Newline \in T, NEW file \in Seq(CodeLines(T)), NEW ended \in BOOLEAN,
           NEW name, NEW default
    PROVE  Value(ConfToBufor(FileText(file, ended)), name, default) =
             InFile(Kept(file, ended), name, default)
<1>1. PICK ls : ls = Kept(file, ended)
  OBVIOUS
<1>2. ls \in Seq(CodeLines(T)) /\ ConfToBufor(FileText(file, ended)) = FlattenSeq(Confs(ls))
  BY <1>1, FileIsKept
<1>3. Filed(T, ls)
  BY <1>2, AllFiled
<1>4. PICK rs : /\ EndedRows(T, rs) /\ FlattenSeq(Ended(rs)) = FlattenSeq(Confs(ls))
                /\ \A nm, d : Found(rs, <<nm>>, d) = InFile(ls, nm, d)
  BY <1>3 DEF Filed
<1>5. GetConfValue(FlattenSeq(Ended(rs)), <<name>>, default) = Found(rs, <<name>>, default)
  BY <1>4, ValueFound
<1> QED BY <1>1, <1>2, <1>4, <1>5 DEF Value

\* Every value is the default or trimmed.
LEMMA InFileTrimmed ==
    ASSUME NEW T, "=" \in T, Newline \in T, NEW ls \in Seq(CodeLines(T)), NEW name, NEW default
    PROVE  \/ InFile(ls, name, default) = default
           \/ /\ InFile(ls, name, default) \in Seq(T)
              /\ trim(InFile(ls, name, default)) = InFile(ls, name, default)
<1>1. PICK A : A = Sayers(ls, name)
  OBVIOUS
<1>4. \A f, d : InFile(f, name, d) = IF Sayers(f, name) = {} THEN d
                                     ELSE CHOOSE v \in Says(f[Min(Sayers(f, name))], name) : TRUE
  BY Zenon DEF InFile, Sayers
<1>2. InFile(ls, name, default) = IF A = {} THEN default
                                  ELSE CHOOSE v \in Says(ls[Min(A)], name) : TRUE
  BY <1>1, <1>4, Zenon
<1>3. CASE A # {}
  <2>1. A \in SUBSET Nat /\ \A i \in A : i \in 1..Len(ls) /\ Says(ls[i], name) # {}
    BY <1>1 DEF Sayers
  <2>2. PICK l : l = ls[Min(A)]
    OBVIOUS
  <2>3. l \in CodeLines(T) /\ Says(l, name) # {}
    <3>1. Min(A) \in A
      BY <1>3, <2>1, MinIs
    <3>2. Min(A) \in 1..Len(ls) /\ \A i \in 1..Len(ls) : ls[i] \in CodeLines(T)
      BY <2>1, <3>1, ElementOfSeq
    <3> QED BY <2>1, <2>2, <3>1, <3>2
  <2>4. (CHOOSE v \in Says(l, name) : TRUE) \in Says(l, name)
    BY <2>3
  <2>5. \A v \in Says(l, name) : v \in Seq(T) /\ trim(v) = v
    BY <2>3, LineTold
  <2> QED BY <1>2, <1>3, <2>2, <2>4, <2>5
<1> QED BY <1>2, <1>3

\* What the files of the assumption are made of.
Chars == STRING \cup {"=", Newline}

LEMMA FilesRead ==
    ASSUME NEW file \in Files
    PROVE  file \in Seq(CodeLines(Chars)) /\ "=" \in Chars /\ Newline \in Chars
<1>1. STRING \in SUBSET Chars /\ "=" \in Chars /\ Newline \in Chars
  BY DEF Chars
<1>2. ASSUME NEW line \in ConfigLine PROVE line \in CodeLines(Chars)
  <2>1. /\ line \in Seq(STRING) /\ Newline \notin Range(line)
        /\ \A i \in 1..Len(line) : line[i] = Quote => \E k \in 1..(i - 1) : line[k] = "#"
    BY DEF ConfigLine
  <2>2. line \in Seq(Chars)
    BY <1>1, <2>1, SeqMonotonic
  <2>3. Lacks(line, Newline)
    <3>1. DOMAIN line = 1..Len(line)
      BY <2>1
    <3> QED BY <2>1, <3>1 DEF Lacks, Range
  <2> QED BY <2>1, <2>2, <2>3 DEF CodeLines
<1>3. file \in Seq(ConfigLine) /\ ConfigLine \in SUBSET CodeLines(Chars)
  BY <1>2, FilesAssumption
<1> QED BY <1>1, <1>3, SeqMonotonic

\* What main of the server has read is what the text of its file gives.
ServerTaken ==
    task.kind = "server" =>
      /\ task \in ServerTask
      /\ result # None => result.options = ServerOptions(FileText(task.file, task.ended))

LEMMA ServerInit == Init => ServerTaken
BY DEF Init, ServerTaken, FieldTask, ServerTask, CommandTask, KeyTask, NumberTask

LEMMA ServerStep == ServerTaken /\ [Next]_tvars => ServerTaken'
<1> SUFFICES ASSUME ServerTaken, [Next]_tvars PROVE ServerTaken'
  OBVIOUS
<1>1. CASE UNCHANGED tvars
  BY <1>1 DEF ServerTaken, tvars
<1>2. CASE ReadOptions
  BY <1>2 DEF ReadOptions, Done, ServerTaken
<1>3. CASE RunCommand \/ DefaultWritten \/ TakeKeys \/ ConvertNumber \/ SplitField
  BY <1>3 DEF RunCommand, DefaultWritten, TakeKeys, ConvertNumber, SplitField, Done, ServerTaken
<1> QED BY <1>1, <1>2, <1>3 DEF Next

LEMMA ServerMeans == ServerTaken => OptionsAsWritten
<1> SUFFICES ASSUME ServerTaken, task.kind = "server", result # None PROVE OptionsAsWritten
  BY DEF OptionsAsWritten
<1>1. PICK file, ended, read, bufor :
        /\ file = task.file /\ ended = task.ended /\ read = Kept(file, ended)
        /\ bufor = ConfToBufor(FileText(file, ended))
  OBVIOUS
<1>2. file \in Files /\ ended \in BOOLEAN /\ result.options = ServerOptions(FileText(file, ended))
  <2>1. task \in ServerTask /\ result.options = ServerOptions(FileText(task.file, task.ended))
    BY DEF ServerTaken
  <2> QED BY <1>1, <2>1 DEF ServerTask
<1>3. ASSUME NEW name, NEW default
      PROVE  Value(bufor, name, default) = InFile(read, name, default)
  <2>1. file \in Seq(CodeLines(Chars)) /\ "=" \in Chars /\ Newline \in Chars
    BY <1>2, FilesRead
  <2> QED BY <1>1, <1>2, <2>1, ValueInFile
<1>4. result.options = OptionsIn(bufor)
  BY <1>1, <1>2 DEF ServerOptions
<1>5. read = IF task.ended \/ task.file = <<>> THEN task.file ELSE Front(task.file)
  BY <1>1 DEF Kept
<1> DEFINE On(name) == atoi(InFile(read, name, <<"0">>)) # 0
           o == result.options
<1>6. /\ o.port = atoi(InFile(read, "PORT", <<"2122">>))
      /\ o.reverse = On("REVERSE") /\ o.auto = On("AUTO_ON_OFF")
      /\ o.kbd0 = (On("SCAN_KEYBOARD") /\ InFile(read, "PATH_DEV_KEYBOARD_0", <<>>) # <<>>)
      /\ o.kbd1 = (On("SCAN_KEYBOARD") /\ InFile(read, "PATH_DEV_KEYBOARD_1", <<>>) # <<>>)
  BY <1>3, <1>4 DEF OptionsIn, Number
<1> QED BY <1>5, <1>6, Zenon DEF OptionsAsWritten

\* The comments of gpio.server hold for every configuration file, however long,
\* whose values are not in quotes: what lazc.h makes of the text between ParseStrToConf
\* and GetConfValue is the first line of a name, trimmed, or the default.
THEOREM OptionsAreAsWritten == Spec => []OptionsAsWritten
BY ServerInit, ServerStep, ServerMeans, PTL DEF Spec

\* What main of the client has done is what its file and the command give; it
\* has died only if the file does not name AUTO_ON_OFF.
SentTaken ==
    task.kind = "command" =>
      /\ task \in CommandTask
      /\ result # None =>
           \/ result = Unsent(TRUE) /\ IsDefault(ClientBufor, <<"AUTO_ON_OFF">>)
           \/ result = Outcome(task.line = 1 /\ SkipsWith(ClientBufor, task.verb),
                               RequestFor(upcase(task.verb), task.line), task.rest)

LEMMA SentInit == Init => SentTaken
BY DEF Init, SentTaken, FieldTask, ServerTask, CommandTask, KeyTask, NumberTask

LEMMA SentStep == SentTaken /\ [Next]_tvars => SentTaken'
<1> SUFFICES ASSUME SentTaken, [Next]_tvars PROVE SentTaken'
  OBVIOUS
<1>1. CASE UNCHANGED tvars
  BY <1>1 DEF SentTaken, tvars, ClientBufor
<1>2. CASE RunCommand
  BY <1>2 DEF RunCommand, Done, SentTaken, ClientBufor
<1>4. CASE DefaultWritten
  BY <1>4 DEF DefaultWritten, Done, SentTaken, ClientBufor
<1>3. CASE ReadOptions \/ TakeKeys \/ ConvertNumber \/ SplitField
  BY <1>3 DEF ReadOptions, TakeKeys, ConvertNumber, SplitField, Done, SentTaken, ClientBufor
<1> QED BY <1>1, <1>2, <1>3, <1>4 DEF Next

\* A letter in its two sizes is what downcase makes that letter of.
LEMMA Lowered ==
    ASSUME NEW c
    PROVE  LET d == IF c \in DOMAIN SmallLetter THEN SmallLetter[c] ELSE c
           IN /\ d = "o" <=> c \in {"o", "O"}
              /\ d = "n" <=> c \in {"n", "N"}
              /\ d = "y" <=> c \in {"y", "Y"}
              /\ d = "e" <=> c \in {"e", "E"}
              /\ d = "s" <=> c \in {"s", "S"}
              /\ d = "1" <=> c = "1"
<1>1. /\ DOMAIN SmallLetter = {"N", "O", "Y", "E", "S"}
      /\ SmallLetter["N"] = "n" /\ SmallLetter["O"] = "o" /\ SmallLetter["Y"] = "y"
      /\ SmallLetter["E"] = "e" /\ SmallLetter["S"] = "s"
  BY DEF SmallLetter
<1>2. CASE c \in {"N", "O", "Y", "E", "S"}
  BY <1>1, <1>2
<1>3. CASE c \notin {"N", "O", "Y", "E", "S"}
  BY <1>1, <1>3
<1> QED BY <1>2, <1>3

\* downcase makes a word that strtobool knows of the words that say yes, and of
\* no other.
LEMMA YesIs ==
    ASSUME NEW T, NEW s \in Seq(T)
    PROVE  downcase(s) \in {<<"o", "n">>, <<"y", "e", "s">>, <<"1">>} <=> s \in YesWords
<1> DEFINE D(c) == IF c \in DOMAIN SmallLetter THEN SmallLetter[c] ELSE c
           d == [i \in 1..Len(s) |-> D(s[i])]
<1>1. downcase(s) = d
  BY DEF downcase
<1>2. \A c : /\ D(c) = "o" <=> c \in {"o", "O"}
             /\ D(c) = "n" <=> c \in {"n", "N"}
             /\ D(c) = "y" <=> c \in {"y", "Y"}
             /\ D(c) = "e" <=> c \in {"e", "E"}
             /\ D(c) = "s" <=> c \in {"s", "S"}
             /\ D(c) = "1" <=> c = "1"
  BY Lowered
<1>3. Len(s) \in Nat /\ DOMAIN s = 1..Len(s)
  OBVIOUS
<1>4. \A i \in 1..Len(s) : d[i] = D(s[i])
  OBVIOUS
<1> HIDE DEF D
<1>5. d = <<"o", "n">> <=> Len(s) = 2 /\ s[1] \in {"o", "O"} /\ s[2] \in {"n", "N"}
  <2>1. d = <<"o", "n">> <=> Len(s) = 2 /\ D(s[1]) = "o" /\ D(s[2]) = "n"
    BY <1>3
  <2> QED BY <1>2, <2>1
<1>6. d = <<"y", "e", "s">> <=>
        Len(s) = 3 /\ s[1] \in {"y", "Y"} /\ s[2] \in {"e", "E"} /\ s[3] \in {"s", "S"}
  <2>1. d = <<"y", "e", "s">> <=> Len(s) = 3 /\ D(s[1]) = "y" /\ D(s[2]) = "e" /\ D(s[3]) = "s"
    BY <1>3
  <2> QED BY <1>2, <2>1
<1>7. d = <<"1">> <=> Len(s) = 1 /\ s[1] = "1"
  <2>1. d = <<"1">> <=> Len(s) = 1 /\ D(s[1]) = "1"
    BY <1>3
  <2> QED BY <1>2, <2>1
<1> QED BY <1>1, <1>5, <1>6, <1>7 DEF YesWords

LEMMA YesTrimmed == trim(<<"y", "e", "s">>) = <<"y", "e", "s">>
<1>1. PICK v : v = <<"y", "e", "s">>
  OBVIOUS
<1>2. /\ Len(v) = 3 /\ v \in Seq({"y", "e", "s"}) /\ v[1] = "y" /\ v[2] = "e" /\ v[3] = "s"
      /\ "y" # Space /\ "e" # Space /\ "s" # Space
  BY <1>1 DEF Space
<1>3. {i \in 1..Len(v) : v[i] # Space} = {1, 2, 3}
  BY <1>2
<1>4. Min({1, 2, 3}) = 1 /\ Max({1, 2, 3}) = 3
  <2>1. {1, 2, 3} \in SUBSET Nat /\ {1, 2, 3} # {} /\ {1, 2, 3} \in SUBSET (0..3)
    OBVIOUS
  <2>2. Min({1, 2, 3}) \in {1, 2, 3} /\ \A y \in {1, 2, 3} : Min({1, 2, 3}) <= y
    BY <2>1, MinIs
  <2>3. Max({1, 2, 3}) \in {1, 2, 3} /\ \A y \in {1, 2, 3} : Max({1, 2, 3}) >= y
    BY <2>1, MaxIs
  <2> QED BY <2>2, <2>3
<1>5. SubSeq(v, 1, 3) = v
  BY <1>2, SubSeqFull
<1> QED BY <1>1, <1>3, <1>4, <1>5 DEF trim

LEMMA SentMeans == SentTaken => AutoAsWritten
<1> SUFFICES ASSUME SentTaken, task.kind = "command", result # None PROVE AutoAsWritten
  BY DEF AutoAsWritten
<1>1. PICK file, verb, bufor : file = task.file /\ verb = task.verb /\ bufor = ClientBufor
  OBVIOUS
<1>2. /\ task \in CommandTask /\ file \in Files
      /\ \/ result = Unsent(TRUE) /\ IsDefault(bufor, <<"AUTO_ON_OFF">>)
         \/ result = Outcome(task.line = 1 /\ SkipsWith(bufor, verb),
                             RequestFor(upcase(task.verb), task.line), task.rest)
  BY <1>1 DEF SentTaken, CommandTask
<1>3. file \in Seq(CodeLines(Chars)) /\ "=" \in Chars /\ Newline \in Chars
  BY <1>2, FilesRead
<1>4. ASSUME NEW name, NEW default
      PROVE  Value(bufor, name, default) = InFile(file, name, default)
  <2>1. Kept(file, TRUE) = file /\ TRUE \in BOOLEAN
    BY DEF Kept
  <2>2. Value(ConfToBufor(FileText(file, TRUE)), name, default) = InFile(Kept(file, TRUE), name, default)
    BY <1>3, <2>1, ValueInFile
  <2> QED BY <1>1, <2>1, <2>2 DEF ClientBufor
<1>5. IsDefault(bufor, <<"AUTO_ON_OFF">>) => Sayers(file, "AUTO_ON_OFF") = {}
  <2> SUFFICES ASSUME IsDefault(bufor, <<"AUTO_ON_OFF">>), Sayers(file, "AUTO_ON_OFF") # {}
               PROVE  FALSE
    OBVIOUS
  <2>1. \A d : Value(bufor, "AUTO_ON_OFF", d) = d
    BY DEF Value, GetConfValue, ConfValueFrom, IsDefault, ValueIn
  <2>2. InFile(file, "AUTO_ON_OFF", 0) = 0 /\ InFile(file, "AUTO_ON_OFF", 1) = 1
    BY <1>4, <2>1
  <2>3. PICK v : v = CHOOSE x \in Says(file[Min(Sayers(file, "AUTO_ON_OFF"))], "AUTO_ON_OFF") : TRUE
    OBVIOUS
  <2>4. \A d : InFile(file, "AUTO_ON_OFF", d) = v
    BY <2>3, Zenon DEF InFile
  <2> QED BY <2>2, <2>4
<1>6. CASE result = Unsent(TRUE) /\ IsDefault(bufor, <<"AUTO_ON_OFF">>)
  <2>1. result.died = TRUE /\ result.sent = FALSE
    BY <1>6 DEF Unsent
  <2> QED BY <1>1, <1>5, <1>6, <2>1 DEF AutoAsWritten
<1>7. CASE result = Outcome(task.line = 1 /\ SkipsWith(bufor, verb),
                            RequestFor(upcase(task.verb), task.line), task.rest)
  <2>1. ~result.died /\ (result.sent <=> ~(task.line = 1 /\ SkipsWith(bufor, verb)))
    <3>. PICK skips : skips = (task.line = 1 /\ SkipsWith(bufor, verb))
      OBVIOUS
    <3>1. CASE skips
      <4>1. result = Unsent(FALSE)
        BY <1>7, <3>1 DEF Outcome
      <4>2. result.died = FALSE /\ result.sent = FALSE
        BY <4>1 DEF Unsent
      <4> QED BY <3>1, <4>2
    <3>2. CASE ~skips
      <4>1. result.died = FALSE /\ result.sent = TRUE
        BY <1>7, <3>2 DEF Outcome
      <4> QED BY <3>2, <4>1
    <3> QED BY <3>1, <3>2
  <2>2. PICK auto, when : /\ auto = InFile(file, "AUTO_ON_OFF", <<"y", "e", "s">>)
                          /\ when = atoi(InFile(file, "START_OR_STOP", <<"0">>))
    OBVIOUS
  <2>3. strtobool(auto) = 0 <=> auto \notin YesWords
    <3>. PICK yes : yes = <<"y", "e", "s">>
      OBVIOUS
    <3> DEFINE T == Chars \cup {"y", "e", "s"}
    <3>1. Chars \in SUBSET T /\ yes \in Seq(T)
      OBVIOUS
    <3>2. \/ InFile(file, "AUTO_ON_OFF", yes) = yes
          \/ /\ InFile(file, "AUTO_ON_OFF", yes) \in Seq(Chars)
             /\ trim(InFile(file, "AUTO_ON_OFF", yes)) = InFile(file, "AUTO_ON_OFF", yes)
      BY <1>3, InFileTrimmed
    <3> HIDE DEF T
    <3>3. auto \in Seq(T) /\ trim(auto) = auto
      BY <2>2, <3>1, <3>2, YesTrimmed, SeqMonotonic
    <3>4. downcase(auto) \in {<<"o", "n">>, <<"y", "e", "s">>, <<"1">>} <=> auto \in YesWords
      BY <3>3, YesIs
    <3> QED BY <3>3, <3>4 DEF strtobool
  <2>4. ASSUME task.line = 1 PROVE result.sent <=> ~Skips(strtobool(auto), when, verb)
    BY <1>4, <2>1, <2>2, <2>4 DEF SkipsWith, Number
  <2>5. ASSUME task.line = 1
        PROVE  /\ verb = "AUTO-ON" => (result.sent <=> auto \in YesWords /\ when # 2)
               /\ verb = "AUTO-OFF" => (result.sent <=> auto \in YesWords /\ when # 1)
               /\ verb \in {"ON", "OFF", "STATUS", "on"} => result.sent
    <3>1. CASE verb = "AUTO-ON"
      BY <2>3, <2>4, <2>5, <3>1 DEF Skips, Skipping
    <3>2. CASE verb = "AUTO-OFF"
      BY <2>3, <2>4, <2>5, <3>2 DEF Skips, Skipping
    <3>3. CASE verb \notin {"AUTO-ON", "AUTO-OFF"}
      BY <2>4, <2>5, <3>3 DEF Skips, Skipping
    <3> QED BY <3>1, <3>2, <3>3
  <2> QED BY <1>1, <2>1, <2>2, <2>5, Zenon DEF AutoAsWritten
<1> QED BY <1>2, <1>6, <1>7

\* The comments of gpio.client hold for every configuration file, however long,
\* whose values are not in quotes, in large and in small letters: client.c holds
\* back a command of systemd that AUTO_ON_OFF or START_OR_STOP excludes, and no
\* other; and it may die in strtobool only if no line names AUTO_ON_OFF.
THEOREM AutoIsAsWritten == Spec => []AutoAsWritten
BY SentInit, SentStep, SentMeans, PTL DEF Spec
=============================================================================
