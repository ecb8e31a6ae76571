------------------------------ MODULE LazcProofs ------------------------------
(***************************************************************************)
(* The string library, for every text and number: which fields             *)
(* GetLineToStr finds in a line without quotes, that a number is the value *)
(* of its digits and how many bytes it takes, what StringReplace leaves of *)
(* a text joined of parts, and what ConfToBufor keeps of each line.        *)
(***************************************************************************)
EXTENDS Lazc, FiniteSetTheorems, SequenceTheorems, WellFoundedInduction, TLAPS

-----------------------------------------------------------------------------
(* The first position of a set.                                            *)

LEMMA LeastNat ==
    ASSUME NEW T \in SUBSET Nat, T # {}
    PROVE  \E x \in T : \A y \in T : x <= y
<1> DEFINE R == {ss \in Nat \X Nat : ss[1] < ss[2]}
<1>1. OpToRel(<, Nat) = R
  BY DEF OpToRel
<1>2. IsWellFoundedOn(R, Nat)
  BY NatLessThanWellFounded, <1>1
<1>3. \A x, y \in Nat : <<y, x>> \in R <=> y < x
  OBVIOUS
<1> HIDE DEF R
<1>4. PICK x \in T : \A y \in T : ~ (<<y, x>> \in R)
  BY <1>2, WFMin
<1>5. ASSUME NEW y \in T PROVE x <= y
  <2>1. x \in Nat /\ y \in Nat /\ ~(y < x)
    BY <1>3, <1>4, Zenon
  <2> QED BY <2>1
<1> QED BY <1>5

LEMMA MinIs ==
    ASSUME NEW T \in SUBSET Nat, T # {}
    PROVE  Min(T) \in T /\ \A y \in T : Min(T) <= y
BY LeastNat DEF Min

\* An element below which there is none is the one that is found.
LEMMA FirstIs ==
    ASSUME NEW T \in SUBSET Nat, NEW otherwise, NEW x \in T, \A y \in T : x <= y
    PROVE  FirstIn(T, otherwise) = x
<1>1. Min(T) \in T /\ Min(T) <= x
  BY MinIs
<1>2. x <= Min(T) /\ x \in Nat /\ Min(T) \in Nat
  BY <1>1
<1> QED BY <1>1, <1>2 DEF FirstIn

\* A text without quotes is never within them.
LEMMA NothingQuoted ==
    ASSUME NEW s, NEW from \in Int, NEW i \in Int, \A j \in from..i : s[j] # Quote
    PROVE  ~Quoted(s, from, i)
<1>1. {j \in from..i : s[j] = Quote} = {}
  OBVIOUS
<1>2. Cardinality({}) = 0
  BY FS_EmptySet
<1> QED BY <1>1, <1>2 DEF Quoted

-----------------------------------------------------------------------------
(* The first two fields of a text without quotes.                          *)

\* e is the first place from `from` on that holds c, or is behind the text.
FirstAt(a, from, c, e) ==
    /\ e \in from..(Len(a) + 1)
    /\ e <= Len(a) => a[e] = c
    /\ \A i \in from..(e - 1) : a[i] # c

LEMMA FirstExists ==
    ASSUME NEW T, NEW a \in Seq(T), NEW from \in 1..(Len(a) + 1), NEW c
    PROVE  \E e \in Nat : FirstAt(a, from, c, e)
<1> DEFINE S == {i \in from..(Len(a) + 1) : i = Len(a) + 1 \/ a[i] = c}
<1>1. Len(a) \in Nat /\ S \in SUBSET Nat /\ Len(a) + 1 \in S
  OBVIOUS
<1>2. PICK e \in S : \A y \in S : e <= y
  BY <1>1, LeastNat
<1>3. e \in Nat /\ FirstAt(a, from, c, e)
  <2>1. e \in from..(Len(a) + 1) /\ (e <= Len(a) => a[e] = c)
    BY <1>1
  <2>2. ASSUME NEW i \in from..(e - 1), a[i] = c PROVE FALSE
    <3>1. i \in S /\ ~(e <= i)
      BY <1>1, <2>1, <2>2
    <3> QED BY <3>1, <1>2
  <2> QED BY <2>1, <2>2 DEF FirstAt
<1> QED BY <1>3

\* What a field without quotes is cut to: nothing more.
LEMMA DequotePlain ==
    ASSUME NEW T, NEW f \in Seq(T), NEW sep,
           \A i \in 1..Len(f) : f[i] # sep /\ f[i] # Quote
    PROVE  Dequote(f, sep) = f
<1>1. DropFirst(f, Quote) = f /\ DropFirst(f, sep) = f
  BY DEF DropFirst
<1>2. f # <<>> => Last(f) = f[Len(f)] /\ Len(f) \in 1..Len(f)
  BY DEF Last
<1>3. DropLast(f, sep) = f
  BY <1>2 DEF DropLast
<1> QED BY <1>1, <1>3 DEF Dequote

LEMMA FieldFromPlain ==
    ASSUME NEW T, NEW a \in Seq(T), NEW sep \in T, sep # Quote,
           \A i \in 1..Len(a) : a[i] # Quote,
           NEW from \in 1..(Len(a) + 1), NEW e \in Nat, FirstAt(a, from, sep, e)
    PROVE  FieldFrom(Append(a, sep), from, sep, TRUE) = SubSeq(a, from, e - 1)
<1> DEFINE s == Append(a, sep)
           ends == {j \in from..Len(s) : \/ s[j] = sep /\ ~(TRUE /\ Quoted(s, from, j))
                                         \/ s[j] = Quote /\ ~Quoted(s, from, j)}
<1>1. /\ s \in Seq(T) /\ Len(s) = Len(a) + 1 /\ Len(a) \in Nat /\ s[Len(a) + 1] = sep
      /\ \A i \in 1..Len(a) : s[i] = a[i]
  OBVIOUS
<1>2. \A j \in from..Len(s) : s[j] # Quote
  BY <1>1
<1> HIDE DEF s
<1>3. \A j \in from..Len(s) : ~Quoted(s, from, j)
  BY <1>1, <1>2, NothingQuoted
<1>4. e \in ends
  BY <1>1, <1>3 DEF FirstAt
<1>5. \A y \in ends : e <= y
  <2> SUFFICES ASSUME NEW y \in ends, y < e PROVE FALSE
    BY <1>1
  <2>1. s[y] = sep /\ y \in from..(e - 1) /\ y \in 1..Len(a)
    BY <1>1, <1>2 DEF FirstAt
  <2> QED BY <1>1, <2>1 DEF FirstAt
<1>6. FirstIn(ends, Len(s) + 1) = e
  <2>1. ends \in SUBSET Nat
    BY <1>1
  <2> HIDE DEF ends
  <2> QED BY <1>4, <1>5, <2>1, FirstIs
<1>7. SubSeq(s, from, e - 1) = SubSeq(a, from, e - 1)
  BY <1>1 DEF FirstAt
<1>8. Dequote(SubSeq(a, from, e - 1), sep) = SubSeq(a, from, e - 1)
  <2>1. e - 1 <= Len(a) /\ SubSeq(a, from, e - 1) \in Seq(T)
    BY <1>1 DEF FirstAt
  <2>2. \A i \in 1..Len(SubSeq(a, from, e - 1)) :
           SubSeq(a, from, e - 1)[i] = a[from + i - 1] /\ from + i - 1 \in from..(e - 1)
    BY <1>1, <2>1
  <2>3. \A i \in 1..Len(SubSeq(a, from, e - 1)) :
           SubSeq(a, from, e - 1)[i] # sep /\ SubSeq(a, from, e - 1)[i] # Quote
    BY <1>1, <2>1, <2>2 DEF FirstAt
  <2> QED BY <2>1, <2>3, DequotePlain
<1> QED BY <1>6, <1>7, <1>8 DEF FieldFrom, s

\* Separators up to a place before the first one, or at it.
SepsTo(s, sep, i) == {j \in 1..i : s[j] = sep /\ ~Quoted(s, 1, j)}

LEMMA SepsFinite ==
    ASSUME NEW s, NEW sep, NEW i \in Nat
    PROVE  IsFiniteSet(SepsTo(s, sep, i)) /\ Cardinality(SepsTo(s, sep, i)) \in Nat
<1>1. IsFiniteSet(1..i)
  BY FS_Interval
<1>2. SepsTo(s, sep, i) \in SUBSET (1..i)
  BY DEF SepsTo
<1> QED BY <1>1, <1>2, FS_Subset, FS_CardinalityType

LEMMA SepsGrow ==
    ASSUME NEW s, NEW sep, NEW i \in Nat, NEW k \in 0..i
    PROVE  Cardinality(SepsTo(s, sep, k)) <= Cardinality(SepsTo(s, sep, i))
<1>1. SepsTo(s, sep, k) \in SUBSET SepsTo(s, sep, i)
  BY DEF SepsTo
<1> QED BY <1>1, SepsFinite, FS_Subset

LEMMA FirstCounted ==
    ASSUME NEW T, NEW a \in Seq(T), NEW sep \in T, sep # Quote,
           \A i \in 1..Len(a) : a[i] # Quote,
           NEW e \in Nat, FirstAt(a, 1, sep, e), NEW i \in 1..Len(a), i <= e
    PROVE  Cardinality(SepsTo(Append(a, sep), sep, i)) = IF i < e THEN 0 ELSE 1
<1> DEFINE s == Append(a, sep)
<1>1. Len(a) \in Nat /\ \A j \in 1..Len(a) : s[j] = a[j]
  OBVIOUS
<1> HIDE DEF s
<1>2. \A j \in 1..i : ~Quoted(s, 1, j)
  BY <1>1, NothingQuoted
<1>3. SepsTo(s, sep, i) = {j \in 1..i : a[j] = sep}
  BY <1>1, <1>2 DEF SepsTo
<1>4. CASE i < e
  <2>1. SepsTo(s, sep, i) = {}
    BY <1>3, <1>4 DEF FirstAt
  <2> QED BY <1>4, <2>1, FS_EmptySet DEF s
<1>5. CASE i = e
  <2>1. SepsTo(s, sep, i) = {e}
    BY <1>1, <1>3, <1>5 DEF FirstAt
  <2>2. Cardinality(SepsTo(s, sep, i)) = 1
    BY <2>1, FS_Singleton
  <2> QED BY <1>5, <2>2 DEF s
<1> QED BY <1>4, <1>5

LEMMA FirstStart ==
    ASSUME NEW T, NEW a \in Seq(T), NEW sep \in T, sep # Quote,
           \A i \in 1..Len(a) : a[i] # Quote,
           NEW e \in Nat, FirstAt(a, 1, sep, e)
    PROVE  /\ e > 1 => FieldStart(Append(a, sep), 1, sep) = 1
           /\ e = 1 => FieldStart(Append(a, sep), 1, sep) = Len(a) + 2
           /\ FieldStart(Append(a, sep), 2, sep) = IF e <= Len(a) THEN e + 1 ELSE Len(a) + 2
<1> DEFINE s == Append(a, sep)
           n(i) == Cardinality(SepsTo(s, sep, i))
           At(l) == {i \in 1..(Len(s) - 1) : 1 + n(i) = l}
           Skip(i) == IF s[i] = sep THEN i + 1 ELSE i
<1>1. Len(s) = Len(a) + 1 /\ Len(a) \in Nat /\ s[Len(a) + 1] = sep /\ \A i \in 1..Len(a) : s[i] = a[i]
  OBVIOUS
<1>2. \A i \in 1..Len(a) : i <= e => n(i) = IF i < e THEN 0 ELSE 1
  BY FirstCounted
<1>3. ASSUME NEW i \in 1..Len(a), i >= e PROVE n(i) \in Nat /\ n(i) >= 1
  <2>1. n(e) = 1 /\ e \in 0..i /\ i \in Nat
    BY <1>2, <1>3 DEF FirstAt
  <2> HIDE DEF s
  <2>2. n(e) <= n(i) /\ n(i) \in Nat
    BY <2>1, SepsGrow, SepsFinite
  <2> QED BY <2>1, <2>2
<1>4. FieldStart(s, 1, sep) = Skip(FirstIn(At(1), Len(s))) /\ FieldStart(s, 2, sep) = Skip(FirstIn(At(2), Len(s)))
  BY DEF FieldStart, SepsTo
<1> HIDE DEF s, n
<1>5. At(1) \in SUBSET Nat /\ At(2) \in SUBSET Nat
  BY <1>1
<1>6. ASSUME e > 1 PROVE FieldStart(s, 1, sep) = 1
  <2>1. Len(a) > 0 /\ s[1] # sep
    BY <1>1, <1>6 DEF FirstAt
  <2>2. 1 \in At(1) /\ \A y \in At(1) : 1 <= y
    BY <1>1, <1>2, <1>6, <2>1
  <2>3. FirstIn(At(1), Len(s)) = 1
    <3> HIDE DEF At
    <3> QED BY <1>5, <2>2, FirstIs
  <2> QED BY <1>4, <2>1, <2>3
<1>7. ASSUME e = 1, Len(a) > 0 PROVE FieldStart(s, 1, sep) = Len(a) + 2
  <2>1. At(1) = {}
    BY <1>1, <1>3, <1>7
  <2>2. FirstIn(At(1), Len(s)) = Len(s)
    BY <2>1 DEF FirstIn
  <2> QED BY <1>1, <1>4, <2>2
<1>8. ASSUME Len(a) = 0 PROVE FieldStart(s, 1, sep) = Len(a) + 2
  <2>1. At(1) = {}
    BY <1>1, <1>8
  <2>2. FirstIn(At(1), Len(s)) = Len(s)
    BY <2>1 DEF FirstIn
  <2> QED BY <1>1, <1>4, <2>2
<1>9. ASSUME e <= Len(a) PROVE FieldStart(s, 2, sep) = e + 1
  <2>1. e \in At(2) /\ s[e] = sep /\ \A y \in At(2) : e <= y
    BY <1>1, <1>2, <1>9 DEF FirstAt
  <2>2. FirstIn(At(2), Len(s)) = e
    <3> HIDE DEF At
    <3> QED BY <1>5, <2>1, FirstIs
  <2> QED BY <1>4, <2>1, <2>2
<1>10. ASSUME e > Len(a) PROVE FieldStart(s, 2, sep) = Len(a) + 2
  <2>1. At(2) = {}
    BY <1>1, <1>2, <1>10 DEF FirstAt
  <2>2. FirstIn(At(2), Len(s)) = Len(s)
    BY <2>1 DEF FirstIn
  <2> QED BY <1>1, <1>4, <2>2
<1> QED BY <1>1, <1>6, <1>7, <1>8, <1>9, <1>10 DEF s

\* Behind the text there is no field.
LEMMA NothingBehind ==
    ASSUME NEW T, NEW a \in Seq(T), NEW sep \in T
    PROVE  FieldFrom(Append(a, sep), Len(a) + 2, sep, TRUE) = <<>>
<1> DEFINE s == Append(a, sep)
           ends == {j \in (Len(a) + 2)..Len(s) :
                       \/ s[j] = sep /\ ~(TRUE /\ Quoted(s, Len(a) + 2, j))
                       \/ s[j] = Quote /\ ~Quoted(s, Len(a) + 2, j)}
<1>1. Len(s) = Len(a) + 1 /\ Len(a) \in Nat
  OBVIOUS
<1>2. ends = {}
  BY <1>1
<1>3. SubSeq(s, Len(a) + 2, Len(a) + 1) = <<>>
  OBVIOUS
<1>4. Dequote(<<>>, sep) = <<>>
  BY DEF Dequote, DropFirst, DropLast
<1>5. FirstIn(ends, Len(s) + 1) - 1 = Len(a) + 1
  BY <1>1, <1>2 DEF FirstIn
<1> HIDE DEF ends
<1> QED BY <1>3, <1>4, <1>5 DEF FieldFrom, ends

\* The first field is what is before the first separator, the second what is
\* between it and the next one.
LEMMA FirstTwoFields ==
    ASSUME NEW T, NEW a \in Seq(T), NEW sep \in T, sep # Quote,
           \A i \in 1..Len(a) : a[i] # Quote,
           NEW e \in Nat, FirstAt(a, 1, sep, e), NEW default
    PROVE  /\ GetLineToStr(a, 1, sep, default) = OrDefault(SubSeq(a, 1, e - 1), default)
           /\ e = Len(a) + 1 => GetLineToStr(a, 2, sep, default) = default
           /\ e <= Len(a) => \A g \in Nat : FirstAt(a, e + 1, sep, g) =>
                GetLineToStr(a, 2, sep, default) = OrDefault(SubSeq(a, e + 1, g - 1), default)
<1> USE DEF GetLineToStr, FieldEnding
<1>1. Len(a) \in Nat /\ e \in 1..(Len(a) + 1)
  BY DEF FirstAt
<1>2. GetLineToStr(a, 1, sep, default) = OrDefault(SubSeq(a, 1, e - 1), default)
  <2>1. CASE e > 1
    <3>1. 1 \in 1..(Len(a) + 1)
      BY <1>1
    <3>2. FieldFrom(Append(a, sep), 1, sep, TRUE) = SubSeq(a, 1, e - 1)
      BY <3>1, FieldFromPlain
    <3> QED BY <2>1, <3>2, FirstStart
  <2>2. CASE e = 1
    <3>1. FieldStart(Append(a, sep), 1, sep) = Len(a) + 2
      BY <2>2, FirstStart
    <3>2. SubSeq(a, 1, 1 - 1) = <<>>
      OBVIOUS
    <3> QED BY <2>2, <3>1, <3>2, NothingBehind
  <2>3. e > 1 \/ e = 1
    BY <1>1
  <2> QED BY <2>1, <2>2, <2>3, Zenon
<1>3. ASSUME e = Len(a) + 1 PROVE GetLineToStr(a, 2, sep, default) = default
  <2>1. FieldStart(Append(a, sep), 2, sep) = Len(a) + 2
    BY <1>1, <1>3, FirstStart
  <2> QED BY <2>1, NothingBehind DEF OrDefault
<1>4. ASSUME e <= Len(a), NEW g \in Nat, FirstAt(a, e + 1, sep, g)
      PROVE  GetLineToStr(a, 2, sep, default) = OrDefault(SubSeq(a, e + 1, g - 1), default)
  <2>1. FieldStart(Append(a, sep), 2, sep) = e + 1
    BY <1>1, <1>4, FirstStart
  <2>2. e + 1 \in 1..(Len(a) + 1)
    BY <1>1, <1>4
  <2>3. FieldFrom(Append(a, sep), e + 1, sep, TRUE) = SubSeq(a, e + 1, g - 1)
    BY <1>4, <2>2, FieldFromPlain
  <2> QED BY <2>1, <2>3
<1> QED BY <1>2, <1>3, <1>4

-----------------------------------------------------------------------------
(* Numbers.  Where a recursive function is defined, no least place can be  *)
(* the first at which there is none.                                       *)

RoundAfter(s, base, after, i) ==
    IF i = 0 THEN [m |-> 1, r |-> 0]
    ELSE [m |-> base * after[i - 1].m,
          r |-> after[i - 1].r + s[Len(s) + 1 - i] * after[i - 1].m]

RoundsTo(s, base, n, after) == after = [i \in 0..n |-> RoundAfter(s, base, after, i)]

LEMMA RoundsExist ==
    ASSUME NEW s, NEW base, NEW n \in Nat
    PROVE  \E after : RoundsTo(s, base, n, after)
<1> DEFINE Bad == {k \in Nat : ~\E after : RoundsTo(s, base, k, after)}
<1> SUFFICES ASSUME Bad # {} PROVE FALSE
  OBVIOUS
<1>1. PICK k \in Bad : \A y \in Bad : k <= y
  <2>1. Bad \in SUBSET Nat
    OBVIOUS
  <2> HIDE DEF Bad
  <2> QED BY <2>1, LeastNat
<1>2. k \in Nat /\ ~\E after : RoundsTo(s, base, k, after)
  OBVIOUS
<1>3. CASE k = 0
  <2> DEFINE g == [i \in 0..0 |-> [m |-> 1, r |-> 0]]
  <2>1. \A i \in 0..0 : RoundAfter(s, base, g, i) = [m |-> 1, r |-> 0]
    BY DEF RoundAfter
  <2>2. g = [i \in 0..0 |-> RoundAfter(s, base, g, i)]
    BY <2>1
  <2> QED BY <1>2, <1>3, <2>2 DEF RoundsTo
<1>4. CASE k # 0
  <2>1. k - 1 \in Nat /\ k - 1 \notin Bad
    BY <1>1, <1>2, <1>4
  <2>2. PICK f : RoundsTo(s, base, k - 1, f)
    BY <2>1
  <2> DEFINE g == [i \in 0..k |-> IF i = k THEN RoundAfter(s, base, f, k) ELSE f[i]]
  <2>3. \A i \in 0..k : i # 0 => i - 1 \in 0..(k - 1) /\ g[i - 1] = f[i - 1]
    BY <1>2
  <2>4. ASSUME NEW i \in 0..k PROVE g[i] = RoundAfter(s, base, g, i)
    <3>1. RoundAfter(s, base, g, i) = RoundAfter(s, base, f, i)
      <4> HIDE DEF g
      <4> QED BY <2>3 DEF RoundAfter
    <3>2. i # k => i \in 0..(k - 1) /\ f[i] = RoundAfter(s, base, f, i)
      BY <1>2, <2>2 DEF RoundsTo
    <3> HIDE DEF RoundAfter
    <3>3. g[i] = IF i = k THEN RoundAfter(s, base, f, k) ELSE f[i]
      OBVIOUS
    <3> HIDE DEF g
    <3> QED BY <3>1, <3>2, <3>3
  <2>5. DOMAIN g = 0..k /\ g = [i \in 0..k |-> g[i]]
    OBVIOUS
  <2> HIDE DEF g
  <2>6. g = [i \in 0..k |-> RoundAfter(s, base, g, i)]
    BY <2>4, <2>5, Zenon
  <2> QED BY <1>2, <2>6 DEF RoundsTo
<1> QED BY <1>3, <1>4

RoundIs(s, base, i) == Rounds(s, base)[i] = RoundAfter(s, base, Rounds(s, base), i)

LEMMA RoundsAre ==
    ASSUME NEW s, NEW base, Len(s) \in Nat
    PROVE  \A i \in 0..Len(s) : RoundIs(s, base, i)
<1>1. Rounds(s, base) = CHOOSE after : RoundsTo(s, base, Len(s), after)
  BY DEF Rounds, RoundsTo, RoundAfter
<1>2. RoundsTo(s, base, Len(s), Rounds(s, base))
  BY <1>1, RoundsExist
<1> PICK f : f = Rounds(s, base)
  OBVIOUS
<1>3. \A i \in 0..Len(s) : f[i] = RoundAfter(s, base, f, i)
  BY <1>2 DEF RoundsTo
<1> QED BY <1>3 DEF RoundIs

LEMMA Product ==
    ASSUME NEW x \in Nat, NEW y \in Nat
    PROVE  x * y \in Nat
OBVIOUS

LEMMA RoundsType ==
    ASSUME NEW s \in Seq(Nat), NEW base \in Nat, NEW i \in 0..Len(s)
    PROVE  Rounds(s, base)[i].m \in Nat /\ Rounds(s, base)[i].r \in Nat
<1> PICK f : f = Rounds(s, base)
  OBVIOUS
<1> DEFINE Bad == {k \in 0..Len(s) : ~(f[k].m \in Nat /\ f[k].r \in Nat)}
<1> SUFFICES ASSUME Bad # {} PROVE FALSE
  OBVIOUS
<1>1. Len(s) \in Nat
  OBVIOUS
<1>2. PICK k \in Bad : \A y \in Bad : k <= y
  <2>1. Bad \in SUBSET Nat
    OBVIOUS
  <2> HIDE DEF Bad
  <2> QED BY <2>1, LeastNat
<1>3. k # 0
  <2>1. RoundIs(s, base, 0)
    BY <1>1, RoundsAre
  <2> QED BY <2>1 DEF RoundIs, RoundAfter
<1>4. k \in 1..Len(s) /\ k - 1 \in 0..Len(s) /\ k - 1 \notin Bad /\ Len(s) + 1 - k \in 1..Len(s)
  BY <1>1, <1>2, <1>3
<1>5. f[k - 1].m \in Nat /\ f[k - 1].r \in Nat /\ s[Len(s) + 1 - k] \in Nat
  <2>1. f[k - 1].m \in Nat /\ f[k - 1].r \in Nat
    BY <1>4, Zenon
  <2>2. PICK j \in 1..Len(s) : j = Len(s) + 1 - k
    BY <1>4
  <2>3. s[j] \in Nat
    OBVIOUS
  <2> QED BY <2>1, <2>2, <2>3, Zenon
<1>6. f[k] = [m |-> base * f[k - 1].m, r |-> f[k - 1].r + s[Len(s) + 1 - k] * f[k - 1].m]
  <2>1. RoundIs(s, base, k)
    BY <1>1, <1>4, RoundsAre
  <2> QED BY <1>3, <2>1 DEF RoundIs, RoundAfter
<1>7. PICK m \in Nat, r \in Nat, x \in Nat :
           m = f[k - 1].m /\ r = f[k - 1].r /\ x = s[Len(s) + 1 - k]
  BY <1>5
<1>8. f[k].m = base * m /\ f[k].r = r + x * m
  BY <1>6, <1>7
<1>9. base * m \in Nat /\ r + x * m \in Nat
  <2>1. base * m \in Nat /\ x * m \in Nat
    BY Product, Zenon
  <2> QED BY <2>1
<1> QED BY <1>4, <1>8, <1>9

Distributes(b, m, r, x, d) == (b * r + d) + x * (b * m) = b * (r + x * m) + d

LEMMA Distributed ==
    ASSUME NEW b \in Nat, NEW m \in Nat, NEW r \in Nat, NEW x \in Nat, NEW d \in Nat
    PROVE  Distributes(b, m, r, x, d)
BY DEF Distributes

\* Reading one digit more.
OneMore(s, t, base, d, i) ==
    /\ Rounds(t, base)[i + 1].m = base * Rounds(s, base)[i].m
    /\ Rounds(t, base)[i + 1].r = base * Rounds(s, base)[i].r + d

LEMMA RoundsAppend ==
    ASSUME NEW s \in Seq(Nat), NEW base \in Nat, NEW d \in Nat, NEW t, t = Append(s, d),
           NEW i \in 0..Len(s)
    PROVE  OneMore(s, t, base, d, i)
<1> PICK f : f = Rounds(s, base)
  OBVIOUS
<1> PICK g : g = Rounds(t, base)
  OBVIOUS
<1> DEFINE Good(k) == OneMore(s, t, base, d, k)
           Bad == {k \in 0..Len(s) : ~Good(k)}
<1> SUFFICES ASSUME Bad # {} PROVE FALSE
  OBVIOUS
<1>1. /\ Len(s) \in Nat /\ Len(t) = Len(s) + 1 /\ t \in Seq(Nat) /\ t[Len(s) + 1] = d
      /\ \A j \in 1..Len(s) : t[j] = s[j]
  OBVIOUS
<1>2. PICK k \in Bad : \A y \in Bad : k <= y
  <2>1. Bad \in SUBSET Nat
    OBVIOUS
  <2> HIDE DEF Bad
  <2> QED BY <2>1, LeastNat
<1>3. k \in 0..Len(s) /\ ~Good(k)
  OBVIOUS
<1>4. g[k + 1] = [m |-> base * g[k].m, r |-> g[k].r + t[Len(s) + 1 - k] * g[k].m]
  <2>1. k + 1 \in 1..Len(t) /\ (k + 1) - 1 = k /\ Len(t) + 1 - (k + 1) = Len(s) + 1 - k
    <3>1. k \in Nat /\ k <= Len(s)
      BY <1>1, <1>3
    <3>2. Len(s) \in Nat /\ Len(t) = Len(s) + 1
      BY <1>1
    <3> QED BY <3>1, <3>2
  <2>2. RoundIs(t, base, k + 1)
    <3>1. Len(t) \in Nat /\ k + 1 \in 0..Len(t)
      BY <1>1, <2>1
    <3> QED BY <3>1, RoundsAre, Zenon
  <2>3. g[k + 1] = RoundAfter(t, base, g, k + 1) /\ k + 1 # 0
    BY <1>3, <2>2 DEF RoundIs
  <2> QED BY <2>1, <2>3 DEF RoundAfter
<1>5. CASE k = 0
  <2>1. g[0] = [m |-> 1, r |-> 0] /\ f[0] = [m |-> 1, r |-> 0]
    <3>1. RoundIs(s, base, 0) /\ RoundIs(t, base, 0)
      BY <1>1, RoundsAre
    <3> QED BY <3>1 DEF RoundIs, RoundAfter
  <2>2. g[0 + 1] = [m |-> base * 1, r |-> 0 + d * 1]
    BY <1>1, <1>4, <1>5, <2>1
  <2>3. Good(0)
    BY <2>1, <2>2 DEF OneMore
  <2> QED BY <1>3, <1>5, <2>3
<1>6. CASE k # 0
  <2>1. k \in 1..Len(s) /\ k - 1 \in 0..Len(s) /\ k - 1 \notin Bad /\ (k - 1) + 1 = k
        /\ Len(s) + 1 - k \in 1..Len(s)
    <3>1. k \in 1..Len(s) /\ k - 1 \in 0..Len(s) /\ (k - 1) + 1 = k /\ Len(s) + 1 - k \in 1..Len(s)
      BY <1>1, <1>3, <1>6
    <3>2. ~(k <= k - 1)
      BY <3>1
    <3> HIDE DEF Bad
    <3> QED BY <1>2, <3>1, <3>2
  <2>2. g[k].m = base * f[k - 1].m /\ g[k].r = base * f[k - 1].r + d
    BY <2>1 DEF OneMore
  <2> PICK x \in Nat : x = s[Len(s) + 1 - k]
    BY <2>1
  <2>3. t[Len(s) + 1 - k] = x
    BY <1>1, <2>1
  <2>4. f[k] = [m |-> base * f[k - 1].m, r |-> f[k - 1].r + x * f[k - 1].m]
    <3>1. RoundIs(s, base, k)
      BY <1>1, <1>3, RoundsAre
    <3> QED BY <1>6, <3>1 DEF RoundIs, RoundAfter
  <2>5. f[k - 1].m \in Nat /\ f[k - 1].r \in Nat
    BY <2>1, RoundsType
  <2> PICK m \in Nat, r \in Nat : m = f[k - 1].m /\ r = f[k - 1].r
    BY <2>5
  <2>6. g[k + 1].m = base * (base * m) /\ g[k + 1].r = (base * r + d) + x * (base * m)
    BY <1>4, <2>2, <2>3
  <2>7. f[k].m = base * m /\ f[k].r = r + x * m
    BY <2>4
  <2>8. Distributes(base, m, r, x, d)
    BY Distributed, Zenon
  <2>9. Good(k)
    BY <2>6, <2>7, <2>8 DEF OneMore, Distributes
  <2> QED BY <1>3, <2>9
<1> QED BY <1>5, <1>6

LEMMA ValueOfAppend ==
    ASSUME NEW s \in Seq(Nat), NEW base \in Nat, NEW d \in Nat
    PROVE  ValueOf(Append(s, d), base) = base * ValueOf(s, base) + d
<1> PICK t : t = Append(s, d)
  OBVIOUS
<1>1. Len(s) \in 0..Len(s) /\ Len(t) = Len(s) + 1
  OBVIOUS
<1>2. Rounds(t, base)[Len(s) + 1].r = base * Rounds(s, base)[Len(s)].r + d
  <2>1. OneMore(s, t, base, d, Len(s))
    BY <1>1, RoundsAppend
  <2> QED BY <2>1 DEF OneMore
<1> QED BY <1>1, <1>2 DEF ValueOf

LEMMA ValueOfDigit ==
    ASSUME NEW base \in Nat, NEW d \in Nat
    PROVE  ValueOf(<<d>>, base) = d
<1>1. <<>> \in Seq(Nat) /\ Append(<<>>, d) = <<d>> /\ Len(<<>>) = 0
  OBVIOUS
<1>2. Rounds(<<>>, base)[0] = [m |-> 1, r |-> 0]
  <2>1. RoundIs(<<>>, base, 0)
    BY <1>1, RoundsAre
  <2> QED BY <2>1 DEF RoundIs, RoundAfter
<1>3. ValueOf(<<>>, base) = 0
  BY <1>1, <1>2 DEF ValueOf
<1>4. ValueOf(Append(<<>>, d), base) = base * 0 + d
  BY <1>1, <1>3, ValueOfAppend
<1>5. base * 0 + d = d
  OBVIOUS
<1> QED BY <1>1, <1>4, <1>5

\* Zeros before a number are read as nothing.
PaddedRound(s, p, base, i) ==
    IF i <= Len(s) THEN Rounds(p, base)[i] = Rounds(s, base)[i]
    ELSE Rounds(p, base)[i].r = Rounds(s, base)[Len(s)].r

LEMMA RoundsPadded ==
    ASSUME NEW s \in Seq(Nat), NEW base \in Nat, NEW n \in Nat,
           NEW p, p = [i \in 1..n |-> 0] \o s, NEW i \in 0..Len(p)
    PROVE  PaddedRound(s, p, base, i)
<1> DEFINE Good(k) == PaddedRound(s, p, base, k)
           Bad == {k \in 0..Len(p) : ~Good(k)}
<1> SUFFICES ASSUME Bad # {} PROVE FALSE
  OBVIOUS
<1>1. /\ Len(s) \in Nat /\ p \in Seq(Nat) /\ Len(p) = n + Len(s)
      /\ \A j \in 1..Len(p) : p[j] = IF j <= n THEN 0 ELSE s[j - n]
  OBVIOUS
<1>2. PICK k \in Bad : \A y \in Bad : k <= y
  <2>1. Bad \in SUBSET Nat
    BY <1>1
  <2> HIDE DEF Bad
  <2> QED BY <2>1, LeastNat
<1>3. k \in 0..Len(p) /\ k \in Nat /\ ~Good(k) /\ Len(p) \in Nat
  BY <1>1
<1>4. RoundIs(p, base, k)
  BY <1>3, RoundsAre, Zenon
<1>5. k <= Len(s) => RoundIs(s, base, k)
  <2>1. k <= Len(s) => k \in 0..Len(s)
    BY <1>1, <1>3
  <2> QED BY <1>1, <2>1, RoundsAre, Zenon
<1>6. CASE k = 0
  <2>1. k <= Len(s)
    BY <1>1, <1>6
  <2>2. Good(k)
    BY <1>4, <1>5, <1>6, <2>1 DEF PaddedRound, RoundIs, RoundAfter
  <2> QED BY <1>3, <2>2
<1>7. CASE k # 0
  <2>1. k - 1 \in 0..Len(p) /\ k - 1 \in Nat /\ Len(p) + 1 - k \in 1..Len(p)
    BY <1>1, <1>3, <1>7
  <2>2. Good(k - 1)
    <3>1. ~(k <= k - 1)
      BY <1>3
    <3> HIDE DEF Good
    <3> QED BY <1>2, <2>1, <3>1
  <2> PICK x : x = p[Len(p) + 1 - k]
    OBVIOUS
  <2>3. Rounds(p, base)[k] = [m |-> base * Rounds(p, base)[k - 1].m,
                              r |-> Rounds(p, base)[k - 1].r + x * Rounds(p, base)[k - 1].m]
    BY <1>4, <1>7, Zenon DEF RoundIs, RoundAfter
  <2>4. CASE k <= Len(s)
    <3>1. x = s[Len(s) + 1 - k]
      BY <1>1, <1>3, <2>1, <2>4
    <3>2. k - 1 <= Len(s)
      BY <1>1, <1>3, <2>4
    <3>3. Rounds(p, base)[k - 1] = Rounds(s, base)[k - 1]
      BY <2>2, <3>2 DEF PaddedRound
    <3>5. Rounds(s, base)[k] = [m |-> base * Rounds(s, base)[k - 1].m,
                                r |-> Rounds(s, base)[k - 1].r + x * Rounds(s, base)[k - 1].m]
      BY <1>5, <1>7, <2>4, <3>1 DEF RoundIs, RoundAfter
    <3>6. Good(k)
      BY <2>3, <2>4, <3>3, <3>5 DEF PaddedRound
    <3> QED BY <1>3, <3>6
  <2>5. CASE ~(k <= Len(s))
    <3>1. x = 0
      BY <1>1, <1>3, <2>1, <2>5
    <3>2. Rounds(p, base)[k - 1].m \in Nat /\ Rounds(p, base)[k - 1].r \in Nat
      BY <1>1, <2>1, RoundsType, Zenon
    <3>3. Rounds(p, base)[k].r = Rounds(p, base)[k - 1].r
      <4>1. PICK m \in Nat, r \in Nat :
               m = Rounds(p, base)[k - 1].m /\ r = Rounds(p, base)[k - 1].r
        BY <3>2
      <4>2. Rounds(p, base)[k] = [m |-> base * m, r |-> r + 0 * m]
        BY <2>3, <3>1, <4>1
      <4>3. r + 0 * m = r
        OBVIOUS
      <4>4. Rounds(p, base)[k].r = r + 0 * m
        BY <4>2
      <4> QED BY <4>1, <4>3, <4>4
    <3>4. Rounds(p, base)[k - 1].r = Rounds(s, base)[Len(s)].r
      <4>1. k - 1 <= Len(s) => k - 1 = Len(s)
        BY <1>1, <1>3, <2>5
      <4> QED BY <2>2, <4>1 DEF PaddedRound
    <3>5. Good(k)
      BY <2>5, <3>3, <3>4 DEF PaddedRound
    <3> QED BY <1>3, <3>5
  <2> QED BY <2>4, <2>5
<1> QED BY <1>6, <1>7

LEMMA StrBaseKeeps ==
    ASSUME NEW s \in Seq(Nat), NEW base \in Nat, NEW length \in Nat
    PROVE  ValueOf(StrBase(s, length), base) = ValueOf(s, base)
<1>1. CASE Len(s) > length
  BY <1>1 DEF StrBase
<1>2. CASE ~(Len(s) > length)
  <2>1. PICK n \in Nat : n = length - Len(s)
    <3>1. Len(s) \in Nat /\ length - Len(s) \in Nat
      BY <1>2
    <3> QED BY <3>1, Zenon
  <2>2. PICK p : p = [i \in 1..n |-> 0] \o s
    OBVIOUS
  <2>3. StrBase(s, length) = p
    BY <1>2, <2>1, <2>2 DEF StrBase
  <2>4. Len(p) = n + Len(s) /\ Len(p) \in 0..Len(p) /\ Len(s) \in Nat
    BY <2>2
  <2>5. PaddedRound(s, p, base, Len(p))
    BY <2>2, <2>4, RoundsPadded
  <2>6. Len(p) <= Len(s) => Len(p) = Len(s)
    BY <2>4
  <2> QED BY <2>3, <2>5, <2>6 DEF PaddedRound, ValueOf
<1> QED BY <1>1, <1>2

-----------------------------------------------------------------------------
(* The digits of a number.                                                 *)

Base == {16, 256}

LEMMA Division ==
    ASSUME NEW base \in Base, NEW m \in Nat
    PROVE  /\ m \div base \in Nat /\ m % base \in Nat
           /\ ~(m < base) => m \div base < m
           /\ m = base * (m \div base) + (m % base)
<1>1. PICK q, r : q = m \div base /\ r = m % base
  OBVIOUS
<1>2. CASE base = 16
  <2>1. q = m \div 16 /\ r = m % 16
    BY <1>1, <1>2
  <2>2. q \in Nat /\ r \in Nat /\ (~(m < 16) => q < m) /\ m = 16 * q + r
    BY <2>1
  <2> QED BY <1>1, <1>2, <2>2
<1>3. CASE base = 256
  <2>1. q = m \div 256 /\ r = m % 256
    BY <1>1, <1>3
  <2>2. q \in Nat /\ r \in Nat /\ (~(m < 256) => q < m) /\ m = 256 * q + r
    BY <2>1
  <2> QED BY <1>1, <1>3, <2>2
<1> QED BY <1>2, <1>3 DEF Base

\* IntToSys is defined by a function on all of Nat.  That there is one: of the
\* functions on 0..n any two agree, so that their union, Sys, is a function.
SysAt(base, sys, m) == IF m < base THEN <<m>> ELSE Append(sys[m \div base], m % base)

SysTo(base, n, sys) == sys = [m \in 0..n |-> SysAt(base, sys, m)]

LEMMA SysUnique ==
    ASSUME NEW base \in Base, NEW n \in Nat, NEW k \in Nat, NEW f, NEW g,
           SysTo(base, n, f), SysTo(base, k, g), NEW m \in Nat, m <= n, m <= k
    PROVE  f[m] = g[m]
<1> DEFINE Bad == {j \in Nat : j <= n /\ j <= k /\ f[j] # g[j]}
<1> SUFFICES ASSUME Bad # {} PROVE FALSE
  OBVIOUS
<1>1. PICK j \in Bad : \A y \in Bad : j <= y
  <2>1. Bad \in SUBSET Nat
    OBVIOUS
  <2> HIDE DEF Bad
  <2> QED BY <2>1, LeastNat
<1>2. j \in Nat /\ j <= n /\ j <= k /\ f[j] # g[j]
  OBVIOUS
<1>3. f[j] = SysAt(base, f, j) /\ g[j] = SysAt(base, g, j)
  <2>1. j \in 0..n /\ j \in 0..k
    BY <1>2
  <2> QED BY <2>1 DEF SysTo
<1>4. ~(j < base)
  BY <1>2, <1>3 DEF SysAt
<1>5. PICK q \in Nat : q = j \div base /\ q < j
  BY <1>2, <1>4, Division
<1>6. f[q] = g[q]
  <2>1. q <= n /\ q <= k /\ ~(j <= q)
    BY <1>2, <1>5
  <2> HIDE DEF Bad
  <2>2. q \notin Bad
    BY <1>1, <2>1
  <2> QED BY <2>1, <2>2 DEF Bad
<1> QED BY <1>2, <1>3, <1>4, <1>5, <1>6 DEF SysAt

LEMMA SysExist ==
    ASSUME NEW base \in Base, NEW n \in Nat
    PROVE  \E f : SysTo(base, n, f)
<1> DEFINE Bad == {k \in Nat : ~\E f : SysTo(base, k, f)}
<1> SUFFICES ASSUME Bad # {} PROVE FALSE
  OBVIOUS
<1>1. PICK k \in Bad : \A y \in Bad : k <= y
  <2>1. Bad \in SUBSET Nat
    OBVIOUS
  <2> HIDE DEF Bad
  <2> QED BY <2>1, LeastNat
<1>2. k \in Nat /\ ~\E f : SysTo(base, k, f)
  OBVIOUS
<1>3. \E f : k # 0 => SysTo(base, k - 1, f)
  <2>1. k # 0 => k - 1 \in Nat /\ k - 1 \notin Bad
    BY <1>1, <1>2
  <2> QED BY <2>1
<1>4. PICK f : k # 0 => SysTo(base, k - 1, f)
  BY <1>3
<1> DEFINE g == [m \in 0..k |-> IF m = k THEN SysAt(base, f, k) ELSE f[m]]
<1>5. ASSUME NEW m \in 0..k PROVE g[m] = SysAt(base, g, m)
  <2>1. ~(m < base) => m \div base \in 0..k /\ m \div base # k
    BY <1>2, Division
  <2>2. ~(m < base) => g[m \div base] = f[m \div base]
    BY <2>1
  <2>3. g[m] = IF m = k THEN SysAt(base, f, k) ELSE f[m]
    OBVIOUS
  <2> HIDE DEF g
  <2>4. SysAt(base, g, m) = SysAt(base, f, m)
    BY <2>2 DEF SysAt
  <2>5. m # k => f[m] = SysAt(base, f, m)
    <3>1. m # k => m \in 0..(k - 1) /\ k # 0
      BY <1>2
    <3> QED BY <1>4, <3>1 DEF SysTo
  <2> QED BY <2>3, <2>4, <2>5
<1>6. g = [m \in 0..k |-> g[m]]
  OBVIOUS
<1> HIDE DEF g
<1>7. SysTo(base, k, g)
  BY <1>5, <1>6, Zenon DEF SysTo
<1> QED BY <1>2, <1>7

Sys(base) == CHOOSE sys : sys = [m \in Nat |-> SysAt(base, sys, m)]

LEMMA SysIs ==
    ASSUME NEW base \in Base, NEW m \in Nat
    PROVE  Sys(base)[m] = SysAt(base, Sys(base), m)
<1> DEFINE F(n) == CHOOSE f : SysTo(base, n, f)
           G == [n \in Nat |-> F(n)[n]]
<1>1. ASSUME NEW n \in Nat PROVE SysTo(base, n, F(n))
  BY SysExist
<1> HIDE DEF F
<1>2. ASSUME NEW n \in Nat PROVE G[n] = SysAt(base, G, n)
  <2>1. F(n)[n] = SysAt(base, F(n), n)
    <3>1. n \in 0..n
      OBVIOUS
    <3> QED BY <1>1, <3>1 DEF SysTo
  <2>2. ~(n < base) => F(n)[n \div base] = G[n \div base]
    <3> SUFFICES ASSUME ~(n < base) PROVE F(n)[n \div base] = G[n \div base]
      OBVIOUS
    <3>1. PICK q \in Nat : q = n \div base /\ q <= n /\ q <= q
      BY Division
    <3>2. F(n)[q] = F(q)[q]
      <4>1. SysTo(base, n, F(n)) /\ SysTo(base, q, F(q))
        BY <1>1
      <4> QED BY <3>1, <4>1, SysUnique
    <3> QED BY <3>1, <3>2
  <2>3. G[n] = F(n)[n]
    OBVIOUS
  <2> HIDE DEF G
  <2> QED BY <2>1, <2>2, <2>3 DEF SysAt
<1>3. G = [n \in Nat |-> G[n]]
  OBVIOUS
<1> HIDE DEF G
<1>4. G = [n \in Nat |-> SysAt(base, G, n)]
  BY <1>2, <1>3, Zenon
<1>5. Sys(base) = [n \in Nat |-> SysAt(base, Sys(base), n)]
  BY <1>4, Zenon DEF Sys
<1> QED BY <1>5

LEMMA IntToSysIs ==
    ASSUME NEW base \in Base, NEW n \in Nat
    PROVE  IntToSys(n, base) = IF n < base THEN <<n>>
                               ELSE Append(IntToSys(n \div base, base), n % base)
<1>1. \A m : IntToSys(m, base) = Sys(base)[m]
  BY DEF IntToSys, Sys, SysAt
<1> QED BY <1>1, SysIs DEF SysAt

\* The digits of a number are its value.
Told(n, base) ==
    /\ IntToSys(n, base) \in Seq(Nat) /\ Len(IntToSys(n, base)) > 0
    /\ ValueOf(IntToSys(n, base), base) = n

LEMMA DigitsTold ==
    ASSUME NEW base \in Base, NEW n \in Nat
    PROVE  Told(n, base)
<1> DEFINE Bad == {k \in Nat : ~Told(k, base)}
<1> SUFFICES ASSUME Bad # {} PROVE FALSE
  OBVIOUS
<1>1. PICK k \in Bad : \A y \in Bad : k <= y
  <2>1. Bad \in SUBSET Nat
    OBVIOUS
  <2> HIDE DEF Bad
  <2> QED BY <2>1, LeastNat
<1>2. k \in Nat /\ ~Told(k, base) /\ base \in Nat
  BY DEF Base
<1>3. CASE k < base
  <2>1. IntToSys(k, base) = <<k>>
    BY <1>2, <1>3, IntToSysIs
  <2>2. <<k>> \in Seq(Nat) /\ Len(<<k>>) > 0
    BY <1>2
  <2>3. ValueOf(<<k>>, base) = k
    BY <1>2, ValueOfDigit
  <2> QED BY <1>2, <2>1, <2>2, <2>3 DEF Told
<1>4. CASE ~(k < base)
  <2>1. PICK q \in Nat, r \in Nat :
           q = k \div base /\ r = k % base /\ q < k /\ k = base * q + r
    BY <1>2, <1>4, Division
  <2>2. Told(q, base)
    <3>1. ~(k <= q)
      BY <1>2, <2>1
    <3> HIDE DEF Bad
    <3>2. q \notin Bad
      BY <1>1, <3>1
    <3> QED BY <3>2 DEF Bad
  <2> PICK s : s = IntToSys(q, base)
    OBVIOUS
  <2>3. s \in Seq(Nat) /\ ValueOf(s, base) = q
    BY <2>2 DEF Told
  <2>4. IntToSys(k, base) = Append(s, r)
    BY <1>2, <1>4, <2>1, IntToSysIs
  <2>5. Append(s, r) \in Seq(Nat) /\ Len(Append(s, r)) > 0
    BY <2>3
  <2>6. ValueOf(Append(s, r), base) = base * q + r
    BY <1>2, <2>3, ValueOfAppend
  <2> QED BY <1>2, <2>1, <2>4, <2>5, <2>6 DEF Told
<1> QED BY <1>3, <1>4

\* How many bytes a number has.
Bytes(n) == Len(IntToSys(n, 256))

LEMMA BytesAre ==
    ASSUME NEW n \in Nat
    PROVE  /\ Bytes(n) \in Nat /\ Bytes(n) > 0
           /\ n < 256 => Bytes(n) = 1
           /\ ~(n < 256) => Bytes(n) = Bytes(n \div 256) + 1
<1>1. 256 \in Base
  BY DEF Base
<1>2. Bytes(n) \in Nat /\ Bytes(n) > 0
  BY <1>1, DigitsTold DEF Told, Bytes
<1>3. ASSUME n < 256 PROVE Bytes(n) = 1
  <2>1. IntToSys(n, 256) = <<n>>
    BY <1>1, <1>3, IntToSysIs
  <2> QED BY <2>1 DEF Bytes
<1>4. ASSUME ~(n < 256) PROVE Bytes(n) = Bytes(n \div 256) + 1
  <2>1. IntToSys(n, 256) = Append(IntToSys(n \div 256, 256), n % 256)
    BY <1>1, <1>4, IntToSysIs
  <2>2. n \div 256 \in Nat
    BY <1>1, Division
  <2>3. IntToSys(n \div 256, 256) \in Seq(Nat)
    BY <1>1, <2>2, DigitsTold DEF Told
  <2> QED BY <2>1, <2>3 DEF Bytes
<1> QED BY <1>2, <1>3, <1>4

BoundIs(n, bytes) ==
    /\ bytes <= 1 <=> n < 256
    /\ bytes <= 2 <=> n < 65536
    /\ bytes <= 3 <=> n < 16777216

LEMMA BytesBound ==
    ASSUME NEW n \in Nat
    PROVE  BoundIs(n, Bytes(n))
<1>1. ASSUME NEW m \in Nat PROVE Bytes(m) <= 1 <=> m < 256
  <2>1. m \div 256 \in Nat
    OBVIOUS
  <2> QED BY <2>1, BytesAre
<1>2. ASSUME NEW m \in Nat PROVE Bytes(m) <= 2 <=> m < 65536
  <2>1. PICK q \in Nat : q = m \div 256
    OBVIOUS
  <2>2. (q < 256 <=> m < 65536) /\ (m < 256 => m < 65536)
    BY <2>1
  <2>3. Bytes(q) \in Nat /\ Bytes(m) \in Nat /\ (Bytes(q) <= 1 <=> q < 256)
    BY <1>1, BytesAre
  <2>4. /\ m < 256 => Bytes(m) = 1
        /\ ~(m < 256) => Bytes(m) = Bytes(q) + 1
    BY <2>1, BytesAre
  <2> QED BY <2>2, <2>3, <2>4
<1>3. Bytes(n) <= 3 <=> n < 16777216
  <2>1. PICK q \in Nat : q = n \div 256
    OBVIOUS
  <2>2. (q < 65536 <=> n < 16777216) /\ (n < 256 => n < 16777216)
    BY <2>1
  <2>3. Bytes(q) \in Nat /\ Bytes(n) \in Nat /\ (Bytes(q) <= 2 <=> q < 65536)
    BY <1>2, BytesAre
  <2>4. /\ n < 256 => Bytes(n) = 1
        /\ ~(n < 256) => Bytes(n) = Bytes(q) + 1
    BY <2>1, BytesAre
  <2> QED BY <2>2, <2>3, <2>4
<1> QED BY <1>1, <1>2, <1>3 DEF BoundIs

-----------------------------------------------------------------------------
(* Texts joined.                                                           *)

\* The first i texts joined, from the first i - 1: such a function exists.
FlatAt(ws, flat, i) == IF i = 1 THEN ws[i] ELSE flat[i - 1] \o ws[i]

FlatTo(ws, n, flat) == flat = [i \in 1..n |-> FlatAt(ws, flat, i)]

LEMMA FlatExist ==
    ASSUME NEW ws, NEW n \in Nat
    PROVE  \E flat : FlatTo(ws, n, flat)
<1> DEFINE Bad == {k \in Nat : ~\E flat : FlatTo(ws, k, flat)}
<1> SUFFICES ASSUME Bad # {} PROVE FALSE
  OBVIOUS
<1>1. PICK k \in Bad : \A y \in Bad : k <= y
  <2>1. Bad \in SUBSET Nat
    OBVIOUS
  <2> HIDE DEF Bad
  <2> QED BY <2>1, LeastNat
<1>2. k \in Nat /\ ~\E flat : FlatTo(ws, k, flat)
  OBVIOUS
<1>3. \E f : k # 0 => FlatTo(ws, k - 1, f)
  <2>1. k # 0 => k - 1 \in Nat /\ k - 1 \notin Bad
    BY <1>1, <1>2
  <2> QED BY <2>1
<1>4. PICK f : k # 0 => FlatTo(ws, k - 1, f)
  BY <1>3
<1> DEFINE g == [i \in 1..k |-> IF i = k THEN FlatAt(ws, f, k) ELSE f[i]]
<1>5. ASSUME NEW i \in 1..k PROVE g[i] = FlatAt(ws, g, i)
  <2>1. i # 1 => i - 1 \in 1..k /\ i - 1 # k
    BY <1>2
  <2>2. i # 1 => g[i - 1] = f[i - 1]
    BY <2>1
  <2>3. g[i] = IF i = k THEN FlatAt(ws, f, k) ELSE f[i]
    OBVIOUS
  <2> HIDE DEF g
  <2>4. FlatAt(ws, g, i) = FlatAt(ws, f, i)
    BY <2>2 DEF FlatAt
  <2>5. i # k => f[i] = FlatAt(ws, f, i)
    <3>1. i # k => i \in 1..(k - 1) /\ k # 0
      BY <1>2
    <3> QED BY <1>4, <3>1 DEF FlatTo
  <2> QED BY <2>3, <2>4, <2>5
<1>6. g = [i \in 1..k |-> g[i]]
  OBVIOUS
<1> HIDE DEF g
<1>7. FlatTo(ws, k, g)
  BY <1>5, <1>6, Zenon DEF FlatTo
<1> QED BY <1>2, <1>7

Flat(ws) == CHOOSE flat : FlatTo(ws, Len(ws), flat)

\* FlattenSeq is the last of the texts joined so far.
LEMMA FlatIs ==
    ASSUME NEW T, NEW ws \in Seq(T)
    PROVE  /\ ws = <<>> => FlattenSeq(ws) = <<>>
           /\ ws # <<>> => FlattenSeq(ws) = Flat(ws)[Len(ws)]
           /\ \A i \in 1..Len(ws) : Flat(ws)[i] = FlatAt(ws, Flat(ws), i)
<1>1. Len(ws) \in Nat /\ (Len(ws) = 0 <=> ws = <<>>)
  OBVIOUS
<1>2. FlattenSeq(ws) = IF Len(ws) = 0 THEN ws ELSE Flat(ws)[Len(ws)]
  BY Zenon DEF FlattenSeq, Flat, FlatTo, FlatAt
<1>3. FlatTo(ws, Len(ws), Flat(ws))
  BY <1>1, FlatExist, Zenon DEF Flat
<1> PICK f : f = Flat(ws)
  OBVIOUS
<1>4. \A i \in 1..Len(ws) : f[i] = FlatAt(ws, f, i)
  BY <1>3 DEF FlatTo
<1> QED BY <1>1, <1>2, <1>4

\* The parts up to k, joined, are a text, and the same whatever follows.
LEMMA FlatFirst ==
    ASSUME NEW T, NEW ws \in Seq(Seq(T)), NEW vs \in Seq(Seq(T)), NEW k \in Nat,
           k \in 1..Len(ws), k \in 1..Len(vs), \A i \in 1..k : ws[i] = vs[i]
    PROVE  Flat(ws)[k] \in Seq(T) /\ Flat(ws)[k] = Flat(vs)[k]
<1> PICK f, g : f = Flat(ws) /\ g = Flat(vs)
  OBVIOUS
<1>1. ASSUME NEW i \in 1..k PROVE f[i] = FlatAt(ws, f, i) /\ g[i] = FlatAt(vs, g, i)
  <2>1. i \in 1..Len(ws) /\ i \in 1..Len(vs)
    OBVIOUS
  <2> QED BY <2>1, FlatIs
<1> DEFINE Bad == {i \in 1..k : ~(f[i] \in Seq(T) /\ f[i] = g[i])}
<1> SUFFICES ASSUME Bad # {} PROVE FALSE
  <2>1. k \in 1..k
    OBVIOUS
  <2> QED BY <2>1
<1>2. PICK i \in Bad : \A y \in Bad : i <= y
  <2>1. Bad \in SUBSET Nat
    OBVIOUS
  <2> HIDE DEF Bad
  <2> QED BY <2>1, LeastNat
<1>3. i \in 1..k /\ i \in Nat /\ ~(f[i] \in Seq(T) /\ f[i] = g[i])
  OBVIOUS
<1>4. ws[i] \in Seq(T) /\ ws[i] = vs[i]
  BY <1>3
<1>5. CASE i = 1
  <2>1. f[i] = ws[i] /\ g[i] = vs[i]
    BY <1>1, <1>3, <1>5, Zenon DEF FlatAt
  <2> QED BY <1>3, <1>4, <2>1
<1>6. CASE i # 1
  <2>1. i - 1 \in 1..k /\ ~(i <= i - 1)
    BY <1>3, <1>6
  <2>2. f[i - 1] \in Seq(T) /\ f[i - 1] = g[i - 1]
    BY <1>2, <2>1
  <2>3. f[i] = f[i - 1] \o ws[i] /\ g[i] = g[i - 1] \o vs[i]
    BY <1>1, <1>3, <1>6 DEF FlatAt
  <2>4. f[i - 1] \o ws[i] \in Seq(T)
    BY <1>4, <2>2, ConcatProperties
  <2> QED BY <1>3, <1>4, <2>2, <2>3, <2>4
<1> QED BY <1>5, <1>6

\* Texts joined are a text.
LEMMA FlatType ==
    ASSUME NEW T, NEW ws \in Seq(Seq(T))
    PROVE  FlattenSeq(ws) \in Seq(T)
<1>1. CASE ws = <<>>
  BY <1>1, FlatIs, EmptySeq
<1>2. CASE ws # <<>>
  <2>1. Len(ws) \in 1..Len(ws) /\ Len(ws) \in Nat
    BY <1>2
  <2>2. Flat(ws)[Len(ws)] \in Seq(T)
    BY <2>1, FlatFirst
  <2> QED BY <1>2, <2>2, FlatIs
<1> QED BY <1>1, <1>2

\* One text more.
LEMMA FlatAppend ==
    ASSUME NEW T, NEW ws \in Seq(Seq(T)), NEW w \in Seq(T)
    PROVE  FlattenSeq(Append(ws, w)) = FlattenSeq(ws) \o w
<1> PICK vs : vs = Append(ws, w)
  OBVIOUS
<1>1. /\ vs \in Seq(Seq(T)) /\ Len(vs) = Len(ws) + 1 /\ vs # <<>> /\ vs[Len(ws) + 1] = w
      /\ \A i \in 1..Len(ws) : vs[i] = ws[i]
  BY AppendProperties
<1>2. Len(ws) \in Nat /\ Len(vs) \in 1..Len(vs)
  BY <1>1
<1>3. FlattenSeq(vs) = FlatAt(vs, Flat(vs), Len(vs))
  BY <1>1, <1>2, FlatIs
<1>4. CASE ws = <<>>
  <2>1. FlattenSeq(vs) = w
    BY <1>1, <1>3, <1>4 DEF FlatAt
  <2>2. <<>> \o w = w
    BY ConcatEmptySeq
  <2> QED BY <1>4, <2>1, <2>2, FlatIs
<1>5. CASE ws # <<>>
  <2>1. Len(ws) \in 1..Len(ws) /\ Len(ws) \in 1..Len(vs) /\ Len(vs) # 1 /\ Len(vs) - 1 = Len(ws)
    BY <1>1, <1>2, <1>5
  <2>2. FlattenSeq(vs) = Flat(vs)[Len(ws)] \o w
    BY <1>1, <1>3, <2>1 DEF FlatAt
  <2>3. Flat(ws)[Len(ws)] = Flat(vs)[Len(ws)]
    <3>1. \A i \in 1..Len(ws) : ws[i] = vs[i]
      BY <1>1
    <3> QED BY <1>1, <1>2, <2>1, <3>1, FlatFirst
  <2> QED BY <1>5, <2>2, <2>3, FlatIs
<1> QED BY <1>4, <1>5

\* Joining in any order.
Joins(T) == \A a, b, c \in Seq(T) : (a \o b) \o c = a \o (b \o c)

LEMMA ConcatJoins ==
    ASSUME NEW T
    PROVE  Joins(T)
<1>1. ASSUME NEW a \in Seq(T), NEW b \in Seq(T), NEW c \in Seq(T)
      PROVE  (a \o b) \o c = a \o (b \o c)
  BY ConcatAssociative
<1> QED BY <1>1, Zenon DEF Joins

\* The parts of two sequences, one behind the other.
LEMMA FlatConcat ==
    ASSUME NEW T, NEW us \in Seq(Seq(T)), NEW ws \in Seq(Seq(T))
    PROVE  FlattenSeq(us \o ws) = FlattenSeq(us) \o FlattenSeq(ws)
<1> DEFINE Good(vs) == FlattenSeq(us \o vs) = FlattenSeq(us) \o FlattenSeq(vs)
           Bad == {n \in Nat : \E vs \in Seq(Seq(T)) : Len(vs) = n /\ ~Good(vs)}
<1> SUFFICES ASSUME ~Good(ws) PROVE FALSE
  OBVIOUS
<1>1. Len(ws) \in Bad
  OBVIOUS
<1>2. PICK n \in Bad : \A y \in Bad : n <= y
  <2>1. Bad \in SUBSET Nat
    OBVIOUS
  <2> HIDE DEF Bad
  <2> QED BY <1>1, <2>1, LeastNat
<1>3. PICK vs \in Seq(Seq(T)) : n \in Nat /\ Len(vs) = n /\ ~Good(vs)
  OBVIOUS
<1>4. CASE vs = <<>>
  <2>1. us \o vs = us /\ FlattenSeq(vs) = <<>> /\ FlattenSeq(us) \in Seq(T)
    BY <1>4, ConcatEmptySeq, FlatIs, FlatType
  <2> QED BY <1>3, <2>1, ConcatEmptySeq
<1>5. CASE vs # <<>>
  <2>1. PICK xs \in Seq(Seq(T)), w \in Seq(T) : vs = Append(xs, w)
    BY <1>5, SequenceEmptyOrAppend
  <2>2. Len(xs) \in Nat /\ ~(n <= Len(xs))
    <3>1. Len(vs) = n
      BY <1>3
    <3>2. Len(xs) \in Nat /\ Len(vs) = Len(xs) + 1
      BY <2>1, AppendProperties
    <3> QED BY <3>1, <3>2
  <2>3. Good(xs)
    <3>1. Len(xs) \notin Bad
      <4> HIDE DEF Bad
      <4> QED BY <1>2, <2>2
    <3> HIDE DEF Good
    <3> QED BY <2>2, <3>1
  <2>4. us \o vs = Append(us \o xs, w)
    <3>1. us \o xs \in Seq(Seq(T)) /\ <<w>> \in Seq(Seq(T))
      <4>1. us \o xs \in Seq(Seq(T))
        BY ConcatProperties
      <4> QED BY <4>1
    <3>2. vs = xs \o <<w>> /\ Append(us \o xs, w) = (us \o xs) \o <<w>>
      BY <2>1, <3>1, AppendIsConcat
    <3>3. (us \o xs) \o <<w>> = us \o (xs \o <<w>>)
      <4>1. PICK z, S : z = <<w>> /\ S = Seq(T)
        OBVIOUS
      <4>2. us \in Seq(S) /\ xs \in Seq(S) /\ z \in Seq(S)
        BY <3>1, <4>1
      <4>3. Joins(S)
        BY ConcatJoins
      <4>4. (us \o xs) \o z = us \o (xs \o z)
        BY <4>2, <4>3, Zenon DEF Joins
      <4> QED BY <4>1, <4>4, Zenon
    <3> QED BY <3>2, <3>3, Zenon
  <2>5. FlattenSeq(us \o vs) = FlattenSeq(us \o xs) \o w
    <3>1. us \o xs \in Seq(Seq(T))
      BY ConcatProperties
    <3>2. FlattenSeq(Append(us \o xs, w)) = FlattenSeq(us \o xs) \o w
      BY <3>1, FlatAppend
    <3> QED BY <2>4, <3>2
  <2>6. FlattenSeq(vs) = FlattenSeq(xs) \o w
    BY <2>1, FlatAppend
  <2>7. FlattenSeq(us) \in Seq(T) /\ FlattenSeq(xs) \in Seq(T)
    BY FlatType
  <2>8. (FlattenSeq(us) \o FlattenSeq(xs)) \o w = FlattenSeq(us) \o (FlattenSeq(xs) \o w)
    <3>1. Joins(T)
      BY ConcatJoins
    <3> QED BY <2>7, <3>1, Zenon DEF Joins
  <2> QED BY <1>3, <2>3, <2>5, <2>6, <2>8
<1> QED BY <1>4, <1>5

\* Place j of the joined text is place p of part k.
PartAt(ws, j, k, p) ==
    /\ k \in 1..Len(ws) /\ p \in 1..Len(ws[k])
    /\ j = Len(FlattenSeq(SubSeq(ws, 1, k - 1))) + p

\* Every place is one of a part.
LEMMA PartExists ==
    ASSUME NEW T, NEW ws \in Seq(Seq(T)), NEW j \in 1..Len(FlattenSeq(ws))
    PROVE  \E k \in Nat, p \in Nat : PartAt(ws, j, k, p)
<1> DEFINE Good(vs) == j \in 1..Len(FlattenSeq(vs)) => \E k \in Nat, p \in Nat : PartAt(vs, j, k, p)
           Bad == {n \in Nat : \E vs \in Seq(Seq(T)) : Len(vs) = n /\ ~Good(vs)}
<1> SUFFICES ASSUME ~Good(ws) PROVE FALSE
  OBVIOUS
<1>1. Len(ws) \in Bad
  OBVIOUS
<1>2. PICK n \in Bad : \A y \in Bad : n <= y
  <2>1. Bad \in SUBSET Nat
    OBVIOUS
  <2> HIDE DEF Bad
  <2> QED BY <1>1, <2>1, LeastNat
<1>3. PICK vs \in Seq(Seq(T)) : n \in Nat /\ Len(vs) = n /\ ~Good(vs)
  OBVIOUS
<1>4. CASE vs = <<>>
  <2>1. FlattenSeq(vs) = <<>>
    BY <1>4, FlatIs
  <2> QED BY <1>3, <2>1
<1>5. CASE vs # <<>>
  <2>1. PICK xs \in Seq(Seq(T)), w \in Seq(T) : vs = Append(xs, w)
    BY <1>5, SequenceEmptyOrAppend
  <2>2. Len(xs) \in Nat /\ ~(n <= Len(xs)) /\ Len(vs) = Len(xs) + 1
    BY <1>3, <2>1
  <2>3. Good(xs)
    <3>1. Len(xs) \notin Bad
      <4> HIDE DEF Bad
      <4> QED BY <1>2, <2>2
    <3> HIDE DEF Good
    <3> QED BY <2>2, <3>1
  <2>4. FlattenSeq(vs) = FlattenSeq(xs) \o w /\ FlattenSeq(xs) \in Seq(T)
    BY <2>1, FlatAppend, FlatType
  <2>5. Len(FlattenSeq(vs)) = Len(FlattenSeq(xs)) + Len(w) /\ Len(FlattenSeq(xs)) \in Nat
    BY <2>4
  <2>6. j \in 1..Len(FlattenSeq(vs)) /\ j \in Nat
    BY <1>3
  <2>7. /\ vs[Len(vs)] = w /\ SubSeq(vs, 1, Len(vs) - 1) = xs
        /\ \A k \in 1..Len(xs) : vs[k] = xs[k] /\ SubSeq(vs, 1, k - 1) = SubSeq(xs, 1, k - 1)
    <3>1. vs[Len(vs)] = w /\ \A k \in 1..Len(xs) : vs[k] = xs[k]
      BY <2>1, <2>2
    <3>2. ASSUME NEW k \in 0..Len(xs) PROVE SubSeq(vs, 1, k) = SubSeq(xs, 1, k)
      BY <2>1, <2>2
    <3>3. SubSeq(xs, 1, Len(xs)) = xs
      BY SubSeqFull
    <3>4. \A k \in 1..Len(xs) : k - 1 \in 0..Len(xs)
      BY <2>2
    <3>5. Len(xs) \in 0..Len(xs) /\ Len(vs) - 1 = Len(xs)
      BY <2>2
    <3> QED BY <3>1, <3>2, <3>3, <3>4, <3>5
  <2>8. CASE j <= Len(FlattenSeq(xs))
    <3>1. PICK k \in Nat, p \in Nat : PartAt(xs, j, k, p)
      BY <2>3, <2>5, <2>6, <2>8
    <3>2. k \in 1..Len(xs) /\ k \in 1..Len(vs)
      BY <2>2, <3>1 DEF PartAt
    <3>3. PartAt(vs, j, k, p)
      BY <2>7, <3>1, <3>2 DEF PartAt
    <3> QED BY <1>3, <3>3
  <2>9. CASE ~(j <= Len(FlattenSeq(xs)))
    <3>1. PICK p \in Nat : j = Len(FlattenSeq(xs)) + p /\ p \in 1..Len(w)
      <4>1. PICK m \in Nat : m = Len(FlattenSeq(xs))
        BY <2>5, Zenon
      <4>2. PICK p \in Nat : p = j - m
        <5>1. j - m \in Nat
          BY <2>6, <2>9, <4>1
        <5> QED BY <5>1, Zenon
      <4>3. Len(w) \in Nat /\ p \in 1..Len(w) /\ j = m + p
        BY <2>5, <2>6, <2>9, <4>1, <4>2
      <4> QED BY <4>1, <4>3, Zenon
    <3>2. Len(vs) \in 1..Len(vs) /\ Len(vs) \in Nat
      BY <2>2
    <3>3. PartAt(vs, j, Len(vs), p)
      BY <2>7, <3>1, <3>2 DEF PartAt
    <3> QED BY <1>3, <3>2, <3>3
  <2> QED BY <2>8, <2>9
<1> QED BY <1>4, <1>5

\* The joined text, cut around part k.
Pieces(T, t, a, w, b) ==
    a \in Seq(T) /\ w \in Seq(T) /\ b \in Seq(T) /\ t = a \o (w \o b)

CutAt(ws, k, us, vs) ==
    /\ us = SubSeq(ws, 1, k - 1) /\ vs = SubSeq(ws, k + 1, Len(ws))

\* A sequence around its place k.
LEMMA CutHere ==
    ASSUME NEW S, NEW s \in Seq(S), NEW k \in 1..Len(s)
    PROVE  s = Append(SubSeq(s, 1, k - 1), s[k]) \o SubSeq(s, k + 1, Len(s))
<1>1. Append(SubSeq(s, 1, k - 1), s[k]) = SubSeq(s, 1, k)
  <2>1. SubSeq(s, 1, k - 1) \in Seq(S) /\ Len(SubSeq(s, 1, k - 1)) = k - 1 /\ s[k] \in S
    OBVIOUS
  <2>2. SubSeq(s, 1, k) \in Seq(S) /\ Len(SubSeq(s, 1, k)) = k
    OBVIOUS
  <2>3. Append(SubSeq(s, 1, k - 1), s[k]) \in Seq(S) /\ Len(Append(SubSeq(s, 1, k - 1), s[k])) = k
    BY <2>1
  <2>4. \A i \in 1..k : Append(SubSeq(s, 1, k - 1), s[k])[i] = SubSeq(s, 1, k)[i]
    OBVIOUS
  <2> QED BY <2>2, <2>3, <2>4, SeqEqual
<1>2. 1 \in 1..(Len(s) + 1) /\ k \in (1 - 1)..Len(s) /\ Len(s) \in k..Len(s)
  OBVIOUS
<1>3. SubSeq(s, 1, k) \o SubSeq(s, k + 1, Len(s)) = SubSeq(s, 1, Len(s))
  BY <1>2, ConcatAdjacentSubSeq
<1> QED BY <1>1, <1>3, SubSeqFull

LEMMA FlatCut ==
    ASSUME NEW T, NEW ws \in Seq(Seq(T)), NEW k \in 1..Len(ws), NEW us, NEW vs,
           CutAt(ws, k, us, vs)
    PROVE  /\ us \in Seq(Seq(T)) /\ vs \in Seq(Seq(T))
           /\ Pieces(T, FlattenSeq(ws), FlattenSeq(us), ws[k], FlattenSeq(vs))
<1>1. us = SubSeq(ws, 1, k - 1) /\ vs = SubSeq(ws, k + 1, Len(ws)) /\ ws[k] \in Seq(T)
  BY DEF CutAt
<1>2. us \in Seq(Seq(T)) /\ vs \in Seq(Seq(T))
  <2>1. us \in Seq(Seq(T))
    BY <1>1
  <2>2. vs \in Seq(Seq(T))
    BY <1>1
  <2> QED BY <2>1, <2>2
<1>3. ws = Append(us, ws[k]) \o vs
  <2>. PICK S : S = Seq(T)
    OBVIOUS
  <2>1. ws \in Seq(S)
    OBVIOUS
  <2>2. ws = Append(SubSeq(ws, 1, k - 1), ws[k]) \o SubSeq(ws, k + 1, Len(ws))
    BY <2>1, CutHere
  <2> QED BY <1>1, <2>2
<1>4. Append(us, ws[k]) \in Seq(Seq(T))
  BY <1>1, <1>2
<1>5. FlattenSeq(us) \in Seq(T) /\ FlattenSeq(vs) \in Seq(T)
  BY <1>2, FlatType
<1>6. FlattenSeq(ws) = FlattenSeq(Append(us, ws[k])) \o FlattenSeq(vs)
  BY <1>2, <1>3, <1>4, FlatConcat
<1>7. FlattenSeq(Append(us, ws[k])) = FlattenSeq(us) \o ws[k]
  BY <1>1, <1>2, FlatAppend
<1>8. Joins(T)
  BY ConcatJoins
<1>9. (FlattenSeq(us) \o ws[k]) \o FlattenSeq(vs) = FlattenSeq(us) \o (ws[k] \o FlattenSeq(vs))
  BY <1>1, <1>5, <1>8, Zenon DEF Joins
<1>10. FlattenSeq(ws) = FlattenSeq(us) \o (ws[k] \o FlattenSeq(vs))
  BY <1>6, <1>7, <1>9, Zenon
<1> QED BY <1>1, <1>2, <1>5, <1>10, Zenon DEF Pieces

\* What a cut keeps.
LEMMA CutIs ==
    ASSUME NEW T, NEW s \in Seq(T), NEW i \in 1..(Len(s) + 1), NEW j \in (i - 1)..Len(s)
    PROVE  /\ SubSeq(s, i, j) \in Seq(T) /\ Len(SubSeq(s, i, j)) = j - i + 1
           /\ \A k \in 1..(j - i + 1) : SubSeq(s, i, j)[k] = s[i + k - 1]
OBVIOUS

\* What can be read in a text of three pieces.
Apart(T, t, a, w, b) ==
    /\ t \in Seq(T) /\ Len(t) = Len(a) + Len(w) + Len(b)
    /\ Len(a) \in Nat /\ Len(w) \in Nat /\ Len(b) \in Nat
    /\ \A q \in 1..Len(w) : t[Len(a) + q] = w[q]
    /\ SubSeq(t, 1, Len(a)) = a
    /\ SubSeq(t, Len(a) + 1, Len(a) + Len(w)) = w
    /\ SubSeq(t, Len(a) + Len(w) + 1, Len(t)) = b

LEMMA PartTold ==
    ASSUME NEW T, NEW t, NEW a, NEW w, NEW b, Pieces(T, t, a, w, b)
    PROVE  Apart(T, t, a, w, b)
<1>0. /\ a \in Seq(T) /\ w \in Seq(T) /\ b \in Seq(T)
      /\ t = a \o (w \o b)
  BY DEF Pieces
<1>9. PICK c : c = w \o b
  OBVIOUS
<1>1. /\ c \in Seq(T) /\ Len(c) = Len(w) + Len(b)
      /\ \A i \in 1..(Len(w) + Len(b)) : c[i] = IF i <= Len(w) THEN w[i] ELSE b[i - Len(w)]
  BY <1>0, <1>9, ConcatProperties
<1>2. /\ t \in Seq(T) /\ Len(t) = Len(a) + Len(c)
      /\ \A i \in 1..(Len(a) + Len(c)) : t[i] = IF i <= Len(a) THEN a[i] ELSE c[i - Len(a)]
  BY <1>0, <1>1, <1>9, ConcatProperties
<1>3. Len(a) \in Nat /\ Len(w) \in Nat /\ Len(b) \in Nat
  BY <1>0
<1>4. Len(t) = Len(a) + Len(w) + Len(b)
  BY <1>1, <1>2, <1>3
<1>5. ASSUME NEW q \in 1..Len(w) PROVE t[Len(a) + q] = w[q]
  BY <1>1, <1>2, <1>3
<1>6. SubSeq(t, 1, Len(a)) = a
  <2>1. SubSeq(t, 1, Len(a)) \in Seq(T) /\ Len(SubSeq(t, 1, Len(a))) = Len(a)
    BY <1>2, <1>3, <1>4
  <2>2. \A i \in 1..Len(a) : SubSeq(t, 1, Len(a))[i] = a[i]
    BY <1>2, <1>3, <1>4
  <2> QED BY <1>0, <2>1, <2>2, SeqEqual
<1>7. SubSeq(t, Len(a) + 1, Len(a) + Len(w)) = w
  <2>. PICK s : s = SubSeq(t, Len(a) + 1, Len(a) + Len(w))
    OBVIOUS
  <2>1. s \in Seq(T) /\ Len(s) = Len(w)
    BY <1>2, <1>3, <1>4
  <2>2. ASSUME NEW i \in 1..Len(w) PROVE s[i] = w[i]
    <3>1. s[i] = t[Len(a) + i]
      BY <1>2, <1>3, <1>4
    <3> QED BY <1>5, <3>1
  <2> QED BY <1>0, <2>1, <2>2, SeqEqual
<1>8. SubSeq(t, Len(a) + Len(w) + 1, Len(t)) = b
  <2>. PICK s : s = SubSeq(t, Len(a) + Len(w) + 1, Len(t))
    OBVIOUS
  <2>1. s \in Seq(T) /\ Len(s) = Len(b)
    BY <1>2, <1>3, <1>4
  <2>2. ASSUME NEW i \in 1..Len(b) PROVE s[i] = b[i]
    <3>1. s[i] = t[Len(a) + Len(w) + i]
      <4>0. PICK m, o, n : m = Len(a) + Len(w) /\ o = m + 1 /\ n = m + Len(b)
        OBVIOUS
      <4>1. /\ m \in Nat /\ o \in Nat /\ n \in Nat
            /\ m = Len(a) + Len(w) /\ o = m + 1 /\ n = m + Len(b)
        BY <1>3, <4>0
      <4>2. Len(t) = n
        BY <1>4, <4>1
      <4>3. o \in 1..(Len(t) + 1) /\ n \in (o - 1)..Len(t)
        BY <1>3, <4>1, <4>2
      <4>4. i \in 1..(n - o + 1) /\ o + i - 1 = m + i
        BY <1>3, <4>1
      <4>5. s = SubSeq(t, o, n)
        BY <4>1, <4>2
      <4>6. t \in Seq(T)
        BY <1>2
      <4>7. SubSeq(t, o, n)[i] = t[o + i - 1]
        BY <4>3, <4>4, <4>6, CutIs
      <4> QED BY <4>1, <4>4, <4>5, <4>7
    <3>2. t[Len(a) + Len(w) + i] = c[Len(w) + i]
      <4>1. /\ Len(a) + Len(w) + i \in 1..(Len(a) + Len(c)) /\ ~(Len(a) + Len(w) + i <= Len(a))
            /\ (Len(a) + Len(w) + i) - Len(a) = Len(w) + i
        BY <1>1, <1>3
      <4> QED BY <1>2, <4>1
    <3>3. c[Len(w) + i] = b[i]
      <4>1. /\ Len(w) + i \in 1..(Len(w) + Len(b)) /\ ~(Len(w) + i <= Len(w))
            /\ (Len(w) + i) - Len(w) = i
        BY <1>3
      <4> QED BY <1>1, <4>1
    <3> QED BY <3>1, <3>2, <3>3
  <2> QED BY <1>0, <2>1, <2>2, SeqEqual
<1> QED BY <1>2, <1>3, <1>4, <1>5, <1>6, <1>7, <1>8 DEF Apart

-----------------------------------------------------------------------------
(* StringReplace in a text joined of parts that it cannot confuse.           *)

\* Equal within i..j, equal when cut there.
LEMMA SameWithin ==
    ASSUME NEW T, NEW s \in Seq(T), NEW a \in Seq(T), NEW i \in Nat \ {0}, NEW j \in Nat,
           j <= Len(s), j <= Len(a), \A k \in i..j : s[k] = a[k]
    PROVE  SubSeq(s, i, j) = SubSeq(a, i, j)
<1>1. \A k \in 1..(j - i + 1) : SubSeq(s, i, j)[k] = SubSeq(a, i, j)[k]
  OBVIOUS
<1> QED BY <1>1

\* The rest of a text from a place on.
LEMMA Rest ==
    ASSUME NEW S, NEW s \in Seq(S), NEW m \in 1..(Len(s) + 1)
    PROVE  SubSeq(s, m, Len(s)) \in Seq(S) /\ Len(SubSeq(s, m, Len(s))) = Len(s) - m + 1
OBVIOUS

\* Replacing by something shorter makes a text shorter.
LEMMA Shorter ==
    ASSUME NEW S, NEW sub \in Seq(S), NEW rep \in Seq(S), Len(rep) < Len(sub),
           NEW t \in Seq(S), Occurrences(t, sub) # {},
           NEW u, u = ReplacedAt(t, Min(Occurrences(t, sub)), Len(sub), rep)
    PROVE  u \in Seq(S) /\ Len(u) \in Nat /\ Len(u) < Len(t)
<1>1. sub \in Seq(S) /\ rep \in Seq(S) /\ t \in Seq(S)
  OBVIOUS
<1>2. Len(sub) \in Nat /\ Len(rep) \in Nat /\ Len(t) \in Nat
  BY <1>1
<1>3. Occurrences(t, sub) \in SUBSET Nat
  BY <1>2 DEF Occurrences
<1>4. PICK i : i = Min(Occurrences(t, sub)) /\ i \in Occurrences(t, sub)
  BY <1>3, MinIs
<1>5. i \in 1..(Len(t) - Len(sub) + 1)
  BY <1>4 DEF Occurrences
<1>. PICK a, b : a = SubSeq(t, 1, i - 1) /\ b = SubSeq(t, i + Len(sub), Len(t))
  OBVIOUS
<1>6. a \in Seq(S) /\ Len(a) = i - 1 /\ b \in Seq(S) /\ Len(b) = Len(t) - (i + Len(sub)) + 1
  <2>1. i - 1 \in 0..Len(t)
    BY <1>2, <1>5
  <2>2. a \in Seq(S) /\ Len(a) = i - 1
    BY <1>1, <2>1
  <2>3. PICK m \in Nat : m = i + Len(sub)
    BY <1>2, <1>5
  <2>4. m \in 1..(Len(t) + 1)
    BY <1>2, <1>5, <2>3
  <2>5. b = SubSeq(t, m, Len(t))
    BY <2>3
  <2>6. b \in Seq(S) /\ Len(b) = Len(t) - m + 1
    BY <1>1, <1>2, <2>4, <2>5, Rest
  <2> QED BY <2>2, <2>3, <2>6
<1>7. a \o rep \in Seq(S) /\ Len(a \o rep) = Len(a) + Len(rep)
  BY <1>1, <1>6, ConcatProperties
<1> PICK c : c = a \o rep
  OBVIOUS
<1>8. c \o b \in Seq(S) /\ Len(c \o b) = Len(c) + Len(b)
  BY <1>6, <1>7, ConcatProperties
<1>9. u = c \o b
  BY <1>4 DEF ReplacedAt
<1>10. Len(u) = Len(a) + Len(rep) + Len(b)
  BY <1>7, <1>8, <1>9, Zenon
<1>11. Len(u) = (i - 1) + Len(rep) + (Len(t) - (i + Len(sub)) + 1) /\ i \in Nat
  BY <1>5, <1>6, <1>10
<1>12. Len(u) \in Nat /\ Len(u) < Len(t)
  <2>1. i >= 1 /\ i <= Len(t) - Len(sub) + 1
    BY <1>2, <1>5
  <2> QED BY <1>2, <1>11, <2>1
<1>13. u \in Seq(S)
  BY <1>8, <1>9, Zenon
<1> QED BY <1>12, <1>13

\* In the parts of W the token at d of sub is found again only in sub itself, at
\* d, or where the token at e of sub cannot be read beside it.
Anchored(W, sub, d, e) ==
    \A w \in W : \A p \in 1..Len(w) :
       w[p] = sub[d] => \/ w = sub /\ p = d
                        \/ p + e - d \in 1..Len(w) /\ w[p + e - d] # sub[e]

\* An occurrence in a text joined of such parts is a part.
LEMMA OccursAsPart ==
    ASSUME NEW T, NEW W \in SUBSET Seq(T), NEW sub \in W, NEW d \in 1..Len(sub), NEW e \in 1..Len(sub),
           Anchored(W, sub, d, e), NEW ws \in Seq(W), NEW i \in Nat,
           i \in Occurrences(FlattenSeq(ws), sub)
    PROVE  \E k \in Nat : PartAt(ws, i, k, 1) /\ ws[k] = sub
<1>. PICK t : t = FlattenSeq(ws)
  OBVIOUS
<1>1. ws \in Seq(Seq(T)) /\ sub \in Seq(T) /\ Len(sub) \in Nat
  <2>1. Seq(W) \in SUBSET Seq(Seq(T))
    <3>1. W \in SUBSET Seq(T)
      OBVIOUS
    <3> QED BY <3>1, SeqMonotonic
  <2> QED BY <2>1
<1>2. t \in Seq(T) /\ Len(t) \in Nat
  BY <1>1, FlatType
<1>3. i \in 1..(Len(t) - Len(sub) + 1) /\ SubSeq(t, i, i + Len(sub) - 1) = sub
  BY DEF Occurrences
<1>4. \A q \in 1..Len(sub) : t[i + q - 1] = sub[q]
  <2> SUFFICES ASSUME NEW q \in 1..Len(sub) PROVE t[i + q - 1] = sub[q]
    OBVIOUS
  <2>. PICK s : s = SubSeq(t, i, i + Len(sub) - 1)
    OBVIOUS
  <2>1. s[q] = t[i + q - 1]
    <3>1. i \in 1..Len(t) /\ i + Len(sub) - 1 \in 1..Len(t) /\ q \in 1..((i + Len(sub) - 1) - i + 1)
      BY <1>1, <1>2, <1>3
    <3> QED BY <1>2, <3>1
  <2> QED BY <1>3, <2>1
<1>5. PICK j \in Nat : j = i + d - 1 /\ j \in 1..Len(t)
  <2>1. i + d - 1 \in Nat /\ i + d - 1 \in 1..Len(t)
    BY <1>1, <1>2, <1>3
  <2> QED BY <2>1, Zenon
<1>6. PICK k \in Nat, p \in Nat : PartAt(ws, j, k, p)
  BY <1>1, <1>5, PartExists
<1>7. k \in 1..Len(ws) /\ p \in 1..Len(ws[k]) /\ j = Len(FlattenSeq(SubSeq(ws, 1, k - 1))) + p
  BY <1>6 DEF PartAt
<1>. PICK us, vs : CutAt(ws, k, us, vs)
  BY DEF CutAt
<1>. PICK a, w, b : a = FlattenSeq(us) /\ w = ws[k] /\ b = FlattenSeq(vs)
  OBVIOUS
<1>8. Pieces(T, t, a, w, b)
  BY <1>1, <1>7, FlatCut
<1>9. /\ Len(a) \in Nat /\ Len(w) \in Nat
      /\ \A q \in 1..Len(w) : t[Len(a) + q] = w[q]
  <2>1. Apart(T, t, a, w, b)
    BY <1>8, PartTold
  <2> QED BY <2>1 DEF Apart
<1>10. j = Len(a) + p /\ p \in 1..Len(w) /\ w \in W
  BY <1>7 DEF CutAt
<1>11. w[p] = sub[d]
  <2>1. t[j] = sub[d]
    BY <1>4, <1>5
  <2>2. t[j] = w[p]
    BY <1>9, <1>10
  <2> QED BY <2>1, <2>2
<1>12. CASE w = sub /\ p = d
  <2>1. i = Len(a) + 1 /\ 1 \in 1..Len(w)
    <3>1. PICK m \in Nat : m = Len(a)
      BY <1>9, Zenon
    <3>2. i + d - 1 = m + d
      BY <1>5, <1>10, <1>12, <3>1, Zenon
    <3>3. d \in Nat
      BY <1>1
    <3>4. i = m + 1
      BY <3>2, <3>3
    <3>5. 1 \in 1..Len(w)
      BY <1>9, <1>10
    <3> QED BY <3>1, <3>4, <3>5
  <2>2. PartAt(ws, i, k, 1)
    BY <1>7, <2>1 DEF PartAt, CutAt
  <2> QED BY <1>12, <2>2
<1>13. CASE p + e - d \in 1..Len(w) /\ w[p + e - d] # sub[e]
  <2>1. t[Len(a) + (p + e - d)] = w[p + e - d]
    BY <1>9, <1>13
  <2>2. Len(a) + (p + e - d) = i + e - 1
    <3>1. d \in Nat /\ e \in Nat
      BY <1>1
    <3>2. i + d - 1 = Len(a) + p
      BY <1>5, <1>10, Zenon
    <3>5. PICK m \in Nat : m = Len(a)
      BY <1>9, Zenon
    <3>3. i + d - 1 = m + p
      BY <3>2, <3>5
    <3>4. m + (p + e - d) = i + e - 1
      BY <3>1, <3>3
    <3> QED BY <3>4, <3>5, Zenon
  <2> QED BY <1>4, <1>13, <2>1, <2>2
<1> QED BY <1>10, <1>11, <1>12, <1>13 DEF Anchored

\* A part that is sub is an occurrence.
LEMMA PartOccurs ==
    ASSUME NEW T, NEW ws \in Seq(Seq(T)), NEW k \in 1..Len(ws), Len(ws[k]) > 0
    PROVE  Occurrences(FlattenSeq(ws), ws[k]) # {}
<1>. PICK t : t = FlattenSeq(ws)
  OBVIOUS
<1>. PICK us, vs : CutAt(ws, k, us, vs)
  BY DEF CutAt
<1>. PICK a, w, b : a = FlattenSeq(us) /\ w = ws[k] /\ b = FlattenSeq(vs)
  OBVIOUS
<1>1. Pieces(T, t, a, w, b)
  BY FlatCut
<1>2. /\ Len(a) \in Nat /\ Len(w) \in Nat /\ Len(b) \in Nat /\ Len(t) = Len(a) + Len(w) + Len(b)
      /\ SubSeq(t, Len(a) + 1, Len(a) + Len(w)) = w
  <2>1. Apart(T, t, a, w, b)
    BY <1>1, PartTold
  <2> QED BY <2>1 DEF Apart
<1>3. Len(a) + 1 \in 1..(Len(t) - Len(w) + 1) /\ (Len(a) + 1) + Len(w) - 1 = Len(a) + Len(w)
  <2>1. \A x, y, z \in Nat : \A n : n = x + y + z =>
           x + 1 \in 1..(n - y + 1) /\ (x + 1) + y - 1 = x + y
    OBVIOUS
  <2> QED BY <1>2, <2>1, Zenon
<1>4. Len(a) + 1 \in Occurrences(t, w)
  BY <1>2, <1>3 DEF Occurrences
<1> QED BY <1>4

\* The parts with every sub replaced.
Instead(ws, sub, rep) == [k \in 1..Len(ws) |-> IF ws[k] = sub THEN rep ELSE ws[k]]

\* Equal but for place k, equal on both sides of it.
LEMMA SameAround ==
    ASSUME NEW S, NEW s \in Seq(S), NEW t \in Seq(S), Len(s) = Len(t), NEW k \in 1..Len(t),
           \A l \in 1..Len(t) : l # k => s[l] = t[l]
    PROVE  /\ SubSeq(s, 1, k - 1) = SubSeq(t, 1, k - 1)
           /\ SubSeq(s, k + 1, Len(t)) = SubSeq(t, k + 1, Len(t))
<1>1. /\ 1 \in Nat \ {0} /\ k - 1 \in Nat /\ k - 1 <= Len(s) /\ k - 1 <= Len(t)
      /\ \A l \in 1..(k - 1) : s[l] = t[l]
  OBVIOUS
<1>2. /\ k + 1 \in Nat \ {0} /\ Len(t) \in Nat /\ Len(t) <= Len(s) /\ Len(t) <= Len(t)
      /\ \A l \in (k + 1)..Len(t) : s[l] = t[l]
  OBVIOUS
<1>3. SubSeq(s, 1, k - 1) = SubSeq(t, 1, k - 1)
  BY <1>1, SameWithin
<1>4. SubSeq(s, k + 1, Len(t)) = SubSeq(t, k + 1, Len(t))
  BY <1>2, SameWithin
<1> QED BY <1>3, <1>4

\* What is made of the text when one part is replaced.
Exchanged(ws, k, rep, xs) == xs = [ws EXCEPT ![k] = rep]

LEMMA PartReplaced ==
    ASSUME NEW T, NEW ws \in Seq(Seq(T)), NEW k \in 1..Len(ws), NEW i, PartAt(ws, i, k, 1),
           NEW rep \in Seq(T), NEW xs, Exchanged(ws, k, rep, xs)
    PROVE  ReplacedAt(FlattenSeq(ws), i, Len(ws[k]), rep) = FlattenSeq(xs)
<1>. PICK t : t = FlattenSeq(ws)
  OBVIOUS
<1>1. xs \in Seq(Seq(T)) /\ Len(xs) = Len(ws) /\ xs[k] = rep /\ \A l \in 1..Len(ws) : l # k => xs[l] = ws[l]
  BY DEF Exchanged
<1>. PICK us, vs : CutAt(ws, k, us, vs)
  BY DEF CutAt
<1>2. CutAt(xs, k, us, vs)
  <2>. PICK S : S = Seq(T)
    OBVIOUS
  <2>1. ws \in Seq(S) /\ xs \in Seq(S)
    BY <1>1
  <2>2. /\ SubSeq(xs, 1, k - 1) = SubSeq(ws, 1, k - 1)
        /\ SubSeq(xs, k + 1, Len(ws)) = SubSeq(ws, k + 1, Len(ws))
    BY <1>1, <2>1, SameAround
  <2> QED BY <1>1, <2>2 DEF CutAt
<1>. PICK a, w, b : a = FlattenSeq(us) /\ w = ws[k] /\ b = FlattenSeq(vs)
  OBVIOUS
<1>3. Pieces(T, t, a, w, b)
  BY FlatCut
<1>4. FlattenSeq(xs) = a \o (rep \o b)
  <2>1. k \in 1..Len(xs)
    BY <1>1
  <2>2. Pieces(T, FlattenSeq(xs), a, rep, b)
    BY <1>1, <1>2, <2>1, FlatCut
  <2> QED BY <2>2 DEF Pieces
<1>5. i = Len(a) + 1
  BY DEF PartAt, CutAt
<1>6. /\ Len(a) \in Nat /\ Len(w) \in Nat /\ SubSeq(t, 1, Len(a)) = a
      /\ SubSeq(t, Len(a) + Len(w) + 1, Len(t)) = b
  <2>1. Apart(T, t, a, w, b)
    BY <1>3, PartTold
  <2> QED BY <2>1 DEF Apart
<1>7. i - 1 = Len(a) /\ i + Len(w) = Len(a) + Len(w) + 1
  <2>1. \A x, y \in Nat : (x + 1) - 1 = x /\ (x + 1) + y = x + y + 1
    OBVIOUS
  <2> QED BY <1>5, <1>6, <2>1, Zenon
<1>8. ReplacedAt(t, i, Len(w), rep) = (a \o rep) \o b
  BY <1>6, <1>7 DEF ReplacedAt
<1>9. (a \o rep) \o b = a \o (rep \o b)
  <2>1. Joins(T)
    BY ConcatJoins
  <2>2. a \in Seq(T) /\ b \in Seq(T)
    BY <1>3 DEF Pieces
  <2> QED BY <2>1, <2>2, Zenon DEF Joins
<1> QED BY <1>1, <1>4, <1>8, <1>9

\* One round of StringReplace in a text joined of such parts.
NextParts(W, sub, rep, vs, xs) ==
    /\ xs \in Seq(W) /\ FirstReplaced(FlattenSeq(vs), sub, rep) = FlattenSeq(xs)
    /\ Instead(xs, sub, rep) = Instead(vs, sub, rep)
    /\ \/ Occurrences(FlattenSeq(xs), sub) = {}
       \/ Len(FlattenSeq(xs)) < Len(FlattenSeq(vs))

LEMMA RoundOfParts ==
    ASSUME NEW T, NEW W \in SUBSET Seq(T), NEW sub \in W, NEW rep \in W, Len(rep) < Len(sub),
           NEW d \in 1..Len(sub), NEW e \in 1..Len(sub), Anchored(W, sub, d, e), NEW vs \in Seq(W)
    PROVE  \E xs : NextParts(W, sub, rep, vs, xs)
<1>. PICK t : t = FlattenSeq(vs)
  OBVIOUS
<1>1. vs \in Seq(Seq(T)) /\ t \in Seq(T) /\ sub \in Seq(T) /\ rep \in Seq(T)
  <2>1. W \in SUBSET Seq(T)
    OBVIOUS
  <2>2. vs \in Seq(Seq(T))
    BY <2>1, SeqMonotonic
  <2> QED BY <2>2, FlatType
<1>2. CASE Occurrences(t, sub) = {}
  BY <1>2 DEF NextParts, FirstReplaced
<1>3. CASE Occurrences(t, sub) # {}
  <2>1. PICK i \in Nat : i = Min(Occurrences(t, sub)) /\ i \in Occurrences(t, sub)
    <3>1. Occurrences(t, sub) \in SUBSET Nat
      BY <1>1 DEF Occurrences
    <3>2. Min(Occurrences(t, sub)) \in Occurrences(t, sub)
      BY <1>3, <3>1, MinIs
    <3> QED BY <3>1, <3>2
  <2>2. PICK k \in Nat : PartAt(vs, i, k, 1) /\ vs[k] = sub
    BY <2>1, OccursAsPart
  <2>3. k \in 1..Len(vs)
    BY <2>2 DEF PartAt
  <2>. PICK xs : xs = [vs EXCEPT ![k] = rep]
    OBVIOUS
  <2>4. ReplacedAt(t, i, Len(sub), rep) = FlattenSeq(xs)
    <3>1. Exchanged(vs, k, rep, xs)
      BY DEF Exchanged
    <3>2. ReplacedAt(FlattenSeq(vs), i, Len(vs[k]), rep) = FlattenSeq(xs)
      BY <1>1, <2>2, <2>3, <3>1, PartReplaced
    <3> QED BY <2>2, <3>2
  <2>5. xs \in Seq(W)
    BY <2>3
  <2>6. Len(FlattenSeq(xs)) < Len(t)
    BY <1>1, <1>3, <2>1, <2>4, Shorter
  <2>7. Instead(xs, sub, rep) = Instead(vs, sub, rep)
    <3>1. Len(xs) = Len(vs) /\ \A l \in 1..Len(vs) : xs[l] = IF l = k THEN rep ELSE vs[l]
      BY <2>3
    <3>2. \A l \in 1..Len(vs) : (IF xs[l] = sub THEN rep ELSE xs[l]) = (IF vs[l] = sub THEN rep ELSE vs[l])
      BY <2>2, <3>1
    <3> QED BY <3>1, <3>2 DEF Instead
  <2>8. FirstReplaced(t, sub, rep) = FlattenSeq(xs)
    BY <1>3, <2>1, <2>4 DEF FirstReplaced
  <2> QED BY <2>5, <2>6, <2>7, <2>8 DEF NextParts
<1> QED BY <1>2, <1>3

\* The text after each round of StringReplace.
AfterAt(s, sub, rep, after, n) ==
    IF n = 0 THEN s ELSE FirstReplaced(after[n - 1], sub, rep)

AfterTo(s, sub, rep, n, after) == after = [k \in 0..n |-> AfterAt(s, sub, rep, after, k)]

LEMMA AfterExist ==
    ASSUME NEW s, NEW sub, NEW rep, NEW n \in Nat
    PROVE  \E after : AfterTo(s, sub, rep, n, after)
<1> DEFINE Bad == {k \in Nat : ~\E after : AfterTo(s, sub, rep, k, after)}
<1> SUFFICES ASSUME Bad # {} PROVE FALSE
  OBVIOUS
<1>1. PICK k \in Bad : \A y \in Bad : k <= y
  <2>1. Bad \in SUBSET Nat
    OBVIOUS
  <2> HIDE DEF Bad
  <2> QED BY <2>1, LeastNat
<1>2. k \in Nat /\ ~\E after : AfterTo(s, sub, rep, k, after)
  OBVIOUS
<1>3. \E f : k # 0 => AfterTo(s, sub, rep, k - 1, f)
  <2>1. k # 0 => k - 1 \in Nat /\ k - 1 \notin Bad
    BY <1>1, <1>2
  <2> QED BY <2>1
<1>4. PICK f : k # 0 => AfterTo(s, sub, rep, k - 1, f)
  BY <1>3
<1> DEFINE g == [i \in 0..k |-> IF i = k THEN AfterAt(s, sub, rep, f, k) ELSE f[i]]
<1>5. ASSUME NEW i \in 0..k PROVE g[i] = AfterAt(s, sub, rep, g, i)
  <2>1. i # 0 => i - 1 \in 0..k /\ i - 1 # k
    BY <1>2
  <2>2. i # 0 => g[i - 1] = f[i - 1]
    BY <2>1
  <2>3. g[i] = IF i = k THEN AfterAt(s, sub, rep, f, k) ELSE f[i]
    OBVIOUS
  <2> HIDE DEF g
  <2>4. AfterAt(s, sub, rep, g, i) = AfterAt(s, sub, rep, f, i)
    BY <2>2 DEF AfterAt
  <2>5. i # k => f[i] = AfterAt(s, sub, rep, f, i)
    <3>1. i # k => i \in 0..(k - 1) /\ k # 0
      BY <1>2
    <3> QED BY <1>4, <3>1 DEF AfterTo
  <2> QED BY <2>3, <2>4, <2>5
<1>6. g = [i \in 0..k |-> g[i]]
  OBVIOUS
<1> HIDE DEF g
<1>7. AfterTo(s, sub, rep, k, g)
  BY <1>5, <1>6, Zenon DEF AfterTo
<1> QED BY <1>2, <1>7

After(s, sub, rep) == CHOOSE after : AfterTo(s, sub, rep, Len(s), after)

LEMMA StringReplaceIs ==
    ASSUME NEW s, NEW sub, NEW rep, Len(s) \in Nat
    PROVE  /\ StringReplace(s, sub, rep) = After(s, sub, rep)[Len(s)]
           /\ \A n \in 0..Len(s) :
                 After(s, sub, rep)[n] = AfterAt(s, sub, rep, After(s, sub, rep), n)
<1>1. StringReplace(s, sub, rep) = After(s, sub, rep)[Len(s)]
  BY Zenon DEF StringReplace, After, AfterTo, AfterAt
<1>2. AfterTo(s, sub, rep, Len(s), After(s, sub, rep))
  BY AfterExist, Zenon DEF After
<1> PICK f : f = After(s, sub, rep)
  OBVIOUS
<1>3. \A n \in 0..Len(s) : f[n] = AfterAt(s, sub, rep, f, n)
  BY <1>2 DEF AfterTo
<1> QED BY <1>1, <1>3

\* StringReplace in a text joined of such parts replaces the parts that are
\* sub: every round replaces one, or there is none and the text is done.
PartsAfter(W, sub, rep, ws, t, n, xs) ==
    /\ xs \in Seq(W) /\ t = FlattenSeq(xs) /\ Instead(xs, sub, rep) = Instead(ws, sub, rep)
    /\ Occurrences(t, sub) = {} \/ Len(t) + n <= Len(FlattenSeq(ws))

LEMMA PartsReplaced ==
    ASSUME NEW T, NEW W \in SUBSET Seq(T), NEW sub \in W, NEW rep \in W, Len(rep) < Len(sub),
           NEW d \in 1..Len(sub), NEW e \in 1..Len(sub), Anchored(W, sub, d, e), NEW ws \in Seq(W)
    PROVE  StringReplace(FlattenSeq(ws), sub, rep) = FlattenSeq(Instead(ws, sub, rep))
<1>. PICK s : s = FlattenSeq(ws)
  OBVIOUS
<1>1. ASSUME NEW vs \in Seq(W)
      PROVE  vs \in Seq(Seq(T)) /\ FlattenSeq(vs) \in Seq(T) /\ Len(FlattenSeq(vs)) \in Nat
  <2>1. W \in SUBSET Seq(T)
    OBVIOUS
  <2>2. vs \in Seq(Seq(T))
    BY <2>1, SeqMonotonic
  <2>3. FlattenSeq(vs) \in Seq(T)
    BY <2>2, FlatType
  <2> QED BY <2>2, <2>3
<1>2. Len(s) \in Nat /\ Len(s) \in 0..Len(s)
  BY <1>1
<1>. PICK f : f = After(s, sub, rep)
  OBVIOUS
<1>3. /\ StringReplace(s, sub, rep) = f[Len(s)]
      /\ \A n \in 0..Len(s) : f[n] = AfterAt(s, sub, rep, f, n)
  BY <1>2, StringReplaceIs
<1> DEFINE Good(n) == \E xs : PartsAfter(W, sub, rep, ws, f[n], n, xs)
           Bad == {n \in 0..Len(s) : ~Good(n)}
<1>4. Bad = {}
  <2> SUFFICES ASSUME Bad # {} PROVE FALSE
    OBVIOUS
  <2>1. PICK n \in Bad : \A y \in Bad : n <= y
    <3>1. Bad \in SUBSET Nat
      BY <1>2
    <3> HIDE DEF Bad
    <3> QED BY <3>1, LeastNat
  <2>2. n \in 0..Len(s) /\ n \in Nat /\ ~Good(n)
    BY <1>2
  <2>3. CASE n = 0
    <3>1. f[n] = s
      BY <1>3, <2>2, <2>3 DEF AfterAt
    <3>2. Len(s) + n <= Len(s)
      BY <1>2, <2>3
    <3>3. PartsAfter(W, sub, rep, ws, f[n], n, ws)
      BY <3>1, <3>2 DEF PartsAfter
    <3> QED BY <2>2, <3>3
  <2>4. CASE n # 0
    <3>1. n - 1 \in 0..Len(s) /\ ~(n <= n - 1)
      BY <1>2, <2>2, <2>4
    <3>2. Good(n - 1)
      <4> HIDE DEF Good
      <4> QED BY <2>1, <3>1
    <3>3. PICK vs : PartsAfter(W, sub, rep, ws, f[n - 1], n - 1, vs)
      BY <3>2
    <3>4. vs \in Seq(W) /\ f[n - 1] = FlattenSeq(vs) /\ Instead(vs, sub, rep) = Instead(ws, sub, rep)
      BY <3>3 DEF PartsAfter
    <3>5. PICK xs : NextParts(W, sub, rep, vs, xs)
      BY <3>4, RoundOfParts
    <3>6. f[n] = FlattenSeq(xs)
      BY <1>3, <2>2, <2>4, <3>4, <3>5 DEF AfterAt, NextParts
    <3>7. Occurrences(f[n], sub) = {} \/ Len(f[n]) + n <= Len(s)
      <4>1. CASE Occurrences(f[n - 1], sub) = {}
        BY <1>3, <2>2, <2>4, <4>1 DEF AfterAt, FirstReplaced
      <4>2. CASE Len(f[n - 1]) + (n - 1) <= Len(s) /\ Len(f[n]) < Len(f[n - 1])
        <5>1. xs \in Seq(W) /\ vs \in Seq(W)
          BY <3>4, <3>5 DEF NextParts
        <5>2. PICK x \in Nat, y \in Nat : x = Len(f[n]) /\ y = Len(f[n - 1])
          BY <1>1, <3>4, <3>6, <5>1
        <5>3. y + (n - 1) <= Len(s) /\ x < y
          BY <4>2, <5>2
        <5>4. x + n <= Len(s)
          BY <1>2, <2>2, <5>3
        <5> QED BY <5>2, <5>4
      <4>3. Occurrences(f[n], sub) = {} \/ Len(f[n]) < Len(f[n - 1])
        BY <3>4, <3>5, <3>6 DEF NextParts
      <4> QED BY <3>3, <4>1, <4>2, <4>3 DEF PartsAfter
    <3>8. PartsAfter(W, sub, rep, ws, f[n], n, xs)
      BY <3>4, <3>5, <3>6, <3>7 DEF PartsAfter, NextParts
    <3> QED BY <2>2, <3>8
  <2> QED BY <2>3, <2>4
<1>5. PICK xs : PartsAfter(W, sub, rep, ws, f[Len(s)], Len(s), xs)
  BY <1>2, <1>4
<1>6. xs \in Seq(W) /\ f[Len(s)] = FlattenSeq(xs) /\ Instead(xs, sub, rep) = Instead(ws, sub, rep)
  BY <1>5 DEF PartsAfter
<1>7. Occurrences(FlattenSeq(xs), sub) = {}
  <2>1. Len(FlattenSeq(xs)) \in Nat /\ sub \in Seq(T) /\ rep \in Seq(T) /\ Len(sub) > 0
    BY <1>1, <1>6
  <2>2. Occurrences(FlattenSeq(xs), sub) = {} \/ Len(FlattenSeq(xs)) + Len(s) <= Len(s)
    BY <1>5, <1>6 DEF PartsAfter
  <2>3. CASE Len(FlattenSeq(xs)) = 0
    BY <2>1, <2>3 DEF Occurrences
  <2> QED BY <1>2, <2>1, <2>2, <2>3
<1>8. \A k \in 1..Len(xs) : xs[k] # sub
  <2> SUFFICES ASSUME NEW k \in 1..Len(xs), xs[k] = sub PROVE FALSE
    OBVIOUS
  <2>1. Len(sub) > 0 /\ xs \in Seq(Seq(T))
    BY <1>1, <1>6
  <2> QED BY <1>7, <2>1, PartOccurs
<1>9. Instead(xs, sub, rep) = xs
  BY <1>6, <1>8 DEF Instead
<1> QED BY <1>3, <1>6, <1>9

-----------------------------------------------------------------------------
(* Blanks cut off.                                                         *)

LEMMA MaxIs ==
    ASSUME NEW n \in Nat, NEW T \in SUBSET (0..n), T # {}
    PROVE  Max(T) \in T /\ \A y \in T : y <= Max(T)
<1>1. PICK U : U = {n - y : y \in T}
  OBVIOUS
<1>2. U \in SUBSET Nat /\ U # {}
  <2>1. \A y \in T : n - y \in Nat
    OBVIOUS
  <2> QED BY <1>1, <2>1
<1>3. PICK u \in U : \A v \in U : u <= v
  BY <1>2, LeastNat
<1>4. PICK x \in T : u = n - x
  BY <1>1, <1>3
<1>5. \A y \in T : y <= x
  <2> SUFFICES ASSUME NEW y \in T PROVE y <= x
    OBVIOUS
  <2>1. n - y \in U /\ x \in 0..n /\ y \in 0..n
    BY <1>1
  <2>2. u <= n - y
    BY <1>3, <2>1
  <2> QED BY <1>4, <2>1, <2>2
<1> QED BY <1>5 DEF Max

\* The places of i..j that trim keeps the text between.
Solid(s, i, j) == {k \in i..j : s[k] # Space}

\* x and y are the first and the last of them.
Spans(s, i, j, x, y) ==
    /\ x \in Solid(s, i, j) /\ y \in Solid(s, i, j)
    /\ \A k \in Solid(s, i, j) : x <= k /\ k <= y

LEMMA SpanExists ==
    ASSUME NEW s, NEW i \in Nat, NEW j \in Nat, Solid(s, i, j) # {}
    PROVE  \E x, y \in Nat : Spans(s, i, j, x, y)
<1>. PICK S : S = Solid(s, i, j)
  OBVIOUS
<1>1. S \in SUBSET (0..j) /\ S # {} /\ S \in SUBSET Nat
  BY DEF Solid
<1>2. Min(S) \in S /\ \A k \in S : Min(S) <= k
  BY <1>1, MinIs
<1>3. Max(S) \in S /\ \A k \in S : k <= Max(S)
  BY <1>1, MaxIs
<1>4. Spans(s, i, j, Min(S), Max(S))
  BY <1>2, <1>3 DEF Spans
<1> QED BY <1>1, <1>2, <1>3, <1>4

LEMMA SpanOne ==
    ASSUME NEW s, NEW i \in Nat, NEW j \in Nat, NEW x \in Nat, NEW y \in Nat, Spans(s, i, j, x, y)
    PROVE  Min(Solid(s, i, j)) = x /\ Max(Solid(s, i, j)) = y
<1>. PICK S : S = Solid(s, i, j)
  OBVIOUS
<1>1. S \in SUBSET (0..j) /\ S # {} /\ S \in SUBSET Nat
  BY DEF Solid, Spans
<1>2. Min(S) \in S /\ \A k \in S : Min(S) <= k
  BY <1>1, MinIs
<1>3. Max(S) \in S /\ \A k \in S : k <= Max(S)
  BY <1>1, MaxIs
<1>4. x \in S /\ y \in S /\ \A k \in S : x <= k /\ k <= y
  BY DEF Spans
<1>5. Min(S) \in Nat /\ Max(S) \in Nat /\ Min(S) <= x /\ x <= Min(S) /\ Max(S) <= y /\ y <= Max(S)
  BY <1>1, <1>2, <1>3, <1>4
<1> QED BY <1>5

\* A text cut at i and j and trimmed.
LEMMA TrimCut ==
    ASSUME NEW T, NEW s \in Seq(T), NEW i \in 1..(Len(s) + 1), NEW j \in (i - 1)..Len(s)
    PROVE  /\ Solid(s, i, j) = {} => trim(SubSeq(s, i, j)) = <<>>
           /\ \A x, y \in Nat : Spans(s, i, j, x, y) => trim(SubSeq(s, i, j)) = SubSeq(s, x, y)
<1>. PICK u : u = SubSeq(s, i, j)
  OBVIOUS
<1>1. u \in Seq(T) /\ Len(u) = j - i + 1 /\ Len(u) \in Nat /\ \A k \in 1..Len(u) : u[k] = s[i + k - 1]
  OBVIOUS
<1>2. trim(u) = IF Solid(u, 1, Len(u)) = {} THEN <<>>
                ELSE SubSeq(u, Min(Solid(u, 1, Len(u))), Max(Solid(u, 1, Len(u))))
  BY DEF trim, Solid
<1>3. ASSUME Solid(s, i, j) = {} PROVE trim(u) = <<>>
  <2>1. \A k \in 1..Len(u) : i + k - 1 \in i..j
    BY <1>1
  <2>2. Solid(u, 1, Len(u)) = {}
    BY <1>1, <1>3, <2>1 DEF Solid
  <2> QED BY <1>2, <2>2
<1>4. ASSUME NEW x \in Nat, NEW y \in Nat, Spans(s, i, j, x, y) PROVE trim(u) = SubSeq(s, x, y)
  <2>1. x \in i..j /\ y \in i..j /\ s[x] # Space /\ s[y] # Space /\ x <= y
    BY <1>4 DEF Spans, Solid
  <2>2. PICK p \in Nat, q \in Nat : p = x - i + 1 /\ q = y - i + 1
    <3>1. x - i + 1 \in Nat /\ y - i + 1 \in Nat
      BY <2>1
    <3> QED BY <3>1, Zenon
  <2>3. p \in 1..Len(u) /\ q \in 1..Len(u) /\ i + p - 1 = x /\ i + q - 1 = y
    BY <1>1, <2>1, <2>2
  <2>4. Spans(u, 1, Len(u), p, q)
    <3>1. p \in Solid(u, 1, Len(u)) /\ q \in Solid(u, 1, Len(u))
      BY <1>1, <2>1, <2>3 DEF Solid
    <3>2. ASSUME NEW k \in Solid(u, 1, Len(u)) PROVE p <= k /\ k <= q
      <4>1. k \in 1..Len(u) /\ s[i + k - 1] # Space /\ i + k - 1 \in i..j
        BY <1>1 DEF Solid
      <4>2. i + k - 1 \in Solid(s, i, j)
        BY <4>1 DEF Solid
      <4>3. x <= i + k - 1 /\ i + k - 1 <= y
        BY <1>4, <4>2 DEF Spans
      <4> QED BY <2>1, <2>2, <4>1, <4>3
    <3> QED BY <3>1, <3>2 DEF Spans
  <2>5. trim(u) = SubSeq(u, p, q)
    <3>1. 1 \in Nat
      OBVIOUS
    <3>2. Min(Solid(u, 1, Len(u))) = p /\ Max(Solid(u, 1, Len(u))) = q
      BY <1>1, <2>4, <3>1, SpanOne
    <3>3. Solid(u, 1, Len(u)) # {}
      BY <2>4 DEF Spans
    <3> QED BY <1>2, <3>2, <3>3
  <2>6. SubSeq(u, p, q) = SubSeq(s, x, y)
    <3>1. SubSeq(u, p, q) \in Seq(T) /\ Len(SubSeq(u, p, q)) = q - p + 1
      BY <1>1, <2>1, <2>2, <2>3
    <3>2. SubSeq(s, x, y) \in Seq(T) /\ Len(SubSeq(s, x, y)) = y - x + 1
      BY <2>1
    <3>3. q - p + 1 = y - x + 1
      BY <2>1, <2>2
    <3>4. \A k \in 1..(y - x + 1) : SubSeq(u, p, q)[k] = SubSeq(s, x, y)[k]
      <4> SUFFICES ASSUME NEW k \in 1..(y - x + 1) PROVE SubSeq(u, p, q)[k] = SubSeq(s, x, y)[k]
        OBVIOUS
      <4>1. SubSeq(s, x, y)[k] = s[x + k - 1]
        BY <2>1
      <4>2. SubSeq(u, p, q)[k] = u[p + k - 1]
        BY <1>1, <2>1, <2>3, <3>3
      <4>3. p + k - 1 \in 1..Len(u) /\ i + (p + k - 1) - 1 = x + k - 1
        BY <1>1, <2>1, <2>3, <3>3
      <4> QED BY <1>1, <4>1, <4>2, <4>3
    <3> QED BY <3>1, <3>2, <3>3, <3>4, SeqEqual
  <2> QED BY <2>5, <2>6
<1> QED BY <1>3, <1>4

\* Cuts that differ in blanks only are trimmed to the same.
LEMMA TrimSame ==
    ASSUME NEW T, NEW s \in Seq(T), NEW i \in 1..(Len(s) + 1), NEW j \in (i - 1)..Len(s),
           NEW k \in 1..(Len(s) + 1), NEW l \in (k - 1)..Len(s), Solid(s, i, j) = Solid(s, k, l)
    PROVE  trim(SubSeq(s, i, j)) = trim(SubSeq(s, k, l))
<1>1. CASE Solid(s, i, j) = {}
  BY <1>1, TrimCut
<1>2. CASE Solid(s, i, j) # {}
  <2>1. i \in Nat /\ j \in Nat
    OBVIOUS
  <2>2. PICK x, y \in Nat : Spans(s, i, j, x, y)
    BY <1>2, <2>1, SpanExists
  <2>3. Spans(s, k, l, x, y)
    BY <2>2 DEF Spans
  <2>4. trim(SubSeq(s, i, j)) = SubSeq(s, x, y)
    BY <2>2, TrimCut
  <2>5. trim(SubSeq(s, k, l)) = SubSeq(s, x, y)
    BY <2>3, TrimCut
  <2> QED BY <2>4, <2>5
<1> QED BY <1>1, <1>2

\* Trimmed texts are texts, cut from the text.
LEMMA TrimIs ==
    ASSUME NEW T, NEW s \in Seq(T)
    PROVE  /\ Solid(s, 1, Len(s)) = {} => trim(s) = <<>>
           /\ \A x, y \in Nat : Spans(s, 1, Len(s), x, y) => trim(s) = SubSeq(s, x, y)
           /\ trim(s) \in Seq(T) /\ trim(trim(s)) = trim(s)
<1>1. SubSeq(s, 1, Len(s)) = s /\ Len(s) \in Nat /\ 1 \in 1..(Len(s) + 1) /\ Len(s) \in (1 - 1)..Len(s)
  BY SubSeqFull
<1>2. /\ Solid(s, 1, Len(s)) = {} => trim(s) = <<>>
      /\ \A x, y \in Nat : Spans(s, 1, Len(s), x, y) => trim(s) = SubSeq(s, x, y)
  <2>1. /\ Solid(s, 1, Len(s)) = {} => trim(SubSeq(s, 1, Len(s))) = <<>>
        /\ \A x, y \in Nat : Spans(s, 1, Len(s), x, y) => trim(SubSeq(s, 1, Len(s))) = SubSeq(s, x, y)
    BY <1>1, TrimCut
  <2> QED BY <1>1, <2>1
<1>3. CASE Solid(s, 1, Len(s)) = {}
  <2>1. trim(<<>>) = <<>> /\ <<>> \in Seq(T)
    BY DEF trim
  <2>2. trim(s) = <<>>
    BY <1>2, <1>3
  <2> QED BY <1>2, <2>1, <2>2
<1>4. CASE Solid(s, 1, Len(s)) # {}
  <2>1. PICK x, y \in Nat : Spans(s, 1, Len(s), x, y)
    BY <1>1, <1>4, SpanExists
  <2>2. x \in 1..Len(s) /\ y \in 1..Len(s) /\ x <= y
    BY <2>1 DEF Spans, Solid
  <2>3. trim(s) = SubSeq(s, x, y) /\ SubSeq(s, x, y) \in Seq(T)
    BY <1>2, <2>1, <2>2
  <2>4. Solid(s, x, y) = Solid(s, 1, Len(s))
    <3>1. ASSUME NEW k \in Solid(s, 1, Len(s)) PROVE k \in Solid(s, x, y)
      <4>1. x <= k /\ k <= y
        BY <2>1 DEF Spans
      <4>2. k \in 1..Len(s) /\ s[k] # Space
        BY DEF Solid
      <4> QED BY <2>2, <4>1, <4>2 DEF Solid
    <3>2. Solid(s, x, y) \subseteq Solid(s, 1, Len(s))
      BY <2>2 DEF Solid
    <3> QED BY <3>1, <3>2
  <2>5. trim(SubSeq(s, x, y)) = trim(SubSeq(s, 1, Len(s)))
    <3>1. x \in 1..(Len(s) + 1) /\ y \in (x - 1)..Len(s)
      BY <2>2
    <3> QED BY <1>1, <2>4, <3>1, TrimSame
  <2> QED BY <1>1, <1>2, <2>3, <2>5
<1> QED BY <1>2, <1>3, <1>4

-----------------------------------------------------------------------------
(* The loops of pos and ConfToBufor, place by place.                       *)

MatchAt(sub, s, after, i) ==
    IF i = 0 THEN [k |-> 1, last |-> 0]
    ELSE IF after[i - 1].k <= Len(sub) /\ s[i] = sub[after[i - 1].k]
    THEN [k |-> after[i - 1].k + 1, last |-> i] ELSE after[i - 1]

MatchTo(sub, s, n, after) == after = [i \in 0..n |-> MatchAt(sub, s, after, i)]

LEMMA MatchExist ==
    ASSUME NEW sub, NEW s, NEW n \in Nat
    PROVE  \E after : MatchTo(sub, s, n, after)
<1> DEFINE Bad == {k \in Nat : ~\E after : MatchTo(sub, s, k, after)}
<1> SUFFICES ASSUME Bad # {} PROVE FALSE
  OBVIOUS
<1>1. PICK k \in Bad : \A y \in Bad : k <= y
  <2>1. Bad \in SUBSET Nat
    OBVIOUS
  <2> HIDE DEF Bad
  <2> QED BY <2>1, LeastNat
<1>2. k \in Nat /\ ~\E after : MatchTo(sub, s, k, after)
  OBVIOUS
<1>3. \E f : k # 0 => MatchTo(sub, s, k - 1, f)
  <2>1. k # 0 => k - 1 \in Nat /\ k - 1 \notin Bad
    BY <1>1, <1>2
  <2> QED BY <2>1
<1>4. PICK f : k # 0 => MatchTo(sub, s, k - 1, f)
  BY <1>3
<1> DEFINE g == [i \in 0..k |-> IF i = k THEN MatchAt(sub, s, f, k) ELSE f[i]]
<1>5. ASSUME NEW i \in 0..k PROVE g[i] = MatchAt(sub, s, g, i)
  <2>1. i # 0 => i - 1 \in 0..k /\ i - 1 # k
    BY <1>2
  <2>2. i # 0 => g[i - 1] = f[i - 1]
    BY <2>1
  <2>3. g[i] = IF i = k THEN MatchAt(sub, s, f, k) ELSE f[i]
    OBVIOUS
  <2> HIDE DEF g
  <2>4. MatchAt(sub, s, g, i) = MatchAt(sub, s, f, i)
    BY <2>2 DEF MatchAt
  <2>5. i # k => f[i] = MatchAt(sub, s, f, i)
    <3>1. i # k => i \in 0..(k - 1) /\ k # 0
      BY <1>2
    <3> QED BY <1>4, <3>1 DEF MatchTo
  <2> QED BY <2>3, <2>4, <2>5
<1>6. g = [i \in 0..k |-> g[i]]
  OBVIOUS
<1> HIDE DEF g
<1>7. MatchTo(sub, s, k, g)
  BY <1>5, <1>6, Zenon DEF MatchTo
<1> QED BY <1>2, <1>7

Match(sub, s) == CHOOSE after : MatchTo(sub, s, Len(s), after)

LEMMA MatchedIs ==
    ASSUME NEW sub, NEW s, Len(s) \in Nat
    PROVE  /\ Matched(sub, s) = Match(sub, s)[Len(s)]
           /\ \A i \in 0..Len(s) : Match(sub, s)[i] = MatchAt(sub, s, Match(sub, s), i)
<1>1. Matched(sub, s) = Match(sub, s)[Len(s)]
  BY Zenon DEF Matched, Match, MatchTo, MatchAt
<1>2. MatchTo(sub, s, Len(s), Match(sub, s))
  BY MatchExist, Zenon DEF Match
<1> PICK f : f = Match(sub, s)
  OBVIOUS
<1>3. \A i \in 0..Len(s) : f[i] = MatchAt(sub, s, f, i)
  BY <1>2 DEF MatchTo
<1> QED BY <1>1, <1>3

\* pos of a single token is its first place, or 0.
LEMMA PosOne ==
    ASSUME NEW T, NEW s \in Seq(T), NEW c, NEW e \in Nat, FirstAt(s, 1, c, e)
    PROVE  pos(<<c>>, s) = IF e <= Len(s) THEN e ELSE 0
<1>. PICK sub : sub = <<c>>
  OBVIOUS
<1>. PICK f : f = Match(sub, s)
  OBVIOUS
<1>1. Len(s) \in Nat /\ Len(sub) = 1 /\ sub[1] = c /\ e \in 1..(Len(s) + 1)
  BY DEF FirstAt
<1>2. Matched(sub, s) = f[Len(s)] /\ \A i \in 0..Len(s) : f[i] = MatchAt(sub, s, f, i)
  BY <1>1, MatchedIs
<1> DEFINE Good(i) == f[i] = IF i < e THEN [k |-> 1, last |-> 0] ELSE [k |-> 2, last |-> e]
           Bad == {i \in 0..Len(s) : ~Good(i)}
<1>3. Bad = {}
  <2> SUFFICES ASSUME Bad # {} PROVE FALSE
    OBVIOUS
  <2>1. PICK i \in Bad : \A y \in Bad : i <= y
    <3>1. Bad \in SUBSET Nat
      BY <1>1
    <3> HIDE DEF Bad
    <3> QED BY <3>1, LeastNat
  <2>2. i \in 0..Len(s) /\ i \in Nat /\ ~Good(i)
    BY <1>1
  <2>3. CASE i = 0
    <3>1. f[0] = [k |-> 1, last |-> 0]
      BY <1>2, <2>2, <2>3 DEF MatchAt
    <3> QED BY <1>1, <2>2, <2>3, <3>1
  <2>4. CASE i # 0
    <3>1. i - 1 \in 0..Len(s) /\ ~(i <= i - 1)
      BY <1>1, <2>2, <2>4
    <3>2. Good(i - 1)
      <4> HIDE DEF Good
      <4> QED BY <2>1, <3>1
    <3>3. f[i] = IF f[i - 1].k <= Len(sub) /\ s[i] = sub[f[i - 1].k]
                 THEN [k |-> f[i - 1].k + 1, last |-> i] ELSE f[i - 1]
      BY <1>2, <2>2, <2>4 DEF MatchAt
    <3>4. CASE i < e
      <4>1. s[i] # c
        BY <1>1, <2>2, <2>4, <3>4 DEF FirstAt
      <4>2. f[i - 1] = [k |-> 1, last |-> 0]
        BY <1>1, <2>2, <3>2, <3>4
      <4>3. f[i] = [k |-> 1, last |-> 0]
        BY <1>1, <3>3, <4>1, <4>2
      <4> QED BY <2>2, <3>4, <4>3
    <3>5. CASE i = e
      <4>1. s[i] = c
        BY <1>1, <2>2, <3>5 DEF FirstAt
      <4>2. f[i - 1] = [k |-> 1, last |-> 0]
        BY <1>1, <2>2, <3>2, <3>5
      <4>3. f[i] = [k |-> 2, last |-> e]
        BY <1>1, <3>3, <3>5, <4>1, <4>2
      <4> QED BY <1>1, <2>2, <3>5, <4>3
    <3>6. CASE i > e
      <4>2. f[i - 1] = [k |-> 2, last |-> e]
        BY <1>1, <2>2, <3>2, <3>6
      <4>3. f[i] = [k |-> 2, last |-> e]
        BY <1>1, <3>3, <4>2
      <4> QED BY <1>1, <2>2, <3>6, <4>3
    <3> QED BY <1>1, <2>2, <3>4, <3>5, <3>6
  <2> QED BY <2>3, <2>4
<1>4. Good(Len(s))
  BY <1>1, <1>3
<1>5. pos(sub, s) = IF f[Len(s)].k > Len(sub) THEN f[Len(s)].last - Len(sub) + 1 ELSE 0
  BY <1>2, Zenon DEF pos
<1>6. CASE e <= Len(s)
  <2>1. f[Len(s)] = [k |-> 2, last |-> e]
    BY <1>1, <1>4, <1>6
  <2>2. pos(sub, s) = (e - 1) + 1
    BY <1>1, <1>5, <2>1
  <2> QED BY <1>1, <1>6, <2>2
<1>7. CASE ~(e <= Len(s))
  <2>1. f[Len(s)] = [k |-> 1, last |-> 0]
    BY <1>1, <1>4, <1>7
  <2>2. pos(sub, s) = 0
    BY <1>1, <1>5, <2>1
  <2> QED BY <1>7, <2>2
<1> QED BY <1>6, <1>7

ReadAt(file, after, i) ==
    IF i = 0 THEN [line |-> <<>>, bufor |-> <<>>]
    ELSE IF file[i] = Newline
    THEN [line |-> <<>>, bufor |-> after[i - 1].bufor \o ConfLine(after[i - 1].line)]
    ELSE [line |-> Append(after[i - 1].line, file[i]), bufor |-> after[i - 1].bufor]

ReadTo(file, n, after) == after = [i \in 0..n |-> ReadAt(file, after, i)]

LEMMA ReadExist ==
    ASSUME NEW file, NEW n \in Nat
    PROVE  \E after : ReadTo(file, n, after)
<1> DEFINE Bad == {k \in Nat : ~\E after : ReadTo(file, k, after)}
<1> SUFFICES ASSUME Bad # {} PROVE FALSE
  OBVIOUS
<1>1. PICK k \in Bad : \A y \in Bad : k <= y
  <2>1. Bad \in SUBSET Nat
    OBVIOUS
  <2> HIDE DEF Bad
  <2> QED BY <2>1, LeastNat
<1>2. k \in Nat /\ ~\E after : ReadTo(file, k, after)
  OBVIOUS
<1>3. \E f : k # 0 => ReadTo(file, k - 1, f)
  <2>1. k # 0 => k - 1 \in Nat /\ k - 1 \notin Bad
    BY <1>1, <1>2
  <2> QED BY <2>1
<1>4. PICK f : k # 0 => ReadTo(file, k - 1, f)
  BY <1>3
<1> DEFINE g == [i \in 0..k |-> IF i = k THEN ReadAt(file, f, k) ELSE f[i]]
<1>5. ASSUME NEW i \in 0..k PROVE g[i] = ReadAt(file, g, i)
  <2>1. i # 0 => i - 1 \in 0..k /\ i - 1 # k
    BY <1>2
  <2>2. i # 0 => g[i - 1] = f[i - 1]
    BY <2>1
  <2>3. g[i] = IF i = k THEN ReadAt(file, f, k) ELSE f[i]
    OBVIOUS
  <2> HIDE DEF g
  <2>4. ReadAt(file, g, i) = ReadAt(file, f, i)
    BY <2>2 DEF ReadAt
  <2>5. i # k => f[i] = ReadAt(file, f, i)
    <3>1. i # k => i \in 0..(k - 1) /\ k # 0
      BY <1>2
    <3> QED BY <1>4, <3>1 DEF ReadTo
  <2> QED BY <2>3, <2>4, <2>5
<1>6. g = [i \in 0..k |-> g[i]]
  OBVIOUS
<1> HIDE DEF g
<1>7. ReadTo(file, k, g)
  BY <1>5, <1>6, Zenon DEF ReadTo
<1> QED BY <1>2, <1>7

LEMMA ReadIs ==
    ASSUME NEW file, Len(file) \in Nat
    PROVE  \A i \in 0..Len(file) : Read(file)[i] = ReadAt(file, Read(file), i)
<1>1. Read(file) = CHOOSE after : ReadTo(file, Len(file), after)
  BY Zenon DEF Read, ReadTo, ReadAt
<1>2. ReadTo(file, Len(file), Read(file))
  BY <1>1, ReadExist, Zenon
<1> PICK f : f = Read(file)
  OBVIOUS
<1>3. \A i \in 0..Len(file) : f[i] = ReadAt(file, f, i)
  BY <1>2 DEF ReadTo
<1> QED BY <1>3

-----------------------------------------------------------------------------
(* Name and value of a line.                                               *)

LEMMA CutAgain ==
    ASSUME NEW T, NEW s \in Seq(T), NEW x \in 1..(Len(s) + 1), NEW y \in (x - 1)..Len(s),
           NEW p \in 1..(y - x + 2), NEW q \in (p - 1)..(y - x + 1),
           NEW m \in Nat, NEW n \in Nat, m = x + p - 1, n = x + q - 1
    PROVE  SubSeq(SubSeq(s, x, y), p, q) = SubSeq(s, m, n)
<1>. PICK u : u = SubSeq(s, x, y)
  OBVIOUS
<1>1. u \in Seq(T) /\ Len(u) = y - x + 1 /\ \A k \in 1..(y - x + 1) : u[k] = s[x + k - 1]
  OBVIOUS
<1>2. SubSeq(u, p, q) \in Seq(T) /\ Len(SubSeq(u, p, q)) = q - p + 1
  BY <1>1
<1>3. m = x + p - 1 /\ n = x + q - 1
  OBVIOUS
<1>4. /\ SubSeq(s, m, n) \in Seq(T) /\ Len(SubSeq(s, m, n)) = n - m + 1
      /\ \A k \in 1..(n - m + 1) : SubSeq(s, m, n)[k] = s[m + k - 1]
  <2>1. m \in 1..(Len(s) + 1) /\ n \in (m - 1)..Len(s)
    BY <1>3
  <2> QED BY <2>1, CutIs
<1>5. \A k \in 1..(q - p + 1) : SubSeq(u, p, q)[k] = SubSeq(s, m, n)[k]
  <2> SUFFICES ASSUME NEW k \in 1..(q - p + 1) PROVE SubSeq(u, p, q)[k] = SubSeq(s, m, n)[k]
    OBVIOUS
  <2>1. SubSeq(u, p, q)[k] = u[p + k - 1]
    BY <1>1
  <2>2. p + k - 1 \in 1..(y - x + 1) /\ x + (p + k - 1) - 1 = m + k - 1 /\ k \in 1..(n - m + 1)
    BY <1>3
  <2>3. SubSeq(s, m, n)[k] = s[m + k - 1]
    BY <1>4, <2>2
  <2> QED BY <1>1, <2>1, <2>2, <2>3
<1>6. SubSeq(u, p, q) = SubSeq(s, m, n)
  <2>1. q - p + 1 = n - m + 1
    BY <1>3
  <2> QED BY <1>2, <1>4, <1>5, <2>1, SeqEqual
<1> QED BY <1>6

\* The first place of a token in a cut.
LEMMA FirstWithin ==
    ASSUME NEW T, NEW s \in Seq(T), NEW x \in 1..Len(s), NEW y \in x..Len(s), NEW c,
           NEW from \in x..(y + 1), NEW e \in Nat, FirstAt(s, from, c, e),
           NEW f \in Nat, f = from - x + 1, NEW d \in Nat, d = IF e <= y THEN e - x + 1 ELSE y - x + 2
    PROVE  FirstAt(SubSeq(s, x, y), f, c, d)
<1>. PICK a : a = SubSeq(s, x, y)
  OBVIOUS
<1>1. Len(a) = y - x + 1 /\ \A k \in 1..(y - x + 1) : a[k] = s[x + k - 1]
  BY CutIs
<1>2. /\ e \in from..(Len(s) + 1) /\ (e <= Len(s) => s[e] = c)
      /\ \A i \in from..(e - 1) : s[i] # c
  BY DEF FirstAt
<1>3. d \in f..(Len(a) + 1)
  BY <1>1, <1>2
<1>4. d <= Len(a) => a[d] = c
  <2> SUFFICES ASSUME d <= Len(a) PROVE a[d] = c
    OBVIOUS
  <2>1. e <= y /\ x + d - 1 = e /\ d \in 1..(y - x + 1) /\ e <= Len(s)
    BY <1>1, <1>2
  <2>2. a[d] = s[x + d - 1]
    BY <1>1, <2>1
  <2> QED BY <1>2, <2>1, <2>2
<1>5. ASSUME NEW i \in f..(d - 1) PROVE a[i] # c
  <2>1. i \in 1..(y - x + 1) /\ x + i - 1 \in from..(e - 1)
    BY <1>1, <1>2
  <2>2. a[i] = s[x + i - 1]
    BY <1>1, <2>1
  <2> QED BY <1>2, <2>1, <2>2
<1>6. FirstAt(a, f, c, d)
  BY <1>3, <1>4, <1>5 DEF FirstAt
<1> QED BY <1>6

\* e and g are the first two places of sep, or behind the text.
Cuts(a, sep, e, g) ==
    FirstAt(a, 1, sep, e) /\ IF e <= Len(a) THEN FirstAt(a, e + 1, sep, g) ELSE g = e

LEMMA CutsExist ==
    ASSUME NEW T, NEW a \in Seq(T), NEW sep
    PROVE  \E e, g \in Nat : Cuts(a, sep, e, g)
<1>1. 1 \in 1..(Len(a) + 1)
  OBVIOUS
<1>2. PICK e \in Nat : FirstAt(a, 1, sep, e)
  BY <1>1, FirstExists
<1>3. CASE e <= Len(a)
  <2>1. e + 1 \in 1..(Len(a) + 1)
    BY <1>3
  <2>2. PICK g \in Nat : FirstAt(a, e + 1, sep, g)
    BY <2>1, FirstExists
  <2> QED BY <1>2, <1>3, <2>2 DEF Cuts
<1>4. CASE ~(e <= Len(a))
  BY <1>2, <1>4 DEF Cuts
<1> QED BY <1>3, <1>4

Lacks(a, c) == \A i \in 1..Len(a) : a[i] # c

\* The first two fields are what is between them.
LEMMA CutFields ==
    ASSUME NEW T, NEW a \in Seq(T), NEW sep \in T, sep # Quote, Lacks(a, Quote),
           NEW e \in Nat, NEW g \in Nat, Cuts(a, sep, e, g)
    PROVE  /\ GetLineToStr(a, 1, sep, <<>>) = SubSeq(a, 1, e - 1)
           /\ GetLineToStr(a, 2, sep, <<>>) = SubSeq(a, e + 1, g - 1)
<1> USE DEF Lacks
<1>1. \A t : OrDefault(t, <<>>) = t
  BY DEF OrDefault
<1>2. FirstAt(a, 1, sep, e) /\ e \in 1..(Len(a) + 1) /\ Len(a) \in Nat
  BY DEF Cuts, FirstAt
<1>3. GetLineToStr(a, 1, sep, <<>>) = SubSeq(a, 1, e - 1)
  <2>1. GetLineToStr(a, 1, sep, <<>>) = OrDefault(SubSeq(a, 1, e - 1), <<>>)
    BY <1>2, FirstTwoFields
  <2> QED BY <1>1, <2>1
<1>4. CASE e <= Len(a)
  <2>1. FirstAt(a, e + 1, sep, g)
    BY <1>4 DEF Cuts
  <2>2. GetLineToStr(a, 2, sep, <<>>) = OrDefault(SubSeq(a, e + 1, g - 1), <<>>)
    BY <1>2, <1>4, <2>1, FirstTwoFields
  <2> QED BY <1>1, <1>3, <2>2
<1>5. CASE ~(e <= Len(a))
  <2>1. e = Len(a) + 1 /\ g = e
    BY <1>2, <1>5 DEF Cuts
  <2>2. SubSeq(a, e + 1, g - 1) = <<>>
    BY <2>1
  <2>3. GetLineToStr(a, 2, sep, <<>>) = <<>>
    BY <1>2, <2>1, FirstTwoFields
  <2> QED BY <1>3, <2>2, <2>3
<1> QED BY <1>4, <1>5

\* Blanks around a line make no difference to its trimmed fields.
LEMMA TrimmedFields ==
    ASSUME NEW T, NEW s \in Seq(T), NEW sep \in T, sep # Quote, sep # Space, Lacks(s, Quote)
    PROVE  /\ trim(GetLineToStr(trim(s), 1, sep, <<>>)) = trim(GetLineToStr(s, 1, sep, <<>>))
           /\ trim(GetLineToStr(trim(s), 2, sep, <<>>)) = trim(GetLineToStr(s, 2, sep, <<>>))
<1>. PICK e \in Nat, g \in Nat : Cuts(s, sep, e, g)
  BY CutsExist
<1>. PICK a : a = trim(s)
  OBVIOUS
<1>1. /\ e \in 1..(Len(s) + 1) /\ (e <= Len(s) => s[e] = sep) /\ \A i \in 1..(e - 1) : s[i] # sep
      /\ e <= Len(s) => /\ g \in (e + 1)..(Len(s) + 1) /\ (g <= Len(s) => s[g] = sep)
                        /\ \A i \in (e + 1)..(g - 1) : s[i] # sep
      /\ ~(e <= Len(s)) => g = e
      /\ Len(s) \in Nat
  BY DEF Cuts, FirstAt
<1>2. /\ GetLineToStr(s, 1, sep, <<>>) = SubSeq(s, 1, e - 1)
      /\ GetLineToStr(s, 2, sep, <<>>) = SubSeq(s, e + 1, g - 1)
  BY CutFields
<1>3. CASE Solid(s, 1, Len(s)) = {}
  <2>1. a = <<>> /\ e = Len(s) + 1 /\ g = e
    BY <1>1, <1>3, TrimIs DEF Solid
  <2>2. GetLineToStr(s, 1, sep, <<>>) = s /\ GetLineToStr(s, 2, sep, <<>>) = <<>>
    <3>1. SubSeq(s, 1, Len(s)) = s /\ SubSeq(s, e + 1, e - 1) = <<>>
      BY <1>1, SubSeqFull
    <3>2. e - 1 = Len(s)
      BY <1>1, <2>1
    <3> QED BY <1>2, <2>1, <3>1, <3>2
  <2>3. GetLineToStr(<<>>, 1, sep, <<>>) = <<>> /\ GetLineToStr(<<>>, 2, sep, <<>>) = <<>>
    <3>1. Cuts(<<>>, sep, 1, 1)
      BY DEF Cuts, FirstAt
    <3>2. <<>> \in Seq(T) /\ Lacks(<<>>, Quote) /\ 1 \in Nat
      BY DEF Lacks
    <3>3. SubSeq(<<>>, 1, 1 - 1) = <<>> /\ SubSeq(<<>>, 1 + 1, 1 - 1) = <<>>
      OBVIOUS
    <3>4. /\ GetLineToStr(<<>>, 1, sep, <<>>) = SubSeq(<<>>, 1, 1 - 1)
          /\ GetLineToStr(<<>>, 2, sep, <<>>) = SubSeq(<<>>, 1 + 1, 1 - 1)
      BY <3>1, <3>2, CutFields
    <3> QED BY <3>3, <3>4
  <2>4. trim(s) = <<>> /\ trim(<<>>) = <<>>
    BY <2>1 DEF trim
  <2> QED BY <2>1, <2>2, <2>3, <2>4
<1>4. CASE Solid(s, 1, Len(s)) # {}
  <2>1. PICK x \in Nat, y \in Nat : Spans(s, 1, Len(s), x, y)
    BY <1>1, <1>4, SpanExists
  <2>2. /\ x \in 1..Len(s) /\ y \in 1..Len(s) /\ x <= y
        /\ \A k \in 1..Len(s) : s[k] # Space => x <= k /\ k <= y
    BY <2>1 DEF Spans, Solid
  <2>3. a = SubSeq(s, x, y)
    BY <2>1, TrimIs
  <2>4. a \in Seq(T) /\ Len(a) = y - x + 1 /\ \A k \in 1..Len(a) : a[k] = s[x + k - 1]
    BY <2>2, <2>3
  <2>5. a \in Seq(T) /\ Lacks(a, Quote)
    <3>1. ASSUME NEW i \in 1..Len(a) PROVE a[i] # Quote
      <4>1. x + i - 1 \in 1..Len(s)
        BY <2>2, <2>4
      <4> QED BY <2>4, <4>1 DEF Lacks
    <3> QED BY <2>4, <3>1 DEF Lacks
  <2>6. CASE ~(e <= Len(s))
    <3>1. e = Len(s) + 1 /\ g = e
      BY <1>1, <2>6
    <3>2. PICK d \in Nat : d = Len(a) + 1
      BY <2>4
    <3>3. Cuts(a, sep, d, d)
      BY <1>1, <2>2, <2>4, <3>1, <3>2 DEF Cuts, FirstAt
    <3>4. /\ GetLineToStr(a, 1, sep, <<>>) = SubSeq(a, 1, d - 1)
          /\ GetLineToStr(a, 2, sep, <<>>) = SubSeq(a, d + 1, d - 1)
      BY <2>5, <3>3, CutFields
    <3>5. /\ SubSeq(a, 1, d - 1) = a /\ SubSeq(s, 1, e - 1) = s
          /\ SubSeq(a, d + 1, d - 1) = <<>> /\ SubSeq(s, e + 1, g - 1) = <<>>
      <4>1. d - 1 = Len(a) /\ e - 1 = Len(s)
        BY <1>1, <2>4, <3>1, <3>2
      <4>2. SubSeq(a, 1, d - 1) = a /\ SubSeq(s, 1, e - 1) = s
        BY <2>4, <4>1, SubSeqFull
      <4>3. SubSeq(a, d + 1, d - 1) = <<>> /\ SubSeq(s, e + 1, g - 1) = <<>>
        BY <2>4, <3>1
      <4> QED BY <4>2, <4>3
    <3>6. trim(a) = trim(s)
      BY TrimIs
    <3> QED BY <1>2, <3>4, <3>5, <3>6
  <2>7. CASE e <= Len(s)
    <3>1. x <= e /\ e <= y /\ g \in (e + 1)..(Len(s) + 1)
      BY <1>1, <2>2, <2>7
    <3>2. PICK d \in Nat : d = e - x + 1
      BY <3>1
    <3>3. FirstAt(a, 1, sep, d) /\ d <= Len(a)
      <4>1. d <= Len(a) /\ y \in x..Len(s) /\ 1 \in Nat
        BY <2>2, <2>4, <3>1, <3>2
      <4>2. FirstAt(s, x, sep, e)
        BY <1>1, <2>2, <3>1 DEF FirstAt
      <4>3. x \in x..(y + 1) /\ 1 = x - x + 1 /\ d = IF e <= y THEN e - x + 1 ELSE y - x + 2
        BY <2>2, <3>1, <3>2
      <4>4. FirstAt(SubSeq(s, x, y), 1, sep, d)
        BY <2>2, <4>1, <4>2, <4>3, FirstWithin
      <4> QED BY <2>3, <4>1, <4>4
    <3>4. SubSeq(a, 1, d - 1) = SubSeq(s, x, e - 1)
      <4>1. /\ x \in 1..(Len(s) + 1) /\ y \in (x - 1)..Len(s) /\ 1 \in 1..(y - x + 2)
            /\ d - 1 \in (1 - 1)..(y - x + 1)
        BY <2>2, <3>1, <3>2
      <4>2. x = x + 1 - 1 /\ e - 1 = x + (d - 1) - 1 /\ e - 1 \in Nat
        BY <1>1, <3>2
      <4>3. SubSeq(SubSeq(s, x, y), 1, d - 1) = SubSeq(s, x, e - 1)
        BY <4>1, <4>2, CutAgain
      <4> QED BY <2>3, <4>3
    <3>5. trim(SubSeq(s, x, e - 1)) = trim(SubSeq(s, 1, e - 1))
      <4>1. /\ x \in 1..(Len(s) + 1) /\ e - 1 \in (x - 1)..Len(s) /\ 1 \in 1..(Len(s) + 1)
            /\ e - 1 \in (1 - 1)..Len(s)
        BY <1>1, <2>2, <3>1
      <4>2. Solid(s, x, e - 1) = Solid(s, 1, e - 1)
        BY <1>1, <2>2, <3>1 DEF Solid
      <4> QED BY <4>1, <4>2, TrimSame
    <3>6. CASE g <= y
      <4>1. PICK h \in Nat : h = g - x + 1
        BY <3>1
      <4>2. Cuts(a, sep, d, h)
        <5>1. FirstAt(a, d + 1, sep, h)
          <6>1. y \in x..Len(s) /\ FirstAt(s, e + 1, sep, g) /\ d + 1 \in Nat
            BY <1>1, <2>2, <2>7 DEF FirstAt
          <6>2. /\ e + 1 \in x..(y + 1) /\ d + 1 = (e + 1) - x + 1
                /\ h = IF g <= y THEN g - x + 1 ELSE y - x + 2
            BY <2>2, <3>1, <3>2, <3>6, <4>1
          <6> QED BY <2>2, <2>3, <6>1, <6>2, FirstWithin
        <5> QED BY <3>3, <5>1 DEF Cuts
      <4>3. SubSeq(a, d + 1, h - 1) = SubSeq(s, e + 1, g - 1)
        <5>1. /\ x \in 1..(Len(s) + 1) /\ y \in (x - 1)..Len(s) /\ d + 1 \in 1..(y - x + 2)
              /\ h - 1 \in ((d + 1) - 1)..(y - x + 1)
          BY <2>2, <3>1, <3>2, <3>6, <4>1
        <5>2. e + 1 = x + (d + 1) - 1 /\ g - 1 = x + (h - 1) - 1 /\ e + 1 \in Nat /\ g - 1 \in Nat
          BY <1>1, <3>1, <3>2, <4>1
        <5>3. SubSeq(SubSeq(s, x, y), d + 1, h - 1) = SubSeq(s, e + 1, g - 1)
          BY <5>1, <5>2, CutAgain
        <5> QED BY <2>3, <5>3
      <4>4. /\ GetLineToStr(a, 1, sep, <<>>) = SubSeq(a, 1, d - 1)
            /\ GetLineToStr(a, 2, sep, <<>>) = SubSeq(a, d + 1, h - 1)
        BY <2>5, <4>2, CutFields
      <4> QED BY <1>2, <3>4, <3>5, <4>3, <4>4
    <3>7. CASE ~(g <= y)
      <4>1. g = Len(s) + 1
        BY <1>1, <2>2, <2>7, <3>1, <3>7
      <4>2. PICK h \in Nat : h = Len(a) + 1
        BY <2>4
      <4>3. Cuts(a, sep, d, h)
        <5>1. FirstAt(a, d + 1, sep, h)
          <6>1. y \in x..Len(s) /\ FirstAt(s, e + 1, sep, g) /\ d + 1 \in Nat
            BY <1>1, <2>2, <2>7 DEF FirstAt
          <6>2. /\ e + 1 \in x..(y + 1) /\ d + 1 = (e + 1) - x + 1
                /\ h = IF g <= y THEN g - x + 1 ELSE y - x + 2
            BY <2>2, <2>4, <3>1, <3>2, <3>7, <4>2
          <6> QED BY <2>2, <2>3, <6>1, <6>2, FirstWithin
        <5> QED BY <3>3, <5>1 DEF Cuts
      <4>4. SubSeq(a, d + 1, h - 1) = SubSeq(s, e + 1, y)
        <5>1. /\ x \in 1..(Len(s) + 1) /\ y \in (x - 1)..Len(s) /\ d + 1 \in 1..(y - x + 2)
              /\ h - 1 \in ((d + 1) - 1)..(y - x + 1)
          BY <2>2, <2>4, <3>1, <3>2, <4>2
        <5>2. e + 1 = x + (d + 1) - 1 /\ y = x + (h - 1) - 1 /\ e + 1 \in Nat
          BY <2>2, <2>4, <3>1, <3>2, <4>2
        <5>3. SubSeq(SubSeq(s, x, y), d + 1, h - 1) = SubSeq(s, e + 1, y)
          BY <5>1, <5>2, CutAgain
        <5> QED BY <2>3, <5>3
      <4>5. trim(SubSeq(s, e + 1, y)) = trim(SubSeq(s, e + 1, g - 1))
        <5>1. /\ e + 1 \in 1..(Len(s) + 1) /\ y \in ((e + 1) - 1)..Len(s)
              /\ g - 1 \in ((e + 1) - 1)..Len(s)
          BY <1>1, <2>2, <3>1, <4>1
        <5>2. Solid(s, e + 1, y) = Solid(s, e + 1, g - 1)
          BY <1>1, <2>2, <3>1, <4>1 DEF Solid
        <5> QED BY <5>1, <5>2, TrimSame
      <4>6. /\ GetLineToStr(a, 1, sep, <<>>) = SubSeq(a, 1, d - 1)
            /\ GetLineToStr(a, 2, sep, <<>>) = SubSeq(a, d + 1, h - 1)
        BY <2>5, <4>3, CutFields
      <4> QED BY <1>2, <3>4, <3>5, <4>4, <4>5, <4>6
    <3> QED BY <3>6, <3>7
  <2> QED BY <2>6, <2>7
<1> QED BY <1>3, <1>4

LEMMA CutLacks ==
    ASSUME NEW T, NEW s \in Seq(T), NEW i \in 1..(Len(s) + 1), NEW j \in (i - 1)..Len(s), NEW c,
           \A k \in i..j : s[k] # c
    PROVE  Lacks(SubSeq(s, i, j), c)
<1>1. Len(SubSeq(s, i, j)) = j - i + 1 /\ \A k \in 1..(j - i + 1) : SubSeq(s, i, j)[k] = s[i + k - 1]
  BY CutIs
<1>2. ASSUME NEW k \in 1..(j - i + 1) PROVE SubSeq(s, i, j)[k] # c
  <2>1. i + k - 1 \in i..j
    OBVIOUS
  <2> QED BY <1>1, <2>1
<1> QED BY <1>1, <1>2 DEF Lacks

LEMMA TrimLacks ==
    ASSUME NEW T, NEW s \in Seq(T), NEW c, Lacks(s, c)
    PROVE  Lacks(trim(s), c)
<1>1. 1 \in Nat /\ Len(s) \in Nat
  OBVIOUS
<1>2. CASE Solid(s, 1, Len(s)) = {}
  <2>1. trim(s) = <<>>
    BY <1>2, TrimIs
  <2> QED BY <2>1 DEF Lacks
<1>3. CASE Solid(s, 1, Len(s)) # {}
  <2>1. PICK x, y \in Nat : Spans(s, 1, Len(s), x, y)
    BY <1>1, <1>3, SpanExists
  <2>2. x \in 1..Len(s) /\ y \in 1..Len(s) /\ x <= y
    BY <2>1 DEF Spans, Solid
  <2>3. trim(s) = SubSeq(s, x, y)
    BY <2>1, TrimIs
  <2>4. x \in 1..(Len(s) + 1) /\ y \in (x - 1)..Len(s) /\ \A k \in x..y : s[k] # c
    BY <2>2 DEF Lacks
  <2>5. Lacks(SubSeq(s, x, y), c)
    BY <2>4, CutLacks
  <2> QED BY <2>3, <2>5
<1> QED BY <1>2, <1>3

\* Name and value of a line, without the blanks around them.
NameOf(c) == trim(GetLineToStr(c, 1, "=", <<>>))
TextOf(c) == trim(GetLineToStr(c, 2, "=", <<>>))

\* A text that can be a name or a value: no separator, no end of line, no quote.
Bare(T, f) == f \in Seq(T) /\ Lacks(f, "=") /\ Lacks(f, Quote) /\ Lacks(f, Newline)

LEMMA CutBare ==
    ASSUME NEW T, NEW c \in Seq(T), Lacks(c, Quote), Lacks(c, Newline),
           NEW i \in 1..(Len(c) + 1), NEW j \in (i - 1)..Len(c), \A k \in i..j : c[k] # "="
    PROVE  Bare(T, trim(SubSeq(c, i, j)))
<1>. PICK f : f = SubSeq(c, i, j)
  OBVIOUS
<1>1. f \in Seq(T)
  BY CutIs
<1>2. Lacks(f, "=")
  BY CutLacks
<1>3. \A k \in i..j : c[k] # Quote /\ c[k] # Newline
  BY DEF Lacks
<1>4. Lacks(f, Quote) /\ Lacks(f, Newline)
  BY <1>3, CutLacks
<1>5. trim(f) \in Seq(T) /\ Lacks(trim(f), "=") /\ Lacks(trim(f), Quote) /\ Lacks(trim(f), Newline)
  BY <1>1, <1>2, <1>4, TrimIs, TrimLacks
<1> QED BY <1>5 DEF Bare

LEMMA SecondType ==
    ASSUME NEW T, NEW c \in Seq(T), "=" \in T, Lacks(c, Quote)
    PROVE  GetLineToStr(c, 2, "=", <<>>) \in Seq(T)
<1>. PICK eq \in T : eq = "="
  OBVIOUS
<1>1. eq # Quote
  BY DEF Quote
<1>2. PICK e \in Nat, g \in Nat : Cuts(c, eq, e, g)
  BY CutsExist
<1>3. GetLineToStr(c, 2, eq, <<>>) = SubSeq(c, e + 1, g - 1)
  BY <1>1, <1>2, CutFields
<1>4. /\ e \in 1..(Len(c) + 1) /\ Len(c) \in Nat
      /\ e <= Len(c) => g \in (e + 1)..(Len(c) + 1)
      /\ ~(e <= Len(c)) => g = e
  BY <1>2 DEF Cuts, FirstAt
<1>5. CASE e <= Len(c)
  <2>1. e + 1 \in 1..(Len(c) + 1) /\ g - 1 \in ((e + 1) - 1)..Len(c)
    BY <1>4, <1>5
  <2>2. SubSeq(c, e + 1, g - 1) \in Seq(T)
    BY <2>1, CutIs
  <2> QED BY <1>3, <2>2
<1>6. CASE ~(e <= Len(c))
  <2>1. SubSeq(c, e + 1, g - 1) = <<>>
    BY <1>4, <1>6
  <2>2. <<>> \in Seq(T)
    OBVIOUS
  <2> QED BY <1>3, <2>1, <2>2
<1> QED BY <1>5, <1>6

LEMMA FieldsBare ==
    ASSUME NEW T, NEW c \in Seq(T), "=" \in T, Lacks(c, Quote), Lacks(c, Newline)
    PROVE  Bare(T, NameOf(c)) /\ Bare(T, TextOf(c))
<1>. PICK eq \in T : eq = "="
  OBVIOUS
<1>1. eq # Quote
  BY DEF Quote
<1>2. PICK e \in Nat, g \in Nat : Cuts(c, eq, e, g)
  BY CutsExist
<1>3. /\ GetLineToStr(c, 1, eq, <<>>) = SubSeq(c, 1, e - 1)
      /\ GetLineToStr(c, 2, eq, <<>>) = SubSeq(c, e + 1, g - 1)
  BY <1>1, <1>2, CutFields
<1>4. /\ e \in 1..(Len(c) + 1) /\ \A i \in 1..(e - 1) : c[i] # eq
      /\ e <= Len(c) => g \in (e + 1)..(Len(c) + 1) /\ \A i \in (e + 1)..(g - 1) : c[i] # eq
      /\ ~(e <= Len(c)) => g = e
      /\ Len(c) \in Nat
  BY <1>2 DEF Cuts, FirstAt
<1>5. Bare(T, NameOf(c))
  <2>1. 1 \in 1..(Len(c) + 1) /\ e - 1 \in (1 - 1)..Len(c) /\ \A k \in 1..(e - 1) : c[k] # "="
    BY <1>4
  <2>2. Bare(T, trim(SubSeq(c, 1, e - 1)))
    BY <2>1, CutBare
  <2> QED BY <1>3, <2>2 DEF NameOf
<1>6. Bare(T, TextOf(c))
  <2>1. CASE e <= Len(c)
    <3>1. /\ e + 1 \in 1..(Len(c) + 1) /\ g - 1 \in ((e + 1) - 1)..Len(c)
          /\ \A k \in (e + 1)..(g - 1) : c[k] # "="
      BY <1>4, <2>1
    <3>2. Bare(T, trim(SubSeq(c, e + 1, g - 1)))
      BY <3>1, CutBare
    <3> QED BY <1>3, <3>2 DEF TextOf
  <2>2. CASE ~(e <= Len(c))
    <3>1. SubSeq(c, e + 1, g - 1) = <<>>
      BY <1>4, <2>2
    <3>2. TextOf(c) = <<>>
      <4>1. trim(<<>>) = <<>>
        BY DEF trim
      <4>2. TextOf(c) = trim(SubSeq(c, e + 1, g - 1))
        BY <1>3 DEF TextOf
      <4> QED BY <3>1, <4>1, <4>2
    <3> QED BY <3>2 DEF Bare, Lacks
  <2> QED BY <2>1, <2>2
<1> QED BY <1>5, <1>6

RowOf(name, text) == name \o <<"=">> \o text

\* A row has the fields it was written from.
RowReads(T, r, name, text) ==
    /\ r \in Seq(T) /\ r # <<>> /\ Lacks(r, Quote) /\ Lacks(r, Newline)
    /\ GetLineToStr(r, 1, "=", <<>>) = name
    /\ GetLineToStr(r, 2, "=", <<>>) = text

LEMMA RowFields ==
    ASSUME NEW T, "=" \in T, NEW name, NEW text, Bare(T, name), Bare(T, text)
    PROVE  RowReads(T, RowOf(name, text), name, text)
<1>. PICK eq \in T : eq = "="
  OBVIOUS
<1>16. PICK a : a = name \o <<eq>>
  OBVIOUS
<1>17. PICK r : r = a \o text
  OBVIOUS
<1>1. /\ name \in Seq(T) /\ text \in Seq(T) /\ Len(name) \in Nat /\ Len(text) \in Nat
      /\ \A i \in 1..Len(name) : name[i] # eq /\ name[i] # Quote /\ name[i] # Newline
      /\ \A i \in 1..Len(text) : text[i] # eq /\ text[i] # Quote /\ text[i] # Newline
  BY DEF Bare, Lacks
<1>. PICK n \in Nat, m \in Nat : n = Len(name) /\ m = Len(text)
  BY <1>1
<1>2. a \in Seq(T) /\ Len(a) = n + 1 /\ a[n + 1] = eq /\ \A i \in 1..n : a[i] = name[i]
  BY <1>1, <1>16
<1>3. r \in Seq(T) /\ Len(r) = n + 1 + m
  BY <1>1, <1>2, <1>17
<1>4. r[n + 1] = eq /\ \A i \in 1..n : r[i] = name[i]
  BY <1>1, <1>2, <1>17
<1>5. \A i \in 1..m : r[(n + 1) + i] = text[i]
  BY <1>1, <1>2, <1>17
<1>6. eq # Quote /\ eq # Newline
  BY DEF Quote, Newline
<1>7. ASSUME NEW i \in 1..Len(r) PROVE r[i] # Quote /\ r[i] # Newline /\ (i # n + 1 => r[i] # eq)
  <2>1. CASE i <= n
    BY <1>1, <1>4, <2>1
  <2>2. CASE i = n + 1
    BY <1>4, <1>6, <2>2
  <2>3. CASE i > n + 1
    <3>1. i - (n + 1) \in 1..m /\ (n + 1) + (i - (n + 1)) = i
      BY <1>3, <2>3
    <3>2. r[i] = text[i - (n + 1)]
      BY <1>5, <3>1
    <3> QED BY <1>1, <2>3, <3>1, <3>2
  <2> QED BY <1>3, <2>1, <2>2, <2>3
<1>8. Lacks(r, Quote) /\ Lacks(r, Newline)
  BY <1>7 DEF Lacks
<1>9. PICK e \in Nat, g \in Nat : e = n + 1 /\ g = n + m + 2
  OBVIOUS
<1>10. Cuts(r, eq, e, g)
  <2>1. e <= Len(r)
    BY <1>3, <1>9
  <2>2. FirstAt(r, 1, eq, e)
    BY <1>3, <1>4, <1>7, <1>9 DEF FirstAt
  <2>3. FirstAt(r, e + 1, eq, g)
    BY <1>3, <1>7, <1>9 DEF FirstAt
  <2> QED BY <2>1, <2>2, <2>3 DEF Cuts
<1>11. /\ GetLineToStr(r, 1, eq, <<>>) = SubSeq(r, 1, e - 1)
       /\ GetLineToStr(r, 2, eq, <<>>) = SubSeq(r, e + 1, g - 1)
  <2>1. r \in Seq(T) /\ Lacks(r, Quote) /\ eq # Quote
    BY <1>3, <1>6, <1>8
  <2> QED BY <2>1, <1>10, CutFields
<1>12. SubSeq(r, 1, e - 1) = name
  <2>1. 1 \in 1..(Len(r) + 1) /\ e - 1 \in (1 - 1)..Len(r)
    BY <1>3, <1>9
  <2>2. /\ SubSeq(r, 1, e - 1) \in Seq(T) /\ Len(SubSeq(r, 1, e - 1)) = (e - 1) - 1 + 1
        /\ \A k \in 1..((e - 1) - 1 + 1) : SubSeq(r, 1, e - 1)[k] = r[1 + k - 1]
    BY <1>3, <2>1, CutIs
  <2>3. (e - 1) - 1 + 1 = n /\ \A k \in 1..n : 1 + k - 1 = k
    BY <1>9
  <2>4. Len(SubSeq(r, 1, e - 1)) = n /\ \A k \in 1..n : SubSeq(r, 1, e - 1)[k] = name[k]
    BY <1>4, <2>2, <2>3
  <2> QED BY <1>1, <2>2, <2>4, SeqEqual
<1>13. SubSeq(r, e + 1, g - 1) = text
  <2>1. e + 1 \in 1..(Len(r) + 1) /\ g - 1 \in ((e + 1) - 1)..Len(r)
    BY <1>3, <1>9
  <2>2. /\ SubSeq(r, e + 1, g - 1) \in Seq(T) /\ Len(SubSeq(r, e + 1, g - 1)) = (g - 1) - (e + 1) + 1
        /\ \A k \in 1..((g - 1) - (e + 1) + 1) : SubSeq(r, e + 1, g - 1)[k] = r[(e + 1) + k - 1]
    BY <1>3, <2>1, CutIs
  <2>3. (g - 1) - (e + 1) + 1 = m /\ \A k \in 1..m : (e + 1) + k - 1 = (n + 1) + k
    BY <1>9
  <2>4. Len(SubSeq(r, e + 1, g - 1)) = m /\ \A k \in 1..m : SubSeq(r, e + 1, g - 1)[k] = text[k]
    BY <1>5, <2>2, <2>3
  <2> QED BY <1>1, <2>2, <2>4, SeqEqual
<1>14. r # <<>>
  BY <1>1, <1>3
<1>15. r = RowOf(name, text)
  BY <1>16, <1>17 DEF RowOf
<1> QED BY <1>3, <1>8, <1>11, <1>12, <1>13, <1>14, <1>15 DEF RowReads

\* What ConfToBufor makes of a line: nothing or a row, of the code before #.
LEMMA ConfLineIs ==
    ASSUME NEW T, "=" \in T, NEW line \in Seq(T), NEW h \in Nat, FirstAt(line, 1, "#", h),
           NEW c, c = SubSeq(line, 1, h - 1), Lacks(c, Quote)
    PROVE  \/ ConfLine(line) = <<>> /\ NameOf(c) = <<>>
           \/ ConfLine(line) = RowOf(NameOf(c), TextOf(c)) \o <<Newline>>
<1>. PICK eq \in T : eq = "="
  OBVIOUS
<1>1. eq # Quote /\ eq # Space
  BY DEF Quote, Space
<1>2. Len(line) \in Nat /\ h \in 1..(Len(line) + 1)
  BY DEF FirstAt
<1>3. c \in Seq(T)
  <2>1. 1 \in 1..(Len(line) + 1) /\ h - 1 \in (1 - 1)..Len(line)
    BY <1>2
  <2> QED BY <2>1, CutIs
<1>4. pos(<<"#">>, line) = IF h <= Len(line) THEN h ELSE 0
  BY PosOne
<1>5. \A u : NameAndValue(u) = IF u = <<>> THEN <<>>
                               ELSE RowOf(NameOf(u), TextOf(u)) \o <<Newline>>
  BY Zenon DEF NameAndValue, RowOf, NameOf, TextOf
<1>6. ConfLine(line) = NameAndValue(Uncommented(line, pos(<<"#">>, line)))
  BY Zenon DEF ConfLine
<1>7. NameOf(<<>>) = <<>>
  <2>1. Cuts(<<>>, eq, 1, 1)
    BY DEF Cuts, FirstAt
  <2>2. <<>> \in Seq(T) /\ Lacks(<<>>, Quote) /\ 1 \in Nat
    BY DEF Lacks
  <2>3. GetLineToStr(<<>>, 1, eq, <<>>) = SubSeq(<<>>, 1, 1 - 1)
    BY <1>1, <2>1, <2>2, CutFields
  <2>4. SubSeq(<<>>, 1, 1 - 1) = <<>> /\ trim(<<>>) = <<>>
    BY DEF trim
  <2> QED BY <2>3, <2>4 DEF NameOf
<1>8. CASE h <= Len(line)
  <2>1. Uncommented(line, pos(<<"#">>, line)) = trim(c)
    <3>1. pos(<<"#">>, line) = h /\ h > 0
      BY <1>2, <1>4, <1>8
    <3> QED BY <3>1 DEF Uncommented
  <2>2. NameOf(trim(c)) = NameOf(c) /\ TextOf(trim(c)) = TextOf(c)
    <3>1. /\ trim(GetLineToStr(trim(c), 1, eq, <<>>)) = trim(GetLineToStr(c, 1, eq, <<>>))
          /\ trim(GetLineToStr(trim(c), 2, eq, <<>>)) = trim(GetLineToStr(c, 2, eq, <<>>))
      BY <1>1, <1>3, TrimmedFields
    <3> QED BY <3>1 DEF NameOf, TextOf
  <2>3. ConfLine(line) = IF trim(c) = <<>> THEN <<>>
                         ELSE RowOf(NameOf(c), TextOf(c)) \o <<Newline>>
    BY <1>5, <1>6, <2>1, <2>2
  <2>4. trim(c) = <<>> => NameOf(c) = <<>>
    BY <1>7, <2>2
  <2> QED BY <2>3, <2>4
<1>9. CASE ~(h <= Len(line))
  <2>1. c = line
    <3>1. h - 1 = Len(line)
      BY <1>2, <1>9
    <3> QED BY <3>1, SubSeqFull
  <2>2. Uncommented(line, pos(<<"#">>, line)) = c
    <3>1. pos(<<"#">>, line) = 0
      BY <1>4, <1>9
    <3> QED BY <2>1, <3>1 DEF Uncommented
  <2>3. ConfLine(line) = IF c = <<>> THEN <<>> ELSE RowOf(NameOf(c), TextOf(c)) \o <<Newline>>
    BY <1>5, <1>6, <2>2
  <2> QED BY <1>7, <2>3
<1> QED BY <1>8, <1>9

LEMMA PrefixGrows ==
    ASSUME NEW T, NEW l \in Seq(T), NEW k \in 1..Len(l)
    PROVE  Append(SubSeq(l, 1, k - 1), l[k]) = SubSeq(l, 1, k)
<1>1. 1 \in 1..(Len(l) + 1) /\ k - 1 \in (1 - 1)..Len(l) /\ k \in (1 - 1)..Len(l) /\ k \in Nat
  OBVIOUS
<1>2. PICK a : a = SubSeq(l, 1, k - 1)
  OBVIOUS
<1>3. a \in Seq(T) /\ Len(a) = k - 1 /\ \A i \in 1..(k - 1) : a[i] = l[i]
  BY <1>2
<1>4. PICK b : b = SubSeq(l, 1, k)
  OBVIOUS
<1>5. b \in Seq(T) /\ Len(b) = k /\ \A i \in 1..k : b[i] = l[i]
  BY <1>4
<1>6. PICK z : z = l[k]
  OBVIOUS
<1>7. z \in T
  BY <1>6
<1>8. Append(a, z) \in Seq(T) /\ Len(Append(a, z)) = Len(a) + 1 /\ Append(a, z)[Len(a) + 1] = z
      /\ \A i \in 1..Len(a) : Append(a, z)[i] = a[i]
  BY <1>3, <1>7, AppendProperties
<1>9. \A i \in 1..k : i \in 1..(k - 1) \/ i = k
  OBVIOUS
<1>10. Len(Append(a, z)) = k /\ \A i \in 1..k : Append(a, z)[i] = b[i]
  BY <1>1, <1>3, <1>5, <1>6, <1>8, <1>9
<1>11. Append(a, z) = b
  BY <1>5, <1>8, <1>10, SeqEqual
<1> QED BY <1>2, <1>4, <1>6, <1>11

\* l behind the first m tokens of t.
Stands(t, m, l) == m + Len(l) <= Len(t) /\ \A k \in 1..Len(l) : t[m + k] = l[k]

\* What has been read behind the first m tokens of t.
Stood(t, m, line, bufor) == Read(t)[m] = [line |-> line, bufor |-> bufor]

\* A line read from its beginning on.
LEMMA LineReads ==
    ASSUME NEW T, NEW t \in Seq(T), NEW m \in Nat, NEW l \in Seq(T), Lacks(l, Newline),
           Stands(t, m, l),
           NEW b, Stood(t, m, <<>>, b)
    PROVE  Stood(t, m + Len(l), l, b)
<1> USE DEF Stood
<1>. PICK f : f = Read(t)
  OBVIOUS
<1>1. Len(t) \in Nat /\ Len(l) \in Nat /\ \A k \in 1..Len(l) : l[k] # Newline
  BY DEF Lacks
<1>6. m + Len(l) <= Len(t) /\ \A k \in 1..Len(l) : t[m + k] = l[k]
  BY DEF Stands
<1>2. \A i \in 0..Len(t) : f[i] = ReadAt(t, f, i)
  BY <1>1, ReadIs
<1> DEFINE Good(k) == f[m + k] = [line |-> SubSeq(l, 1, k), bufor |-> b]
           Bad == {k \in 0..Len(l) : ~Good(k)}
<1>3. Bad = {}
  <2> SUFFICES ASSUME Bad # {} PROVE FALSE
    OBVIOUS
  <2>1. PICK k \in Bad : \A y \in Bad : k <= y
    <3>1. Bad \in SUBSET Nat
      BY <1>1
    <3> HIDE DEF Bad
    <3> QED BY <3>1, LeastNat
  <2>2. k \in 0..Len(l) /\ k \in Nat /\ ~Good(k)
    BY <1>1
  <2>3. CASE k = 0
    <3>1. SubSeq(l, 1, 0) = <<>> /\ m + 0 = m
      OBVIOUS
    <3> QED BY <2>2, <2>3, <3>1
  <2>4. CASE k # 0
    <3>1. k - 1 \in 0..Len(l) /\ ~(k <= k - 1) /\ k \in 1..Len(l)
      BY <1>1, <2>2, <2>4
    <3>2. Good(k - 1)
      <4> HIDE DEF Good
      <4> QED BY <2>1, <3>1
    <3>3. PICK i \in Nat : i = m + k
      BY <2>2
    <3>4. i \in 0..Len(t) /\ i # 0 /\ i - 1 = m + (k - 1)
      BY <1>1, <1>6, <3>1, <3>3
    <3>5. t[i] = l[k] /\ l[k] # Newline
      BY <1>1, <1>6, <3>1, <3>3
    <3>6. f[i] = [line |-> Append(f[i - 1].line, l[k]), bufor |-> f[i - 1].bufor]
      <4>1. f[i] = ReadAt(t, f, i)
        BY <1>2, <3>4
      <4> QED BY <3>4, <3>5, <4>1 DEF ReadAt
    <3>7. f[i - 1] = [line |-> SubSeq(l, 1, k - 1), bufor |-> b]
      BY <3>2, <3>4
    <3>8. f[i] = [line |-> Append(SubSeq(l, 1, k - 1), l[k]), bufor |-> b]
      BY <3>6, <3>7
    <3>9. Append(SubSeq(l, 1, k - 1), l[k]) = SubSeq(l, 1, k)
      BY <3>1, PrefixGrows
    <3> QED BY <2>2, <3>3, <3>8, <3>9
  <2> QED BY <2>3, <2>4
<1>4. Good(Len(l))
  <2>1. Len(l) \in 0..Len(l)
    BY <1>1
  <2> HIDE DEF Good
  <2> QED BY <1>3, <2>1
<1>5. SubSeq(l, 1, Len(l)) = l
  BY SubSeqFull
<1> QED BY <1>4, <1>5

\* Lines as they stand in a file, and what is made of each.
Ended(ls) == [i \in 1..Len(ls) |-> Append(ls[i], Newline)]
Confs(ls) == [i \in 1..Len(ls) |-> ConfLine(ls[i])]

Lines(T) == {l \in Seq(T) : Lacks(l, Newline) /\ ConfLine(l) \in Seq(T)}

LEMMA EndedAppend ==
    ASSUME NEW T, Newline \in T, NEW W \in SUBSET Lines(T), NEW ls \in Seq(W), NEW l \in W
    PROVE  /\ Ended(ls) \in Seq(Seq(T)) /\ Confs(ls) \in Seq(Seq(T))
           /\ Ended(Append(ls, l)) = Append(Ended(ls), Append(l, Newline))
           /\ Confs(Append(ls, l)) = Append(Confs(ls), ConfLine(l))
<1>. PICK S : S = Seq(T)
  OBVIOUS
<1>1. \A k \in W : k \in S /\ Append(k, Newline) \in S /\ ConfLine(k) \in S
  BY DEF Lines
<1>2. Ended(ls) \in Seq(S) /\ Confs(ls) \in Seq(S)
  BY <1>1 DEF Ended, Confs
<1>3. Append(ls, l) \in Seq(W) /\ Len(Append(ls, l)) = Len(ls) + 1 /\ Append(ls, l)[Len(ls) + 1] = l
      /\ \A i \in 1..Len(ls) : Append(ls, l)[i] = ls[i]
  OBVIOUS
<1>4. Ended(Append(ls, l)) = Append(Ended(ls), Append(l, Newline))
  <2>1. Ended(Append(ls, l)) \in Seq(S)
    BY <1>1, <1>3 DEF Ended
  <2> QED BY <1>1, <1>2, <1>3, <2>1 DEF Ended
<1>5. Confs(Append(ls, l)) = Append(Confs(ls), ConfLine(l))
  <2>1. Confs(Append(ls, l)) \in Seq(S)
    BY <1>1, <1>3 DEF Confs
  <2> QED BY <1>1, <1>2, <1>3, <2>1 DEF Confs
<1> QED BY <1>2, <1>4, <1>5

\* Reading so many lines, whatever follows them.
Reads(T, ls) ==
    \A w \in Seq(T) : Read(FlattenSeq(Ended(ls)) \o w)[Len(FlattenSeq(Ended(ls)))]
                        = [line |-> <<>>, bufor |-> FlattenSeq(Confs(ls))]

LEMMA ReadsMore ==
    ASSUME NEW T, Newline \in T, NEW W \in SUBSET Lines(T), NEW ls \in Seq(W), NEW l \in W, Reads(T, ls)
    PROVE  Reads(T, Append(ls, l))
<1>1. PICK F, C, e : F = FlattenSeq(Ended(ls)) /\ C = FlattenSeq(Confs(ls)) /\ e = Append(l, Newline)
  OBVIOUS
<1>2. l \in Seq(T) /\ Lacks(l, Newline) /\ ConfLine(l) \in Seq(T)
  BY DEF Lines
<1>3. e \in Seq(T) /\ Len(e) = Len(l) + 1 /\ e[Len(l) + 1] = Newline /\ \A k \in 1..Len(l) : e[k] = l[k]
  BY <1>1, <1>2
<1>4. F \in Seq(T)
  BY <1>1, EndedAppend, FlatType
<1>5. FlattenSeq(Ended(Append(ls, l))) = F \o e
  <2>1. Ended(Append(ls, l)) = Append(Ended(ls), e) /\ Ended(ls) \in Seq(Seq(T))
    BY <1>1, EndedAppend
  <2> QED BY <1>1, <1>3, <2>1, FlatAppend
<1>6. FlattenSeq(Confs(Append(ls, l))) = C \o ConfLine(l)
  <2>1. Confs(Append(ls, l)) = Append(Confs(ls), ConfLine(l)) /\ Confs(ls) \in Seq(Seq(T))
    BY EndedAppend
  <2> QED BY <1>1, <1>2, <2>1, FlatAppend
<1>7. ASSUME NEW w \in Seq(T)
      PROVE  Read((F \o e) \o w)[Len(F \o e)] = [line |-> <<>>, bufor |-> C \o ConfLine(l)]
  <2>1. PICK t : t = F \o (e \o w)
    OBVIOUS
  <2>2. t = (F \o e) \o w
    <3>1. Joins(T)
      BY ConcatJoins
    <3> QED BY <1>3, <1>4, <2>1, <3>1, Zenon DEF Joins
  <2>3. Pieces(T, t, F, e, w)
    BY <1>3, <1>4, <2>1, Zenon DEF Pieces
  <2>4. Apart(T, t, F, e, w)
    BY <2>3, PartTold
  <2>5. /\ t \in Seq(T) /\ Len(t) = Len(F) + Len(e) + Len(w)
        /\ Len(F) \in Nat /\ Len(e) \in Nat /\ Len(w) \in Nat /\ Len(l) \in Nat
        /\ \A q \in 1..Len(e) : t[Len(F) + q] = e[q]
    BY <1>2, <2>4 DEF Apart
  <2>6. PICK m \in Nat : m = Len(F)
    BY <2>5
  <2>7. Read(t)[m] = [line |-> <<>>, bufor |-> C]
    <3>1. e \o w \in Seq(T)
      BY <1>3, ConcatProperties
    <3> QED BY <1>1, <2>1, <2>6, <3>1 DEF Reads
  <2>8. Stands(t, m, l)
    <3>1. m + Len(l) <= Len(t)
      <4>1. Len(t) = m + (Len(l) + 1) + Len(w)
        BY <1>3, <2>5, <2>6
      <4> QED BY <2>5, <4>1
    <3>2. ASSUME NEW k \in 1..Len(l) PROVE t[m + k] = l[k]
      <4>1. k \in 1..Len(e)
        BY <1>3, <2>5
      <4>2. t[m + k] = e[k]
        BY <2>5, <2>6, <4>1
      <4> QED BY <1>3, <4>2
    <3> QED BY <3>1, <3>2 DEF Stands
  <2>9. Read(t)[m + Len(l)] = [line |-> l, bufor |-> C]
    <3>1. t \in Seq(T) /\ l \in Seq(T) /\ Lacks(l, Newline) /\ Stood(t, m, <<>>, C)
      BY <1>2, <2>5, <2>7 DEF Stood
    <3>2. Stood(t, m + Len(l), l, C)
      BY <2>8, <3>1, LineReads
    <3> QED BY <3>2 DEF Stood
  <2>15. PICK n \in Nat : n = Len(l)
    BY <2>5
  <2>10. PICK i \in Nat : i = m + n + 1
    OBVIOUS
  <2>11. i \in 0..Len(t) /\ i # 0 /\ i - 1 = m + Len(l) /\ t[i] = Newline /\ i = Len(F \o e)
    <3>1. i \in 0..Len(t) /\ i # 0 /\ i - 1 = m + Len(l)
      <4>1. Len(t) = m + (n + 1) + Len(w)
        BY <1>3, <2>5, <2>6, <2>15
      <4> QED BY <2>5, <2>10, <2>15, <4>1
    <3>2. Len(l) + 1 \in 1..Len(e) /\ m + (Len(l) + 1) = i
      BY <1>3, <2>5, <2>10, <2>15
    <3>3. t[i] = Newline
      BY <1>3, <2>5, <2>6, <3>2
    <3>4. Len(F \o e) = Len(F) + Len(e)
      BY <1>3, <1>4, ConcatProperties
    <3> QED BY <1>3, <2>6, <3>1, <3>2, <3>3, <3>4
  <2>12. Read(t)[i] = ReadAt(t, Read(t), i)
    <3>1. Len(t) \in Nat /\ i \in 0..Len(t)
      BY <2>5, <2>11
    <3> QED BY <3>1, ReadIs
  <2>13. Read(t)[i - 1] = [line |-> l, bufor |-> C]
    BY <2>9, <2>11
  <2>14. Read(t)[i] = [line |-> <<>>, bufor |-> C \o ConfLine(l)]
    BY <2>11, <2>12, <2>13 DEF ReadAt
  <2> QED BY <2>2, <2>11, <2>14
<1> QED BY <1>5, <1>6, <1>7 DEF Reads

LEMMA LinesRead ==
    ASSUME NEW T, Newline \in T, NEW W \in SUBSET Lines(T), NEW ls \in Seq(W)
    PROVE  Reads(T, ls)
<1> DEFINE Bad == {n \in Nat : \E vs \in Seq(W) : Len(vs) = n /\ ~Reads(T, vs)}
<1> SUFFICES ASSUME ~Reads(T, ls) PROVE FALSE
  OBVIOUS
<1>1. Len(ls) \in Bad
  OBVIOUS
<1>2. PICK n \in Bad : \A y \in Bad : n <= y
  <2>1. Bad \in SUBSET Nat
    OBVIOUS
  <2> HIDE DEF Bad
  <2> QED BY <1>1, <2>1, LeastNat
<1>3. PICK vs \in Seq(W) : n \in Nat /\ Len(vs) = n /\ ~Reads(T, vs)
  OBVIOUS
<1>4. CASE vs = <<>>
  <2>1. Ended(vs) = <<>> /\ Confs(vs) = <<>>
    BY <1>4 DEF Ended, Confs
  <2>2. FlattenSeq(Ended(vs)) = <<>> /\ FlattenSeq(Confs(vs)) = <<>>
    <3>1. <<>> \in Seq(T)
      OBVIOUS
    <3> QED BY <2>1, <3>1, FlatIs
  <2>3. ASSUME NEW w \in Seq(T) PROVE Read(w)[0] = [line |-> <<>>, bufor |-> <<>>]
    <3>1. Len(w) \in Nat /\ 0 \in 0..Len(w)
      OBVIOUS
    <3>2. Read(w)[0] = ReadAt(w, Read(w), 0)
      BY <3>1, ReadIs
    <3> QED BY <3>2 DEF ReadAt
  <2>4. \A w \in Seq(T) : <<>> \o w = w
    BY ConcatEmptySeq
  <2>5. Len(<<>>) = 0
    OBVIOUS
  <2>6. Reads(T, vs)
    BY <2>2, <2>3, <2>4, <2>5 DEF Reads
  <2> QED BY <1>3, <2>6
<1>5. CASE vs # <<>>
  <2>1. PICK xs \in Seq(W), l \in W : vs = Append(xs, l)
    BY <1>5, SequenceEmptyOrAppend
  <2>2. Len(xs) \in Nat /\ ~(n <= Len(xs))
    BY <1>3, <2>1
  <2>3. Reads(T, xs)
    <3>1. Len(xs) \notin Bad
      <4> HIDE DEF Bad
      <4> QED BY <1>2, <2>2
    <3> QED BY <2>2, <3>1
  <2> QED BY <1>3, <2>1, <2>3, ReadsMore
<1> QED BY <1>4, <1>5

\* A file is read as the rows of its lines; the end of a last line without
\* its end of line is lost.
LEMMA FileReads ==
    ASSUME NEW T, Newline \in T, NEW W \in SUBSET Lines(T), NEW ls \in Seq(W), NEW l \in W
    PROVE  /\ ConfToBufor(FlattenSeq(Ended(ls))) = FlattenSeq(Confs(ls))
           /\ ConfToBufor(FlattenSeq(Ended(ls)) \o l) = FlattenSeq(Confs(ls))
<1>1. PICK F, C : F = FlattenSeq(Ended(ls)) /\ C = FlattenSeq(Confs(ls))
  OBVIOUS
<1>2. F \in Seq(T)
  BY <1>1, EndedAppend, FlatType
<1>3. l \in Seq(T) /\ Lacks(l, Newline)
  BY DEF Lines
<1>4. Reads(T, ls)
  BY LinesRead
<1>5. ConfToBufor(F) = C
  <2>1. <<>> \in Seq(T) /\ F \o <<>> = F
    BY <1>2, ConcatEmptySeq
  <2>2. Read(F)[Len(F)] = [line |-> <<>>, bufor |-> C]
    BY <1>1, <1>4, <2>1 DEF Reads
  <2> QED BY <2>2 DEF ConfToBufor
<1>6. ConfToBufor(F \o l) = C
  <2>1. PICK t : t = F \o l
    OBVIOUS
  <2>2. Read(t)[Len(F)] = [line |-> <<>>, bufor |-> C]
    BY <1>1, <1>3, <1>4, <2>1 DEF Reads
  <2>3. /\ t \in Seq(T) /\ Len(t) = Len(F) + Len(l) /\ Len(F) \in Nat /\ Len(l) \in Nat
        /\ \A i \in 1..(Len(F) + Len(l)) : t[i] = IF i <= Len(F) THEN F[i] ELSE l[i - Len(F)]
    BY <1>2, <1>3, <2>1, ConcatProperties
  <2>4. PICK m \in Nat : m = Len(F)
    BY <2>3
  <2>5. Stands(t, m, l)
    <3>1. ASSUME NEW k \in 1..Len(l) PROVE t[m + k] = l[k]
      <4>1. m + k \in 1..(Len(F) + Len(l)) /\ ~(m + k <= Len(F)) /\ (m + k) - Len(F) = k
        BY <2>3, <2>4
      <4> QED BY <2>3, <4>1
    <3> QED BY <2>3, <2>4, <3>1 DEF Stands
  <2>6. Read(t)[m + Len(l)] = [line |-> l, bufor |-> C]
    <3>1. t \in Seq(T) /\ Stood(t, m, <<>>, C)
      BY <2>2, <2>3, <2>4 DEF Stood
    <3>2. Stood(t, m + Len(l), l, C)
      BY <1>3, <2>5, <3>1, LineReads
    <3> QED BY <3>2 DEF Stood
  <2>7. Read(t)[Len(t)] = [line |-> l, bufor |-> C]
    BY <2>3, <2>4, <2>6
  <2> QED BY <2>1, <2>7 DEF ConfToBufor
<1> QED BY <1>1, <1>5, <1>6
=============================================================================
