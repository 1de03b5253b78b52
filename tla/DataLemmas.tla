------------------------------ MODULE DataLemmas ------------------------------
(***************************************************************************)
(* Facts about the data of the models, cited by the proofs about them:     *)
(* the least and the largest of a set of numbers, which the library's Min  *)
(* and Max choose, what the operators on sequences return, and counts.     *)
(***************************************************************************)
EXTENDS Ranking, FiniteSetTheorems, SequenceTheorems, TLAPS

\* A set of natural numbers has a least one.
LEMMA LeastNatural ==
    ASSUME NEW S \in SUBSET Nat, S # {}
    PROVE  \E m \in S : \A n \in S : m <= n
<1> DEFINE T == {1..n : n \in S}
           R == StrictSubsetOrdering(Nat)
<1>1. IsWellFoundedOn(R, FiniteSubsetsOf(Nat))
  BY FS_StrictSubsetOrderingWellFounded
<1>2. T # {}
  OBVIOUS
<1>3. T \subseteq FiniteSubsetsOf(Nat)
  <2>1. \A n \in S : 1..n \in SUBSET Nat /\ IsFiniteSet(1..n)
    BY FS_Interval
  <2> QED
    BY <2>1 DEF FiniteSubsetsOf
<1>4. PICK X \in T : \A Y \in T : ~ (<<Y, X>> \in R)
  <2> HIDE DEF T, R
  <2> QED
    BY <1>1, <1>2, <1>3, WFMin
<1>5. PICK m \in S : X = 1..m
  OBVIOUS
<1>6. ASSUME NEW n \in S, n < m
      PROVE  FALSE
  <2>1. 1..n \in SUBSET Nat /\ 1..m \in SUBSET Nat /\ 1..n \subseteq 1..m
    BY <1>6
  <2>2. m \in 1..m /\ m \notin 1..n
    BY <1>6
  <2>3. <<1..n, 1..m>> \in R
    BY <2>1, <2>2 DEF StrictSubsetOrdering
  <2> QED
    BY <1>4, <1>5, <2>3
<1> QED
  BY <1>6

\* So Min of such a set is in it and not above any other.
LEMMA MinOfNaturals ==
    ASSUME NEW S \in SUBSET Nat, S # {}
    PROVE  /\ Min(S) \in S
           /\ \A n \in S : Min(S) <= n
BY LeastNatural DEF Min

\* A finite set of integers has a largest one.
LEMMA LargestOfFinite ==
    ASSUME NEW S \in SUBSET Int, S # {}, IsFiniteSet(S)
    PROVE  \E m \in S : \A n \in S : n <= m
<1> DEFINE Above(x) == {y \in S : y > x}
           T == {Above(x) : x \in S}
           R == StrictSubsetOrdering(S)
<1>1. IsWellFoundedOn(R, FiniteSubsetsOf(S))
  BY FS_StrictSubsetOrderingWellFounded
<1>2. T # {}
  OBVIOUS
<1>3. T \subseteq FiniteSubsetsOf(S)
  <2>1. \A x \in S : Above(x) \in SUBSET S /\ IsFiniteSet(Above(x))
    BY FS_Subset
  <2> QED
    BY <2>1 DEF FiniteSubsetsOf
<1>4. PICK X \in T : \A Y \in T : ~ (<<Y, X>> \in R)
  <2> HIDE DEF T, R
  <2> QED
    BY <1>1, <1>2, <1>3, WFMin
<1>5. PICK m \in S : X = Above(m)
  OBVIOUS
<1>6. ASSUME NEW n \in S, n > m
      PROVE  FALSE
  <2>1. Above(n) \in SUBSET S /\ Above(m) \in SUBSET S
    OBVIOUS
  <2>4. Above(n) \subseteq Above(m)
    <3>1. ASSUME NEW y \in S, y > n
          PROVE  y > m
      BY <1>6, <3>1
    <3> QED
      BY <3>1
  <2>2. n \in Above(m) /\ n \notin Above(n)
    BY <1>6
  <2>3. <<Above(n), Above(m)>> \in R
    BY <2>1, <2>2, <2>4 DEF StrictSubsetOrdering
  <2> QED
    BY <1>4, <1>5, <2>3
<1> QED
  BY <1>6

\* So Max of such a set is in it and not below any other.
LEMMA MaxOfFinite ==
    ASSUME NEW S \in SUBSET Int, S # {}, IsFiniteSet(S)
    PROVE  /\ Max(S) \in S
           /\ \A n \in S : n <= Max(S)
BY LargestOfFinite DEF Max

-----------------------------------------------------------------------------

\* Is q a sequence, of whatever it holds?
IsSeq(q) == q \in Seq(ToSet(q))

\* The places of a sequence are 1 to its length.
LEMMA SeqFacts ==
    ASSUME NEW q, IsSeq(q)
    PROVE  /\ DOMAIN q = 1..Len(q) /\ Len(q) \in Nat
           /\ \A i \in DOMAIN q : q[i] \in ToSet(q)
BY LenProperties DEF IsSeq, ToSet

\* A sequence over any set is a sequence over its own elements.
LEMMA SeqOfSeq == ASSUME NEW S, NEW q \in Seq(S) PROVE IsSeq(q) /\ ToSet(q) \subseteq S
<1>1. DOMAIN q = 1..Len(q) /\ Len(q) \in Nat /\ \A i \in 1..Len(q) : q[i] \in S
  BY LenProperties
<1>2. ToSet(q) \subseteq S
  BY <1>1 DEF ToSet
<1>3. q \in [1..Len(q) -> ToSet(q)]
  BY <1>1 DEF ToSet
<1>4. q \in Seq(ToSet(q))
  BY <1>1, <1>3, SeqDef
<1> QED
  BY <1>2, <1>4 DEF IsSeq

\* Append adds one place at the end and keeps the others.
LEMMA Appended ==
    ASSUME NEW q, IsSeq(q), NEW x, NEW r, r = Append(q, x)
    PROVE  /\ IsSeq(r) /\ Len(r) = Len(q) + 1
           /\ DOMAIN r = DOMAIN q \union {Len(q) + 1} /\ Len(q) + 1 \notin DOMAIN q
           /\ \A i \in DOMAIN q : r[i] = q[i]
           /\ r[Len(q) + 1] = x
<1> DEFINE all == ToSet(q) \union {x}
<1>1. q \in Seq(all) /\ x \in all
  BY SeqMonotonic DEF IsSeq
<1>2. DOMAIN q = 1..Len(q) /\ Len(q) \in Nat
  BY SeqFacts
<1> HIDE DEF all
<1>3. /\ r \in Seq(all) /\ Len(r) = Len(q) + 1
      /\ \A i \in 1..Len(q) : r[i] = q[i]
      /\ r[Len(q) + 1] = x
  BY <1>1, AppendProperties
<1>4. IsSeq(r) /\ DOMAIN r = 1..Len(r)
  BY <1>3, SeqOfSeq, SeqFacts
<1> QED
  BY <1>2, <1>3, <1>4

\* The same under a name.
Longer(r, q, x) ==
    /\ IsSeq(r) /\ DOMAIN r = 1..Len(q) + 1
    /\ \A i \in DOMAIN q : r[i] = q[i]
    /\ r[Len(q) + 1] = x
LEMMA AppendedLonger == ASSUME NEW q, IsSeq(q), NEW x PROVE Longer(Append(q, x), q, x)
<1>1. PICK r : r = Append(q, x)
  OBVIOUS
<1>2. IsSeq(r) /\ Len(r) = Len(q) + 1
  BY <1>1, Appended
<1>3. DOMAIN r = 1..Len(q) + 1
  BY <1>2, SeqFacts
<1>4. \A i \in DOMAIN q : r[i] = q[i]
  BY <1>1, Appended
<1>5. r[Len(q) + 1] = x
  BY <1>1, Appended
<1> QED
  BY <1>1, <1>2, <1>3, <1>4, <1>5 DEF Longer

\* ReplaceAt changes one place and keeps the others.
LEMMA Replaced ==
    ASSUME NEW q, IsSeq(q), NEW i, NEW x, NEW r, r = ReplaceAt(q, i, x)
    PROVE  /\ IsSeq(r) /\ Len(r) = Len(q) /\ DOMAIN r = DOMAIN q
           /\ \A j \in DOMAIN q : r[j] = IF j = i THEN x ELSE q[j]
<1>1. DOMAIN q = 1..Len(q) /\ Len(q) \in Nat
  BY SeqFacts
<1>2. PICK n \in Nat : n = Len(q)
  BY <1>1
<1>3. /\ r \in [1..n -> ToSet(r)] /\ DOMAIN r = DOMAIN q
      /\ \A j \in DOMAIN q : r[j] = IF j = i THEN x ELSE q[j]
  BY <1>1, <1>2 DEF ToSet, ReplaceAt
<1>4. IsSeq(r)
  <2>1. PICK T : T = ToSet(r)
    OBVIOUS
  <2>2. r \in UNION {[1..m -> T] : m \in Nat}
    BY <1>2, <1>3, <2>1
  <2>3. Seq(T) = UNION {[1..m -> T] : m \in Nat}
    BY SeqDef, Zenon
  <2>4. r \in Seq(T)
    BY <2>2, <2>3, Zenon
  <2> QED
    BY <2>1, <2>4 DEF IsSeq
<1>5. DOMAIN r = 1..Len(r) /\ Len(r) \in Nat
  BY <1>4, SeqFacts
<1>6. \A m \in Nat : 1..m = 1..n => m = n
  OBVIOUS
<1>7. 1..Len(r) = 1..n
  BY <1>1, <1>2, <1>3, <1>5
<1> QED
  BY <1>2, <1>3, <1>4, <1>5, <1>6, <1>7

\* RemoveAt takes one place out of a sequence over S.
LEMMA RemovedAt ==
    ASSUME NEW S, NEW q \in Seq(S), NEW i \in 1..Len(q)
    PROVE  RemoveAt(q, i) \in Seq(S) /\ Len(RemoveAt(q, i)) = Len(q) - 1
<1>1. Len(q) \in Nat /\ i \in Nat /\ 1 <= i /\ i <= Len(q)
  BY LenProperties
<1> DEFINE a == SubSeq(q, 1, i - 1)
           b == SubSeq(q, i + 1, Len(q))
<1>2. a \in Seq(S) /\ Len(a) = i - 1
  <2>1. 1 \in 1..Len(q) + 1 /\ i - 1 \in 0..Len(q)
    BY <1>1
  <2> QED
    BY <1>1, <2>1, SubSeqProperties
<1>3. b \in Seq(S) /\ Len(b) = Len(q) - i
  <2>1. i + 1 \in 1..Len(q) + 1 /\ Len(q) \in 0..Len(q)
    BY <1>1
  <2> QED
    BY <1>1, <2>1, SubSeqProperties
<1> HIDE DEF a, b
<1>4. a \o b \in Seq(S) /\ Len(a \o b) = Len(a) + Len(b)
  BY <1>2, <1>3, ConcatProperties
<1>5. RemoveAt(q, i) = a \o b
  BY DEF RemoveAt, a, b
<1>6. PICK n, k, l : n = Len(q) /\ k = Len(a) /\ l = Len(b)
  OBVIOUS
<1>7. k + l = n - 1
  BY <1>1, <1>2, <1>3, <1>6
<1> QED
  BY <1>4, <1>5, <1>6, <1>7

\* RemoveAt closes the gap: the places before it keep their elements, those after it move
\* one down.
Closes(r, q, i) ==
    /\ IsSeq(r) /\ DOMAIN r = 1..Len(q) - 1
    /\ \A k \in DOMAIN r : r[k] = q[IF k < i THEN k ELSE k + 1]
LEMMA RemovedPlaces ==
    ASSUME NEW q, IsSeq(q), NEW i \in DOMAIN q, NEW r, r = RemoveAt(q, i)
    PROVE  Closes(r, q, i)
<1>1. PICK n \in Nat : n = Len(q) /\ DOMAIN q = 1..n
  BY SeqFacts
<1>2. PICK S : S = ToSet(q) /\ q \in Seq(S)
  BY DEF IsSeq
<1>3. 1 <= i /\ i <= n /\ i \in Nat
  BY <1>1
<1>4. PICK a, b : a = SubSeq(q, 1, i - 1) /\ b = SubSeq(q, i + 1, n)
  OBVIOUS
<1>5. a \in Seq(S) /\ Len(a) = i - 1 /\ \A k \in 1..i - 1 : a[k] = q[k]
  <2>1. 1 \in 1..n + 1 /\ i - 1 \in 0..n
    BY <1>1, <1>3
  <2>2. /\ a \in Seq(S) /\ Len(a) = IF 1 <= i - 1 THEN i - 1 - 1 + 1 ELSE 0
        /\ \A k \in 1..Len(a) : a[k] = q[1 + k - 1]
    BY <1>1, <1>2, <1>4, <2>1, SubSeqProperties
  <2>3. Len(a) = i - 1
    BY <1>3, <2>2
  <2>4. \A k \in 1..i - 1 : 1 + k - 1 = k
    BY <1>3
  <2> QED
    BY <2>2, <2>3, <2>4
<1>6. b \in Seq(S) /\ Len(b) = n - i /\ \A k \in 1..n - i : b[k] = q[i + k]
  <2>1. i + 1 \in 1..n + 1 /\ n \in 0..n
    BY <1>1, <1>3
  <2>2. /\ b \in Seq(S) /\ Len(b) = IF i + 1 <= n THEN n - (i + 1) + 1 ELSE 0
        /\ \A k \in 1..Len(b) : b[k] = q[i + 1 + k - 1]
    BY <1>1, <1>2, <1>4, <2>1, SubSeqProperties, SMTT(20)
  <2>3. Len(b) = n - i
    BY <1>3, <2>2
  <2>4. \A k \in 1..n - i : i + 1 + k - 1 = i + k
    BY <1>3
  <2> QED
    BY <2>2, <2>3, <2>4
<1>7. r = a \o b
  BY <1>1, <1>4 DEF RemoveAt
<1>8. PICK k, l : k = Len(a) /\ l = Len(b)
  OBVIOUS
<1>9. /\ r \in Seq(S) /\ Len(r) = k + l
      /\ \A j \in 1..k + l : r[j] = IF j <= k THEN a[j] ELSE b[j - k]
  <2>1. a \in Seq(S) /\ b \in Seq(S)
    BY <1>5, <1>6
  <2>2. /\ a \o b \in Seq(S) /\ Len(a \o b) = Len(a) + Len(b)
        /\ \A j \in 1..Len(a) + Len(b) :
             (a \o b)[j] = IF j <= Len(a) THEN a[j] ELSE b[j - Len(a)]
    BY <2>1, ConcatProperties
  <2> QED
    BY <1>7, <1>8, <2>2
<1>10. k = i - 1 /\ l = n - i /\ k + l = n - 1
  BY <1>3, <1>5, <1>6, <1>8
<1>11. IsSeq(r) /\ DOMAIN r = 1..n - 1
  BY <1>9, <1>10, SeqOfSeq, LenProperties
<1>12. ASSUME NEW j \in 1..n - 1 PROVE r[j] = q[IF j < i THEN j ELSE j + 1]
  <2>1. CASE j < i
    <3>1. j <= k /\ j \in 1..i - 1
      BY <1>3, <1>10, <2>1
    <3> QED
      BY <1>5, <1>9, <1>10, <2>1, <3>1
  <2>2. CASE ~(j < i)
    <3>1. ~(j <= k) /\ j - k \in 1..n - i /\ i + (j - k) = j + 1
      BY <1>3, <1>10, <2>2
    <3> QED
      BY <1>6, <1>9, <1>10, <2>2, <3>1
  <2> QED
    BY <2>1, <2>2
<1>13. DOMAIN r = 1..Len(q) - 1
  BY <1>1, <1>11
<1>14. \A j \in DOMAIN r : r[j] = q[IF j < i THEN j ELSE j + 1]
  BY <1>11, <1>12
<1> QED
  BY <1>11, <1>13, <1>14, Zenon DEF Closes

\* A set of two is finite.
LEMMA PairIsFinite == ASSUME NEW x, NEW y PROVE IsFiniteSet({x, y})
<1>1. IsFiniteSet({x})
  BY FS_Singleton
<1>2. IsFiniteSet({x} \union {y})
  BY <1>1, FS_AddElement
<1>3. {x, y} = {x} \union {y}
  OBVIOUS
<1> QED
  BY <1>2, <1>3

\* The empty sequence is one over every set.
LEMMA InSeqEmpty == ASSUME NEW S PROVE <<>> \in Seq(S) /\ Len(<<>>) = 0
BY EmptySeq

\* What Append does to a sequence over S.
LEMMA InSeqAppend ==
    ASSUME NEW S, NEW q \in Seq(S), NEW x \in S
    PROVE  /\ Append(q, x) \in Seq(S)
           /\ DOMAIN q \subseteq DOMAIN Append(q, x)
           /\ Len(q) \in Nat /\ Len(Append(q, x)) = Len(q) + 1
           /\ Len(q) + 1 \in DOMAIN Append(q, x) /\ Append(q, x)[Len(q) + 1] = x
           /\ DOMAIN Append(q, x) = DOMAIN q \union {Len(q) + 1} /\ Len(q) + 1 \notin DOMAIN q
           /\ \A i \in DOMAIN q : Append(q, x)[i] = q[i]
<1>1. IsSeq(q)
  BY SeqOfSeq
<1>2. PICK r : r = Append(q, x)
  OBVIOUS
<1>3. r \in Seq(S)
  BY <1>2, AppendProperties
<1>4. Len(q) \in Nat
  BY LenProperties
<1> QED
  BY <1>1, <1>2, <1>3, <1>4, Appended

\* What ReplaceAt does to a sequence over S.
LEMMA InSeqReplace ==
    ASSUME NEW S, NEW q \in Seq(S), NEW i, NEW x, i \in DOMAIN q => x \in S
    PROVE  /\ ReplaceAt(q, i, x) \in Seq(S)
           /\ Len(ReplaceAt(q, i, x)) = Len(q)
           /\ DOMAIN ReplaceAt(q, i, x) = DOMAIN q
           /\ \A j \in DOMAIN q : ReplaceAt(q, i, x)[j] = IF j = i THEN x ELSE q[j]
<1>1. IsSeq(q) /\ \A j \in DOMAIN q : q[j] \in S
  BY SeqOfSeq, LenProperties
<1>2. PICK r : r = ReplaceAt(q, i, x)
  OBVIOUS
<1>3. /\ IsSeq(r) /\ Len(r) = Len(q) /\ DOMAIN r = DOMAIN q
      /\ \A j \in DOMAIN q : r[j] = IF j = i THEN x ELSE q[j]
  BY <1>1, <1>2, Replaced
<1>4. ToSet(r) \subseteq S
  BY <1>1, <1>2, <1>3 DEF ToSet
<1>5. r \in Seq(S)
  BY <1>3, <1>4, SeqMonotonic DEF IsSeq
<1> QED
  BY <1>2, <1>3, <1>5

\* The words of two texts, one after the other.
LEMMA ConcatWords ==
    ASSUME NEW p, IsSeq(p), NEW q, IsSeq(q)
    PROVE  /\ IsSeq(p \o q) /\ ToSet(p \o q) = ToSet(p) \union ToSet(q)
           /\ Len(p \o q) = Len(p) + Len(q)
           /\ \A i \in DOMAIN p : i \in DOMAIN (p \o q) /\ (p \o q)[i] = p[i]
<1>1. PICK r : r = p \o q
  OBVIOUS
<1>2. PICK k, l, T : k = Len(p) /\ l = Len(q) /\ T = ToSet(p) \union ToSet(q)
  OBVIOUS
<1>3. p \in Seq(T) /\ q \in Seq(T)
  BY <1>2, SeqMonotonic DEF IsSeq
<1>4. /\ DOMAIN p = 1..k /\ DOMAIN q = 1..l /\ k \in Nat /\ l \in Nat
      /\ r \in Seq(T) /\ Len(r) = k + l
      /\ \A i \in 1..(k + l) : r[i] = IF i <= k THEN p[i] ELSE q[i - k]
  BY <1>1, <1>2, <1>3, ConcatProperties, LenProperties
<1>5. IsSeq(r) /\ ToSet(r) \subseteq T /\ DOMAIN r = 1..(k + l)
  BY <1>4, SeqOfSeq, LenProperties
<1>6. \A i \in DOMAIN p : i \in DOMAIN r /\ r[i] = p[i]
  BY <1>4, <1>5
<1>7. \A i \in DOMAIN q : k + i \in DOMAIN r /\ r[k + i] = q[i]
  BY <1>4, <1>5, SMTT(20)
<1>8. T \subseteq ToSet(r)
  BY <1>2, <1>6, <1>7 DEF ToSet
<1> QED
  BY <1>1, <1>2, <1>4, <1>5, <1>6, <1>8

\* Replacing a word brings in no other.
LEMMA ReplacedWords ==
    ASSUME NEW p, NEW i, NEW x
    PROVE  ToSet(ReplaceAt(p, i, x)) \subseteq ToSet(p) \union {x}
BY DEF ToSet, ReplaceAt

\* Texts of one word, of two words, of none.
LEMMA OneWord == ASSUME NEW x PROVE IsSeq(<<x>>) /\ ToSet(<<x>>) = {x}
BY DEF IsSeq, ToSet

\* The members of a text of two words,
LEMMA TwoWords == ASSUME NEW x, NEW y PROVE IsSeq(<<x, y>>) /\ ToSet(<<x, y>>) = {x, y}
BY DEF IsSeq, ToSet

\* and of an empty one.
LEMMA NoWords == IsSeq(<<>>) /\ ToSet(<<>>) = {}
BY EmptySeq DEF IsSeq, ToSet

-----------------------------------------------------------------------------
(* What the operators of Ranking return.                                    *)

\* R is a linear order of S; the elements of S before x.
LinearOn(S, R) ==
    /\ \A x \in S : <<x, x>> \notin R
    /\ \A x, y, z \in S : <<x, y>> \in R /\ <<y, z>> \in R => <<x, z>> \in R
    /\ \A x, y \in S : x # y => <<x, y>> \in R \/ <<y, x>> \in R
Predecessors(S, R, x) == {y \in S : <<y, x>> \in R}

\* What stands before another has fewer before it.
LEMMA RankGrows ==
    ASSUME NEW S, IsFiniteSet(S), NEW R, LinearOn(S, R),
           NEW x \in S, NEW y \in S, <<x, y>> \in R
    PROVE  /\ Cardinality(Predecessors(S, R, x)) \in Nat /\ Cardinality(Predecessors(S, R, y)) \in Nat
           /\ Cardinality(Predecessors(S, R, x)) < Cardinality(Predecessors(S, R, y))
<1> DEFINE X == Predecessors(S, R, x)
           Y == Predecessors(S, R, y)
<1>1. X \in SUBSET S /\ Y \in SUBSET S /\ x \notin X /\ x \in Y /\ X \subseteq Y
  BY DEF Predecessors, LinearOn
<1> HIDE DEF X, Y
<1>2. IsFiniteSet(X) /\ IsFiniteSet(Y) /\ Cardinality(X) \in Nat /\ Cardinality(Y) \in Nat
  BY <1>1, FS_Subset, FS_CardinalityType
<1>3. Cardinality(X \union {x}) = Cardinality(X) + 1
  BY <1>1, <1>2, FS_AddElement
<1>4. X \union {x} \in SUBSET Y
  BY <1>1
<1>5. Cardinality(X \union {x}) <= Cardinality(Y)
  BY <1>2, <1>4, FS_Subset
<1>6. Cardinality(X) < Cardinality(Y)
  BY <1>2, <1>3, <1>5
<1> QED
  BY <1>2, <1>6 DEF X, Y

\* So a rank is below the number of elements,
LEMMA RankOf ==
    ASSUME NEW S, IsFiniteSet(S), NEW R, LinearOn(S, R), NEW x \in S
    PROVE  Cardinality(Predecessors(S, R, x)) \in 0..Cardinality(S) - 1
<1>1. Predecessors(S, R, x) \in SUBSET (S \ {x})
  BY DEF Predecessors, LinearOn
<1>2. /\ IsFiniteSet(S \ {x}) /\ Cardinality(S \ {x}) = Cardinality(S) - 1
      /\ Cardinality(S) \in Nat
  BY FS_RemoveElement, FS_CardinalityType
<1>3. /\ IsFiniteSet(Predecessors(S, R, x))
      /\ Cardinality(Predecessors(S, R, x)) <= Cardinality(S \ {x})
  BY <1>1, <1>2, FS_Subset
<1>4. Cardinality(Predecessors(S, R, x)) \in Nat
  BY <1>3, FS_CardinalityType
<1> QED
  BY <1>2, <1>3, <1>4

\* and every such number is the rank of an element, the one that AtRank chooses.
LEMMA RankedIs ==
    ASSUME NEW S, IsFiniteSet(S), NEW R, LinearOn(S, R), NEW n \in 0..Cardinality(S) - 1
    PROVE  /\ AtRank(S, R, n) \in S
           /\ Cardinality(Predecessors(S, R, AtRank(S, R, n))) = n
<1> DEFINE N == Cardinality(S)
           T == 0..N - 1
           f == [x \in S |-> Cardinality(Predecessors(S, R, x))]
<1>1. N \in Nat /\ IsFiniteSet(T) /\ Cardinality(T) = N
  <2>1. N \in Nat
    BY FS_CardinalityType
  <2> HIDE DEF N
  <2>2. IsFiniteSet(0..N-1) /\ Cardinality(0..N-1) = IF 0 > N - 1 THEN 0 ELSE N - 1 - 0 + 1
    BY <2>1, FS_Interval
  <2> QED
    BY <2>1, <2>2
<1>2. f \in [S -> T]
  BY RankOf
<1>3. ASSUME NEW x \in S, NEW y \in S, x # y PROVE f[x] # f[y]
  <2>1. <<x, y>> \in R \/ <<y, x>> \in R
    BY <1>3 DEF LinearOn
  <2>2. CASE <<x, y>> \in R
    BY <2>2, RankGrows
  <2>3. CASE <<y, x>> \in R
    BY <2>3, RankGrows
  <2> QED
    BY <2>1, <2>2, <2>3
<1> HIDE DEF f, T
<1>4. f \in Injection(S, T)
  BY <1>2, <1>3 DEF Injection, IsInjective
<1>5. f \in Surjection(S, T)
  BY <1>1, <1>4, FS_Injection
<1>6. n \in T
  BY DEF T
<1>7. PICK x \in S : f[x] = n
  BY <1>5, <1>6 DEF Surjection
<1>8. Cardinality({y \in S : <<y, x>> \in R}) = n
  BY <1>7 DEF f, Predecessors
<1>9. /\ AtRank(S, R, n) \in S
      /\ Cardinality({y \in S : <<y, AtRank(S, R, n)>> \in R}) = n
  BY <1>8 DEF AtRank
<1> QED
  BY <1>9 DEF Predecessors

\* AtRank goes along the order,
LEMMA RankedAscends ==
    ASSUME NEW S, IsFiniteSet(S), NEW R, LinearOn(S, R),
           NEW n \in 0..Cardinality(S) - 1, NEW m \in 0..Cardinality(S) - 1, n < m
    PROVE  <<AtRank(S, R, n), AtRank(S, R, m)>> \in R
<1>1. PICK x \in S : x = AtRank(S, R, n) /\ Cardinality(Predecessors(S, R, x)) = n
  BY RankedIs
<1>2. PICK y \in S : y = AtRank(S, R, m) /\ Cardinality(Predecessors(S, R, y)) = m
  BY RankedIs
<1>3. x # y
  BY <1>1, <1>2
<1>4. <<y, x>> \notin R
  BY <1>1, <1>2, RankGrows
<1> QED
  BY <1>1, <1>2, <1>3, <1>4 DEF LinearOn

\* and reaches every element.
LEMMA RankedAll ==
    ASSUME NEW S, IsFiniteSet(S), NEW R, LinearOn(S, R), NEW x \in S
    PROVE  \E n \in 0..Cardinality(S) - 1 : AtRank(S, R, n) = x
<1>1. PICK n \in 0..Cardinality(S) - 1 : n = Cardinality(Predecessors(S, R, x))
  BY RankOf
<1>2. PICK y \in S : y = AtRank(S, R, n) /\ Cardinality(Predecessors(S, R, y)) = n
  BY RankedIs
<1>3. <<x, y>> \notin R /\ <<y, x>> \notin R
  BY <1>1, <1>2, RankGrows
<1> QED
  BY <1>2, <1>3 DEF LinearOn

\* There are n numbers up to n.
LEMMA UpTo == ASSUME NEW n \in Nat PROVE IsFiniteSet(1..n) /\ Cardinality(1..n) = n
<1>1. IsFiniteSet(1..n) /\ Cardinality(1..n) = IF 1 > n THEN 0 ELSE n - 1 + 1
  BY FS_Interval
<1> QED
  BY <1>1

\* The elements at k and l are from two places that the order R has in this order.
FromPair(r, s, S, R, k, l) ==
    \E i, j \in S : r[k] = s[i] /\ r[l] = s[j] /\ <<i, j>> \in R

\* Arranged gives the elements at the places S, each once, in the order of the places.
Arranges(r, s, S, R) ==
    /\ IsSeq(r) /\ DOMAIN r = 1..Len(r) /\ Len(r) = Cardinality(S) /\ Len(r) \in Nat
    /\ Len(r) <= Len(s)
    /\ \A i \in S : s[i] \in ToSet(r)
    /\ \A x \in ToSet(r) : \E i \in S : x = s[i]
    /\ \A k, l \in DOMAIN r : k < l => FromPair(r, s, S, R, k, l)
LEMMA ArrangedSeq ==
    ASSUME NEW s, IsSeq(s), NEW S \in SUBSET DOMAIN s, NEW R, LinearOn(S, R),
           NEW r, r = Arranged(s, S, R)
    PROVE  Arranges(r, s, S, R)
<1>1. PICK n : n = Len(s) /\ n \in Nat /\ DOMAIN s = 1..n
  BY SeqFacts
<1>2. IsFiniteSet(1..n) /\ Cardinality(1..n) = n
  BY <1>1, UpTo
<1>3. PICK m : m = Cardinality(S) /\ m \in Nat /\ m <= n
  BY <1>1, <1>2, FS_Subset, FS_CardinalityType
<1>4. IsFiniteSet(S)
  BY <1>1, <1>2, FS_Subset
<1> DEFINE place == [k \in 1..m |-> AtRank(S, R, k - 1)]
<1>5. place \in [1..m -> S]
  <2>1. ASSUME NEW k \in 1..m PROVE AtRank(S, R, k - 1) \in S
    <3>1. k - 1 \in 0..m - 1
      BY <1>3
    <3> QED
      BY <1>3, <1>4, <3>1, RankedIs
  <2> QED
    BY <2>1
<1>6. r = [k \in 1..m |-> s[place[k]]]
  BY <1>3 DEF Arranged
<1>7. ASSUME NEW x \in S PROVE \E k \in 1..m : place[k] = x
  <2>1. PICK i \in 0..m - 1 : AtRank(S, R, i) = x
    BY <1>3, <1>4, RankedAll
  <2>2. i + 1 \in 1..m /\ (i + 1) - 1 = i
    BY <1>3
  <2> QED
    BY <2>1, <2>2
<1>8. ASSUME NEW k \in 1..m, NEW l \in 1..m, k < l
      PROVE  <<place[k], place[l]>> \in R
  <2>1. k - 1 \in 0..m - 1 /\ l - 1 \in 0..m - 1 /\ k - 1 < l - 1
    BY <1>3, <1>8
  <2> QED
    BY <1>3, <1>4, <2>1, RankedAscends
<1> HIDE DEF place
<1>9. r \in Seq(ToSet(s)) /\ Len(r) = m /\ DOMAIN r = 1..m
  <2>1. r \in [1..m -> ToSet(s)]
    BY <1>1, <1>5, <1>6 DEF ToSet
  <2>2. r \in Seq(ToSet(s))
    BY <1>3, <2>1, SeqDef
  <2> QED
    BY <1>3, <2>1, <2>2, LenProperties
<1>10. /\ \A i \in S : s[i] \in ToSet(r)
       /\ \A x \in ToSet(r) : \E i \in S : x = s[i]
  BY <1>5, <1>6, <1>7, <1>9 DEF ToSet
<1>11. ASSUME NEW k \in DOMAIN r, NEW l \in DOMAIN r, k < l
       PROVE  FromPair(r, s, S, R, k, l)
  BY <1>5, <1>6, <1>8, <1>9, <1>11 DEF FromPair
<1>12. IsSeq(r)
  BY <1>9, SeqOfSeq
<1> QED
  BY <1>1, <1>3, <1>9, <1>10, <1>11, <1>12 DEF Arranges

\* An element before another is from a place the order puts before the other's.
LEMMA ArrangedPairs ==
    ASSUME NEW r, NEW s, NEW S, NEW R, Arranges(r, s, S, R),
           NEW k \in DOMAIN r, NEW l \in DOMAIN r, k < l
    PROVE  FromPair(r, s, S, R, k, l)
BY DEF Arranges

\* Places in ascending order.
LEMMA EarlierIsLinear ==
    ASSUME NEW S \in SUBSET Nat
    PROVE  LinearOn(S, Earlier(S))
<1>1. \A x, y \in S : <<x, y>> \in Earlier(S) <=> x < y
  BY DEF Earlier
<1> QED
  BY <1>1 DEF LinearOn

\* Places in the order of their elements, L being the pairs whose elements are in strict
\* order, and otherwise ascending.
LEMMA StableIsLinear ==
    ASSUME NEW S \in SUBSET Nat, NEW L,
           \A x, y \in S : <<x, y>> \in L => <<y, x>> \notin L,
           \A x, y, z \in S : <<x, z>> \in L => <<x, y>> \in L \/ <<y, z>> \in L,
           NEW R, \A x, y \in S : <<x, y>> \in R <=>
                     \/ <<x, y>> \in L
                     \/ x < y /\ <<y, x>> \notin L
    PROVE  LinearOn(S, R)
<1>1. \A x \in S : <<x, x>> \notin R
  OBVIOUS
<1>2. ASSUME NEW x \in S, NEW y \in S, NEW z \in S, <<x, y>> \in R, <<y, z>> \in R
      PROVE  <<x, z>> \in R
  <2>1. x < y /\ y < z => x < z
    OBVIOUS
  <2>2. CASE <<x, y>> \in L /\ <<y, z>> \in L
    BY <2>2
  <2>3. CASE <<x, y>> \in L /\ <<z, y>> \notin L
    BY <2>3
  <2>4. CASE <<y, x>> \notin L /\ <<y, z>> \in L
    BY <2>4
  <2>5. CASE <<y, x>> \notin L /\ <<z, y>> \notin L /\ x < y /\ y < z
    BY <2>1, <2>5
  <2> QED
    BY <1>2, <2>2, <2>3, <2>4, <2>5
<1>3. ASSUME NEW x \in S, NEW y \in S, x # y PROVE <<x, y>> \in R \/ <<y, x>> \in R
  <2>1. x < y \/ y < x
    BY <1>3
  <2> QED
    BY <2>1
<1> QED
  BY <1>1, <1>2, <1>3 DEF LinearOn

\* No two elements have the same rank.
LEMMA RankUnique ==
    ASSUME NEW S, IsFiniteSet(S), NEW R, LinearOn(S, R), NEW x \in S, NEW y \in S,
           Cardinality(Predecessors(S, R, x)) = Cardinality(Predecessors(S, R, y))
    PROVE  x = y
<1>1. <<x, y>> \notin R /\ <<y, x>> \notin R
  BY RankGrows
<1> QED
  BY <1>1 DEF LinearOn

\* The element with n before it is the one AtRank chooses.
LEMMA RankFound ==
    ASSUME NEW S, IsFiniteSet(S), NEW R, LinearOn(S, R), NEW x \in S, NEW n,
           Cardinality(Predecessors(S, R, x)) = n
    PROVE  AtRank(S, R, n) = x
<1>1. n \in 0..Cardinality(S) - 1
  BY RankOf
<1>2. PICK y \in S : y = AtRank(S, R, n) /\ Cardinality(Predecessors(S, R, y)) = n
  BY <1>1, RankedIs
<1>3. x = y
  BY <1>2, RankUnique
<1> QED
  BY <1>2, <1>3

\* One more place at the end of a set of places keeps the ranks of the others,
LEMMA RanksKept ==
    ASSUME NEW S \in SUBSET Nat, IsFiniteSet(S), NEW n \in Nat, \A i \in S : i < n,
           NEW T, T = S \union {n}
    PROVE  /\ IsFiniteSet(T) /\ Cardinality(T) = Cardinality(S) + 1 /\ Cardinality(S) \in Nat
           /\ \A k \in 0..Cardinality(S) - 1 : AtRank(T, Earlier(T), k) = AtRank(S, Earlier(S), k)
           /\ AtRank(T, Earlier(T), Cardinality(S)) = n
<1>1. n \notin S
  OBVIOUS
<1>2. IsFiniteSet(T) /\ Cardinality(T) = Cardinality(S) + 1 /\ Cardinality(S) \in Nat
  BY <1>1, FS_AddElement, FS_CardinalityType
<1>3. PICK Q, R : Q = Earlier(S) /\ LinearOn(S, Q) /\ R = Earlier(T) /\ LinearOn(T, R)
  <2>1. T \in SUBSET Nat
    OBVIOUS
  <2> QED
    BY <2>1, EarlierIsLinear
<1>4. PICK c \in Nat : c = Cardinality(S) /\ Cardinality(T) = c + 1
  BY <1>2
<1>5. ASSUME NEW x \in S
      PROVE  Predecessors(T, R, x) = Predecessors(S, Q, x)
  BY <1>3, <1>5 DEF Predecessors, Earlier
<1>6. Predecessors(T, R, n) = S
  <2>1. \A x, y \in T : <<x, y>> \in R <=> x < y
    BY <1>3 DEF Earlier
  <2>2. \A y \in T : y < n <=> y \in S
    BY <1>1
  <2> QED
    BY <2>1, <2>2 DEF Predecessors
<1>7. ASSUME NEW k \in 0..c - 1
      PROVE  AtRank(T, R, k) = AtRank(S, Q, k)
  <2>1. IsFiniteSet(S) /\ LinearOn(S, Q) /\ k \in 0..Cardinality(S) - 1
    BY <1>3, <1>4
  <2>2. PICK x \in S : x = AtRank(S, Q, k)
                       /\ Cardinality(Predecessors(S, Q, x)) = k
    BY <2>1, RankedIs
  <2>3. IsFiniteSet(T) /\ LinearOn(T, R)
    BY <1>2, <1>3
  <2>4. x \in T /\ Cardinality(Predecessors(T, R, x)) = k
    BY <1>5, <2>2
  <2>5. AtRank(T, R, k) = x
    BY <2>3, <2>4, RankFound
  <2> QED
    BY <2>2, <2>5
<1>8. AtRank(T, R, c) = n
  <2>1. IsFiniteSet(T) /\ LinearOn(T, R)
    BY <1>2, <1>3
  <2>2. n \in T /\ Cardinality(Predecessors(T, R, n)) = c
    BY <1>4, <1>6
  <2> QED
    BY <2>1, <2>2, RankFound
<1> QED
  BY <1>2, <1>3, <1>4, <1>7, <1>8

\* so that what is appended to a sequence comes last in what is chosen from it, or nowhere.
Chosen(q, S) == Arranged(q, S, Earlier(S))
OneMore(r, q, S, T, x) ==
    /\ Chosen(r, S) = Chosen(q, S)
    /\ Chosen(r, T) = Append(Chosen(q, S), x)
    /\ IsSeq(Chosen(q, S))
LEMMA ChosenMore ==
    ASSUME NEW q, IsSeq(q), NEW x, NEW r, r = Append(q, x),
           NEW S \in SUBSET DOMAIN q, NEW T, T = S \union {Len(q) + 1}
    PROVE  OneMore(r, q, S, T, x)
<1>1. PICK n \in Nat : n = Len(q) /\ DOMAIN q = 1..n
  BY SeqFacts
<1>2. /\ IsSeq(r) /\ DOMAIN r = 1..n + 1 /\ r[n + 1] = x
      /\ \A i \in 1..n : r[i] = q[i]
  BY <1>1, AppendedLonger DEF Longer
<1>3. IsFiniteSet(S)
  BY <1>1, UpTo, FS_Subset
<1>4. S \in SUBSET Nat /\ \A i \in S : i < n + 1
  BY <1>1
<1>5. PICK c \in Nat : c = Cardinality(S) /\ Cardinality(T) = c + 1
  BY <1>1, <1>3, <1>4, RanksKept, SMTT(20)
<1> DEFINE place(U, k) == AtRank(U, Earlier(U), k)
<1>6. \A k \in 0..c - 1 : place(T, k) = place(S, k)
  BY <1>1, <1>3, <1>4, <1>5, RanksKept, SMTT(20)
<1>7. place(T, c) = n + 1
  BY <1>1, <1>3, <1>4, <1>5, RanksKept
<1>8. \A k \in 0..c - 1 : place(S, k) \in S
  BY <1>3, <1>4, <1>5, EarlierIsLinear, RankedIs
<1> HIDE DEF place
<1>9. PICK a, b, d : /\ a = Arranged(q, S, Earlier(S)) /\ b = Arranged(r, S, Earlier(S))
                     /\ d = Arranged(r, T, Earlier(T))
  OBVIOUS
<1>10. /\ a = [k \in 1..c |-> q[place(S, k - 1)]]
       /\ b = [k \in 1..c |-> r[place(S, k - 1)]]
       /\ d = [k \in 1..c + 1 |-> r[place(T, k - 1)]]
  BY <1>5, <1>9 DEF Arranged, place
<1>11. \A k \in 1..c : k - 1 \in 0..c - 1
  OBVIOUS
<1>12. a = b
  BY <1>1, <1>2, <1>8, <1>10, <1>11
<1>13. Arranges(a, q, S, Earlier(S))
  BY <1>4, <1>9, EarlierIsLinear, ArrangedSeq
<1>14. IsSeq(a) /\ Len(a) = c /\ DOMAIN a = 1..c
  BY <1>5, <1>13 DEF Arranges
<1>15. PICK e : e = Append(a, x)
  OBVIOUS
<1>16. IsSeq(e) /\ Len(e) = c + 1 /\ DOMAIN e = 1..c + 1 /\ e[c + 1] = x
       /\ \A k \in 1..c : e[k] = a[k]
  <2>1. Longer(e, a, x)
    BY <1>14, <1>15, AppendedLonger
  <2>2. IsSeq(e) /\ DOMAIN e = 1..c + 1 /\ e[c + 1] = x /\ \A k \in 1..c : e[k] = a[k]
    BY <1>14, <2>1 DEF Longer
  <2>3. Len(e) = c + 1
    BY <1>14, <1>15, Appended
  <2> QED
    BY <2>2, <2>3
<1>17. \A k \in 1..c + 1 : d[k] = e[k]
  <2>1. ASSUME NEW k \in 1..c PROVE d[k] = e[k]
    <3>1. k - 1 \in 0..c - 1 /\ k \in 1..c + 1
      OBVIOUS
    <3>2. place(T, k - 1) = place(S, k - 1) /\ place(S, k - 1) \in S
      BY <1>6, <1>8, <3>1
    <3>3. d[k] = r[place(S, k - 1)]
      BY <1>10, <3>1, <3>2
    <3>4. r[place(S, k - 1)] = q[place(S, k - 1)]
      BY <1>1, <1>2, <3>2
    <3>5. e[k] = q[place(S, k - 1)]
      BY <1>10, <1>16
    <3> QED
      BY <3>3, <3>4, <3>5
  <2>2. d[c + 1] = e[c + 1]
    <3>1. c + 1 \in 1..c + 1 /\ (c + 1) - 1 = c
      OBVIOUS
    <3> QED
      BY <1>2, <1>7, <1>10, <1>16, <3>1
  <2>3. \A k \in 1..c + 1 : k \in 1..c \/ k = c + 1
    OBVIOUS
  <2> QED
    BY <2>1, <2>2, <2>3
<1>18. d = e
  <2>1. e \in [1..c + 1 -> ToSet(e)]
    BY <1>16, LenProperties DEF IsSeq
  <2> QED
    BY <1>10, <1>17, <2>1
<1> QED
  BY <1>9, <1>12, <1>14, <1>15, <1>18 DEF Chosen, OneMore

\* Sequences with the same elements at the same places are the same.
LEMMA SameSeq ==
    ASSUME NEW q, IsSeq(q), NEW r, IsSeq(r), Len(q) = Len(r), \A i \in 1..Len(q) : q[i] = r[i]
    PROVE  q = r
<1>1. PICK S : S = ToSet(q) \union ToSet(r)
  OBVIOUS
<1>2. q \in Seq(S) /\ r \in Seq(S)
  BY <1>1, SeqMonotonic DEF IsSeq
<1> QED
  BY <1>2, SeqEqual

\* r is the last k elements of q,
Ends(r, q, k) ==
    /\ IsSeq(r) /\ Len(r) = k /\ DOMAIN r = 1..k
    /\ \A i \in 1..k : r[i] = q[Len(q) - k + i]

\* and so a suffix of q.
LEMMA EndIsSuffix ==
    ASSUME NEW q, IsSeq(q), NEW k \in 0..Len(q), NEW r, Ends(r, q, k)
    PROVE  IsSuffix(r, q)
<1>1. PICK n \in Nat : n = Len(q) /\ DOMAIN q = 1..n
  BY SeqFacts
<1>2. k \in Nat /\ k <= n
  BY <1>1
<1>3. PICK a, b : a = Reverse(r) /\ b = Reverse(q)
  OBVIOUS
<1>4. a = [i \in 1..k |-> r[k - i + 1]] /\ b = [i \in 1..n |-> q[n - i + 1]]
  BY <1>1, <1>3 DEF Reverse, Ends
<1>5. \A i \in 1..k : k - i + 1 \in 1..k /\ n - k + (k - i + 1) = n - i + 1 /\ i \in 1..n
  BY <1>2
<1>6. \A i \in 1..n : n - i + 1 \in 1..n
  BY <1>2
<1>7. PICK S : S = ToSet(q)
  OBVIOUS
<1>8. \A i \in 1..n : q[i] \in S
  BY <1>1, <1>7 DEF ToSet
<1>9. \A i \in 1..k : a[i] = b[i]
  <2>1. \A i \in 1..k : r[i] = q[n - k + i]
    BY <1>1 DEF Ends
  <2> QED
    BY <1>4, <1>5, <2>1
<1>10. b \in [1..n -> S]
  BY <1>4, <1>6, <1>8
<1>11. a \in [1..k -> S]
  BY <1>4, <1>5, <1>9, <1>10
<1>12. a \in Seq(S) /\ Len(a) = k /\ b \in Seq(S) /\ Len(b) = n
  <2>1. a \in Seq(S) /\ b \in Seq(S)
    BY <1>2, <1>10, <1>11, SeqDef
  <2> QED
    BY <1>2, <1>10, <1>11, <2>1, LenProperties
<1>13. PICK c, d : c = SubSeq(a, 1, k) /\ d = SubSeq(b, 1, k)
  OBVIOUS
<1>14. c \in Seq(S) /\ Len(c) = k /\ \A i \in 1..k : c[i] = a[i]
  <2>1. 1 \in Int /\ k \in Int /\ \A i \in 1..k : a[i] \in S
    BY <1>2, <1>11
  <2>2. /\ c \in Seq(S) /\ Len(c) = IF 1 <= k THEN k - 1 + 1 ELSE 0
        /\ \A i \in 1..k - 1 + 1 : c[i] = a[1 + i - 1]
    BY <1>13, <2>1, SubSeqProperties
  <2>3. \A i \in 1..k : 1 + i - 1 = i
    OBVIOUS
  <2> QED
    BY <1>2, <2>2, <2>3
<1>15. d \in Seq(S) /\ Len(d) = k /\ \A i \in 1..k : d[i] = b[i]
  <2>1. 1 \in Int /\ k \in Int /\ \A i \in 1..k : b[i] \in S
    BY <1>2, <1>5, <1>10
  <2>2. /\ d \in Seq(S) /\ Len(d) = IF 1 <= k THEN k - 1 + 1 ELSE 0
        /\ \A i \in 1..k - 1 + 1 : d[i] = b[1 + i - 1]
    BY <1>13, <2>1, SubSeqProperties
  <2>3. \A i \in 1..k : 1 + i - 1 = i
    OBVIOUS
  <2> QED
    BY <1>2, <2>2, <2>3
<1>16. c = d
  BY <1>9, <1>14, <1>15, SeqEqual
<1>17. IsPrefix(a, b)
  BY <1>2, <1>12, <1>13, <1>16 DEF IsPrefix
<1> QED
  BY <1>3, <1>17 DEF IsSuffix

\* The least of two numbers.
LEMMA MinOfTwo ==
    ASSUME NEW m \in Nat, NEW n \in Nat
    PROVE  Min({m, n}) = IF m <= n THEN m ELSE n
<1>1. Min({m, n}) \in {m, n} /\ \A x \in {m, n} : Min({m, n}) <= x
  BY MinOfNaturals
<1> QED
  BY <1>1

\* What Append puts in,
LEMMA AddedItems ==
    ASSUME NEW q, IsSeq(q), NEW x
    PROVE  ToSet(Append(q, x)) = ToSet(q) \union {x}
<1>1. PICK n \in Nat : n = Len(q) /\ DOMAIN q = 1..n
  BY SeqFacts
<1>2. PICK r : r = Append(q, x)
  OBVIOUS
<1>3. DOMAIN r = 1..n + 1 /\ r[n + 1] = x /\ \A i \in 1..n : r[i] = q[i]
  <2>1. Longer(r, q, x)
    BY <1>2, AppendedLonger
  <2> QED
    BY <1>1, <2>1 DEF Longer
<1>4. \A k \in 1..n + 1 : k \in 1..n \/ k = n + 1
  BY <1>1
<1>5. n + 1 \in 1..n + 1 /\ \A k \in 1..n : k \in 1..n + 1
  BY <1>1
<1>6. ToSet(r) = ToSet(q) \union {x}
  BY <1>1, <1>3, <1>4, <1>5 DEF ToSet
<1> QED
  BY <1>2, <1>6

\* and RemoveAt takes out.
LEMMA MovedItems ==
    ASSUME NEW q, IsSeq(q), NEW i \in DOMAIN q
    PROVE  /\ IsSeq(RemoveAt(q, i))
           /\ ToSet(Append(RemoveAt(q, i), q[i])) = ToSet(q)
<1>1. PICK n \in Nat : n = Len(q) /\ DOMAIN q = 1..n
  BY SeqFacts
<1>2. PICK r : r = RemoveAt(q, i) /\ Closes(r, q, i)
  BY RemovedPlaces
<1>3. /\ IsSeq(r) /\ DOMAIN r = 1..n - 1
      /\ \A k \in 1..n - 1 : r[k] = q[IF k < i THEN k ELSE k + 1]
  BY <1>1, <1>2 DEF Closes
<1>4. \A k \in 1..n - 1 : (IF k < i THEN k ELSE k + 1) \in 1..n
  BY <1>1
<1>5. ToSet(r) \subseteq ToSet(q)
  BY <1>1, <1>3, <1>4 DEF ToSet
<1>6. ASSUME NEW k \in 1..n, k # i PROVE q[k] \in ToSet(r)
  <2>1. CASE k < i
    <3>1. k \in 1..n - 1
      BY <1>1, <2>1
    <3> QED
      BY <1>3, <2>1, <3>1 DEF ToSet
  <2>2. CASE i < k
    <3>1. k - 1 \in 1..n - 1 /\ ~(k - 1 < i) /\ k - 1 + 1 = k
      BY <1>1, <2>2
    <3> QED
      BY <1>3, <3>1 DEF ToSet
  <2> QED
    BY <1>1, <1>6, <2>1, <2>2
<1>7. ToSet(q) = ToSet(r) \union {q[i]}
  BY <1>1, <1>5, <1>6 DEF ToSet
<1>8. ToSet(Append(r, q[i])) = ToSet(r) \union {q[i]}
  BY <1>3, AddedItems
<1> QED
  BY <1>2, <1>3, <1>7, <1>8

\* What is appended comes last.
LEMMA LastAppended ==
    ASSUME NEW q, IsSeq(q), NEW x
    PROVE  Append(q, x) # <<>> /\ Last(Append(q, x)) = x
<1>1. PICK n \in Nat : n = Len(q)
  BY SeqFacts
<1>2. PICK r : r = Append(q, x)
  OBVIOUS
<1>3. IsSeq(r) /\ Len(r) = n + 1 /\ r[n + 1] = x
  BY <1>1, <1>2, Appended
<1>4. r # <<>>
  <2>1. Len(<<>>) = 0
    OBVIOUS
  <2> QED
    BY <1>1, <1>3, <2>1
<1>5. Last(r) = x
  BY <1>3 DEF Last
<1> QED
  BY <1>2, <1>4, <1>5

-----------------------------------------------------------------------------
(* Numbers: the parts of a set, and lists in order.                         *)

\* The sizes of three parts add up to that of the whole.
Parts(S, A, B, C) ==
    /\ Cardinality(A) \in Nat /\ Cardinality(B) \in Nat /\ Cardinality(C) \in Nat
    /\ Cardinality(S) = Cardinality(A) + Cardinality(B) + Cardinality(C)
LEMMA PartsAddUp ==
    ASSUME NEW S, IsFiniteSet(S), NEW A, NEW B, NEW C, S = A \union B \union C,
           A \intersect B = {}, A \intersect C = {}, B \intersect C = {}
    PROVE  Parts(S, A, B, C)
<1>1. A \in SUBSET S /\ B \in SUBSET S /\ C \in SUBSET S
  OBVIOUS
<1>2. IsFiniteSet(A) /\ IsFiniteSet(B) /\ IsFiniteSet(C)
  BY <1>1, FS_Subset
<1>3. /\ Cardinality(A) \in Nat /\ Cardinality(B) \in Nat /\ Cardinality(C) \in Nat
      /\ Cardinality({}) = 0
  BY <1>2, FS_CardinalityType, FS_EmptySet
<1>4. PICK D : D = A \union B
  OBVIOUS
<1>5. A \intersect B = {} /\ D \intersect C = {} /\ S = D \union C
  BY <1>4
<1>6. PICK a \in Nat, b \in Nat, c \in Nat :
        a = Cardinality(A) /\ b = Cardinality(B) /\ c = Cardinality(C)
  BY <1>3
<1>7. IsFiniteSet(D) /\ Cardinality(D) = a + b
  <2>1. /\ IsFiniteSet(A \union B)
        /\ Cardinality(A \union B) = Cardinality(A) + Cardinality(B) - Cardinality(A \intersect B)
    BY <1>2, FS_Union
  <2>2. Cardinality(A \intersect B) = 0
    BY <1>3, <1>5
  <2>3. Cardinality(D) = a + b - 0
    BY <1>4, <1>6, <2>1, <2>2
  <2> QED
    BY <1>4, <1>6, <2>1, <2>3
<1>8. Cardinality(S) = a + b + c
  <2>1. Cardinality(D \union C) = Cardinality(D) + Cardinality(C) - Cardinality(D \intersect C)
    BY <1>2, <1>7, FS_Union
  <2>2. Cardinality(D \intersect C) = 0
    BY <1>3, <1>5
  <2>3. Cardinality(S) = (a + b) + c - 0
    BY <1>5, <1>6, <1>7, <2>1, <2>2
  <2> QED
    BY <1>6, <2>3
<1> QED
  BY <1>6, <1>8 DEF Parts

\* Arranged gives as many elements of a kind as there are at the places.
OfKind(s, S, V) == {i \in S : s[i] \in V}
LEMMA ArrangedCounts ==
    ASSUME NEW s, IsSeq(s), NEW S \in SUBSET DOMAIN s, NEW R, LinearOn(S, R),
           NEW r, r = Arranged(s, S, R), NEW V
    PROVE  Cardinality(OfKind(r, DOMAIN r, V)) = Cardinality(OfKind(s, S, V))
<1>1. IsFiniteSet(S)
  BY SeqFacts, UpTo, FS_Subset
<1>2. PICK m : m = Cardinality(S) /\ m \in Nat
  BY <1>1, FS_CardinalityType
<1> DEFINE K == {k \in DOMAIN r : r[k] \in V}
           I == {i \in S : s[i] \in V}
           place == [k \in K |-> AtRank(S, R, k - 1)]
<1>3. ASSUME NEW k \in 1..m
      PROVE  AtRank(S, R, k - 1) \in S /\ r[k] = s[AtRank(S, R, k - 1)]
  <2>1. k - 1 \in 0..m - 1
    BY <1>2
  <2> QED
    BY <1>1, <1>2, <2>1, RankedIs DEF Arranged
<1>4. DOMAIN r = 1..m
  BY <1>2 DEF Arranged
<1>5. place \in [K -> I]
  BY <1>3, <1>4
<1>6. ASSUME NEW k \in K, NEW l \in K, k # l PROVE place[k] # place[l]
  <2>1. /\ k - 1 \in 0..m - 1 /\ l - 1 \in 0..m - 1
        /\ k - 1 < l - 1 \/ l - 1 < k - 1
    BY <1>2, <1>4, <1>6
  <2>2. place[k] \in S /\ place[l] \in S
    BY <1>3, <1>4
  <2>3. <<place[k], place[l]>> \in R \/ <<place[l], place[k]>> \in R
    BY <1>1, <1>2, <2>1, RankedAscends
  <2> QED
    BY <2>2, <2>3 DEF LinearOn
<1>7. ASSUME NEW i \in I PROVE \E k \in K : place[k] = i
  <2>1. PICK j \in 0..m - 1 : AtRank(S, R, j) = i
    BY <1>1, <1>2, RankedAll
  <2>2. j + 1 \in 1..m /\ (j + 1) - 1 = j
    BY <1>2
  <2>3. j + 1 \in K
    BY <1>3, <1>4, <2>1, <2>2
  <2> QED
    BY <2>1, <2>2, <2>3
<1>8. IsFiniteSet(K)
  <2>1. K \in SUBSET (1..m)
    BY <1>4
  <2> QED
    BY <1>2, <2>1, UpTo, FS_Subset
<1> HIDE DEF place, K, I
<1>9. place \in Bijection(K, I)
  BY <1>5, <1>6, <1>7 DEF Bijection, Injection, Surjection, IsInjective
<1>10. Cardinality(K) = Cardinality(I)
  BY <1>8, <1>9, FS_Bijection DEF ExistsBijection
<1> QED
  BY <1>10 DEF K, I, OfKind

\* What Ordered makes of numbers.
Upwards(values) ==
    LET S == DOMAIN values
        before == {p \in S \X S : \/ values[p[1]] < values[p[2]]
                                  \/ p[1] < p[2] /\ ~(values[p[2]] < values[p[1]])}
    IN  Arranged(values, S, before)

\* Numbers in order ascend, and are the same numbers.
LEMMA SortedNumbers ==
    ASSUME NEW values, IsSeq(values), ToSet(values) \subseteq Nat,
           NEW xs, xs = Upwards(values)
    PROVE  /\ DOMAIN xs = 1..Len(values) /\ Len(xs) = Len(values) /\ Len(values) \in Nat
           /\ \A k \in DOMAIN xs : xs[k] \in ToSet(values)
           /\ \A k, l \in DOMAIN xs : k <= l => xs[k] <= xs[l]
<1> DEFINE S == DOMAIN values
           L == {p \in S \X S : values[p[1]] < values[p[2]]}
           R == {p \in S \X S : \/ values[p[1]] < values[p[2]]
                                \/ p[1] < p[2] /\ ~(values[p[2]] < values[p[1]])}
<1>1. PICK n : n = Len(values) /\ n \in Nat /\ S = 1..n
  BY SeqFacts
<1>2. \A i \in S : values[i] \in Nat /\ i \in Nat /\ values[i] \in ToSet(values)
  BY <1>1 DEF ToSet
<1>3. xs = Arranged(values, S, R)
  BY DEF Upwards
<1>4. LinearOn(S, R)
  <2>1. S \in SUBSET Nat
    BY <1>1
  <2>2. \A x, y \in S : <<x, y>> \in L <=> values[x] < values[y]
    OBVIOUS
  <2>3. \A x, y \in S : <<x, y>> \in R <=> \/ <<x, y>> \in L
                                           \/ x < y /\ <<y, x>> \notin L
    OBVIOUS
  <2>4. \A x, y \in S : <<x, y>> \in L => <<y, x>> \notin L
    BY <1>2, <2>2
  <2>5. \A x, y, z \in S : <<x, z>> \in L => <<x, y>> \in L \/ <<y, z>> \in L
    BY <1>2, <2>2
  <2> HIDE DEF L, R, S
  <2> QED
    BY <2>1, <2>3, <2>4, <2>5, StableIsLinear
<1>5. \A i, j \in S : <<i, j>> \in R => values[i] <= values[j]
  BY <1>2
<1> HIDE DEF S, R, L
<1>6. Arranges(xs, values, S, R)
  <2>1. S \in SUBSET DOMAIN values
    BY DEF S
  <2> QED
    BY <1>3, <1>4, <2>1, ArrangedSeq
<1>7. Cardinality(S) = n
  BY <1>1, UpTo
<1>8. DOMAIN xs = 1..n /\ Len(xs) = n
  BY <1>6, <1>7 DEF Arranges
<1>9. ASSUME NEW k \in DOMAIN xs PROVE xs[k] \in ToSet(values)
  <2>1. xs[k] \in ToSet(xs)
    BY DEF ToSet
  <2>2. PICK i \in S : xs[k] = values[i]
    BY <1>6, <2>1 DEF Arranges
  <2> QED
    BY <1>2, <2>2
<1>10. ASSUME NEW k \in DOMAIN xs, NEW l \in DOMAIN xs, k <= l PROVE xs[k] <= xs[l]
  <2>1. CASE k = l
    <3>1. xs[k] \in Nat
      BY <1>9
    <3> QED
      BY <2>1, <3>1
  <2>2. CASE k < l
    <3>1. PICK i, j \in S : xs[k] = values[i] /\ xs[l] = values[j] /\ <<i, j>> \in R
      <4>1. FromPair(xs, values, S, R, k, l)
        BY <1>6, <2>2, ArrangedPairs
      <4> QED
        BY <4>1 DEF FromPair
    <3> QED
      BY <1>5, <3>1
  <2>3. k = l \/ k < l
    BY <1>8, <1>10
  <2> QED
    BY <2>1, <2>2, <2>3
<1> QED
  BY <1>1, <1>8, <1>9, <1>10
=============================================================================
