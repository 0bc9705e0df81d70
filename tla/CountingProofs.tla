--------------------------- MODULE CountingProofs ---------------------------
(***************************************************************************)
(* Facts about numbers and finite sets that the other proofs cite: the     *)
(* least and the greatest element of a set of numbers, induction, stated   *)
(* with a set in place of a predicate, how the elements of a set are       *)
(* counted, that a stack finds the brackets that belong together, and what *)
(* a flattened sequence is.                                                *)
(***************************************************************************)
EXTENDS Brackets, SequencesExt, FiniteSetTheorems, SequenceTheorems,
        WellFoundedInduction, TLAPS

LEMMA LeastNumber ==
  ASSUME NEW A \in SUBSET Nat, A # {}
  PROVE  \E m \in A : \A k \in A : m <= k
<1> DEFINE R == OpToRel(<, Nat)
<1>1. IsWellFoundedOn(R, Nat)
  BY NatLessThanWellFounded
<1>2. \A x, y \in Nat : <<y, x>> \in R <=> y < x
  BY DEF OpToRel
<1> HIDE DEF R
<1>3. PICK m \in A : \A k \in A : <<k, m>> \notin R
  BY <1>1, WFMin
<1>4. \A k \in A : k \in Nat /\ m \in Nat /\ ~(k < m)
  BY <1>2, <1>3
<1> QED BY <1>4

LEMMA GreatestNumber ==
  ASSUME NEW n \in Nat, NEW A \in SUBSET (0 .. n), A # {}
  PROVE  \E m \in A : \A k \in A : k <= m
<1> DEFINE B == {n - a : a \in A}
<1>1. B \in SUBSET Nat /\ B # {}
  <2>1. \A a \in A : a \in 0 .. n
    OBVIOUS
  <2>2. \A a \in A : n - a \in Nat
    BY <2>1
  <2> QED BY <2>2
<1>2. PICK b \in B : \A k \in B : b <= k
  BY <1>1, LeastNumber
<1>3. PICK m \in A : b = n - m
  OBVIOUS
<1>4. ASSUME NEW k \in A PROVE k <= m
  <2>1. n - m <= n - k
    BY <1>2, <1>3
  <2> QED BY <2>1
<1> QED BY <1>4

(* Induction: a set that has 0 and with n also n + 1 has every number.     *)
LEMMA AllNumbers ==
  ASSUME NEW A, 0 \in A, \A n \in Nat : n \in A => n + 1 \in A
  PROVE  \A n \in Nat : n \in A
<1> SUFFICES ASSUME NEW x \in Nat, x \notin A PROVE FALSE
  OBVIOUS
<1> DEFINE B == {n \in Nat : n \notin A}
<1>1. B \in SUBSET Nat /\ B # {}
  OBVIOUS
<1>2. PICK m \in B : \A k \in B : m <= k
  BY <1>1, LeastNumber
<1>3. m \in Nat /\ m \notin A /\ m # 0
  OBVIOUS
<1>4. m - 1 \in Nat /\ m - 1 + 1 = m /\ ~(m <= m - 1)
  BY <1>3
<1>5. m - 1 \in A
  BY <1>2, <1>4
<1> QED BY <1>3, <1>4, <1>5

(* A set that may have got one more element.                               *)
LEMMA CountStep ==
  ASSUME NEW A, NEW B, NEW x, IsFiniteSet(A), x \notin A,
         A \subseteq B, B \subseteq A \cup {x}
  PROVE  /\ IsFiniteSet(B) /\ Cardinality(A) \in Nat
         /\ x \in B => Cardinality(B) = Cardinality(A) + 1
         /\ x \notin B => B = A
<1>1. x \in B => B = A \cup {x}
  OBVIOUS
<1>2. x \notin B => B = A
  OBVIOUS
<1> QED BY <1>1, <1>2, FS_AddElement, FS_CardinalityType

LEMMA CountedInInterval ==
  ASSUME NEW A, NEW n \in Int, A \subseteq 1 .. n
  PROVE  IsFiniteSet(A) /\ Cardinality(A) \in Nat
<1>1. IsFiniteSet(1 .. n)
  BY FS_Interval
<1> QED BY <1>1, FS_Subset, FS_CardinalityType

(* Places count up with the elements.                                      *)
LEMMA PlaceInRange ==
  ASSUME NEW n \in Nat, NEW S \in SUBSET (1 .. n)
  PROVE  /\ IsFiniteSet(S) /\ Cardinality(S) \in Nat
         /\ \A j \in S : /\ Place(j, S) \in 1 .. Cardinality(S)
                         /\ Place(j, S \cup {n + 1}) = Place(j, S)
         /\ Place(n + 1, S \cup {n + 1}) = Cardinality(S) + 1
         /\ Cardinality(S \cup {n + 1}) = Cardinality(S) + 1
<1>1. IsFiniteSet(S) /\ Cardinality(S) \in Nat
  <2>1. n \in Int /\ S \subseteq 1 .. n
    OBVIOUS
  <2> QED BY <2>1, CountedInInterval
<1>2. n + 1 \notin S /\ \A k \in S : k \in Nat /\ k <= n
  OBVIOUS
<1>3. Cardinality(S \cup {n + 1}) = Cardinality(S) + 1
  BY <1>1, <1>2, FS_AddElement
<1>4. {k \in S \cup {n + 1} : k <= n + 1} = S \cup {n + 1}
  <2>1. \A k \in S \cup {n + 1} : k <= n + 1
    BY <1>2
  <2> QED BY <2>1
<1>5. ASSUME NEW j \in S
      PROVE  /\ Place(j, S) \in 1 .. Cardinality(S)
             /\ Place(j, S \cup {n + 1}) = Place(j, S)
  <2> DEFINE upTo == {k \in S : k <= j}
  <2>1. upTo \subseteq S /\ j \in upTo
    BY <1>2
  <2>2. {k \in S \cup {n + 1} : k <= j} = upTo
    BY <1>2
  <2>3. Place(j, S) = Cardinality(upTo) /\ Place(j, S \cup {n + 1}) = Cardinality(upTo)
    BY <2>2 DEF Place
  <2> HIDE DEF upTo
  <2>4. /\ IsFiniteSet(upTo) /\ Cardinality(upTo) \in Nat
        /\ Cardinality(upTo) <= Cardinality(S) /\ Cardinality(upTo) # 0
    BY <1>1, <2>1, FS_Subset, FS_CardinalityType, FS_EmptySet
  <2> QED BY <1>1, <2>3, <2>4
<1> QED BY <1>1, <1>3, <1>4, <1>5 DEF Place

(* Places keep the order of the elements.                                  *)
LEMMA PlaceGrows ==
  ASSUME NEW n \in Nat, NEW S \in SUBSET (1 .. n), NEW i \in S, NEW j \in S, i < j
  PROVE  Place(i, S) \in Nat /\ Place(j, S) \in Nat /\ Place(i, S) < Place(j, S)
<1> DEFINE A == {k \in S : k <= i}
           B == {k \in S : k <= j}
           C == A \cup {j}
<1>1. j \notin A /\ C \subseteq B
  <2>1. ~(j <= i) /\ j <= j /\ \A k \in S : k <= i => k <= j
    OBVIOUS
  <2> QED BY <2>1
<1>2. IsFiniteSet(S)
  <2>1. n \in Int /\ S \subseteq 1 .. n
    OBVIOUS
  <2> QED BY <2>1, CountedInInterval
<1>3. IsFiniteSet(A) /\ IsFiniteSet(B)
  BY <1>2, FS_Subset
<1> HIDE DEF A, B
<1>4. /\ Cardinality(A) \in Nat /\ Cardinality(C) = Cardinality(A) + 1
  BY <1>1, <1>3, FS_AddElement, FS_CardinalityType
<1>5. Cardinality(B) \in Nat /\ Cardinality(C) <= Cardinality(B)
  BY <1>1, <1>3, FS_Subset, FS_CardinalityType
<1> QED BY <1>4, <1>5 DEF A, B, Place

(* Every place is taken.                                                   *)
LEMMA PlacesTaken ==
  \A n \in Nat : \A K \in SUBSET (1 .. n) :
    \A x \in 1 .. Cardinality(K) : \E j \in K : Place(j, K) = x
<1> DEFINE A == {n \in Nat : \A K \in SUBSET (1 .. n) :
                   \A x \in 1 .. Cardinality(K) : \E j \in K : Place(j, K) = x}
<1>1. 0 \in A
  <2>1. \A K \in SUBSET (1 .. 0) : K = {}
    OBVIOUS
  <2>2. \A x : x \notin 1 .. Cardinality({})
    BY FS_EmptySet
  <2> QED BY <2>1, <2>2
<1>2. ASSUME NEW n \in Nat, n \in A PROVE n + 1 \in A
  <2>1. \A K \in SUBSET (1 .. n) :
          \A x \in 1 .. Cardinality(K) : \E j \in K : Place(j, K) = x
    BY <1>2
  <2>2. ASSUME NEW K \in SUBSET (1 .. n + 1), NEW x \in 1 .. Cardinality(K)
        PROVE  \E j \in K : Place(j, K) = x
    <3>1. CASE n + 1 \notin K
      <4>1. K \in SUBSET (1 .. n)
        BY <3>1
      <4> QED BY <2>1, <4>1
    <3>2. CASE n + 1 \in K
      <4>1. PICK L : L = K \ {n + 1}
        OBVIOUS
      <4>2. L \in SUBSET (1 .. n) /\ K = L \cup {n + 1}
        BY <3>2, <4>1
      <4>3. /\ Cardinality(L) \in Nat /\ Cardinality(K) = Cardinality(L) + 1
            /\ Place(n + 1, K) = Cardinality(K)
            /\ \A j \in L : Place(j, K) = Place(j, L)
        BY <4>2, PlaceInRange
      <4>4. CASE x = Cardinality(K)
        BY <3>2, <4>3, <4>4
      <4>5. CASE x # Cardinality(K)
        <5>1. x \in 1 .. Cardinality(L)
          BY <4>3, <4>5
        <5>2. PICK j \in L : Place(j, L) = x
          BY <2>1, <4>2, <5>1
        <5> QED BY <4>2, <4>3, <5>2
      <4> QED BY <4>4, <4>5
    <3> QED BY <3>1, <3>2
  <2> QED BY <2>2
<1> HIDE DEF A
<1>3. \A n \in Nat : n \in A
  BY <1>1, <1>2, AllNumbers
<1> QED BY <1>3 DEF A

-----------------------------------------------------------------------------
LEMMA AppendFacts ==
  ASSUME NEW S, NEW s \in Seq(S), NEW e \in S
  PROVE  /\ Append(s, e) \in Seq(S)
         /\ Len(Append(s, e)) = Len(s) + 1
         /\ \A i \in 1 .. Len(s) : Append(s, e)[i] = s[i]
         /\ Append(s, e)[Len(s) + 1] = e
  OBVIOUS

(* The sequence without its last element.                                  *)
LEMMA ShorterFacts ==
  ASSUME NEW S, NEW s \in Seq(S), s # <<>>
  PROVE  /\ SubSeq(s, 1, Len(s) - 1) \in Seq(S)
         /\ Len(SubSeq(s, 1, Len(s) - 1)) = Len(s) - 1
         /\ \A i \in 1 .. Len(s) - 1 : SubSeq(s, 1, Len(s) - 1)[i] = s[i]
<1>1. PICK n \in Nat : Len(s) = n + 1
  <2>1. Len(s) \in Nat \ {0}
    BY EmptySeq
  <2> QED BY <2>1
<1>2. \A i \in 1 .. n : s[i] \in S
  BY <1>1, ElementOfSeq
<1>3. /\ SubSeq(s, 1, n) \in Seq(S)
      /\ Len(SubSeq(s, 1, n)) = IF 1 <= n THEN n - 1 + 1 ELSE 0
      /\ \A i \in 1 .. n - 1 + 1 : SubSeq(s, 1, n)[i] = s[1 + i - 1]
  BY <1>2, SubSeqProperties
<1>4. Len(SubSeq(s, 1, n)) = n
  BY <1>3
<1>5. \A i \in 1 .. n : SubSeq(s, 1, n)[i] = s[i]
  <2> TAKE i \in 1 .. n
  <2>1. i \in 1 .. n - 1 + 1 /\ 1 + i - 1 = i
    OBVIOUS
  <2> QED BY <1>3, <2>1
<1>6. Len(s) - 1 = n
  BY <1>1
<1> QED BY <1>3, <1>4, <1>5, <1>6

-----------------------------------------------------------------------------
(* The lines with marks among the first n, and those among the first n + 1 *)
(* after one more has been read.                                           *)
Marks(n, S, E) ==
    n \in Nat /\ S \in SUBSET (1 .. n) /\ E \in SUBSET (1 .. n) /\ S \cap E = {}
OneMore(n, S, E, T, F) ==
    /\ Marks(n, S, E)
    /\ T = S \/ T = S \cup {n + 1}
    /\ F = E \/ F = E \cup {n + 1}
    /\ T \cap F = {}

LEMMA MoreMarks ==
  ASSUME NEW n, NEW S, NEW E, NEW T, NEW F, OneMore(n, S, E, T, F)
  PROVE  /\ Marks(n, S, E) /\ Marks(n + 1, T, F) /\ n \in Nat /\ n + 1 \in Nat
         /\ S \subseteq T /\ E \subseteq F /\ n + 1 \notin S
         /\ \A i \in T : i # n + 1 => i \in S
         /\ \A i \in F : i # n + 1 => i \in E
         /\ \A i \in S \cup E : i \in 1 .. n
<1>1. n \in Nat /\ n + 1 \in Nat /\ n + 1 \in 1 .. n + 1 /\ n + 1 \notin 1 .. n
      /\ \A i \in 1 .. n : i \in 1 .. n + 1
  BY DEF OneMore, Marks
<1>2. S \subseteq T /\ E \subseteq F /\ S \subseteq 1 .. n /\ E \subseteq 1 .. n /\ T \cap F = {}
      /\ T \subseteq S \cup {n + 1} /\ F \subseteq E \cup {n + 1} /\ Marks(n, S, E)
  BY DEF OneMore, Marks
<1>3. T \subseteq 1 .. n + 1 /\ F \subseteq 1 .. n + 1
  BY <1>1, <1>2
<1>4. Marks(n + 1, T, F)
  BY <1>1, <1>2, <1>3 DEF Marks
<1> QED BY <1>1, <1>2, <1>4

LEMMA NextMarks ==
  ASSUME NEW n, NEW S, NEW E, Marks(n, S, E)
  PROVE  /\ n + 1 \notin S /\ n + 1 \notin E /\ n \in Nat /\ n + 1 \in Nat
         /\ OneMore(n, S, E, S, E)
         /\ OneMore(n, S, E, S \cup {n + 1}, E)
         /\ OneMore(n, S, E, S, E \cup {n + 1})
  BY DEF OneMore, Marks

(* A start adds one to the balance, an end takes one away.                 *)
LEMMA BalanceStep ==
  ASSUME NEW n, NEW S, NEW E, Marks(n, S, E)
  PROVE  \A k \in Nat :
           /\ Balance(S, E, k) \in Int
           /\ k + 1 \in S => Balance(S, E, k + 1) = Balance(S, E, k) + 1
           /\ k + 1 \in E => Balance(S, E, k + 1) = Balance(S, E, k) - 1
           /\ k + 1 \notin S \cup E => Balance(S, E, k + 1) = Balance(S, E, k)
<1> TAKE k \in Nat
<1> USE DEF Marks
<1>1. ASSUME NEW A \in SUBSET (1 .. n)
      PROVE  /\ Cardinality({i \in A : i <= k}) \in Nat
             /\ Cardinality({i \in A : i <= k + 1}) =
                  Cardinality({i \in A : i <= k}) + (IF k + 1 \in A THEN 1 ELSE 0)
  <2> DEFINE B == {i \in A : i <= k}
             C == {i \in A : i <= k + 1}
  <2>1. /\ \A i \in A : i \in 1 .. n /\ (i <= k + 1 <=> i <= k \/ i = k + 1)
        /\ ~(k + 1 <= k) /\ k + 1 <= k + 1
    OBVIOUS
  <2>2. B \subseteq C /\ C \subseteq B \cup {k + 1} /\ k + 1 \notin B
        /\ (k + 1 \in C <=> k + 1 \in A)
    BY <2>1
  <2>3. IsFiniteSet(B)
    <3>1. B \subseteq 1 .. n
      BY <2>1
    <3>2. n \in Int
      OBVIOUS
    <3> QED BY <3>1, <3>2, CountedInInterval
  <2> HIDE DEF B, C
  <2>4. /\ Cardinality(B) \in Nat
        /\ Cardinality(C) = Cardinality(B) + (IF k + 1 \in A THEN 1 ELSE 0)
    BY <2>2, <2>3, CountStep
  <2> QED BY <2>4 DEF B, C
<1>2. /\ Cardinality({i \in S : i <= k}) \in Nat /\ Cardinality({i \in E : i <= k}) \in Nat
      /\ Cardinality({i \in S : i <= k + 1}) =
           Cardinality({i \in S : i <= k}) + (IF k + 1 \in S THEN 1 ELSE 0)
      /\ Cardinality({i \in E : i <= k + 1}) =
           Cardinality({i \in E : i <= k}) + (IF k + 1 \in E THEN 1 ELSE 0)
  BY <1>1
<1> QED BY <1>2 DEF Balance

(* Later marks do not change the balance before them.                      *)
LEMMA BalanceStays ==
  ASSUME NEW n, NEW S, NEW E, NEW T, NEW F, OneMore(n, S, E, T, F)
  PROVE  \A k \in 0 .. n : Balance(T, F, k) = Balance(S, E, k)
<1> TAKE k \in 0 .. n
<1> USE DEF OneMore, Marks
<1>1. ~(n + 1 <= k)
  OBVIOUS
<1>2. {i \in T : i <= k} = {i \in S : i <= k} /\ {i \in F : i <= k} = {i \in E : i <= k}
  BY <1>1
<1> QED BY <1>2 DEF Balance

LEMMA MatchedStay ==
  ASSUME NEW n, NEW S, NEW E, NEW T, NEW F, OneMore(n, S, E, T, F)
  PROVE  \A i, j : i # n + 1 /\ j # n + 1 =>
            (Matched(T, F, i, j) <=> Matched(S, E, i, j))
<1> SUFFICES ASSUME NEW i, NEW j, i # n + 1, j # n + 1
             PROVE  Matched(T, F, i, j) <=> Matched(S, E, i, j)
  OBVIOUS
<1>1. (i \in T <=> i \in S) /\ (j \in F <=> j \in E)
  BY DEF OneMore
<1>2. CASE i \in S /\ j \in E
  <2>1. i \in 1 .. n /\ j \in 1 .. n /\ n \in Nat
    BY <1>2, MoreMarks
  <2>2. j - 1 \in 0 .. n /\ i \in 0 .. n /\ \A k \in i .. j - 1 : k \in 0 .. n
    BY <2>1
  <2>3. \A k \in 0 .. n : Balance(T, F, k) = Balance(S, E, k)
    BY BalanceStays
  <2> QED BY <1>1, <2>2, <2>3 DEF Matched
<1>3. CASE ~(i \in S /\ j \in E)
  BY <1>1, <1>3 DEF Matched
<1> QED BY <1>2, <1>3

(* Marks belong together in pairs.                                         *)
LEMMA MatchedInPairs ==
  ASSUME NEW n, NEW S, NEW E, Marks(n, S, E), NEW i, NEW j, Matched(S, E, i, j)
  PROVE  /\ i \in S /\ j \in E
         /\ Balance(S, E, i) \in Int /\ Balance(S, E, j) = Balance(S, E, i) - 1
         /\ \A k : Matched(S, E, k, j) => k = i
         /\ \A k : Matched(S, E, i, k) => k = j
<1>1. \A a, b : Matched(S, E, a, b) =>
        /\ a \in S /\ b \in E /\ a \in 1 .. n /\ b \in 1 .. n
        /\ Balance(S, E, a) \in Int /\ Balance(S, E, a - 1) \in Int
        /\ Balance(S, E, b) = Balance(S, E, a) - 1
        /\ Balance(S, E, a) = Balance(S, E, a - 1) + 1
  <2> SUFFICES ASSUME NEW a, NEW b, Matched(S, E, a, b)
               PROVE  /\ a \in S /\ b \in E /\ a \in 1 .. n /\ b \in 1 .. n
                      /\ Balance(S, E, a) \in Int /\ Balance(S, E, a - 1) \in Int
                      /\ Balance(S, E, b) = Balance(S, E, a) - 1
                      /\ Balance(S, E, a) = Balance(S, E, a - 1) + 1
    OBVIOUS
  <2>1. /\ a \in S /\ b \in E /\ a \in 1 .. n /\ b \in 1 .. n /\ a \notin E /\ b \notin S
        /\ Balance(S, E, b - 1) = Balance(S, E, a)
    BY DEF Matched, Marks
  <2>2. /\ a - 1 \in Nat /\ (a - 1) + 1 = a /\ b - 1 \in Nat /\ (b - 1) + 1 = b /\ a \in Nat
    BY <2>1
  <2>3. \A k \in Nat :
          /\ Balance(S, E, k) \in Int
          /\ k + 1 \in S => Balance(S, E, k + 1) = Balance(S, E, k) + 1
          /\ k + 1 \in E => Balance(S, E, k + 1) = Balance(S, E, k) - 1
    BY BalanceStep
  <2>4. /\ Balance(S, E, a) = Balance(S, E, a - 1) + 1
        /\ Balance(S, E, a - 1) \in Int /\ Balance(S, E, a) \in Int
    BY <2>1, <2>2, <2>3
  <2>5. Balance(S, E, b) = Balance(S, E, b - 1) - 1
    BY <2>1, <2>2, <2>3
  <2> QED BY <2>1, <2>4, <2>5
<1>2. \A a, b, c : Matched(S, E, a, c) /\ Matched(S, E, b, c) => ~(a < b)
  <2> SUFFICES ASSUME NEW a, NEW b, NEW c, Matched(S, E, a, c), Matched(S, E, b, c), a < b
               PROVE  FALSE
    OBVIOUS
  <2>1. a \in 1 .. n /\ b \in 1 .. n /\ c \in 1 .. n
    BY <1>1
  <2>2. b < c /\ Balance(S, E, b) = Balance(S, E, a)
    BY DEF Matched
  <2>3. b - 1 \in a .. c - 1
    BY <2>1, <2>2
  <2>4. Balance(S, E, a) <= Balance(S, E, b - 1)
    BY <2>3 DEF Matched
  <2>5. /\ Balance(S, E, b) = Balance(S, E, b - 1) + 1
        /\ Balance(S, E, b - 1) \in Int /\ Balance(S, E, a) \in Int
    BY <1>1
  <2> QED BY <2>2, <2>4, <2>5
<1>3. \A a, b, c : Matched(S, E, a, b) /\ Matched(S, E, a, c) => ~(b < c)
  <2> SUFFICES ASSUME NEW a, NEW b, NEW c, Matched(S, E, a, b), Matched(S, E, a, c), b < c
               PROVE  FALSE
    OBVIOUS
  <2>1. a \in 1 .. n /\ b \in 1 .. n /\ c \in 1 .. n /\ a < b
    BY <1>1 DEF Matched
  <2>2. b \in a .. c - 1
    BY <2>1
  <2>3. Balance(S, E, a) <= Balance(S, E, b)
    BY <2>2 DEF Matched
  <2>4. Balance(S, E, b) = Balance(S, E, a) - 1 /\ Balance(S, E, a) \in Int
    BY <1>1
  <2> QED BY <2>3, <2>4
<1>4. \A k : Matched(S, E, k, j) => k = i
  <2> SUFFICES ASSUME NEW k, Matched(S, E, k, j) PROVE k = i
    OBVIOUS
  <2>1. k \in 1 .. n /\ i \in 1 .. n /\ ~(k < i) /\ ~(i < k)
    BY <1>1, <1>2
  <2> QED BY <2>1
<1>5. \A k : Matched(S, E, i, k) => k = j
  <2> SUFFICES ASSUME NEW k, Matched(S, E, i, k) PROVE k = j
    OBVIOUS
  <2>1. k \in 1 .. n /\ j \in 1 .. n /\ ~(k < j) /\ ~(j < k)
    BY <1>1, <1>3
  <2> QED BY <2>1
<1> QED BY <1>1, <1>4, <1>5

-----------------------------------------------------------------------------
(* The starts that no end has matched so far, in order: each is still open *)
(* as many levels deep as there are others above it.                       *)
StackOf(S, E, p, n) ==
    /\ p \in Seq(Nat)
    /\ \A x \in 1 .. Len(p) :
         /\ p[x] \in S
         /\ Balance(S, E, n) - Balance(S, E, p[x]) = Len(p) - x
         /\ \A m \in p[x] .. n : Balance(S, E, p[x]) <= Balance(S, E, m)
         /\ \A y \in x + 1 .. Len(p) : p[x] < p[y]
    /\ \A i \in S : \/ \E x \in 1 .. Len(p) : p[x] = i
                    \/ \E j \in E : Matched(S, E, i, j)

LEMMA EmptyStack == StackOf({}, {}, <<>>, 0)
  BY EmptySeq DEF StackOf

(* An entry of the stack that is not popped by the line n + 1.             *)
LEMMA EntryStays ==
  ASSUME NEW n, NEW S, NEW E, NEW T, NEW F, OneMore(n, S, E, T, F), NEW p, StackOf(S, E, p, n),
         NEW d \in Int, Balance(T, F, n + 1) = Balance(S, E, n) + d,
         NEW x \in 1 .. Len(p), x <= Len(p) + d
  PROVE  /\ p[x] \in S /\ p[x] \in T /\ p[x] \in 1 .. n
         /\ Balance(T, F, n + 1) - Balance(T, F, p[x]) = Len(p) + d - x
         /\ \A m \in p[x] .. n + 1 : Balance(T, F, p[x]) <= Balance(T, F, m)
<1>1. Len(p) \in Nat
  BY LenProperties DEF StackOf
<1> DEFINE i == p[x]
<1>2. /\ i \in S /\ Balance(S, E, n) - Balance(S, E, i) = Len(p) - x
      /\ \A m \in i .. n : Balance(S, E, i) <= Balance(S, E, m)
  BY DEF StackOf
<1> HIDE DEF i
<1>3. i \in 1 .. n /\ i \in 0 .. n /\ i \in Nat /\ n \in Nat /\ n \in 0 .. n /\ i \in T
      /\ Marks(n, S, E)
  BY <1>2, MoreMarks
<1>4. \A k \in 0 .. n : Balance(T, F, k) = Balance(S, E, k)
  BY BalanceStays
<1>5. Balance(S, E, i) \in Int /\ Balance(S, E, n) \in Int
  BY <1>3, BalanceStep
<1>6. /\ Balance(T, F, i) = Balance(S, E, i)
      /\ Balance(T, F, n + 1) - Balance(T, F, i) = Len(p) + d - x
  BY <1>1, <1>2, <1>3, <1>4, <1>5
<1>7. ASSUME NEW m \in i .. n + 1 PROVE Balance(T, F, i) <= Balance(T, F, m)
  <2>1. CASE m = n + 1
    BY <1>1, <1>5, <1>6, <2>1
  <2>2. CASE m # n + 1
    <3>1. m \in i .. n /\ m \in 0 .. n
      BY <1>3, <2>2
    <3> QED BY <1>2, <1>4, <1>6, <3>1
  <2> QED BY <2>1, <2>2
<1> QED BY <1>2, <1>3, <1>6, <1>7 DEF i

(* The matches of the starts so far are kept.                              *)
LEMMA StillMatched ==
  ASSUME NEW n, NEW S, NEW E, NEW T, NEW F, OneMore(n, S, E, T, F), NEW p, StackOf(S, E, p, n), NEW i \in S
  PROVE  \/ \E x \in 1 .. Len(p) : p[x] = i
         \/ \E j \in F : Matched(T, F, i, j)
<1>1. CASE \E x \in 1 .. Len(p) : p[x] = i
  BY <1>1
<1>2. CASE \E j \in E : Matched(S, E, i, j)
  <2>1. PICK j \in E : Matched(S, E, i, j)
    BY <1>2
  <2>2. i # n + 1 /\ j # n + 1 /\ j \in F
    <3>1. i \in 1 .. n /\ j \in 1 .. n /\ n \in Nat /\ E \subseteq F
      BY MoreMarks
    <3> QED BY <3>1
  <2>3. Matched(T, F, i, j)
    BY <2>1, <2>2, MatchedStay
  <2> QED BY <2>2, <2>3
<1> QED BY <1>1, <1>2 DEF StackOf

(* A line without a mark.                                                  *)
LEMMA StackSkips ==
  ASSUME NEW n, NEW S, NEW E, Marks(n, S, E), NEW p, StackOf(S, E, p, n)
  PROVE  StackOf(S, E, p, n + 1)
<1>0. OneMore(n, S, E, S, E) /\ n \in Nat /\ n + 1 \notin S \cup E
  BY NextMarks
<1>1. Balance(S, E, n + 1) = Balance(S, E, n) + 0
  <2>1. Balance(S, E, n + 1) = Balance(S, E, n) /\ Balance(S, E, n) \in Int
    BY <1>0, BalanceStep
  <2> QED BY <2>1
<1>2. Len(p) \in Nat
  BY LenProperties DEF StackOf
<1>3. ASSUME NEW x \in 1 .. Len(p)
      PROVE  /\ p[x] \in S
             /\ Balance(S, E, n + 1) - Balance(S, E, p[x]) = Len(p) - x
             /\ \A m \in p[x] .. n + 1 : Balance(S, E, p[x]) <= Balance(S, E, m)
  <2>1. x <= Len(p) + 0 /\ Len(p) + 0 - x = Len(p) - x /\ 0 \in Int
    BY <1>2
  <2> QED BY <1>0, <1>1, <2>1, EntryStays
<1> QED BY <1>3 DEF StackOf

(* A start is pushed.                                                      *)
LEMMA StackPushes ==
  ASSUME NEW n, NEW S, NEW E, Marks(n, S, E), NEW p, StackOf(S, E, p, n)
  PROVE  StackOf(S \cup {n + 1}, E, Append(p, n + 1), n + 1)
<1> DEFINE T == S \cup {n + 1}
           q == Append(p, n + 1)
<1>1. n + 1 \notin S /\ n + 1 \notin E /\ n \in Nat /\ n + 1 \in Nat /\ OneMore(n, S, E, T, E)
  BY NextMarks
<1>2. Len(p) \in Nat /\ p \in Seq(Nat)
  BY LenProperties DEF StackOf
<1>3. /\ q \in Seq(Nat) /\ Len(q) = Len(p) + 1 /\ q[Len(p) + 1] = n + 1
      /\ \A x \in 1 .. Len(p) : q[x] = p[x]
  BY <1>1, <1>2, AppendFacts
<1>4. n + 1 \in T /\ \A i \in T : i \in S \/ i = n + 1
  OBVIOUS
<1> HIDE DEF T, q
<1>5. Balance(T, E, n + 1) = Balance(S, E, n) + 1 /\ Balance(S, E, n) \in Int
  <2>1. Marks(n + 1, T, E)
    BY <1>1, MoreMarks
  <2>2. Balance(T, E, n) \in Int /\ Balance(T, E, n + 1) = Balance(T, E, n) + 1
    BY <1>1, <1>4, <2>1, BalanceStep
  <2>3. Balance(T, E, n) = Balance(S, E, n)
    <3>1. n \in 0 .. n
      BY <1>1
    <3> QED BY <1>1, <3>1, BalanceStays
  <2> QED BY <2>2, <2>3
<1>6. ASSUME NEW x \in 1 .. Len(p)
      PROVE  /\ p[x] \in T /\ p[x] \in 1 .. n
             /\ Balance(T, E, n + 1) - Balance(T, E, p[x]) = Len(q) - x
             /\ \A m \in p[x] .. n + 1 : Balance(T, E, p[x]) <= Balance(T, E, m)
  <2>1. x <= Len(p) + 1 /\ 1 \in Int
    BY <1>2
  <2>2. /\ p[x] \in S /\ p[x] \in T /\ p[x] \in 1 .. n
        /\ Balance(T, E, n + 1) - Balance(T, E, p[x]) = Len(p) + 1 - x
        /\ \A m \in p[x] .. n + 1 : Balance(T, E, p[x]) <= Balance(T, E, m)
    <3>1. OneMore(n, S, E, T, E) /\ StackOf(S, E, p, n)
      BY <1>1
    <3>2. Balance(T, E, n + 1) = Balance(S, E, n) + 1
      BY <1>5
    <3> QED BY ONLY <1>6, <2>1, <3>1, <3>2, EntryStays
  <2> QED BY <1>3, <2>2
<1>7. ASSUME NEW x \in 1 .. Len(q)
      PROVE  /\ q[x] \in T
             /\ Balance(T, E, n + 1) - Balance(T, E, q[x]) = Len(q) - x
             /\ \A m \in q[x] .. n + 1 : Balance(T, E, q[x]) <= Balance(T, E, m)
             /\ \A y \in x + 1 .. Len(q) : q[x] < q[y]
  <2>1. CASE x = Len(p) + 1
    <3>1. /\ \A m \in n + 1 .. n + 1 : m = n + 1
          /\ \A y \in x + 1 .. Len(q) : FALSE
          /\ Len(q) - x = 0 /\ q[x] = n + 1
          /\ Balance(T, E, n + 1) - Balance(T, E, n + 1) = 0
          /\ Balance(T, E, n + 1) <= Balance(T, E, n + 1)
      BY <1>2, <1>3, <1>5, <2>1
    <3> QED BY <1>4, <3>1
  <2>2. CASE x \in 1 .. Len(p)
    <3>1. ASSUME NEW y \in x + 1 .. Len(q) PROVE p[x] < q[y]
      <4>1. CASE y = Len(p) + 1
        BY <1>1, <1>3, <1>6, <2>2, <4>1
      <4>2. CASE y # Len(p) + 1
        <5>1. y \in x + 1 .. Len(p) /\ y \in 1 .. Len(p)
          <6>1. Len(q) = Len(p) + 1
            BY <1>3
          <6> QED BY <1>2, <2>2, <4>2, <6>1
        <5> QED BY <1>3, <2>2, <5>1 DEF StackOf
      <4> QED BY <4>1, <4>2
    <3> QED BY <1>3, <1>6, <2>2, <3>1
  <2> QED BY <1>2, <1>3, <2>1, <2>2
<1>8. ASSUME NEW i \in T
      PROVE  \/ \E x \in 1 .. Len(q) : q[x] = i
             \/ \E j \in E : Matched(T, E, i, j)
  <2>1. Len(p) + 1 \in 1 .. Len(q) /\ \A x \in 1 .. Len(p) : x \in 1 .. Len(q)
    BY <1>2, <1>3
  <2>2. CASE i = n + 1
    BY <1>3, <2>1, <2>2
  <2>3. CASE i \in S
    <3>1. \/ \E x \in 1 .. Len(p) : p[x] = i
          \/ \E j \in E : Matched(T, E, i, j)
      BY <1>1, <2>3, StillMatched
    <3> QED BY <1>3, <2>1, <3>1
  <2> QED BY <1>4, <2>2, <2>3
<1> QED BY <1>3, <1>7, <1>8 DEF StackOf, T, q

(* An end belongs to the start on top of the stack and pops it ...         *)
LEMMA StackPops ==
  ASSUME NEW n, NEW S, NEW E, Marks(n, S, E), NEW p, StackOf(S, E, p, n), p # <<>>
  PROVE  /\ Len(p) \in 1 .. Len(p) /\ p[Len(p)] \in S
         /\ Matched(S, E \cup {n + 1}, p[Len(p)], n + 1)
         /\ StackOf(S, E \cup {n + 1}, SubSeq(p, 1, Len(p) - 1), n + 1)
<1> DEFINE F == E \cup {n + 1}
           d == Len(p)
           q == SubSeq(p, 1, d - 1)
           top == p[d]
<1>1. /\ n \in Nat /\ n + 1 \in Nat /\ n \in 0 .. n /\ n + 1 \in F
      /\ OneMore(n, S, E, S, F)
  <2>1. n \in Nat /\ n + 1 \in Nat /\ OneMore(n, S, E, S, F)
    BY NextMarks
  <2> QED BY <2>1
<1>2. /\ p \in Seq(Nat) /\ d \in Nat \ {0} /\ d \in 1 .. d
  BY EmptySeq, LenProperties DEF StackOf
<1>3. /\ q \in Seq(Nat) /\ Len(q) = d - 1
      /\ \A x \in 1 .. d - 1 : q[x] = p[x]
  BY <1>2, ShorterFacts
<1>7. /\ top \in S /\ Balance(S, E, n) - Balance(S, E, top) = d - d
      /\ \A m \in top .. n : Balance(S, E, top) <= Balance(S, E, m)
  BY <1>2 DEF StackOf
<1> HIDE DEF F, d, q, top
<1>4. \A k \in 0 .. n : Balance(S, F, k) = Balance(S, E, k)
  BY <1>1, BalanceStays
<1>5. Balance(S, E, n) \in Int
  BY <1>1, BalanceStep
<1>6. Balance(S, F, n + 1) = Balance(S, E, n) + (-1)
  <2>1. Marks(n + 1, S, F)
    BY <1>1, MoreMarks
  <2>2. Balance(S, F, n + 1) = Balance(S, F, n) - 1
    BY <1>1, <2>1, BalanceStep
  <2> QED BY <1>1, <1>4, <1>5, <2>2
<1>8. Matched(S, F, top, n + 1)
  <2>1. /\ top \in 0 .. n /\ top < n + 1 /\ n + 1 - 1 = n /\ \A k \in top .. n : k \in 0 .. n
    <3>1. top \in 1 .. n
      BY <1>1, <1>7, MoreMarks
    <3> QED BY <1>1, <3>1
  <2>2. top \in Nat /\ d - d = 0
    BY <1>2, <2>1
  <2>3. Balance(S, E, top) \in Int
    BY <2>2, BalanceStep
  <2>4. Balance(S, E, n) = Balance(S, E, top)
    BY <1>5, <1>7, <2>2, <2>3
  <2> QED BY <1>1, <1>4, <1>7, <2>1, <2>4 DEF Matched
<1>9. ASSUME NEW x \in 1 .. d - 1
      PROVE  /\ q[x] \in S
             /\ Balance(S, F, n + 1) - Balance(S, F, q[x]) = (d - 1) - x
             /\ \A m \in q[x] .. n + 1 : Balance(S, F, q[x]) <= Balance(S, F, m)
             /\ \A y \in x + 1 .. d - 1 : q[x] < q[y]
  <2>1. /\ x \in 1 .. d /\ x <= d + (-1) /\ -1 \in Int /\ d + (-1) - x = (d - 1) - x
        /\ \A y \in x + 1 .. d - 1 : y \in x + 1 .. d /\ y \in 1 .. d - 1
    BY <1>2
  <2>2. /\ p[x] \in S
        /\ Balance(S, F, n + 1) - Balance(S, F, p[x]) = d + (-1) - x
        /\ \A m \in p[x] .. n + 1 : Balance(S, F, p[x]) <= Balance(S, F, m)
    <3>1. x \in 1 .. Len(p) /\ x <= Len(p) + (-1) /\ -1 \in Int
      BY <2>1 DEF d
    <3>2. /\ p[x] \in S
          /\ Balance(S, F, n + 1) - Balance(S, F, p[x]) = Len(p) + (-1) - x
          /\ \A m \in p[x] .. n + 1 : Balance(S, F, p[x]) <= Balance(S, F, m)
      BY <1>1, <1>6, <3>1, EntryStays
    <3> QED BY <3>2 DEF d
  <2>3. \A y \in x + 1 .. d : p[x] < p[y]
    BY <2>1 DEF StackOf, d
  <2> QED BY <1>3, <2>1, <2>2, <2>3
<1>10. ASSUME NEW i \in S
       PROVE  \/ \E x \in 1 .. d - 1 : q[x] = i
              \/ \E j \in F : Matched(S, F, i, j)
  <2>1. \/ \E x \in 1 .. d : p[x] = i
        \/ \E j \in F : Matched(S, F, i, j)
    BY <1>1, StillMatched DEF d
  <2>2. ASSUME NEW x \in 1 .. d, p[x] = i
        PROVE  (\E y \in 1 .. d - 1 : q[y] = i) \/ Matched(S, F, i, n + 1)
    <3>1. CASE x = d
      BY <1>8, <2>2, <3>1 DEF top
    <3>2. CASE x # d
      <4>1. x \in 1 .. d - 1
        BY <1>2, <3>2
      <4> QED BY <1>3, <2>2, <4>1
    <3> QED BY <3>1, <3>2
  <2> QED BY <1>1, <2>1, <2>2
<1>11. StackOf(S, F, q, n + 1)
  BY <1>3, <1>9, <1>10 DEF StackOf
<1> QED BY <1>2, <1>7, <1>8, <1>11 DEF F, d, q, top

(* ... and to none if the stack is empty.                                  *)
LEMMA StackStray ==
  ASSUME NEW n, NEW S, NEW E, Marks(n, S, E), NEW p, StackOf(S, E, p, n), Len(p) = 0
  PROVE  /\ \A i : ~Matched(S, E \cup {n + 1}, i, n + 1)
         /\ StackOf(S, E \cup {n + 1}, p, n + 1)
<1> DEFINE F == E \cup {n + 1}
<1>1. /\ n \in Nat /\ n + 1 \notin E /\ n + 1 \notin S /\ n + 1 \in F /\ E \subseteq F
      /\ OneMore(n, S, E, S, F)
  BY NextMarks
<1> HIDE DEF F
<1>2. \A x : x \notin 1 .. Len(p)
  OBVIOUS
<1>3. \A i \in S : \E j \in E : Matched(S, F, i, j)
  <2> TAKE i \in S
  <2>1. PICK j \in E : Matched(S, E, i, j)
    BY <1>2 DEF StackOf
  <2>2. i # n + 1 /\ j # n + 1
    BY <1>1
  <2>3. Matched(S, F, i, j)
    BY <1>1, <2>1, <2>2, MatchedStay
  <2> QED BY <2>3
<1>4. ASSUME NEW i, Matched(S, F, i, n + 1) PROVE FALSE
  <2>1. i \in S
    BY <1>4 DEF Matched
  <2>2. PICK j \in E : Matched(S, F, i, j)
    BY <1>3, <2>1
  <2>3. Marks(n + 1, S, F)
    BY <1>1, MoreMarks
  <2>4. j = n + 1
    BY <1>4, <2>2, <2>3, MatchedInPairs
  <2> QED BY <1>1, <2>4
<1>5. StackOf(S, F, p, n + 1)
  BY <1>1, <1>2, <1>3 DEF StackOf
<1> QED BY <1>4, <1>5 DEF F

(* The stack holds the starts without a match.                             *)
LEMMA StackIsOpen ==
  ASSUME NEW n, NEW S, NEW E, Marks(n, S, E), NEW p, StackOf(S, E, p, n), NEW i \in S
  PROVE  (\A j : ~Matched(S, E, i, j)) <=> \E x \in 1 .. Len(p) : p[x] = i
<1>1. ASSUME NEW x \in 1 .. Len(p), p[x] = i, NEW j, Matched(S, E, i, j) PROVE FALSE
  <2>1. /\ j \in E /\ i < j /\ j \in 1 .. n /\ i \in 1 .. n /\ n \in Nat
        /\ Balance(S, E, i) \in Int /\ Balance(S, E, j) = Balance(S, E, i) - 1
    <3>1. i < j /\ n \in Nat /\ \A a \in S \cup E : a \in 1 .. n
      BY <1>1 DEF Matched, Marks
    <3> QED BY <1>1, <3>1, MatchedInPairs
  <2>2. j \in i .. n
    BY <2>1
  <2>3. Balance(S, E, i) <= Balance(S, E, j)
    BY <1>1, <2>2 DEF StackOf
  <2> QED BY <2>1, <2>3
<1> QED BY <1>1 DEF StackOf

(* What is open before line n + 1 does not depend on later marks.          *)
LEMMA OpenStays ==
  ASSUME NEW n, NEW S, NEW E, NEW T, NEW F, OneMore(n, S, E, T, F)
  PROVE  \A k \in 1 .. n :
           /\ OpenAt(T, F, k) = OpenAt(S, E, k)
           /\ \A i : Innermost(T, F, i, k) <=> Innermost(S, E, i, k)
<1>1. n \in Nat /\ S \subseteq T /\ E \subseteq F /\ \A i \in S \cup E : i \in 1 .. n
  BY MoreMarks
<1>2. /\ \A i \in T : i # n + 1 => i \in S
      /\ \A i \in F : i # n + 1 => i \in E
  BY MoreMarks
<1>3. ASSUME NEW k \in 1 .. n PROVE OpenAt(T, F, k) = OpenAt(S, E, k)
  <2>1. ~(n + 1 <= k)
    BY <1>1
  <2>2. \A i, j : i # n + 1 /\ j # n + 1 =>
           (Matched(T, F, i, j) <=> Matched(S, E, i, j))
    BY MatchedStay
  <2>3. ASSUME NEW i PROVE i \in OpenAt(T, F, k) => i \in OpenAt(S, E, k)
    <3> SUFFICES ASSUME i \in OpenAt(T, F, k) PROVE i \in OpenAt(S, E, k)
      OBVIOUS
    <3>1. /\ i \in T /\ i <= k
          /\ \A j \in F : j <= k => ~Matched(T, F, i, j)
      BY DEF OpenAt
    <3>2. i # n + 1 /\ i \in S
      BY <1>2, <2>1, <3>1
    <3>3. ASSUME NEW j \in E, j <= k PROVE ~Matched(S, E, i, j)
      <4>1. j # n + 1 /\ j \in F
        BY <1>1, <2>1, <3>3
      <4> QED BY <2>2, <3>1, <3>2, <3>3, <4>1
    <3> QED BY <3>1, <3>2, <3>3 DEF OpenAt
  <2>4. ASSUME NEW i PROVE i \in OpenAt(S, E, k) => i \in OpenAt(T, F, k)
    <3> SUFFICES ASSUME i \in OpenAt(S, E, k) PROVE i \in OpenAt(T, F, k)
      OBVIOUS
    <3>1. /\ i \in S /\ i <= k
          /\ \A j \in E : j <= k => ~Matched(S, E, i, j)
      BY DEF OpenAt
    <3>2. i # n + 1 /\ i \in T
      BY <1>1, <2>1, <3>1
    <3>3. ASSUME NEW j \in F, j <= k PROVE ~Matched(T, F, i, j)
      <4>1. j # n + 1 /\ j \in E
        BY <1>2, <2>1, <3>3
      <4> QED BY <2>2, <3>1, <3>2, <3>3, <4>1
    <3> QED BY <3>1, <3>2, <3>3 DEF OpenAt
  <2> QED BY <2>3, <2>4
<1> QED BY <1>3 DEF Innermost

(* After the last mark the open starts are those on the stack ...          *)
LEMMA OpenIsStack ==
  ASSUME NEW n, NEW S, NEW E, Marks(n, S, E), NEW p, StackOf(S, E, p, n),
         NEW k \in Nat, n <= k
  PROVE  \A i : i \in OpenAt(S, E, k) <=> \E x \in 1 .. Len(p) : p[x] = i
<1>1. n \in Nat /\ \A i \in S \cup E : i \in 1 .. n
  BY DEF Marks
<1>2. ASSUME NEW i PROVE i \in OpenAt(S, E, k) <=> \E x \in 1 .. Len(p) : p[x] = i
  <2>1. \A x \in 1 .. Len(p) : p[x] \in S
    BY DEF StackOf
  <2>2. CASE i \in S
    <3>1. (\A j : ~Matched(S, E, i, j)) <=> \E x \in 1 .. Len(p) : p[x] = i
      BY <2>2, StackIsOpen
    <3>2. i <= k /\ \A j \in E : j <= k
      BY <1>1, <2>2
    <3>3. \A j : Matched(S, E, i, j) => j \in E
      BY DEF Matched
    <3> QED BY <2>2, <3>1, <3>2, <3>3 DEF OpenAt
  <2>3. CASE i \notin S
    BY <2>1, <2>3 DEF OpenAt
  <2> QED BY <2>2, <2>3
<1> QED BY <1>2

(* ... so in a line without a mark its top is the innermost.               *)
LEMMA InnermostIsTop ==
  ASSUME NEW n, NEW S, NEW E, Marks(n, S, E), NEW p, StackOf(S, E, p, n)
  PROVE  \A i : Innermost(S, E, i, n + 1) <=> Len(p) # 0 /\ i = p[Len(p)]
<1>1. n \in Nat /\ \A i \in S \cup E : i \in 1 .. n
  BY DEF Marks
<1>2. Len(p) \in Nat
  BY LenProperties DEF StackOf
<1>3. \A i : i \in OpenAt(S, E, n + 1) <=> \E x \in 1 .. Len(p) : p[x] = i
  <2>1. n + 1 \in Nat /\ n <= n + 1
    BY <1>1
  <2> QED BY <2>1, OpenIsStack
<1>4. CASE Len(p) = 0
  <2>1. \A x : x \notin 1 .. Len(p)
    BY <1>4
  <2> QED BY <1>3, <1>4, <2>1 DEF Innermost
<1>5. CASE Len(p) # 0
  <2>1. Len(p) \in 1 .. Len(p)
    BY <1>2, <1>5
  <2>2. \A x \in 1 .. Len(p) : p[x] \in Nat /\ p[x] <= p[Len(p)]
    <3> TAKE x \in 1 .. Len(p)
    <3>1. p[x] \in Nat
      BY <1>1 DEF StackOf
    <3>2. CASE x = Len(p)
      BY <3>1, <3>2
    <3>3. CASE x # Len(p)
      <4>1. Len(p) \in x + 1 .. Len(p)
        BY <1>2, <3>3
      <4>2. p[x] < p[Len(p)]
        BY <4>1 DEF StackOf
      <4>3. p[Len(p)] \in Nat
        BY <1>1, <2>1 DEF StackOf
      <4> QED BY <3>1, <4>2, <4>3
    <3> QED BY <3>2, <3>3
  <2>3. \A i \in OpenAt(S, E, n + 1) : i \in Nat /\ i <= p[Len(p)]
    BY <1>3, <2>2
  <2>4. p[Len(p)] \in OpenAt(S, E, n + 1)
    BY <1>3, <2>1
  <2>5. ASSUME NEW i PROVE Innermost(S, E, i, n + 1) <=> i = p[Len(p)]
    <3>1. CASE i = p[Len(p)]
      BY <2>3, <2>4, <3>1 DEF Innermost
    <3>2. ASSUME Innermost(S, E, i, n + 1) PROVE i = p[Len(p)]
      <4>1. i \in OpenAt(S, E, n + 1) /\ p[Len(p)] <= i
        BY <2>4, <3>2 DEF Innermost
      <4>2. i \in Nat /\ i <= p[Len(p)] /\ p[Len(p)] \in Nat
        BY <2>1, <2>2, <2>3, <4>1
      <4> QED BY <4>1, <4>2
    <3> QED BY <3>1, <3>2
  <2> QED BY <1>5, <2>5
<1> QED BY <1>4, <1>5

-----------------------------------------------------------------------------
(* The start that belongs to an end.                                       *)
LEMMA MatchOfIs ==
  ASSUME NEW n, NEW S, NEW E, Marks(n, S, E)
  PROVE  /\ \A i, j : Matched(S, E, i, j) => MatchOf(S, E, j) = i /\ j \in MatchedEnds(S, E)
         /\ \A j \in MatchedEnds(S, E) :
              /\ Matched(S, E, MatchOf(S, E, j), j)
              /\ MatchOf(S, E, j) \in 1 .. n /\ j \in 1 .. n /\ MatchOf(S, E, j) < j
<1>1. ASSUME NEW i, NEW j, Matched(S, E, i, j)
      PROVE  MatchOf(S, E, j) = i /\ j \in MatchedEnds(S, E)
  <2>1. i \in S /\ j \in E
    BY <1>1 DEF Matched
  <2>2. \A k : Matched(S, E, k, j) => k = i
    BY <1>1, MatchedInPairs
  <2> QED BY <1>1, <2>1, <2>2 DEF MatchOf, MatchedEnds
<1>2. ASSUME NEW j \in MatchedEnds(S, E)
      PROVE  /\ Matched(S, E, MatchOf(S, E, j), j)
             /\ MatchOf(S, E, j) \in 1 .. n /\ j \in 1 .. n /\ MatchOf(S, E, j) < j
  <2>1. PICK i : Matched(S, E, i, j)
    BY DEF MatchedEnds
  <2>2. MatchOf(S, E, j) = i
    BY <1>1, <2>1
  <2>3. i \in S /\ j \in E /\ i < j
    BY <2>1 DEF Matched
  <2> QED BY <2>1, <2>2, <2>3 DEF Marks
<1> QED BY <1>1, <1>2

(* Matches are kept when a line is read.                                   *)
LEMMA MatchesStay ==
  ASSUME NEW n, NEW S, NEW E, NEW T, NEW F, OneMore(n, S, E, T, F)
  PROVE  /\ \A j : j # n + 1 => (j \in MatchedEnds(T, F) <=> j \in MatchedEnds(S, E))
         /\ \A j \in MatchedEnds(S, E) : MatchOf(T, F, j) = MatchOf(S, E, j)
<1>1. n \in Nat /\ Marks(n, S, E) /\ Marks(n + 1, T, F) /\ n + 1 \in Nat
      /\ \A i \in F : i # n + 1 => i \in E
  BY MoreMarks
<1>2. \A i, j : i # n + 1 /\ j # n + 1 =>
        (Matched(T, F, i, j) <=> Matched(S, E, i, j))
  BY MatchedStay
<1>3. ASSUME NEW j \in MatchedEnds(S, E)
      PROVE  /\ j # n + 1 /\ j \in MatchedEnds(T, F)
             /\ MatchOf(T, F, j) = MatchOf(S, E, j)
  <2>1. PICK i : i = MatchOf(S, E, j)
    OBVIOUS
  <2>2. Matched(S, E, i, j) /\ i \in 1 .. n /\ j \in 1 .. n
    BY <1>1, <2>1, MatchOfIs
  <2>3. i # n + 1 /\ j # n + 1
    BY <1>1, <2>2
  <2>4. Matched(T, F, i, j)
    BY <1>2, <2>2, <2>3
  <2> QED BY <1>1, <2>1, <2>3, <2>4, MatchOfIs
<1>4. ASSUME NEW j \in MatchedEnds(T, F), j # n + 1
      PROVE  j \in MatchedEnds(S, E)
  <2>1. PICK i : i = MatchOf(T, F, j)
    OBVIOUS
  <2>2. Matched(T, F, i, j) /\ i \in 1 .. n + 1 /\ j \in 1 .. n + 1 /\ i < j
    BY <1>1, <2>1, MatchOfIs
  <2>3. i # n + 1
    BY <1>1, <1>4, <2>2
  <2>4. Matched(S, E, i, j)
    BY <1>2, <1>4, <2>2, <2>3
  <2> QED BY <1>1, <2>4, MatchOfIs
<1> QED BY <1>3, <1>4
-----------------------------------------------------------------------------
(* A flattened sequence: each of its parts stands behind those before it.  *)
LEMMA Joined ==
  ASSUME NEW T, NEW a \in Seq(T), NEW b \in Seq(T)
  PROVE  /\ a \o b \in Seq(T) /\ Len(a \o b) = Len(a) + Len(b)
         /\ \A k \in 1 .. Len(a) : (a \o b)[k] = a[k]
         /\ \A k \in 1 .. Len(b) : (a \o b)[Len(a) + k] = b[k]
  OBVIOUS

LEMMA Flattening ==
  ASSUME NEW T, NEW ss \in Seq(Seq(T)), Len(ss) # 0
  PROVE  \E f : /\ f = [i \in 1 .. Len(ss) |-> IF i = 1 THEN ss[i] ELSE f[i - 1] \o ss[i]]
                /\ FlattenSeq(ss) = f[Len(ss)]
<1> DEFINE Is(m, f) == f = [i \in 1 .. m |-> IF i = 1 THEN ss[i] ELSE f[i - 1] \o ss[i]]
           A == {m \in Nat : \E f : Is(m, f)}
<1>1. 0 \in A
  <2>1. <<>> = [i \in 1 .. 0 |-> IF i = 1 THEN ss[i] ELSE (<<>>)[i - 1] \o ss[i]]
    OBVIOUS
  <2> QED BY <2>1
<1>2. ASSUME NEW m \in Nat, m \in A PROVE m + 1 \in A
  <2>1. PICK f : Is(m, f)
    BY <1>2
  <2> DEFINE e == IF m = 0 THEN ss[1] ELSE f[m] \o ss[m + 1]
             g == [i \in 1 .. m + 1 |-> IF i = m + 1 THEN e ELSE f[i]]
  <2>2. \A i \in 1 .. m : f[i] = IF i = 1 THEN ss[i] ELSE f[i - 1] \o ss[i]
    BY <2>1
  <2>3. \A i \in 1 .. m + 1 : g[i] = IF i = 1 THEN ss[i] ELSE g[i - 1] \o ss[i]
    <3> SUFFICES ASSUME NEW i \in 1 .. m + 1
                 PROVE  g[i] = IF i = 1 THEN ss[i] ELSE g[i - 1] \o ss[i]
      OBVIOUS
    <3>1. CASE i = m + 1 /\ i = 1
      <4>1. m = 0 /\ g[i] = e
        BY <3>1
      <4> QED BY <3>1, <4>1
    <3>2. CASE i = m + 1 /\ i # 1
      <4>1. m # 0 /\ m \in 1 .. m + 1 /\ m # m + 1 /\ i - 1 = m
        BY <3>2
      <4>2. g[i] = e /\ g[m] = f[m]
        BY <3>2, <4>1
      <4> QED BY <3>2, <4>1, <4>2
    <3>3. CASE i # m + 1
      <4>1. i \in 1 .. m /\ g[i] = f[i]
        BY <3>3
      <4>2. i # 1 => i - 1 \in 1 .. m + 1 /\ i - 1 # m + 1
        BY <4>1
      <4>3. i # 1 => g[i - 1] = f[i - 1]
        BY <4>2
      <4> QED BY <2>2, <4>1, <4>3
    <3> QED BY <3>1, <3>2, <3>3
  <2>4. g = [i \in 1 .. m + 1 |-> g[i]]
    OBVIOUS
  <2> HIDE DEF g
  <2>5. Is(m + 1, g)
    BY <2>3, <2>4
  <2> HIDE DEF Is
  <2> QED BY <2>5
<1>3. Len(ss) \in Nat
  OBVIOUS
<1>4. \A m \in Nat : m \in A
  <2> HIDE DEF A
  <2> QED BY <1>1, <1>2, AllNumbers
<1>5. \E f : Is(Len(ss), f)
  BY <1>3, <1>4
<1>6. PICK f : f = CHOOSE g : Is(Len(ss), g)
  OBVIOUS
<1>7. FlattenSeq(ss) = f[Len(ss)]
  BY <1>6 DEF FlattenSeq
<1>8. Is(Len(ss), f)
  <2> HIDE DEF Is
  <2> QED BY <1>5, <1>6
<1> QED BY <1>7, <1>8

(* Where the parts end.                                                    *)
PartsEnd(off, ss) ==
    /\ off \in [0 .. Len(ss) -> Nat] /\ off[0] = 0
    /\ \A i \in 1 .. Len(ss) : off[i] = off[i - 1] + Len(ss[i])

LEMMA Flattened ==
  ASSUME NEW T, NEW ss \in Seq(Seq(T))
  PROVE  /\ FlattenSeq(ss) \in Seq(T)
         /\ \E off : /\ PartsEnd(off, ss) /\ Len(FlattenSeq(ss)) = off[Len(ss)]
                     /\ \A i \in 1 .. Len(ss) : \A k \in 1 .. Len(ss[i]) :
                          FlattenSeq(ss)[off[i - 1] + k] = ss[i][k]
<1> DEFINE n == Len(ss)
<1>1. n \in Nat /\ \A i \in 1 .. n : ss[i] \in Seq(T) /\ Len(ss[i]) \in Nat
  OBVIOUS
<1>2. CASE n = 0
  <2>1. FlattenSeq(ss) = ss
    BY <1>2 DEF FlattenSeq
  <2>2. ss = <<>>
    BY <1>2
  <2>3. FlattenSeq(ss) \in Seq(T) /\ Len(FlattenSeq(ss)) = 0
    BY <2>1, <2>2
  <2> DEFINE z == [i \in 0 .. 0 |-> 0]
  <2>4. z \in [0 .. 0 -> Nat] /\ z[0] = 0
    OBVIOUS
  <2>5. PartsEnd(z, ss) /\ 1 .. n = {}
    BY <1>2, <2>4 DEF PartsEnd
  <2> HIDE DEF z, n
  <2>6. PartsEnd(z, ss) /\ Len(FlattenSeq(ss)) = z[n] /\ 1 .. n = {}
    BY <1>2, <2>3, <2>4, <2>5
  <2> QED BY <2>3, <2>6 DEF n
<1>3. CASE n # 0
  <2>1. PICK f : /\ f = [i \in 1 .. n |-> IF i = 1 THEN ss[i] ELSE f[i - 1] \o ss[i]]
                 /\ FlattenSeq(ss) = f[n]
    BY <1>3, Flattening
  <2> HIDE DEF n
  <2>2. \A i \in 1 .. n : f[i] = IF i = 1 THEN ss[i] ELSE f[i - 1] \o ss[i]
    BY <2>1
  <2> DEFINE off == [i \in 0 .. n |-> IF i = 0 THEN 0 ELSE Len(f[i])]
             Good(i) == /\ f[i] \in Seq(T) /\ off[i - 1] \in Nat
                        /\ off[i] = off[i - 1] + Len(ss[i])
                        /\ \A j \in 1 .. i : /\ off[j - 1] \in Nat /\ off[j - 1] + Len(ss[j]) <= off[i]
                                             /\ \A k \in 1 .. Len(ss[j]) : f[i][off[j - 1] + k] = ss[j][k]
             A == {i \in Nat : i \in 1 .. n => Good(i)}
  <2>o. off[0] = 0 /\ \A i \in 1 .. n : off[i] = Len(f[i])
    BY <1>1
  <2>d. off = [i \in 0 .. n |-> off[i]] /\ DOMAIN off = 0 .. n
    OBVIOUS
  <2> HIDE DEF off
  <2>3. 0 \in A
    OBVIOUS
  <2>4. ASSUME NEW i \in Nat, i \in A PROVE i + 1 \in A
    <3> SUFFICES ASSUME i + 1 \in 1 .. n PROVE Good(i + 1)
      OBVIOUS
    <3>1. CASE i = 0
      <4>1. f[1] = ss[1] /\ 1 \in 1 .. n
        BY <2>2, <1>1, <3>1
      <4>2. off[0] = 0 /\ off[1] = Len(ss[1]) /\ ss[1] \in Seq(T) /\ Len(ss[1]) \in Nat
        BY <1>1, <2>o, <4>1
      <4>3. \A j \in 1 .. 1 : j = 1
        OBVIOUS
      <4>4. Good(1)
        BY <4>1, <4>2, <4>3
      <4> QED BY <3>1, <4>4
    <3>2. CASE i # 0
      <4>1. i \in 1 .. n /\ i + 1 # 1 /\ (i + 1) - 1 = i
        BY <1>1, <3>2
      <4>2. Good(i)
        BY <2>4, <4>1
      <4>3. f[i + 1] = f[i] \o ss[i + 1]
        BY <2>2, <4>1
      <4>4. f[i] \in Seq(T) /\ ss[i + 1] \in Seq(T)
        BY <1>1, <4>2
      <4>5. /\ f[i + 1] \in Seq(T) /\ Len(f[i + 1]) = Len(f[i]) + Len(ss[i + 1])
            /\ \A k \in 1 .. Len(f[i]) : f[i + 1][k] = f[i][k]
            /\ \A k \in 1 .. Len(ss[i + 1]) : f[i + 1][Len(f[i]) + k] = ss[i + 1][k]
        <5>1. PICK a, b : a = f[i] /\ b = ss[i + 1]
          OBVIOUS
        <5>2. a \in Seq(T) /\ b \in Seq(T) /\ f[i + 1] = a \o b
          BY <4>3, <4>4, <5>1
        <5>3. /\ f[i + 1] \in Seq(T) /\ Len(f[i + 1]) = Len(a) + Len(b)
              /\ \A k \in 1 .. Len(a) : f[i + 1][k] = a[k]
              /\ \A k \in 1 .. Len(b) : f[i + 1][Len(a) + k] = b[k]
          BY ONLY <5>2, Joined
        <5> QED BY <5>1, <5>3
      <4>6. /\ off[i] = Len(f[i]) /\ off[i + 1] = Len(f[i + 1]) /\ Len(f[i]) \in Nat
            /\ Len(ss[i + 1]) \in Nat
        <5>1. Len(f[i]) \in Nat
          BY <4>4
        <5> QED BY <1>1, <2>o, <4>1, <5>1
      <4>7. off[i + 1] = off[i] + Len(ss[i + 1]) /\ off[i] \in Nat
        BY <4>5, <4>6
      <4>8. ASSUME NEW j \in 1 .. i + 1
            PROVE  /\ off[j - 1] \in Nat /\ off[j - 1] + Len(ss[j]) <= off[i + 1]
                   /\ \A k \in 1 .. Len(ss[j]) : f[i + 1][off[j - 1] + k] = ss[j][k]
        <5>1. CASE j = i + 1
          <6>1. off[j - 1] = off[i] /\ ss[j] = ss[i + 1]
            BY <5>1
          <6>2. PICK x, y, l : x = off[i] /\ y = off[i + 1] /\ l = Len(ss[i + 1])
            OBVIOUS
          <6>3. x \in Nat /\ l \in Nat /\ y = x + l
            BY <4>6, <4>7, <6>2
          <6>4. x + l <= y
            BY ONLY <6>3
          <6> QED BY <4>5, <4>6, <6>1, <6>2, <6>3, <6>4
        <5>2. CASE j # i + 1
          <6>1. j \in 1 .. i /\ j \in 1 .. n
            BY <1>1, <4>1, <5>2
          <6>2. /\ off[j - 1] \in Nat /\ off[j - 1] + Len(ss[j]) <= off[i]
                /\ \A k \in 1 .. Len(ss[j]) : f[i][off[j - 1] + k] = ss[j][k]
                /\ Len(ss[j]) \in Nat
            BY <1>1, <4>2, <6>1
          <6>3. PICK x, y, z, l, m : /\ x = off[j - 1] /\ y = off[i] /\ z = off[i + 1]
                                     /\ l = Len(ss[j]) /\ m = Len(ss[i + 1])
            OBVIOUS
          <6>4. x \in Nat /\ y \in Nat /\ l \in Nat /\ m \in Nat /\ z = y + m /\ x + l <= y
            BY <4>6, <4>7, <6>2, <6>3
          <6>5. x + l <= z /\ \A k \in 1 .. l : x + k \in 1 .. y
            BY ONLY <6>4
          <6>6. \A k \in 1 .. Len(ss[j]) : f[i + 1][off[j - 1] + k] = ss[j][k]
            BY <4>5, <4>6, <6>2, <6>3, <6>5
          <6> QED BY <6>2, <6>3, <6>5, <6>6
        <5> QED BY <5>1, <5>2
      <4> QED BY <4>1, <4>5, <4>7, <4>8
    <3> QED BY <3>1, <3>2
  <2>5. \A i \in 1 .. n : Good(i)
    <3>1. \A i \in Nat : i \in A
      <4> HIDE DEF A
      <4> QED BY <2>3, <2>4, AllNumbers
    <3>2. \A i \in 1 .. n : i \in Nat
      BY <1>1
    <3> QED BY <3>1, <3>2
  <2>6. \A i \in 0 .. n : off[i] \in Nat
    <3>1. \A i \in 1 .. n : Len(f[i]) \in Nat
      BY <2>5
    <3> QED BY <1>1, <2>o, <3>1
  <2>7. off \in [0 .. n -> Nat]
    BY <2>d, <2>6
  <2>8. n \in 1 .. n
    BY <1>1, <1>3
  <2>9. /\ PartsEnd(off, ss) /\ Len(FlattenSeq(ss)) = off[n] /\ FlattenSeq(ss) \in Seq(T)
        /\ \A i \in 1 .. n : \A k \in 1 .. Len(ss[i]) : FlattenSeq(ss)[off[i - 1] + k] = ss[i][k]
    <3>1. \A i \in 1 .. n : off[i] = off[i - 1] + Len(ss[i])
      BY <2>5
    <3>2. PartsEnd(off, ss)
      BY <2>o, <2>7, <3>1 DEF PartsEnd, n
    <3>3. Good(n) /\ Len(f[n]) = off[n]
      BY <2>5, <2>8, <2>o
    <3> QED BY <2>1, <3>2, <3>3
  <2> QED BY <2>9 DEF n
<1> QED BY <1>2, <1>3
=============================================================================
