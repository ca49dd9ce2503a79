------------------------- MODULE StreamExtractorProofs -------------------------
(***************************************************************************)
(* Messages are told in the order of the text, for any documents, any cuts  *)
(* and any size of the buffer.                                              *)
(*                                                                         *)
(* The invariant says where the last message was taken from (Told) and from *)
(* which place of the buffer on everything is still to be told (From).      *)
(* Which place that is depends on the loop that runs, or on the one that    *)
(* will run when the next chunk comes (PlaceInv).  Where objects and        *)
(* strings end matters only so far: not before they begin, the objects      *)
(* inside a whole one are whole, and what comes behind an object that does  *)
(* not end yet cannot end it earlier.                                       *)
(***************************************************************************)
EXTENDS StreamExtractor, FiniteSetTheorems, SequenceTheorems, WellFoundedInduction, TLAPS

(* Numbers, sets and sequences. *)

\* A set of numbers has a least one.
LEMMA NatMinimum ==
    ASSUME NEW S \in SUBSET Nat, S # {}
    PROVE  \E n \in S : \A k \in S : n <= k
<1> DEFINE R == OpToRel(<, Nat)
<1>1. \A n, k \in Nat : n < k => <<n, k>> \in R
  BY DEF OpToRel
<1>2. IsWellFoundedOn(R, Nat)
  BY NatLessThanWellFounded
<1> HIDE DEF R
<1>3. PICK n \in S : \A k \in S : ~(<<k, n>> \in R)
  BY <1>2, WFMin
<1>4. \A k \in S : ~(k < n)
  BY <1>1, <1>3
<1> QED
  BY <1>4

\* The least of a set of numbers, 0 if there is none.
LEMMA LeastIs ==
    ASSUME NEW S \in SUBSET Nat
    PROVE  /\ Least(S) \in Nat
           /\ S = {} => Least(S) = 0
           /\ S # {} => Least(S) \in S /\ \A k \in S : Least(S) <= k
<1>1. CASE S = {}
  BY <1>1 DEF Least
<1>2. CASE S # {}
  <2>1. \E n \in S : \A k \in S : n <= k
    BY <1>2, NatMinimum
  <2>2. Min(S) \in S /\ \A k \in S : Min(S) <= k
    BY <2>1 DEF Min
  <2> QED
    BY <1>2, <2>2 DEF Least
<1> QED
  BY <1>1, <1>2

\* The greatest of some numbers up to n.
LEMMA GreatestIs ==
    ASSUME NEW n \in Nat, NEW S \in SUBSET (0..n), S # {}
    PROVE  Max(S) \in S /\ \A k \in S : k <= Max(S)
<1> DEFINE U == {u \in 0..n : \A k \in S : k <= u}
<1>1. n \in U
  OBVIOUS
<1>2. U \in SUBSET Nat
  OBVIOUS
<1>3. PICK u \in U : \A k \in U : u <= k
  BY <1>1, <1>2, NatMinimum
<1>4. u \in S
  <2> SUFFICES ASSUME u \notin S PROVE FALSE
    OBVIOUS
  <2>1. PICK k \in S : TRUE
    OBVIOUS
  <2>2. k <= u /\ k # u
    BY <1>3
  <2>3. u - 1 \in 0..n
    BY <2>2
  <2>4. \A j \in S : j <= u - 1
    BY <1>3
  <2>5. u - 1 \in U
    BY <2>3, <2>4
  <2> QED
    BY <1>3, <2>5
<1>5. \E x \in S : \A y \in S : x >= y
  BY <1>3, <1>4
<1>6. Max(S) \in S /\ \A y \in S : Max(S) >= y
  BY <1>5 DEF Max
<1> QED
  BY <1>6

\* A sequence is one of its own elements.
IsSeq(s) == s \in Seq(ToSet(s))

\* What a sequence is made of.
LEMMA SetOf ==
    /\ \A T, s : s \in Seq(T) => IsSeq(s) /\ ToSet(s) \subseteq T /\ Len(s) \in Nat /\ DOMAIN s = 1..Len(s)
    /\ \A T, s : IsSeq(s) /\ ToSet(s) \subseteq T => s \in Seq(T)
    /\ IsSeq(<<>>) /\ \A x : IsSeq(<<x>>)
<1>1. ASSUME NEW T, NEW s \in Seq(T) PROVE IsSeq(s) /\ ToSet(s) \subseteq T /\ Len(s) \in Nat /\ DOMAIN s = 1..Len(s)
  BY DEF IsSeq, ToSet
<1>2. ASSUME NEW T, NEW s, IsSeq(s), ToSet(s) \subseteq T PROVE s \in Seq(T)
  BY <1>2 DEF IsSeq
<1>3. IsSeq(<<>>)
  BY DEF IsSeq
<1>4. ASSUME NEW x PROVE IsSeq(<<x>>)
  <2>1. <<x>>[1] = x /\ DOMAIN <<x>> = 1..1
    OBVIOUS
  <2>2. x \in ToSet(<<x>>)
    BY <2>1 DEF ToSet
  <2> QED
    BY <2>2 DEF IsSeq
<1> QED
  BY <1>1, <1>2, <1>3, <1>4

\* Two sequences one after the other.
LEMMA Joined ==
    ASSUME NEW s, NEW t, IsSeq(s), IsSeq(t)
    PROVE  /\ IsSeq(s \o t) /\ Len(s \o t) = Len(s) + Len(t) /\ Len(s) \in Nat /\ Len(t) \in Nat
           /\ DOMAIN s = 1..Len(s) /\ DOMAIN t = 1..Len(t) /\ DOMAIN (s \o t) = 1..(Len(s) + Len(t))
           /\ \A i \in 1..Len(s) : (s \o t)[i] = s[i]
           /\ \A i \in (Len(s) + 1)..(Len(s) + Len(t)) : i - Len(s) \in 1..Len(t) /\ (s \o t)[i] = t[i - Len(s)]
           /\ \A T : s \in Seq(T) /\ t \in Seq(T) => s \o t \in Seq(T)
<1> DEFINE T == ToSet(s) \cup ToSet(t)
<1>1. s \in Seq(T) /\ t \in Seq(T)
  BY SetOf
<1> HIDE DEF T
<1>2. s \o t \in Seq(T) /\ Len(s \o t) = Len(s) + Len(t) /\ Len(s) \in Nat /\ Len(t) \in Nat
  BY <1>1
<1>3. /\ DOMAIN s = 1..Len(s) /\ DOMAIN t = 1..Len(t) /\ DOMAIN (s \o t) = 1..(Len(s) + Len(t))
      /\ \A i \in 1..Len(s) : (s \o t)[i] = s[i]
      /\ \A i \in (Len(s) + 1)..(Len(s) + Len(t)) : i - Len(s) \in 1..Len(t) /\ (s \o t)[i] = t[i - Len(s)]
  BY <1>1, <1>2
<1>4. IsSeq(s \o t)
  BY <1>2, SetOf
<1> QED
  BY <1>2, <1>3, <1>4

\* A section of a sequence.
LEMMA Section ==
    ASSUME NEW T, NEW s \in Seq(T), NEW lo \in Nat \ {0}, NEW hi \in 0..Len(s)
    PROVE  /\ SubSeq(s, lo, hi) \in Seq(T)
           /\ Len(SubSeq(s, lo, hi)) = IF lo <= hi THEN hi - lo + 1 ELSE 0
           /\ \A i \in 1..(hi - lo + 1) : lo + i - 1 \in DOMAIN s /\ SubSeq(s, lo, hi)[i] = s[lo + i - 1]
           /\ DOMAIN SubSeq(s, lo, hi) = 1..(hi - lo + 1)
<1>1. Len(s) \in Nat /\ DOMAIN s = 1..Len(s) /\ lo \in Int /\ hi \in Int
  OBVIOUS
<1>2. \A i \in lo..hi : i \in DOMAIN s /\ s[i] \in T
  BY <1>1
<1>3. /\ SubSeq(s, lo, hi) \in Seq(T)
      /\ Len(SubSeq(s, lo, hi)) = IF lo <= hi THEN hi - lo + 1 ELSE 0
      /\ \A i \in 1..(hi - lo + 1) : SubSeq(s, lo, hi)[i] = s[lo + i - 1]
  <2>1. lo \in Int /\ hi \in Int /\ \A i \in lo..hi : s[i] \in T
    BY <1>1, <1>2
  <2>2. SubSeq(s, lo, hi) \in Seq(T)
    BY ONLY <2>1, SubSeqProperties
  <2>3. Len(SubSeq(s, lo, hi)) = IF lo <= hi THEN hi - lo + 1 ELSE 0
    BY ONLY <2>1, SubSeqProperties
  <2>4. \A i \in 1..(hi - lo + 1) : SubSeq(s, lo, hi)[i] = s[lo + i - 1]
    BY ONLY <2>1, SubSeqProperties
  <2> QED
    BY <2>2, <2>3, <2>4
<1>4. \A i \in 1..(hi - lo + 1) : lo + i - 1 \in DOMAIN s
  BY <1>1
<1>5. DOMAIN SubSeq(s, lo, hi) = 1..Len(SubSeq(s, lo, hi))
  BY <1>3
<1>6. 1..Len(SubSeq(s, lo, hi)) = 1..(hi - lo + 1)
  BY <1>1, <1>3
<1> QED
  BY <1>3, <1>4, <1>5, <1>6

\* The elements of a finite set, one after the other.
LEMMA Listed ==
    ASSUME NEW S, IsFiniteSet(S)
    PROVE  /\ SetToSeq(S) \in Seq(S) /\ \A i \in DOMAIN SetToSeq(S) : SetToSeq(S)[i] \in S
           /\ IsFiniteSet(ToSet(SetToSeq(S))) /\ ToSet(SetToSeq(S)) \subseteq S
           /\ S # {} => ToSet(SetToSeq(S)) # {}
<1>1. Cardinality(S) \in Nat /\ ExistsBijection(1..Cardinality(S), S)
  BY FS_CardinalityType
<1>2. PICK g : g \in Bijection(1..Cardinality(S), S)
  BY <1>1 DEF ExistsBijection
<1>3. g \in [1..Cardinality(S) -> S] /\ IsInjective(g)
  BY <1>2 DEF Bijection, Injection, IsInjective
<1>4. SetToSeq(S) \in [1..Cardinality(S) -> S]
  BY <1>3 DEF SetToSeq
<1>5. SetToSeq(S) \in Seq(S)
  BY <1>1, <1>4
<1>6. ToSet(SetToSeq(S)) \subseteq S
  BY <1>4 DEF ToSet
<1>7. ASSUME S # {} PROVE ToSet(SetToSeq(S)) # {}
  <2>1. Cardinality(S) # 0
    BY <1>7, FS_EmptySet
  <2>2. 1 \in 1..Cardinality(S)
    BY <1>1, <2>1
  <2>3. SetToSeq(S)[1] \in ToSet(SetToSeq(S))
    BY <1>4, <2>2 DEF ToSet
  <2> QED
    BY <2>3
<1> QED
  BY <1>4, <1>5, <1>6, <1>7, FS_Subset
-----------------------------------------------------------------------------
(* Where objects and strings end. *)

\* The places from i to j of d that have one of the kinds K.
Places(d, i, j, K) == {k \in i..j : d[k].k \in K}

Closing == {"endobj"}

\* What one more token adds to the open braces.
Step(t) == IF t.k \in Braces THEN 1 ELSE IF t.k = "endobj" THEN -1 ELSE 0

\* Places are finitely many.
LEMMA CountedPlaces ==
    ASSUME NEW d, NEW K, NEW i \in Int, NEW j \in Int
    PROVE  /\ IsFiniteSet(Places(d, i, j, K)) /\ Cardinality(Places(d, i, j, K)) \in Nat
           /\ j < i => Cardinality(Places(d, i, j, K)) = 0
<1>1. IsFiniteSet(i..j) /\ Places(d, i, j, K) \subseteq i..j
  BY FS_Interval DEF Places
<1>2. IsFiniteSet(Places(d, i, j, K))
  BY <1>1, FS_Subset
<1>3. Cardinality(Places(d, i, j, K)) \in Nat
  BY <1>2, FS_CardinalityType
<1>4. ASSUME j < i PROVE Cardinality(Places(d, i, j, K)) = 0
  <2>1. Places(d, i, j, K) = {}
    BY <1>4 DEF Places
  <2> QED
    BY <2>1, FS_EmptySet
<1> QED
  BY <1>2, <1>3, <1>4

\* One place more counts once.
LEMMA OnePlaceMore ==
    ASSUME NEW d, NEW K, NEW i \in Int, NEW j \in Int, NEW n \in Int, j = n + 1, i <= j
    PROVE  Cardinality(Places(d, i, j, K)) = Cardinality(Places(d, i, n, K)) + IF d[j].k \in K THEN 1 ELSE 0
<1>1. IsFiniteSet(Places(d, i, n, K)) /\ Cardinality(Places(d, i, n, K)) \in Nat
  BY CountedPlaces
<1>2. j \notin Places(d, i, n, K)
  BY DEF Places
<1>3. CASE d[j].k \in K
  <2>1. Places(d, i, j, K) = Places(d, i, n, K) \cup {j}
    BY <1>3 DEF Places
  <2> QED
    BY <1>1, <1>2, <1>3, <2>1, FS_AddElement
<1>4. CASE d[j].k \notin K
  <2>1. Places(d, i, j, K) = Places(d, i, n, K)
    BY <1>4 DEF Places
  <2> QED
    BY <1>1, <1>4, <2>1
<1> QED
  BY <1>3, <1>4

LEMMA OpenedIs ==
    ASSUME NEW d, NEW i \in Int, NEW j \in Int
    PROVE  Opened(d, i, j) \in Int /\ (j < i => Opened(d, i, j) = 0)
<1>1. Opened(d, i, j) = Cardinality(Places(d, i, j, Braces)) - Cardinality(Places(d, i, j, Closing))
  BY DEF Opened, Places, Closing
<1> QED
  BY <1>1, CountedPlaces

\* One more token opens a brace, closes one, or does neither.
LEMMA OneMore ==
    ASSUME NEW d, NEW i \in Int, NEW j \in Int, NEW n \in Int, j = n + 1, i <= j
    PROVE  Opened(d, i, j) = Opened(d, i, n) + Step(d[j])
<1>1. /\ Opened(d, i, j) = Cardinality(Places(d, i, j, Braces)) - Cardinality(Places(d, i, j, Closing))
      /\ Opened(d, i, n) = Cardinality(Places(d, i, n, Braces)) - Cardinality(Places(d, i, n, Closing))
  BY DEF Opened, Places, Closing
<1>2. /\ Cardinality(Places(d, i, n, Braces)) \in Nat /\ Cardinality(Places(d, i, n, Closing)) \in Nat
      /\ Cardinality(Places(d, i, j, Braces)) \in Nat /\ Cardinality(Places(d, i, j, Closing)) \in Nat
  BY CountedPlaces
<1>3. Cardinality(Places(d, i, j, Braces)) = Cardinality(Places(d, i, n, Braces)) + IF d[j].k \in Braces THEN 1 ELSE 0
  BY OnePlaceMore
<1>4. Cardinality(Places(d, i, j, Closing)) = Cardinality(Places(d, i, n, Closing)) + IF d[j].k \in Closing THEN 1 ELSE 0
  BY OnePlaceMore
<1>5. "endobj" \notin Braces
  BY DEF Braces, EventKeys, Heads
<1>6. d[j].k \in Closing <=> d[j].k = "endobj"
  BY DEF Closing
<1>7. CASE d[j].k \in Braces
  <2>1. Step(d[j]) = 1 /\ d[j].k \notin Closing
    BY <1>5, <1>6, <1>7 DEF Step
  <2> QED
    BY <1>1, <1>2, <1>3, <1>4, <1>7, <2>1
<1>8. CASE d[j].k \in Closing
  <2>1. Step(d[j]) = -1 /\ d[j].k \notin Braces
    BY <1>5, <1>6, <1>8 DEF Step
  <2> QED
    BY <1>1, <1>2, <1>3, <1>4, <1>8, <2>1
<1>9. CASE d[j].k \notin Braces /\ d[j].k \notin Closing
  <2>1. Step(d[j]) = 0
    BY <1>6, <1>9 DEF Step
  <2> QED
    BY <1>1, <1>2, <1>3, <1>4, <1>9, <2>1
<1> QED
  BY <1>7, <1>8, <1>9

\* Where two texts agree, the same braces are open: the second may begin
\* elsewhere.  (The least place at which they differ does not exist.)
LEMMA SameBraces ==
    ASSUME NEW d, NEW e, NEW i \in Int, NEW p \in Int, NEW j \in Int, NEW q \in Int, j - i = q - p,
           \A k \in Nat : i + k <= j => d[i + k].k = e[p + k].k
    PROVE  Opened(d, i, j) = Opened(e, p, q)
<1>1. PICK l \in Int : j = i + l /\ q = p + l
  <2>1. j - i \in Int /\ j = i + (j - i) /\ q = p + (j - i)
    OBVIOUS
  <2> QED
    BY <2>1
<1>2. \A k \in Nat : k <= l => d[i + k].k = e[p + k].k
  BY <1>1
<1>3. SUFFICES Opened(d, i, i + l) = Opened(e, p, p + l)
  BY <1>1
<1> DEFINE Differ == {k \in Nat : k <= l /\ Opened(d, i, i + k) # Opened(e, p, p + k)}
<1>4. Differ = {}
  <2> SUFFICES ASSUME Differ # {} PROVE FALSE
    OBVIOUS
  <2>1. Differ \in SUBSET Nat
    OBVIOUS
  <2>2. PICK k \in Differ : \A x \in Differ : k <= x
    BY <2>1, NatMinimum
  <2>3. k \in Nat /\ k <= l /\ Opened(d, i, i + k) # Opened(e, p, p + k)
    OBVIOUS
  <2>4. PICK m \in Int : m + 1 = k
    <3>1. k - 1 \in Int /\ (k - 1) + 1 = k
      BY <2>3
    <3> QED
      BY <3>1
  <2>5. PICK i1 \in Int, i2 \in Int, p1 \in Int, p2 \in Int :
            i1 = i + m /\ i2 = i + k /\ p1 = p + m /\ p2 = p + k /\ i2 = i1 + 1 /\ p2 = p1 + 1
    <3>1. /\ i + m \in Int /\ i + k \in Int /\ p + m \in Int /\ p + k \in Int
          /\ i + k = (i + m) + 1 /\ p + k = (p + m) + 1
      BY <2>3, <2>4
    <3> QED
      BY <3>1
  <2>6. Opened(d, i, i1) = Opened(e, p, p1)
    <3>1. CASE k = 0
      <4>1. i1 < i /\ p1 < p
        BY <2>4, <2>5, <3>1
      <4> QED
        BY <4>1, OpenedIs
    <3>2. CASE k # 0
      <4>1. m \in Nat /\ m <= l /\ ~(k <= m)
        BY <2>3, <2>4, <3>2
      <4>2. m \notin Differ
        BY <2>2, <4>1
      <4> QED
        BY <2>5, <4>1, <4>2
    <3> QED
      BY <3>1, <3>2
  <2>7. Opened(d, i, i2) = Opened(d, i, i1) + Step(d[i2])
    <3>1. i <= i2
      BY <2>3, <2>5
    <3> QED
      BY <2>5, <3>1, OneMore
  <2>8. Opened(e, p, p2) = Opened(e, p, p1) + Step(e[p2])
    <3>1. p <= p2
      BY <2>3, <2>5
    <3> QED
      BY <2>5, <3>1, OneMore
  <2>9. Step(d[i2]) = Step(e[p2])
    BY <1>2, <2>3, <2>5 DEF Step
  <2> QED
    BY <2>3, <2>5, <2>6, <2>7, <2>8, <2>9
<1>5. CASE l < 0
  <2>1. PICK i2 \in Int, p2 \in Int : i2 = i + l /\ p2 = p + l /\ i2 < i /\ p2 < p
    <3>1. i + l \in Int /\ p + l \in Int /\ i + l < i /\ p + l < p
      BY <1>5
    <3> QED
      BY <3>1
  <2>2. Opened(d, i, i2) = 0 /\ Opened(e, p, p2) = 0
    BY <2>1, OpenedIs
  <2> QED
    BY <2>1, <2>2
<1>6. CASE 0 <= l
  <2>1. l \in Nat /\ l <= l
    BY <1>6
  <2>2. l \notin Differ
    BY <1>4
  <2> QED
    BY <2>1, <2>2
<1> QED
  BY <1>5, <1>6

\* What is open at j was open before p or was opened since.
LEMMA SplitBraces ==
    ASSUME NEW d, NEW i \in Int, NEW p \in Int, NEW q \in Int, NEW j \in Int, i <= p, p = q + 1, q <= j
    PROVE  Opened(d, i, j) = Opened(d, i, q) + Opened(d, p, j)
<1> DEFINE Differ == {k \in Nat : q + k <= j /\ Opened(d, i, q + k) # Opened(d, i, q) + Opened(d, p, q + k)}
<1>1. Differ = {}
  <2> SUFFICES ASSUME Differ # {} PROVE FALSE
    OBVIOUS
  <2>1. Differ \in SUBSET Nat
    OBVIOUS
  <2>2. PICK k \in Differ : \A x \in Differ : k <= x
    BY <2>1, NatMinimum
  <2>3. k \in Nat /\ q + k <= j /\ Opened(d, i, q + k) # Opened(d, i, q) + Opened(d, p, q + k)
    OBVIOUS
  <2>4. k # 0
    <3>1. SUFFICES ASSUME k = 0 PROVE FALSE
      OBVIOUS
    <3>2. q + k = q /\ q < p
      BY <3>1
    <3>3. Opened(d, p, q) = 0 /\ Opened(d, i, q) \in Int
      BY <3>2, OpenedIs
    <3> QED
      BY <2>3, <3>2, <3>3
  <2>5. PICK m \in Nat : m + 1 = k
    <3>1. k - 1 \in Nat /\ (k - 1) + 1 = k
      BY <2>3, <2>4
    <3> QED
      BY <3>1
  <2>6. PICK q1 \in Int, q2 \in Int : q1 = q + m /\ q2 = q + k /\ q2 = q1 + 1 /\ p <= q2 /\ i <= q2
    <3>1. q + m \in Int /\ q + k \in Int /\ q + k = (q + m) + 1 /\ p <= q + k /\ i <= q + k
      BY <2>3, <2>4, <2>5
    <3> QED
      BY <3>1
  <2>7. Opened(d, i, q1) = Opened(d, i, q) + Opened(d, p, q1)
    <3>1. q + m <= j /\ ~(k <= m)
      BY <2>3, <2>5
    <3>2. m \notin Differ
      BY <2>2, <3>1
    <3> QED
      BY <2>6, <3>1, <3>2
  <2>8. Opened(d, i, q2) = Opened(d, i, q1) + Step(d[q2])
    BY <2>6, OneMore
  <2>9. Opened(d, p, q2) = Opened(d, p, q1) + Step(d[q2])
    BY <2>6, OneMore
  <2>10. Opened(d, i, q) \in Int /\ Opened(d, p, q1) \in Int /\ Step(d[q2]) \in Int
    BY OpenedIs DEF Step
  <2> QED
    BY <2>3, <2>6, <2>7, <2>8, <2>9, <2>10
<1>2. PICK k \in Nat : q + k = j
  <2>1. j - q \in Nat /\ q + (j - q) = j
    OBVIOUS
  <2> QED
    BY <2>1
<1>3. k \notin Differ
  BY <1>1
<1> QED
  BY <1>2, <1>3
\* Where an object ends, and where a string does.
LEMMA EndsAre ==
    ASSUME NEW b, IsSeq(b), NEW i \in Nat
    PROVE  /\ ObjectEnd(b, i) \in Nat
           /\ ObjectEnd(b, i) # 0 =>
                 /\ i <= ObjectEnd(b, i) /\ ObjectEnd(b, i) <= Len(b)
                 /\ b[ObjectEnd(b, i)].k = "endobj" /\ Opened(b, i, ObjectEnd(b, i)) = 0
           /\ \A j \in i..Len(b) : b[j].k = "endobj" /\ Opened(b, i, j) = 0 => ObjectEnd(b, i) <= j /\ (i # 0 => ObjectEnd(b, i) # 0)
           /\ StringEnd(b, i) \in Nat
           /\ StringEnd(b, i) # 0 => i <= StringEnd(b, i) /\ StringEnd(b, i) <= Len(b) /\ b[StringEnd(b, i)].k = "quote"
<1>1. Len(b) \in Nat
  BY SetOf DEF IsSeq
<1> DEFINE S == {j \in i..Len(b) : b[j].k = "endobj" /\ Opened(b, i, j) = 0}
           Q == {j \in i..Len(b) : b[j].k = "quote"}
<1>2. S \in SUBSET Nat /\ Q \in SUBSET Nat
  BY <1>1
<1>3. ObjectEnd(b, i) = Least(S) /\ StringEnd(b, i) = Least(Q)
  BY DEF ObjectEnd, StringEnd
<1>4. /\ Least(S) \in Nat /\ (S = {} => Least(S) = 0)
      /\ S # {} => Least(S) \in S /\ \A k \in S : Least(S) <= k
  <2> HIDE DEF S
  <2> QED
    BY <1>2, LeastIs
<1>5. /\ Least(Q) \in Nat /\ (Q = {} => Least(Q) = 0)
      /\ Q # {} => Least(Q) \in Q /\ \A k \in Q : Least(Q) <= k
  <2> HIDE DEF Q
  <2> QED
    BY <1>2, LeastIs
<1>6. Least(S) # 0 => Least(S) \in i..Len(b) /\ b[Least(S)].k = "endobj" /\ Opened(b, i, Least(S)) = 0
  <2>1. Least(S) # 0 => Least(S) \in S
    BY <1>4
  <2> QED
    BY <2>1
<1>7. ASSUME NEW j \in i..Len(b), b[j].k = "endobj", Opened(b, i, j) = 0 PROVE Least(S) <= j /\ (i # 0 => Least(S) # 0)
  <2>1. j \in S
    BY <1>7
  <2>2. Least(S) \in S /\ Least(S) <= j
    BY <1>4, <2>1
  <2>3. Least(S) \in i..Len(b)
    BY <2>2
  <2> QED
    BY <1>1, <2>2, <2>3
<1>8. Least(Q) # 0 => Least(Q) \in i..Len(b) /\ b[Least(Q)].k = "quote"
  <2>1. Least(Q) # 0 => Least(Q) \in Q
    BY <1>5
  <2> QED
    BY <2>1
<1> QED
  BY <1>1, <1>3, <1>4, <1>5, <1>6, <1>7, <1>8

\* What is opened and no longer open was closed, at some "endobj".
LEMMA Closes ==
    ASSUME NEW d, NEW i \in Int, NEW n \in Int, i <= n, d[i].k \in Braces, Opened(d, i, n) <= 0
    PROVE  \E j \in i..n : d[j].k = "endobj" /\ Opened(d, i, j) = 0
<1> DEFINE S == {k \in Nat : i + k <= n /\ Opened(d, i, i + k) <= 0}
<1>1. PICK l \in Nat : i + l = n
  <2>1. n - i \in Nat /\ i + (n - i) = n
    OBVIOUS
  <2> QED
    BY <2>1
<1>2. S \in SUBSET Nat /\ l \in S
  BY <1>1
<1>3. PICK k \in S : \A x \in S : k <= x
  BY <1>2, NatMinimum
<1>4. k \in Nat /\ i + k <= n /\ Opened(d, i, i + k) <= 0
  OBVIOUS
<1>5. k # 0
  <2>1. SUFFICES ASSUME k = 0 PROVE FALSE
    OBVIOUS
  <2>2. PICK m \in Int : i = m + 1 /\ m < i
    <3>1. i - 1 \in Int /\ i = (i - 1) + 1 /\ i - 1 < i
      OBVIOUS
    <3> QED
      BY <3>1
  <2>3. Opened(d, i, i) = Opened(d, i, m) + Step(d[i])
    BY <2>2, OneMore
  <2>4. Opened(d, i, m) = 0 /\ Step(d[i]) = 1
    BY <2>2, OpenedIs DEF Step
  <2>5. i + k = i
    BY <2>1
  <2> QED
    BY <1>4, <2>3, <2>4, <2>5
<1>6. PICK m \in Nat : m + 1 = k
  <2>1. k - 1 \in Nat /\ (k - 1) + 1 = k
    BY <1>4, <1>5
  <2> QED
    BY <2>1
<1>7. PICK q1 \in Int, q2 \in Int : q1 = i + m /\ q2 = i + k /\ q2 = q1 + 1 /\ i <= q2 /\ q2 <= n
  <2>1. i + m \in Int /\ i + k \in Int /\ i + k = (i + m) + 1 /\ i <= i + k
    BY <1>4, <1>6
  <2> QED
    BY <1>4, <2>1
<1>8. Opened(d, i, q1) >= 1
  <2>1. i + m <= n /\ ~(k <= m)
    BY <1>4, <1>6
  <2>2. m \notin S
    BY <1>3, <2>1
  <2>3. ~(Opened(d, i, q1) <= 0)
    BY <1>7, <2>1, <2>2
  <2> QED
    BY <1>7, <2>3, OpenedIs
<1>9. Opened(d, i, q2) = Opened(d, i, q1) + Step(d[q2])
  BY <1>7, OneMore
<1>10. Opened(d, i, q1) \in Int /\ Opened(d, i, q2) \in Int /\ Opened(d, i, q2) <= 0
  BY <1>4, <1>7, OpenedIs
<1>11. Step(d[q2]) = -1 \/ Step(d[q2]) = 0 \/ Step(d[q2]) = 1
  BY DEF Step
<1>12. Step(d[q2]) = -1 /\ Opened(d, i, q2) = 0
  BY <1>8, <1>9, <1>10, <1>11
<1>13. d[q2].k = "endobj"
  BY <1>12 DEF Step
<1> QED
  BY <1>7, <1>12, <1>13

\* Inside a whole object every object is whole.
LEMMA InnerIsWhole ==
    ASSUME NEW b, IsSeq(b), b # <<>>, b[1].k \in Heads, ObjectEnd(b, 1) = Len(b),
           NEW p \in DOMAIN b, b[p].k \in Heads
    PROVE  ObjectEnd(b, p) # 0
<1>1. Len(b) \in Nat /\ DOMAIN b = 1..Len(b) /\ Len(b) # 0 /\ Len(b) \in Int
  BY SetOf DEF IsSeq
<1> DEFINE n == Len(b)
<1>2. b[n].k = "endobj" /\ Opened(b, 1, n) = 0
  <2>1. ObjectEnd(b, 1) # 0 => b[ObjectEnd(b, 1)].k = "endobj" /\ Opened(b, 1, ObjectEnd(b, 1)) = 0
    BY EndsAre
  <2> QED
    BY <1>1, <2>1
<1>3. Heads \subseteq Braces /\ "endobj" \notin Braces
  BY DEF Heads, Braces, EventKeys
<1>4. p \in 1..n /\ p # n
  BY <1>1, <1>2, <1>3
<1>5. CASE p = 1
  BY <1>1, <1>5
<1>6. CASE p # 1
  <2>1. PICK q \in Nat : p = q + 1 /\ 1 <= q /\ q < n
    <3>1. p - 1 \in Nat /\ p = (p - 1) + 1 /\ 1 <= p - 1 /\ p - 1 < n
      BY <1>1, <1>4, <1>6
    <3> QED
      BY <3>1
  <2>2. Opened(b, 1, q) >= 1
    <3> SUFFICES ASSUME ~(Opened(b, 1, q) >= 1) PROVE FALSE
      OBVIOUS
    <3>1. Opened(b, 1, q) <= 0
      BY OpenedIs
    <3>2. PICK j \in 1..q : b[j].k = "endobj" /\ Opened(b, 1, j) = 0
      BY <1>3, <2>1, <3>1, Closes
    <3>3. j \in 1..Len(b)
      BY <1>1, <2>1
    <3>4. ObjectEnd(b, 1) <= j
      BY <3>2, <3>3, EndsAre
    <3> QED
      BY <1>1, <2>1, <3>3, <3>4
  <2>3. Opened(b, 1, n) = Opened(b, 1, q) + Opened(b, p, n)
    BY <1>1, <1>4, <2>1, SplitBraces
  <2>4. Opened(b, p, n) <= 0
    <3>1. Opened(b, 1, q) \in Int /\ Opened(b, p, n) \in Int
      BY <1>1, <1>4, <2>1, OpenedIs
    <3> QED
      BY <1>2, <2>2, <2>3, <3>1
  <2>5. PICK j \in p..n : b[j].k = "endobj" /\ Opened(b, p, j) = 0
    BY <1>1, <1>3, <1>4, <2>4, Closes
  <2>6. p \in Nat /\ p # 0
    BY <1>1, <1>4
  <2> QED
    BY <2>5, <2>6, EndsAre
<1> QED
  BY <1>5, <1>6

\* What comes behind cannot make an object end earlier.
LEMMA EndsNoEarlier ==
    ASSUME NEW b, IsSeq(b), NEW t, IsSeq(t), NEW i \in Nat, i # 0, NEW n \in Nat, n <= Len(b),
           ObjectEnd(b \o t, i) \in 1..n
    PROVE  ObjectEnd(b, i) \in 1..n
<1>1. /\ IsSeq(b \o t) /\ Len(b) \in Nat /\ Len(t) \in Nat /\ Len(b \o t) = Len(b) + Len(t)
      /\ \A j \in 1..Len(b) : (b \o t)[j] = b[j]
  BY Joined
<1> DEFINE stop == ObjectEnd(b \o t, i)
<1> DEFINE whole == b \o t
<1> HIDE DEF whole
<1>2. stop \in Nat /\ i <= stop /\ stop <= n /\ whole[stop].k = "endobj" /\ Opened(whole, i, stop) = 0
  <2>1. IsSeq(whole) /\ ObjectEnd(whole, i) \in 1..n
    BY <1>1 DEF whole
  <2>2. ObjectEnd(whole, i) # 0
    BY <2>1
  <2>3. i <= ObjectEnd(whole, i) /\ whole[ObjectEnd(whole, i)].k = "endobj" /\ Opened(whole, i, ObjectEnd(whole, i)) = 0
    BY <2>1, <2>2, EndsAre
  <2> QED
    BY <2>1, <2>3 DEF whole
<1> HIDE DEF stop
<1>4. \A k \in i..stop : whole[k].k = b[k].k
  <2>1. \A k \in i..stop : k \in 1..Len(b)
    BY <1>1, <1>2
  <2> QED
    BY <1>1, <2>1 DEF whole
<1>5. Opened(whole, i, stop) = Opened(b, i, stop)
  <2>1. /\ {k \in i..stop : whole[k].k \in Braces} = {k \in i..stop : b[k].k \in Braces}
        /\ {k \in i..stop : whole[k].k = "endobj"} = {k \in i..stop : b[k].k = "endobj"}
    BY <1>4
  <2> QED
    BY <2>1 DEF Opened
<1>6. stop \in i..Len(b) /\ b[stop].k = "endobj" /\ Opened(b, i, stop) = 0
  <2>1. stop \in 1..Len(b) /\ i <= stop
    BY <1>1, <1>2
  <2>2. whole[stop] = b[stop]
    BY <1>1, <2>1 DEF whole
  <2> QED
    BY <1>1, <1>2, <1>5, <2>1, <2>2
<1>7. ObjectEnd(b, i) \in Nat /\ ObjectEnd(b, i) <= stop /\ ObjectEnd(b, i) # 0
  BY <1>6, EndsAre
<1> QED
  BY <1>2, <1>7

\* An object that is cut out ends where it did.
LEMMA CutOut ==
    ASSUME NEW b, IsSeq(b), NEW i \in Nat, i # 0, ObjectEnd(b, i) # 0
    PROVE  LET o == SubSeq(b, i, ObjectEnd(b, i)) IN
           o # <<>> /\ o[1] = b[i] /\ ObjectEnd(o, 1) = Len(o) /\ IsSeq(o)
<1> DEFINE n == ObjectEnd(b, i)
           o == SubSeq(b, i, n)
<1>1. n \in Nat /\ i <= n /\ n <= Len(b) /\ b[n].k = "endobj" /\ Opened(b, i, n) = 0
  BY EndsAre
<1>2. Len(b) \in Nat
  BY SetOf DEF IsSeq
<1>3. /\ o \in Seq(ToSet(b)) /\ Len(o) = n - i + 1 /\ Len(o) \in Nat /\ DOMAIN o = 1..(n - i + 1)
      /\ \A j \in 1..(n - i + 1) : o[j] = b[i + j - 1]
  <2>1. b \in Seq(ToSet(b)) /\ i \in Nat \ {0} /\ n \in 0..Len(b)
    BY <1>1, <1>2 DEF IsSeq
  <2> HIDE DEF n
  <2>2. /\ o \in Seq(ToSet(b)) /\ Len(o) = IF i <= n THEN n - i + 1 ELSE 0
        /\ \A j \in 1..(n - i + 1) : o[j] = b[i + j - 1]
        /\ DOMAIN o = 1..(n - i + 1)
    BY <2>1, Section
  <2> QED
    BY <1>1, <2>2
<1> HIDE DEF n
<1>4. IsSeq(o) /\ o # <<>> /\ o[1] = b[i]
  <2>1. IsSeq(o)
    BY <1>3, SetOf
  <2>2. 1 \in 1..(n - i + 1) /\ i + 1 - 1 = i /\ n - i + 1 # 0
    BY <1>1
  <2> QED
    BY <1>3, <2>1, <2>2
<1> HIDE DEF o
<1>5. ASSUME NEW j \in 1..Len(o) PROVE Opened(o, 1, j) = Opened(b, i, i + j - 1)
  <2>1. PICK q \in Int : q = i + j - 1
    <3>1. i + j - 1 \in Int
      BY <1>3
    <3> QED
      BY <3>1
  <2>2. \A k \in Nat : 1 + k <= j => o[1 + k].k = b[i + k].k
    <3>1. \A k \in Nat : 1 + k <= j => 1 + k \in 1..(n - i + 1) /\ i + (1 + k) - 1 = i + k
      BY <1>1, <1>3
    <3> QED
      BY <1>3, <3>1
  <2>3. Opened(o, 1, j) = Opened(b, i, q)
    <3>1. 1 \in Int /\ i \in Int /\ q \in Int /\ j \in Int /\ j - 1 = q - i
      BY <2>1
    <3> QED
      BY ONLY <2>2, <3>1, SameBraces
  <2> QED
    BY <2>1, <2>3
<1>6. Len(o) \in 1..Len(o) /\ i + Len(o) - 1 = n /\ Len(o) \in 1..(n - i + 1)
  BY <1>1, <1>3
<1>7. o[Len(o)].k = "endobj" /\ Opened(o, 1, Len(o)) = 0
  BY <1>1, <1>3, <1>5, <1>6
<1>8. ObjectEnd(o, 1) \in Nat /\ ObjectEnd(o, 1) <= Len(o) /\ ObjectEnd(o, 1) # 0
  <2>1. 1 \in Nat /\ 1 # 0
    OBVIOUS
  <2>2. Len(o) \in 1..Len(o)
    BY <1>6
  <2> QED
    BY ONLY <1>4, <1>7, <2>1, <2>2, EndsAre
<1>9. o[ObjectEnd(o, 1)].k = "endobj" /\ Opened(o, 1, ObjectEnd(o, 1)) = 0
  BY <1>4, <1>8, EndsAre
<1>10. ObjectEnd(o, 1) \in 1..Len(o) /\ i + ObjectEnd(o, 1) - 1 \in i..Len(b)
  BY <1>1, <1>2, <1>3, <1>8
<1>11. n <= i + ObjectEnd(o, 1) - 1
  <2>1. b[i + ObjectEnd(o, 1) - 1].k = "endobj" /\ Opened(b, i, i + ObjectEnd(o, 1) - 1) = 0
    BY <1>3, <1>5, <1>9, <1>10
  <2> QED
    BY <1>10, <2>1, EndsAre DEF n
<1>12. ObjectEnd(o, 1) = Len(o)
  BY <1>1, <1>3, <1>8, <1>11
<1> QED
  BY <1>4, <1>12 DEF o, n
-----------------------------------------------------------------------------
(* Parts of a document, and messages told in its order. *)

Rising(s) == \A i, j \in DOMAIN s : i <= j => s[i].at <= s[j].at

\* b is made of some of the first n tokens of d, in order.
PartOf(d, n, b) == b \in Seq(ToSet(d)) /\ Rising(b) /\ \A i \in DOMAIN b : b[i].at \in 1..n

\* From i on nothing in b comes from before n.
Beyond(b, i, n) == \A j \in DOMAIN b : i <= j => n <= b[j].at

\* No object at the head of b ends within the first n tokens.
Unended(b, n) == \A i \in DOMAIN b :
    b[i].k \in Heads /\ (\A j \in 1..(i - 1) : b[j].k = "ws") => ObjectEnd(b, i) \notin 1..n

\* The messages rs, after one from last, are in order.
Tells(rs, last, n) ==
    IsSeq(rs) /\ Rising(rs) /\ last \in 0..n /\ \A i \in DOMAIN rs : rs[i].at \in last..n

ToldLast(rs, last) == IF rs = <<>> THEN last ELSE rs[Len(rs)].at

LEMMA PartIs ==
    ASSUME NEW d, NEW n \in Nat, NEW b, PartOf(d, n, b)
    PROVE  /\ IsSeq(b) /\ Len(b) \in Nat /\ DOMAIN b = 1..Len(b)
           /\ \A i \in DOMAIN b : b[i].at \in Nat /\ b[i].at <= n /\ Beyond(b, i, b[i].at)
<1>1. IsSeq(b) /\ Len(b) \in Nat /\ DOMAIN b = 1..Len(b)
  BY SetOf DEF PartOf
<1>2. \A i \in DOMAIN b : b[i].at \in Nat /\ b[i].at <= n /\ Beyond(b, i, b[i].at)
  BY DEF PartOf, Rising, Beyond
<1> QED
  BY <1>1, <1>2

\* A section of a part is a part, and begins where it is cut.
LEMMA PartOfPart ==
    ASSUME NEW d, NEW n \in Nat, NEW b, PartOf(d, n, b), NEW lo \in Nat, lo # 0, NEW hi \in Nat, hi <= Len(b)
    PROVE  /\ PartOf(d, n, SubSeq(b, lo, hi))
           /\ \A i \in Nat, m \in Nat : Beyond(b, i, m) /\ i <= lo => Beyond(SubSeq(b, lo, hi), 1, m)
<1>1. Len(b) \in Nat /\ DOMAIN b = 1..Len(b) /\ b \in Seq(ToSet(d))
  BY PartIs DEF PartOf
<1>2. lo \in Nat \ {0} /\ hi \in 0..Len(b)
  BY <1>1
<1> DEFINE o == SubSeq(b, lo, hi)
<1>3. /\ o \in Seq(ToSet(d))
      /\ DOMAIN o = 1..(hi - lo + 1)
      /\ \A i \in 1..(hi - lo + 1) : lo + i - 1 \in DOMAIN b /\ o[i] = b[lo + i - 1]
  BY <1>1, <1>2, Section
<1> HIDE DEF o
<1>4. Rising(o)
  <2> SUFFICES ASSUME NEW i \in DOMAIN o, NEW j \in DOMAIN o, i <= j PROVE o[i].at <= o[j].at
    BY DEF Rising
  <2>1. lo + i - 1 <= lo + j - 1
    BY <1>3
  <2> QED
    BY <1>3, <2>1 DEF PartOf, Rising
<1>5. \A i \in DOMAIN o : o[i].at \in 1..n
  BY <1>3 DEF PartOf
<1>6. ASSUME NEW i \in Nat, NEW m \in Nat, Beyond(b, i, m), i <= lo PROVE Beyond(o, 1, m)
  <2> SUFFICES ASSUME NEW j \in DOMAIN o PROVE m <= o[j].at
    BY DEF Beyond
  <2>1. i <= lo + j - 1
    BY <1>3, <1>6
  <2> QED
    BY <1>3, <1>6, <2>1 DEF Beyond
<1> QED
  BY <1>3, <1>4, <1>5, <1>6 DEF PartOf, o

\* What comes later goes behind.
LEMMA PartGrows ==
    ASSUME NEW d, NEW n \in Nat, NEW b, PartOf(d, n, b), NEW p \in Nat, n + p <= Len(d),
           IsSeq(d), \A i \in DOMAIN d : d[i].at = i
    PROVE  LET t == SubSeq(d, n + 1, n + p) IN
           /\ PartOf(d, n + p, b) /\ PartOf(d, n + p, b \o t) /\ IsSeq(t)
           /\ DOMAIN b \subseteq DOMAIN (b \o t) /\ \A i \in DOMAIN b : (b \o t)[i] = b[i]
           /\ \A i \in Nat, m \in 0..n : Beyond(b, i, m) => Beyond(b \o t, i, m)
<1> DEFINE t == SubSeq(d, n + 1, n + p)
<1>1. Len(d) \in Nat /\ DOMAIN d = 1..Len(d) /\ d \in Seq(ToSet(d))
  BY SetOf DEF IsSeq
<1>2. Len(b) \in Nat /\ DOMAIN b = 1..Len(b) /\ IsSeq(b) /\ b \in Seq(ToSet(d))
  BY PartIs DEF PartOf
<1>3. /\ t \in Seq(ToSet(d)) /\ DOMAIN t = 1..p /\ Len(t) = p
      /\ \A i \in 1..p : n + i \in DOMAIN d /\ t[i] = d[n + i]
  <2>1. PICK lo \in Nat \ {0}, hi \in 0..Len(d) : lo = n + 1 /\ hi = n + p
    <3>1. n + 1 \in Nat \ {0} /\ n + p \in 0..Len(d)
      BY <1>1
    <3> QED
      BY <3>1
  <2>2. /\ SubSeq(d, lo, hi) \in Seq(ToSet(d))
        /\ Len(SubSeq(d, lo, hi)) = IF lo <= hi THEN hi - lo + 1 ELSE 0
        /\ \A i \in 1..(hi - lo + 1) : lo + i - 1 \in DOMAIN d /\ SubSeq(d, lo, hi)[i] = d[lo + i - 1]
        /\ DOMAIN SubSeq(d, lo, hi) = 1..(hi - lo + 1)
    BY <1>1, Section
  <2>3. hi - lo + 1 = p /\ \A i \in 1..p : lo + i - 1 = n + i
    BY <2>1
  <2> QED
    BY <2>1, <2>2, <2>3
<1> HIDE DEF t
<1>4. IsSeq(t)
  BY <1>3, SetOf
<1>5. /\ b \o t \in Seq(ToSet(d)) /\ DOMAIN (b \o t) = 1..(Len(b) + p)
      /\ \A i \in 1..Len(b) : (b \o t)[i] = b[i]
      /\ \A i \in (Len(b) + 1)..(Len(b) + p) : i - Len(b) \in 1..p /\ (b \o t)[i] = t[i - Len(b)]
  <2>1. /\ b \o t \in Seq(ToSet(d)) /\ DOMAIN (b \o t) = 1..(Len(b) + Len(t))
        /\ \A i \in 1..Len(b) : (b \o t)[i] = b[i]
        /\ \A i \in (Len(b) + 1)..(Len(b) + Len(t)) : i - Len(b) \in 1..Len(t) /\ (b \o t)[i] = t[i - Len(b)]
    BY <1>2, <1>3, <1>4, Joined
  <2> QED
    BY <1>3, <2>1
<1> DEFINE all == b \o t
<1> HIDE DEF all
<1>6. \A i \in 1..p : t[i].at = n + i
  BY <1>3
<1>7. /\ all \in Seq(ToSet(d)) /\ DOMAIN all = 1..(Len(b) + p)
      /\ \A i \in 1..Len(b) : all[i] = b[i]
      /\ \A i \in (Len(b) + 1)..(Len(b) + p) : i - Len(b) \in 1..p /\ all[i] = t[i - Len(b)]
  BY <1>5 DEF all
<1>8. ASSUME NEW i \in DOMAIN all, ~(i \in DOMAIN b)
      PROVE  all[i].at = n + (i - Len(b)) /\ i - Len(b) \in 1..p
  <2>1. i \in (Len(b) + 1)..(Len(b) + p)
    BY <1>2, <1>7, <1>8
  <2>2. i - Len(b) \in 1..p /\ all[i] = t[i - Len(b)]
    BY <1>7, <2>1
  <2> QED
    BY <1>6, <2>2
<1>9. \A i \in DOMAIN b : b[i].at \in Nat /\ b[i].at <= n /\ 1 <= b[i].at
  BY DEF PartOf
<1>10. \A i \in DOMAIN all : all[i].at \in 1..(n + p)
  BY <1>2, <1>7, <1>8, <1>9
<1>11. Rising(all)
  <2> SUFFICES ASSUME NEW i \in DOMAIN all, NEW j \in DOMAIN all, i <= j
               PROVE  all[i].at <= all[j].at
    BY DEF Rising
  <2>1. CASE j \in DOMAIN b
    <3>1. i \in DOMAIN b
      BY <1>2, <1>7, <2>1
    <3> QED
      BY <1>2, <1>7, <2>1, <3>1 DEF PartOf, Rising
  <2>2. CASE j \notin DOMAIN b
    <3>1. CASE i \in DOMAIN b
      <4>1. all[i].at = b[i].at /\ b[i].at \in Nat /\ b[i].at <= n
        BY <1>2, <1>7, <1>9, <3>1
      <4>2. PICK x \in 1..p : all[j].at = n + x
        BY <1>8, <2>2
      <4>3. b[i].at <= n + x
        BY <4>1
      <4> QED
        BY <4>1, <4>2, <4>3
    <3>2. CASE i \notin DOMAIN b
      BY <1>2, <1>7, <1>8, <2>2, <3>2
    <3> QED
      BY <3>1, <3>2
  <2> QED
    BY <2>1, <2>2
<1>12. ASSUME NEW i \in Nat, NEW m \in 0..n, Beyond(b, i, m) PROVE Beyond(all, i, m)
  <2> SUFFICES ASSUME NEW j \in DOMAIN all, i <= j PROVE m <= all[j].at
    BY DEF Beyond
  <2>1. CASE j \in DOMAIN b
    BY <1>2, <1>7, <1>12, <2>1 DEF Beyond
  <2>2. CASE j \notin DOMAIN b
    BY <1>2, <1>7, <1>8, <2>2
  <2> QED
    BY <2>1, <2>2
<1>13. PartOf(d, n + p, b)
  <2>1. \A i \in DOMAIN b : b[i].at \in 1..(n + p)
    BY <1>9
  <2> QED
    BY <2>1 DEF PartOf
<1> QED
  BY <1>2, <1>4, <1>7, <1>10, <1>11, <1>12, <1>13 DEF PartOf, t, all

\* The last message told.
LEMMA ToldLastIs ==
    ASSUME NEW n \in Nat, NEW rs, NEW last, Tells(rs, last, n)
    PROVE  /\ ToldLast(rs, last) \in 0..n /\ last <= ToldLast(rs, last)
           /\ \A i \in DOMAIN rs : rs[i].at \in 0..n /\ rs[i].at <= ToldLast(rs, last)
<1>1. Len(rs) \in Nat /\ DOMAIN rs = 1..Len(rs)
  BY SetOf DEF Tells, IsSeq
<1>2. CASE rs = <<>>
  BY <1>1, <1>2 DEF Tells, ToldLast
<1>3. CASE rs # <<>>
  <2>1. Len(rs) \in DOMAIN rs
    <3>1. rs \in Seq(ToSet(rs))
      BY DEF Tells, IsSeq
    <3>2. Len(rs) # 0
      BY <1>3, <3>1
    <3> QED
      BY <1>1, <3>2
  <2>2. \A i \in DOMAIN rs : i <= Len(rs)
    BY <1>1
  <2> QED
    BY <1>3, <2>1, <2>2 DEF Tells, ToldLast, Rising
<1> QED
  BY <1>2, <1>3

\* More messages, all from one place.
LEMMA TellsMore ==
    ASSUME NEW n \in Nat, NEW rs, NEW last, Tells(rs, last, n),
           NEW ms, IsSeq(ms), NEW a \in 0..n, ToldLast(rs, last) <= a, \A i \in DOMAIN ms : ms[i].at = a
    PROVE  Tells(rs \o ms, last, n) /\ ToldLast(rs \o ms, last) <= a
<1>1. IsSeq(rs) /\ last \in 0..n
  BY DEF Tells
<1>2. /\ IsSeq(rs \o ms) /\ Len(rs \o ms) = Len(rs) + Len(ms) /\ Len(rs) \in Nat /\ Len(ms) \in Nat
      /\ DOMAIN rs = 1..Len(rs) /\ DOMAIN ms = 1..Len(ms) /\ DOMAIN (rs \o ms) = 1..(Len(rs) + Len(ms))
      /\ \A i \in 1..Len(rs) : (rs \o ms)[i] = rs[i]
      /\ \A i \in (Len(rs) + 1)..(Len(rs) + Len(ms)) : i - Len(rs) \in 1..Len(ms) /\ (rs \o ms)[i] = ms[i - Len(rs)]
  BY <1>1, Joined
<1>3. /\ ToldLast(rs, last) \in 0..n /\ last <= ToldLast(rs, last)
      /\ \A i \in DOMAIN rs : rs[i].at \in 0..n /\ rs[i].at <= ToldLast(rs, last)
  BY ToldLastIs
<1> DEFINE all == rs \o ms
<1>4. \A i \in DOMAIN all : i \in DOMAIN rs => all[i] = rs[i]
  BY <1>2
<1>5. \A i \in DOMAIN all : i \notin DOMAIN rs => all[i].at = a /\ ~(i <= Len(rs))
  BY <1>2
<1>6. DOMAIN rs \subseteq DOMAIN all /\ DOMAIN all = 1..Len(all) /\ Len(all) \in Nat
  BY <1>2
<1> HIDE DEF all
<1>7. \A i \in DOMAIN all : all[i].at \in last..n /\ all[i].at <= a
  <2> TAKE i \in DOMAIN all
  <2>1. CASE i \in DOMAIN rs
    BY <1>3, <1>4, <2>1 DEF Tells
  <2>2. CASE i \notin DOMAIN rs
    BY <1>1, <1>3, <1>5, <2>2
  <2> QED
    BY <2>1, <2>2
<1>8. Rising(all)
  <2> SUFFICES ASSUME NEW i \in DOMAIN all, NEW j \in DOMAIN all, i <= j PROVE all[i].at <= all[j].at
    BY DEF Rising
  <2>1. CASE j \in DOMAIN rs
    <3>1. i \in DOMAIN rs
      BY <1>2, <1>6, <2>1
    <3> QED
      BY <1>4, <2>1, <3>1 DEF Tells, Rising
  <2>2. CASE j \notin DOMAIN rs
    BY <1>5, <1>7, <2>2
  <2> QED
    BY <2>1, <2>2
<1>9. ToldLast(all, last) <= a
  <2>1. CASE all = <<>>
    BY <1>1, <1>3, <2>1 DEF ToldLast
  <2>2. CASE all # <<>>
    <3>1. all \in Seq(ToSet(all))
      BY <1>2 DEF IsSeq, all
    <3>2. Len(all) \in DOMAIN all
      BY <1>6, <2>2, <3>1
    <3> QED
      BY <1>7, <2>2, <3>2 DEF ToldLast
  <2> QED
    BY <2>1, <2>2
<1>10. IsSeq(all)
  BY <1>2 DEF all
<1> QED
  BY <1>1, <1>7, <1>8, <1>9, <1>10 DEF Tells, all

\* Messages leave in order.
LEMMA TellsLess ==
    ASSUME NEW n \in Nat, NEW rs, NEW last, Tells(rs, last, n), NEW k \in DOMAIN rs
    PROVE  LET os == SubSeq(rs, k + 1, Len(rs)) IN
           Tells(os, rs[k].at, n) /\ ToldLast(os, rs[k].at) = ToldLast(rs, last)
<1> DEFINE os == SubSeq(rs, k + 1, Len(rs))
<1>1. Len(rs) \in Nat /\ DOMAIN rs = 1..Len(rs) /\ rs \in Seq(ToSet(rs)) /\ rs # <<>>
  BY SetOf DEF Tells, IsSeq
<1>2. /\ os \in Seq(ToSet(rs)) /\ DOMAIN os = 1..(Len(rs) - k) /\ Len(os) = Len(rs) - k
      /\ \A i \in 1..(Len(rs) - k) : k + i \in DOMAIN rs /\ os[i] = rs[k + i]
  <2>1. PICK lo \in Nat \ {0}, hi \in 0..Len(rs) : lo = k + 1 /\ hi = Len(rs)
    <3>1. k + 1 \in Nat \ {0} /\ Len(rs) \in 0..Len(rs)
      BY <1>1
    <3> QED
      BY <3>1
  <2>2. /\ SubSeq(rs, lo, hi) \in Seq(ToSet(rs))
        /\ Len(SubSeq(rs, lo, hi)) = IF lo <= hi THEN hi - lo + 1 ELSE 0
        /\ \A i \in 1..(hi - lo + 1) : lo + i - 1 \in DOMAIN rs /\ SubSeq(rs, lo, hi)[i] = rs[lo + i - 1]
        /\ DOMAIN SubSeq(rs, lo, hi) = 1..(hi - lo + 1)
    BY <1>1, Section
  <2>3. hi - lo + 1 = Len(rs) - k /\ (lo <= hi \/ Len(rs) - k = 0) /\ \A i \in 1..(Len(rs) - k) : lo + i - 1 = k + i
    BY <1>1, <2>1
  <2> QED
    BY <2>1, <2>2, <2>3
<1> HIDE DEF os
<1>3. IsSeq(os) /\ rs[k].at \in 0..n
  BY <1>2, SetOf DEF Tells
<1>4. \A i \in DOMAIN os : os[i].at \in rs[k].at..n
  <2> TAKE i \in DOMAIN os
  <2>1. k + i \in DOMAIN rs /\ os[i] = rs[k + i] /\ k <= k + i
    BY <1>1, <1>2
  <2>2. rs[k].at <= rs[k + i].at /\ rs[k + i].at \in last..n /\ last \in Nat
    BY <2>1 DEF Tells, Rising
  <2> QED
    BY <1>3, <2>1, <2>2
<1>5. Rising(os)
  <2> SUFFICES ASSUME NEW i \in DOMAIN os, NEW j \in DOMAIN os, i <= j PROVE os[i].at <= os[j].at
    BY DEF Rising
  <2>1. k + i <= k + j /\ k + i \in DOMAIN rs /\ k + j \in DOMAIN rs
    BY <1>1, <1>2
  <2> QED
    BY <1>2, <2>1 DEF Tells, Rising
<1>6. ToldLast(os, rs[k].at) = ToldLast(rs, last)
  <2>1. CASE k = Len(rs)
    <3>1. os = <<>>
      BY <1>1, <1>2, <2>1
    <3> QED
      BY <1>1, <2>1, <3>1 DEF ToldLast
  <2>2. CASE k # Len(rs)
    <3>1. Len(os) \in 1..(Len(rs) - k) /\ k + Len(os) = Len(rs) /\ os # <<>>
      BY <1>1, <1>2, <2>2
    <3> QED
      BY <1>1, <1>2, <3>1 DEF ToldLast
  <2> QED
    BY <2>1, <2>2
<1> QED
  BY <1>3, <1>4, <1>5, <1>6 DEF Tells, os
-----------------------------------------------------------------------------
(* The invariant. *)

Told == ToldLast(results, lastUnit)

\* From i on the buffer is still to be told.
From(i) == Beyond(buffer, i, Told)

\* No plugin is in the middle of anything.
Free == \A t \in Types : ~component[t].on /\ entries[t] = {}

Resting == {"ready", "drive", "dispatch"}

FeedInv ==
    /\ streams \in Nat /\ fed \in 0..Len(doc)
    /\ IsSeq(doc) /\ \A i \in DOMAIN doc : doc[i].at = i

ResultsInv == Tells(results, lastUnit, fed)

BufferInv == PartOf(doc, fed, buffer)

ShapeInv ==
    /\ pos \in Nat
    /\ dm = [surface |-> dm.surface, stack |-> dm.stack, pos |-> dm.pos, field |-> dm.field]
    /\ dm.field = [on |-> dm.field.on, path |-> dm.field.path, start |-> dm.field.start,
                   sent |-> dm.field.sent, first |-> dm.field.first]
    /\ dm.pos \in Nat
    /\ DOMAIN component = Types /\ DOMAIN entries = Types /\ DOMAIN paths = Types
    /\ \A t \in Types :
          /\ component[t] = [on |-> component[t].on, start |-> component[t].start, text |-> component[t].text,
                             sent |-> component[t].sent, id |-> component[t].id]
          /\ IsFiniteSet(entries[t]) /\ IsFiniteSet(paths[t])
          /\ \A e \in entries[t] : e = [surface |-> e.surface, event |-> e.event, path |-> e.path,
                                        start |-> e.start, sent |-> e.sent]

\* A whole event is a buffer of its own, and what follows it is set apart.
FrameInv ==
    framed =>
        /\ pc = "components"
        /\ buffer # <<>> /\ buffer[1].k \in Heads /\ ObjectEnd(buffer, 1) = Len(buffer)
        /\ PartOf(doc, fed, rest) /\ Beyond(rest, 1, Told)
        /\ \A i \in DOMAIN buffer, j \in DOMAIN rest : buffer[i].at <= rest[j].at

\* Which loop runs, and in which mode.
CourseInv ==
    /\ pc \in Resting \cup {"off", "events", "components", "data"} /\ mode \in Modes
    /\ pc \in {"off", "ready"} => results = <<>>
    /\ pc = "off" => buffer = <<>>
    /\ pc = "events" => mode # "StreamingDataModel"
    /\ pc = "components" => mode = "StreamingComponents"
    /\ pc = "data" => mode = "StreamingDataModel"

\* Plugin t is in the middle of the text of a component.
ComponentOn(t) ==
    /\ pc \in Resting /\ mode = "StreamingComponents"
    /\ component[t].start \in DOMAIN buffer /\ From(component[t].start)
    /\ \A u \in Types : entries[u] = {} /\ (u # t => ~component[u].on)

\* Plugin t is in the middle of a string, which began at the place all its
\* entries name, in an event that has not ended.
EntryOn(t, e) ==
    /\ pc \in Resting /\ mode # "StreamingDataModel"
    /\ e.start \in Nat /\ e.start - 1 \in DOMAIN buffer /\ From(e.start - 1)
    /\ Unended(buffer, e.start - 2)
    /\ \A f \in entries[t] : f.start = e.start
    /\ \A u \in Types : ~component[u].on /\ (u # t => entries[u] = {})

\* A string of a data model is being streamed.
FieldOn ==
    /\ pc \in Resting \cup {"data"} /\ mode = "StreamingDataModel"
    /\ dm.field.start \in Nat /\ dm.pos = dm.field.start - 1 /\ dm.pos \in DOMAIN buffer

CarriedInv ==
    /\ \A t \in Types : component[t].on => ComponentOn(t)
    /\ \A t \in Types : \A e \in entries[t] : EntryOn(t, e)
    /\ dm.field.on => FieldOn

\* The place the running loop, or the next one, goes on from.
AheadInv ==
    /\ pc = "events" \/ (Free /\ pc \in Resting /\ mode = "Idle") => From(1)
    /\ pc = "components" \/ (Free /\ pc \in Resting /\ mode = "StreamingComponents") => From(pos)
    /\ Free /\ mode = "StreamingDataModel" => From(dm.pos)

OrderInv ==
    /\ FeedInv /\ ResultsInv /\ BufferInv /\ ShapeInv
    /\ FrameInv /\ CourseInv /\ CarriedInv /\ AheadInv
-----------------------------------------------------------------------------
(* Looking into the buffer. *)

\* What holds of any state of the invariant.
LEMMA StateIs ==
    ASSUME OrderInv
    PROVE  /\ fed \in Nat /\ Told \in 0..fed /\ Told \in Nat
           /\ IsSeq(buffer) /\ Len(buffer) \in Nat /\ DOMAIN buffer = 1..Len(buffer)
           /\ \A i \in DOMAIN buffer : i \in Nat /\ i # 0 /\ buffer[i].at \in 0..fed /\ Beyond(buffer, i, buffer[i].at)
           /\ \A i \in DOMAIN buffer, j \in Nat : From(j) /\ j <= i => Told <= buffer[i].at
           /\ pc \in {"off", "events", "components", "data"} => Free
           /\ pc \in {"off", "events", "components"} => ~dm.field.on
           /\ pc # "components" => ~framed
<1>1. IsSeq(doc) /\ fed \in 0..Len(doc) /\ Len(doc) \in Nat /\ fed \in Nat
  <2>1. IsSeq(doc) /\ fed \in 0..Len(doc)
    BY DEF OrderInv, FeedInv
  <2>2. Len(doc) \in Nat
    BY <2>1, SetOf DEF IsSeq
  <2> QED
    BY <2>1, <2>2
<1>2. Told \in 0..fed /\ Told \in Nat
  BY <1>1, ToldLastIs DEF OrderInv, ResultsInv, Told
<1>3. /\ IsSeq(buffer) /\ Len(buffer) \in Nat /\ DOMAIN buffer = 1..Len(buffer)
      /\ \A i \in DOMAIN buffer : buffer[i].at \in Nat /\ buffer[i].at <= fed /\ Beyond(buffer, i, buffer[i].at)
  BY <1>1, PartIs DEF OrderInv, BufferInv
<1>4. \A i \in DOMAIN buffer : i \in Nat /\ i # 0 /\ buffer[i].at \in 0..fed
  BY <1>1, <1>3
<1>5. \A i \in DOMAIN buffer, j \in Nat : From(j) /\ j <= i => Told <= buffer[i].at
  BY DEF From, Beyond
<1>6. pc \in {"off", "events", "components", "data"} => pc \notin Resting
  BY DEF Resting
<1>7. pc \in {"off", "events", "components", "data"} => Free
  BY <1>6 DEF OrderInv, CarriedInv, ComponentOn, EntryOn, Free
<1>8. pc \in {"off", "events", "components"} => ~dm.field.on
  BY DEF OrderInv, CarriedInv, FieldOn, Resting
<1>9. pc # "components" => ~framed
  BY DEF OrderInv, FrameInv
<1> QED
  BY <1>1, <1>2, <1>3, <1>4, <1>5, <1>7, <1>8, <1>9

\* Later places and earlier messages.
LEMMA Eases ==
    ASSUME NEW d, NEW n \in Nat, NEW b, PartOf(d, n, b), NEW i \in Nat, NEW k \in Nat, i <= k,
           NEW m \in Nat, NEW l \in Nat, l <= m, Beyond(b, i, m)
    PROVE  Beyond(b, k, l)
<1>1. DOMAIN b = 1..Len(b) /\ Len(b) \in Nat /\ \A j \in DOMAIN b : b[j].at \in Nat
  BY PartIs
<1> QED
  BY <1>1 DEF Beyond

\* Messages from one place that nothing was told from behind.
LEMMA Telling ==
    ASSUME OrderInv, NEW ms, IsSeq(ms), NEW a \in 0..fed, Told <= a, \A i \in DOMAIN ms : ms[i].at = a,
           results' = results \o ms, lastUnit' = lastUnit, fed' = fed
    PROVE  ResultsInv' /\ Told' <= a /\ Told' \in Nat
<1>1. fed \in Nat
  BY StateIs
<1>2. Tells(results \o ms, lastUnit, fed) /\ ToldLast(results \o ms, lastUnit) <= a
  BY <1>1, TellsMore DEF OrderInv, ResultsInv, Told
<1>3. ToldLast(results \o ms, lastUnit) \in 0..fed
  BY <1>1, <1>2, ToldLastIs
<1> QED
  BY <1>2, <1>3 DEF ResultsInv, Told

\* What is behind place n of the buffer.
LEMMA AfterIs ==
    ASSUME OrderInv, NEW n \in Nat
    PROVE  /\ PartOf(doc, fed, After(n))
           /\ \A i \in Nat, m \in Nat : Beyond(buffer, i, m) /\ i <= n + 1 => Beyond(After(n), 1, m)
<1>1. fed \in Nat /\ Len(buffer) \in Nat /\ PartOf(doc, fed, buffer)
  BY StateIs DEF OrderInv, BufferInv
<1>2. PICK lo \in Nat, hi \in Nat : lo = n + 1 /\ lo # 0 /\ hi = Len(buffer) /\ hi <= Len(buffer)
  <2>1. n + 1 \in Nat /\ n + 1 # 0 /\ Len(buffer) <= Len(buffer)
    BY <1>1
  <2> QED
    BY <1>1, <2>1
<1>3. /\ PartOf(doc, fed, SubSeq(buffer, lo, hi))
      /\ \A i \in Nat, m \in Nat : Beyond(buffer, i, m) /\ i <= lo => Beyond(SubSeq(buffer, lo, hi), 1, m)
  BY <1>1, <1>2, PartOfPart
<1> QED
  BY <1>2, <1>3 DEF After

\* A place with a token, and the end of the white space.
LEMMA KindIs ==
    ASSUME NEW i, Kind(i) # "end"
    PROVE  i \in DOMAIN buffer /\ Kind(i) = buffer[i].k
BY DEF Kind

LEMMA SkipIs ==
    ASSUME OrderInv, NEW i \in Nat
    PROVE  /\ SkipSpace(i) \in Nat /\ i <= SkipSpace(i)
           /\ i <= Len(buffer) + 1 => SkipSpace(i) <= Len(buffer) + 1
           /\ \A j \in Nat : i <= j /\ j < SkipSpace(i) => Kind(j) = "ws"
<1>1. Len(buffer) \in Nat /\ DOMAIN buffer = 1..Len(buffer)
  BY StateIs
<1>2. CASE i > Len(buffer)
  BY <1>1, <1>2 DEF SkipSpace
<1>3. CASE ~(i > Len(buffer))
  <2> DEFINE S == {j \in i..(Len(buffer) + 1) : Kind(j) # "ws"}
  <2>1. SkipSpace(i) = Least(S)
    BY <1>3 DEF SkipSpace
  <2>2. S \in SUBSET Nat
    BY <1>1
  <2>3. Len(buffer) + 1 \in S
    <3>1. Len(buffer) + 1 \in i..(Len(buffer) + 1) /\ Len(buffer) + 1 \notin DOMAIN buffer
      BY <1>1, <1>3
    <3>2. Kind(Len(buffer) + 1) = "end"
      BY <3>1 DEF Kind
    <3> QED
      BY <3>1, <3>2
  <2>4. Least(S) \in Nat /\ Least(S) \in S /\ \A k \in S : Least(S) <= k
    <3> HIDE DEF S
    <3> QED
      BY <2>2, <2>3, LeastIs
  <2>5. i <= Least(S) /\ Least(S) <= Len(buffer) + 1
    BY <1>1, <2>4
  <2>6. ASSUME NEW j \in Nat, i <= j, j < Least(S) PROVE Kind(j) = "ws"
    <3>1. j \in i..(Len(buffer) + 1) /\ ~(Least(S) <= j)
      BY <1>1, <2>4, <2>5, <2>6
    <3>2. j \notin S
      BY <2>4, <3>1
    <3> QED
      BY <3>1, <3>2
  <2> QED
    BY <2>1, <2>4, <2>5, <2>6
<1> QED
  BY <1>2, <1>3

\* Two closing braces end behind the place where they are looked for.
LEMMA ClosedIs ==
    ASSUME OrderInv, NEW i \in Nat, Closed(i) # 0
    PROVE  Closed(i) \in Nat /\ i <= Closed(i)
<1>1. Len(buffer) \in Nat /\ DOMAIN buffer = 1..Len(buffer)
  BY StateIs
<1> DEFINE a == SkipSpace(i)
           b == SkipSpace(a + 1)
<1>2. Kind(a) = "endobj" /\ Kind(b) = "endobj" /\ Closed(i) = SkipSpace(b + 1) - 1
  BY DEF Closed
<1>3. a \in Nat /\ i <= a
  BY SkipIs
<1>4. a + 1 \in Nat
  BY <1>3
<1>5. b \in Nat /\ a + 1 <= b
  BY <1>4, SkipIs
<1>6. b + 1 \in Nat
  BY <1>5
<1>7. SkipSpace(b + 1) \in Nat /\ b + 1 <= SkipSpace(b + 1)
  BY <1>6, SkipIs
<1> HIDE DEF a, b
<1> QED
  BY <1>2, <1>3, <1>5, <1>7

LEMMA FirstKeyIs ==
    ASSUME OrderInv, NEW K
    PROVE  FirstKey(K) \in Nat
<1>1. {i \in DOMAIN buffer : Kind(i) \in K} \in SUBSET Nat
  BY StateIs
<1> QED
  BY <1>1, LeastIs DEF FirstKey

\* Where the first whole event is, or that there is none.
LEMMA WholeIs ==
    ASSUME OrderInv
    PROVE  /\ EventStart \in Nat /\ FirstJsonEnd \in Nat
           /\ FirstJsonEnd # 0 =>
                 /\ EventStart \in DOMAIN buffer /\ EventStart # 0 /\ buffer[EventStart].k \in Heads
                 /\ FirstJsonEnd = ObjectEnd(buffer, EventStart)
                 /\ EventStart <= FirstJsonEnd /\ FirstJsonEnd <= Len(buffer)
           /\ FirstJsonEnd = 0 => \A n \in Int : Unended(buffer, n)
<1>1. IsSeq(buffer) /\ Len(buffer) \in Nat /\ DOMAIN buffer = 1..Len(buffer)
  BY StateIs
<1> DEFINE S == {j \in 1..(Len(buffer) + 1) : Kind(j) \notin {"ws", "quote"}}
           i == Least(S)
           Q == {k \in i..(Len(buffer) + 1) : Kind(k) \notin {"endarr", "endobj"}}
           j == Least(Q)
<1>2. EventStart = IF Kind(j) \in Heads THEN j ELSE 0
  BY DEF EventStart
<1>3. Kind(Len(buffer) + 1) = "end"
  BY <1>1 DEF Kind
<1>4. S \in SUBSET Nat /\ Len(buffer) + 1 \in S
  BY <1>1, <1>3
<1>5. i \in Nat /\ i \in S /\ \A k \in S : i <= k
  <2> HIDE DEF S
  <2> QED
    BY <1>4, LeastIs
<1>6. i \in 1..(Len(buffer) + 1)
  BY <1>5
<1>7. Q \in SUBSET Nat
  <2>1. \A k \in i..(Len(buffer) + 1) : k \in Nat
    <3> HIDE DEF i
    <3> QED
      BY <1>1, <1>6
  <2> QED
    BY <2>1
<1>8. j \in Nat /\ \A k \in Q : j <= k /\ j \in Q
  <2> HIDE DEF Q
  <2> QED
    BY <1>7, LeastIs
<1>9. "end" \notin Heads
  BY DEF Heads
<1>10. EventStart \in Nat
  <2> HIDE DEF j
  <2> QED
    BY <1>2, <1>8
<1>11. EventStart # 0 => EventStart \in DOMAIN buffer /\ buffer[EventStart].k \in Heads
  <2> HIDE DEF j
  <2> QED
    BY <1>2, <1>9, KindIs
<1>12. FirstJsonEnd = IF EventStart = 0 THEN 0 ELSE ObjectEnd(buffer, EventStart)
  <2>1. CASE EventStart = 0
    <3>1. {ObjectEnd(buffer, x) : x \in {EventStart} \ {0}} = {}
      BY <2>1
    <3> QED
      BY <2>1, <3>1, LeastIs DEF FirstJsonEnd
  <2>2. CASE EventStart # 0
    <3> DEFINE E == {ObjectEnd(buffer, x) : x \in {EventStart} \ {0}}
    <3>1. E = {ObjectEnd(buffer, EventStart)}
      BY <2>2
    <3>2. ObjectEnd(buffer, EventStart) \in Nat
      BY <1>1, <1>10, EndsAre
    <3>3. E \in SUBSET Nat /\ E # {}
      BY <3>1, <3>2
    <3>4. FirstJsonEnd = Least(E)
      BY DEF FirstJsonEnd
    <3> HIDE DEF E
    <3>5. Least(E) \in E
      BY <3>3, LeastIs
    <3> QED
      BY <2>2, <3>1, <3>4, <3>5
  <2> QED
    BY <2>1, <2>2
<1>13. FirstJsonEnd \in Nat
  BY <1>1, <1>10, <1>12, EndsAre
<1>14. ASSUME FirstJsonEnd # 0
       PROVE  /\ EventStart \in DOMAIN buffer /\ EventStart # 0 /\ buffer[EventStart].k \in Heads
              /\ FirstJsonEnd = ObjectEnd(buffer, EventStart)
              /\ EventStart <= FirstJsonEnd /\ FirstJsonEnd <= Len(buffer)
  <2>1. EventStart # 0 /\ FirstJsonEnd = ObjectEnd(buffer, EventStart)
    BY <1>12, <1>14
  <2>2. EventStart <= ObjectEnd(buffer, EventStart) /\ ObjectEnd(buffer, EventStart) <= Len(buffer)
    BY <1>1, <1>10, <1>14, <2>1, EndsAre
  <2> QED
    BY <1>11, <2>1, <2>2
<1>15. ASSUME FirstJsonEnd = 0, NEW n \in Int PROVE Unended(buffer, n)
  <2> SUFFICES ASSUME NEW x \in DOMAIN buffer, buffer[x].k \in Heads, \A k \in 1..(x - 1) : buffer[k].k = "ws"
               PROVE  ObjectEnd(buffer, x) \notin 1..n
    BY DEF Unended
  <2>1. Kind(x) = buffer[x].k /\ Kind(x) \notin {"ws", "quote"} /\ Kind(x) \notin {"endarr", "endobj"}
    BY DEF Kind, Heads
  <2>2. x \in Nat /\ x # 0 /\ x \in 1..(Len(buffer) + 1)
    BY <1>1
  <2>3. x \in S
    BY <2>1, <2>2
  <2>4. i = x
    <3>1. i <= x
      BY <1>5, <2>3
    <3>2. ASSUME i < x PROVE FALSE
      <4>1. i \in 1..(x - 1) /\ i \in DOMAIN buffer
        <5> HIDE DEF i
        <5> QED
          BY <1>1, <1>6, <2>2, <3>2
      <4>2. Kind(i) = "ws"
        <5> HIDE DEF i
        <5> QED
          BY <4>1 DEF Kind
      <4>3. Kind(i) \notin {"ws", "quote"}
        BY <1>5
      <4> QED
        BY <4>2, <4>3
    <3> HIDE DEF i
    <3> QED
      BY <1>5, <2>2, <3>1, <3>2
  <2>5. x \in Q
    <3>1. x \in i..(Len(buffer) + 1)
      <4> HIDE DEF i
      <4> QED
        BY <1>1, <2>2, <2>4
    <3> QED
      BY <2>1, <3>1
  <2>6. j = x
    <3>1. j <= x /\ j \in Q
      BY <1>8, <2>5
    <3>2. i <= j
      <4>1. j \in i..(Len(buffer) + 1)
        BY <3>1
      <4> HIDE DEF i, j
      <4> QED
        BY <1>1, <1>6, <4>1
    <3> HIDE DEF i, j
    <3> QED
      BY <1>6, <1>8, <2>2, <2>4, <3>1, <3>2
  <2>7. EventStart = x
    <3> HIDE DEF j
    <3> QED
      BY <1>2, <2>1, <2>6
  <2>8. ObjectEnd(buffer, x) = 0
    BY <1>12, <1>15, <2>2, <2>7
  <2> QED
    BY <2>8
<1> QED
  BY <1>10, <1>13, <1>14, <1>15
-----------------------------------------------------------------------------
(* What the steps have in common. *)

LEMMA EmptyIs ==
    /\ \A d, n : PartOf(d, n, <<>>)
    /\ \A i, m : Beyond(<<>>, i, m)
BY DEF PartOf, Rising, Beyond

\* A step that tells nothing.
LEMMA Untold ==
    ASSUME OrderInv, UNCHANGED <<doc, fed, streams, lastUnit, results>>
    PROVE  FeedInv' /\ ResultsInv' /\ Told' = Told
BY DEF OrderInv, FeedInv, ResultsInv, Told

\* A step that tells one message from place x, where nothing behind was told.
LEMMA TellingOne ==
    ASSUME OrderInv, NEW m, NEW x \in DOMAIN buffer, NEW i \in Nat, From(i), i <= x,
           m.at = buffer[x].at, results' = results \o <<m>>, UNCHANGED <<doc, fed, streams, lastUnit>>
    PROVE  /\ FeedInv' /\ ResultsInv' /\ Told' \in Nat /\ Told' <= buffer[x].at
           /\ \A k \in Nat : x <= k => Beyond(buffer, k, Told')
<1>1. x \in Nat /\ buffer[x].at \in 0..fed /\ Beyond(buffer, x, buffer[x].at) /\ Told <= buffer[x].at /\ fed \in Nat
  BY StateIs
<1>2. FeedInv'
  BY DEF OrderInv, FeedInv
<1>3. IsSeq(<<m>>)
  BY SetOf
<1>4. \A k \in DOMAIN <<m>> : <<m>>[k].at = buffer[x].at
  <2>1. DOMAIN <<m>> = {1} /\ <<m>>[1] = m
    OBVIOUS
  <2> QED
    BY <2>1
<1>5. ResultsInv' /\ Told' <= buffer[x].at /\ Told' \in Nat
  BY <1>1, <1>3, <1>4, Telling
<1>6. ASSUME NEW k \in Nat, x <= k PROVE Beyond(buffer, k, Told')
  <2>1. PartOf(doc, fed, buffer) /\ buffer[x].at \in Nat
    BY <1>1 DEF OrderInv, BufferInv
  <2> QED
    BY <1>1, <1>5, <1>6, <2>1, Eases
<1> QED
  BY <1>2, <1>5, <1>6

LEMMA ResetIs ==
    ASSUME Reset
    PROVE  ShapeInv' /\ Free' /\ ~dm'.field.on /\ buffer' = <<>> /\ mode' = "Idle"
<1>1. /\ buffer' = <<>> /\ mode' = "Idle" /\ pos' = 1 /\ dm' = NoData
      /\ component' = [t \in Types |-> NoComponent]
      /\ entries' = [t \in Types |-> {}] /\ paths' = [t \in Types |-> {}]
  BY DEF Reset
<1>2. IsFiniteSet({})
  BY FS_EmptySet
<1>3. Free' /\ ~dm'.field.on
  BY <1>1 DEF Free, NoData, NoField, NoComponent
<1>4. ShapeInv'
  BY <1>1, <1>2 DEF ShapeInv, NoData, NoField, NoComponent
<1> QED
  BY <1>1, <1>3, <1>4

\* A step that leaves the plugins alone and puts something else into dm.
LEMMA DataShape ==
    ASSUME OrderInv, UNCHANGED <<pos, component, entries, paths>>, dm'.pos \in Nat,
           dm' = [surface |-> dm'.surface, stack |-> dm'.stack, pos |-> dm'.pos, field |-> dm'.field],
           dm'.field = [on |-> dm'.field.on, path |-> dm'.field.path, start |-> dm'.field.start,
                        sent |-> dm'.field.sent, first |-> dm'.field.first]
    PROVE  ShapeInv'
BY DEF OrderInv, ShapeInv

\* In a state with no plugin in the middle of anything nothing is carried over.
LEMMA Calm ==
    ASSUME Free', ~dm'.field.on
    PROVE  CarriedInv'
BY DEF CarriedInv, Free
-----------------------------------------------------------------------------
(* The calls, and the loop over the messages. *)

LEMMA InitKeeps ==
    ASSUME Init
    PROVE  OrderInv
<1>1. /\ doc = <<>> /\ fed = 0 /\ streams = 0 /\ lastUnit = 0 /\ pc = "off" /\ buffer = <<>> /\ mode = "Idle"
      /\ pos = 1 /\ framed = FALSE /\ dm = NoData /\ results = <<>>
      /\ component = [t \in Types |-> NoComponent]
      /\ entries = [t \in Types |-> {}] /\ paths = [t \in Types |-> {}]
  BY DEF Init
<1>2. FeedInv
  <2>1. Len(<<>>) = 0 /\ DOMAIN <<>> = {} /\ IsSeq(<<>>)
    BY SetOf
  <2> QED
    BY <1>1, <2>1 DEF FeedInv
<1>3. ResultsInv
  BY <1>1, SetOf DEF ResultsInv, Tells, Rising
<1>4. BufferInv
  BY <1>1, EmptyIs DEF BufferInv
<1>5. Free /\ ~dm.field.on
  BY <1>1 DEF Free, NoData, NoField, NoComponent
<1>6. ShapeInv
  BY <1>1, FS_EmptySet DEF ShapeInv, NoData, NoField, NoComponent
<1>7. CourseInv
  BY <1>1 DEF CourseInv, Modes, Resting
<1>8. AheadInv
  BY <1>1, EmptyIs DEF AheadInv, From
<1> QED
  BY <1>1, <1>2, <1>3, <1>4, <1>5, <1>6, <1>7, <1>8 DEF OrderInv, FrameInv, CarriedInv, Free

LEMMA BeginKeeps ==
    ASSUME OrderInv, Begin
    PROVE  OrderInv'
<1>1. /\ pc = "off" /\ streams < Len(Docs) /\ streams' = streams + 1 /\ doc' \in Docs[streams + 1]
      /\ fed' = 0 /\ lastUnit' = 0 /\ Reset /\ pc' = "ready" /\ framed' = framed /\ results' = results
  BY DEF Begin
<1>2. results = <<>> /\ ~framed /\ streams \in Nat
  BY <1>1, StateIs DEF OrderInv, CourseInv, FeedInv
<1>3. FeedInv'
  <2>1. Docs \in Seq(ToSet(Docs)) /\ Len(Docs) \in Nat /\ DOMAIN Docs = 1..Len(Docs)
    BY DocAssumption
  <2>2. streams + 1 \in DOMAIN Docs
    BY <1>1, <1>2, <2>1
  <2>3. IsSeq(doc') /\ \A i \in DOMAIN doc' : doc'[i].at = i
    BY <1>1, <2>2, DocAssumption DEF IsSeq
  <2>4. Len(doc') \in Nat
    BY <2>3, SetOf DEF IsSeq
  <2> QED
    BY <1>1, <1>2, <2>3, <2>4 DEF FeedInv
<1>4. ResultsInv'
  BY <1>1, <1>2, SetOf DEF ResultsInv, Tells, Rising
<1>5. ShapeInv' /\ Free' /\ ~dm'.field.on /\ buffer' = <<>> /\ mode' = "Idle"
  BY <1>1, ResetIs
<1>6. BufferInv' /\ AheadInv'
  BY <1>5, EmptyIs DEF BufferInv, AheadInv, From
<1>7. CourseInv' /\ FrameInv'
  BY <1>1, <1>2, <1>5 DEF CourseInv, FrameInv, Modes, Resting
<1> QED
  BY <1>3, <1>4, <1>5, <1>6, <1>7, Calm DEF OrderInv

LEMMA EndKeeps ==
    ASSUME OrderInv, End
    PROVE  OrderInv'
<1>1. pc = "ready" /\ Reset /\ pc' = "off" /\ UNCHANGED <<doc, fed, streams, lastUnit, results, framed>>
  BY DEF End, feed, receiver
<1>2. results = <<>> /\ ~framed
  BY <1>1, StateIs DEF OrderInv, CourseInv
<1>3. FeedInv' /\ ResultsInv'
  BY <1>1, Untold
<1>4. ShapeInv' /\ Free' /\ ~dm'.field.on /\ buffer' = <<>> /\ mode' = "Idle"
  BY <1>1, ResetIs
<1>5. BufferInv' /\ AheadInv'
  BY <1>4, EmptyIs DEF BufferInv, AheadInv, From
<1>6. CourseInv' /\ FrameInv'
  BY <1>1, <1>2, <1>4 DEF CourseInv, FrameInv, Modes, Resting
<1> QED
  BY <1>3, <1>4, <1>5, <1>6, Calm DEF OrderInv

\* What comes goes behind what is there and was told before it.
LEMMA ReceiveKeeps ==
    ASSUME OrderInv, NEW n \in 1..(Len(doc) - fed), Receive(n)
    PROVE  OrderInv'
<1> DEFINE t == SubSeq(doc, fed + 1, fed + n)
<1>1. /\ pc = "ready" /\ fed' = fed + n /\ pc' = "drive"
      /\ buffer' = buffer \/ buffer' = buffer \o t
      /\ UNCHANGED <<doc, streams, lastUnit, results, mode, pos, framed, dm, component, entries, paths>>
  BY DEF Receive, receiver, parser, plugin
<1>2. results = <<>> /\ ~framed /\ fed \in Nat /\ Told \in 0..fed /\ Told \in Nat
  BY <1>1, StateIs DEF OrderInv, CourseInv
<1>3. IsSeq(doc) /\ Len(doc) \in Nat /\ \A i \in DOMAIN doc : doc[i].at = i
  BY SetOf DEF OrderInv, FeedInv, IsSeq
<1>4. n \in Nat /\ fed + n <= Len(doc)
  BY <1>2, <1>3
<1>5. FeedInv'
  BY <1>1, <1>2, <1>3, <1>4 DEF OrderInv, FeedInv
<1>6. ResultsInv' /\ Told' = Told
  BY <1>1, <1>2, <1>4, SetOf DEF OrderInv, ResultsInv, Tells, Told, Rising
<1>7. /\ PartOf(doc, fed + n, buffer) /\ PartOf(doc, fed + n, buffer \o t) /\ IsSeq(t)
      /\ DOMAIN buffer \subseteq DOMAIN (buffer \o t) /\ \A i \in DOMAIN buffer : (buffer \o t)[i] = buffer[i]
      /\ \A i \in Nat, m \in 0..fed : Beyond(buffer, i, m) => Beyond(buffer \o t, i, m)
  <2>1. PartOf(doc, fed, buffer)
    BY DEF OrderInv, BufferInv
  <2> QED
    BY <1>2, <1>3, <1>4, <2>1, PartGrows
<1>8. IsSeq(buffer) /\ Len(buffer) \in Nat /\ DOMAIN buffer = 1..Len(buffer)
  BY StateIs
<1> HIDE DEF t
<1>9. BufferInv'
  BY <1>1, <1>7 DEF BufferInv
<1>10. DOMAIN buffer \subseteq DOMAIN buffer' /\ \A i \in Nat : From(i) => From(i)'
  BY <1>1, <1>2, <1>6, <1>7 DEF From
<1>11. ASSUME NEW k \in Nat, k <= Len(buffer), Unended(buffer, k) PROVE Unended(buffer', k)
  <2>1. CASE buffer' = buffer
    BY <1>11, <2>1
  <2>2. CASE buffer' = buffer \o t
    <3> SUFFICES ASSUME NEW i \in DOMAIN (buffer \o t), (buffer \o t)[i].k \in Heads,
                        \A j \in 1..(i - 1) : (buffer \o t)[j].k = "ws", ObjectEnd(buffer \o t, i) \in 1..k
                 PROVE  FALSE
      BY <2>2 DEF Unended
    <3>1. IsSeq(buffer \o t) /\ i \in Nat /\ i # 0
      BY <1>7, <1>8, Joined
    <3>2. i <= ObjectEnd(buffer \o t, i)
      BY <3>1, EndsAre
    <3>3. i \in DOMAIN buffer /\ i <= k
      BY <1>8, <1>11, <3>1, <3>2
    <3>4. ObjectEnd(buffer, i) \in 1..k
      BY <1>7, <1>8, <1>11, <3>1, EndsNoEarlier
    <3>5. buffer[i].k \in Heads /\ \A j \in 1..(i - 1) : buffer[j].k = "ws"
      <4>1. \A j \in 1..(i - 1) : j \in DOMAIN buffer
        BY <1>8, <3>1, <3>3
      <4> QED
        BY <1>7, <3>3, <4>1
    <3> QED
      BY <1>11, <3>3, <3>4, <3>5 DEF Unended
  <2> QED
    BY <1>1, <2>1, <2>2
<1>12. CarriedInv'
  <2>1. ASSUME NEW u \in Types, component[u].on PROVE ComponentOn(u)'
    <3>1. ComponentOn(u)
      BY <2>1 DEF OrderInv, CarriedInv
    <3>2. component[u].start \in Nat
      BY <1>8, <3>1 DEF ComponentOn
    <3>3. From(component[u].start)'
      BY <1>1, <1>10, <3>1, <3>2 DEF ComponentOn
    <3> QED
      BY <1>1, <1>10, <3>1, <3>3 DEF ComponentOn, Resting
  <2>2. ASSUME NEW u \in Types, NEW e \in entries[u] PROVE EntryOn(u, e)'
    <3>1. EntryOn(u, e)
      BY <2>2 DEF OrderInv, CarriedInv
    <3>2. e.start - 1 \in Nat /\ e.start - 2 \in Nat \cup {-1} /\ e.start - 2 <= Len(buffer)
      BY <1>8, <3>1 DEF EntryOn
    <3>3. From(e.start - 1)'
      BY <1>10, <3>1, <3>2 DEF EntryOn
    <3>4. Unended(buffer', e.start - 2)
      <4>1. CASE e.start - 2 \in Nat
        BY <1>11, <3>1, <3>2, <4>1 DEF EntryOn
      <4>2. CASE e.start - 2 = -1
        <5>1. 1..(e.start - 2) = {}
          BY <4>2
        <5> QED
          BY <5>1 DEF Unended
      <4> QED
        BY <3>2, <4>1, <4>2
    <3> QED
      BY <1>1, <1>10, <3>1, <3>3, <3>4 DEF EntryOn, Resting
  <2>3. ASSUME dm.field.on PROVE FieldOn'
    BY <1>1, <1>10, <2>3 DEF OrderInv, CarriedInv, FieldOn, Resting
  <2> QED
    BY <1>1, <2>1, <2>2, <2>3 DEF CarriedInv
<1>13. AheadInv'
  <2>1. pos \in Nat /\ dm.pos \in Nat
    BY DEF OrderInv, ShapeInv
  <2>2. Free' <=> Free
    BY <1>1 DEF Free
  <2>3. Free /\ mode = "Idle" => From(1)'
    BY <1>1, <1>10 DEF OrderInv, AheadInv, Resting
  <2>4. Free /\ mode = "StreamingComponents" => From(pos)'
    BY <1>1, <1>10, <2>1 DEF OrderInv, AheadInv, Resting
  <2>5. Free /\ mode = "StreamingDataModel" => From(dm.pos)'
    BY <1>1, <1>10, <2>1 DEF OrderInv, AheadInv, Resting
  <2> QED
    BY <1>1, <2>2, <2>3, <2>4, <2>5 DEF AheadInv, Resting
<1>14. ShapeInv' /\ FrameInv' /\ CourseInv'
  BY <1>1, <1>2 DEF OrderInv, ShapeInv, FrameInv, CourseInv, Resting
<1> QED
  BY <1>5, <1>6, <1>9, <1>12, <1>13, <1>14 DEF OrderInv

\* A call ends with a message of the list.
LEMMA BatchEndIs ==
    ASSUME OrderInv, results # <<>>
    PROVE  BatchEnd \in DOMAIN results
<1>1. results \in Seq(ToSet(results)) /\ Len(results) \in Nat /\ DOMAIN results = 1..Len(results)
  BY SetOf DEF OrderInv, ResultsInv, Tells, IsSeq
<1>2. 1 \in DOMAIN results
  BY <1>1
<1> DEFINE S == {n \in DOMAIN results :
                    \A i \in 1..n : IsComponent(results[i]) /\ results[i].surface = results[1].surface}
<1>3. CASE ~IsComponent(results[1])
  BY <1>2, <1>3 DEF BatchEnd
<1>4. CASE IsComponent(results[1])
  <2>1. 1 \in S
    <3>1. \A i \in 1..1 : i = 1
      OBVIOUS
    <3> QED
      BY <1>2, <1>4, <3>1
  <2>2. S \subseteq 0..Len(results)
    BY <1>1
  <2>3. BatchEnd = Max(S)
    BY <1>4 DEF BatchEnd
  <2>4. S \subseteq DOMAIN results
    OBVIOUS
  <2> HIDE DEF S
  <2>5. Max(S) \in S
    BY <1>1, <2>1, <2>2, GreatestIs
  <2> QED
    BY <2>3, <2>4, <2>5
<1> QED
  BY <1>3, <1>4

LEMMA DispatchKeeps ==
    ASSUME OrderInv, Dispatch
    PROVE  OrderInv'
<1>1. /\ pc = "dispatch" /\ results # <<>> /\ lastUnit' = results[BatchEnd].at
      /\ results' = SubSeq(results, BatchEnd + 1, Len(results))
      /\ UNCHANGED <<doc, fed, streams, pc, buffer, mode, pos, framed, dm, component, entries, paths>>
  BY DEF Dispatch, feed, parser, plugin
<1>2. BatchEnd \in DOMAIN results
  BY <1>1, BatchEndIs
<1>3. fed \in Nat /\ Tells(results, lastUnit, fed)
  BY StateIs DEF OrderInv, ResultsInv
<1>4. ResultsInv' /\ Told' = Told
  BY <1>1, <1>2, <1>3, TellsLess DEF ResultsInv, Told
<1>5. FeedInv' /\ BufferInv' /\ ShapeInv'
  BY <1>1 DEF OrderInv, FeedInv, BufferInv, ShapeInv
<1>6. CourseInv'
  BY <1>1 DEF OrderInv, CourseInv, Resting
<1>7. FrameInv'
  BY <1>1, StateIs DEF FrameInv
<1>8. CarriedInv'
  BY <1>1, <1>4 DEF OrderInv, CarriedInv, ComponentOn, EntryOn, FieldOn, From
<1>9. AheadInv'
  BY <1>1, <1>4 DEF OrderInv, AheadInv, From, Free
<1> QED
  BY <1>4, <1>5, <1>6, <1>7, <1>8, <1>9 DEF OrderInv

\* A step that goes on to another place of the call with all else as it is.
LEMMA RestsAgain ==
    ASSUME OrderInv, pc \in Resting, pc' \in Resting, pc' = "ready" => results = <<>>,
           UNCHANGED <<doc, fed, streams, lastUnit, results, buffer, mode, pos, framed, dm, component, entries, paths>>
    PROVE  OrderInv'
<1>1. FeedInv' /\ ResultsInv' /\ Told' = Told
  BY Untold
<1>2. BufferInv' /\ ShapeInv'
  BY DEF OrderInv, BufferInv, ShapeInv
<1>3. CourseInv'
  BY DEF OrderInv, CourseInv, Resting
<1>4. FrameInv'
  BY StateIs DEF FrameInv, Resting
<1>5. CarriedInv'
  BY <1>1 DEF OrderInv, CarriedInv, ComponentOn, EntryOn, FieldOn, From
<1>6. AheadInv'
  BY <1>1 DEF OrderInv, AheadInv, From, Free, Resting
<1> QED
  BY <1>1, <1>2, <1>3, <1>4, <1>5, <1>6 DEF OrderInv

LEMMA ChunkDoneKeeps ==
    ASSUME OrderInv, ChunkDone
    PROVE  OrderInv'
<1>1. /\ pc = "dispatch" /\ pc' = "ready" /\ results = <<>>
      /\ UNCHANGED <<doc, fed, streams, lastUnit, results, buffer, mode, pos, framed, dm, component, entries, paths>>
  BY DEF ChunkDone, feed, receiver, parser, plugin
<1> QED
  BY <1>1, RestsAgain DEF Resting
-----------------------------------------------------------------------------
(* processAllCompleteEvents(). *)

\* What the loop over the events goes by.
LEMMA AtEvents ==
    ASSUME OrderInv, pc = "events"
    PROVE  Free /\ ~dm.field.on /\ ~framed /\ From(1) /\ mode # "StreamingDataModel" /\ mode \in Modes
BY StateIs DEF OrderInv, AheadInv, CourseInv

LEMMA EventUnknownKeeps ==
    ASSUME OrderInv, EventUnknown
    PROVE  OrderInv'
<1>1. /\ pc = "events" /\ FirstJsonEnd # 0 /\ buffer' = After(FirstJsonEnd)
      /\ UNCHANGED <<doc, fed, streams, lastUnit, results, pc, mode, pos, framed, dm, component, entries, paths>>
  BY DEF EventUnknown, feed, receiver, parser, plugin
<1>2. Free /\ ~dm.field.on /\ ~framed /\ From(1) /\ mode # "StreamingDataModel" /\ mode \in Modes
  BY <1>1, AtEvents
<1>3. FeedInv' /\ ResultsInv' /\ Told' = Told
  BY <1>1, Untold
<1>4. FirstJsonEnd \in Nat /\ Told \in Nat
  BY WholeIs, StateIs
<1>5. PartOf(doc, fed, buffer') /\ Beyond(buffer', 1, Told)
  <2>1. 1 \in Nat /\ 1 <= FirstJsonEnd + 1
    BY <1>4
  <2> QED
    BY <1>1, <1>2, <1>4, <2>1, AfterIs DEF From
<1>6. BufferInv' /\ ShapeInv' /\ Free' /\ ~dm'.field.on
  BY <1>1, <1>2, <1>5 DEF OrderInv, BufferInv, ShapeInv, Free
<1>7. CourseInv' /\ FrameInv'
  BY <1>1, <1>2 DEF OrderInv, CourseInv, FrameInv, Resting
<1>8. AheadInv'
  BY <1>1, <1>2, <1>3, <1>5 DEF AheadInv, From, Resting
<1> QED
  BY <1>3, <1>6, <1>7, <1>8, Calm DEF OrderInv

\* A whole event goes through the component loop in a buffer of its own.
LEMMA EventComponentsKeeps ==
    ASSUME OrderInv, EventComponents
    PROVE  OrderInv'
<1>1. /\ pc = "events" /\ FirstJsonEnd # 0 /\ buffer' = SubSeq(buffer, EventStart, FirstJsonEnd)
      /\ rest' = After(FirstJsonEnd) /\ framed' = TRUE /\ mode' = "StreamingComponents" /\ pc' = "components"
      /\ pos' = IF WholeList = 0 THEN pos ELSE WholeList - EventStart + 2
      /\ UNCHANGED <<doc, fed, streams, lastUnit, results, dm, component, entries, paths>>
  BY DEF EventComponents, feed, receiver, plugin
<1>2. Free /\ ~dm.field.on /\ ~framed /\ From(1) /\ mode # "StreamingDataModel" /\ mode \in Modes
  BY <1>1, AtEvents
<1>3. FeedInv' /\ ResultsInv' /\ Told' = Told
  BY <1>1, Untold
<1>4. Told \in Nat /\ fed \in Nat /\ IsSeq(buffer) /\ Len(buffer) \in Nat /\ DOMAIN buffer = 1..Len(buffer)
  BY StateIs
<1>5. /\ EventStart \in Nat /\ FirstJsonEnd \in Nat /\ EventStart \in DOMAIN buffer /\ EventStart # 0
      /\ buffer[EventStart].k \in Heads /\ FirstJsonEnd = ObjectEnd(buffer, EventStart)
      /\ EventStart <= FirstJsonEnd /\ FirstJsonEnd <= Len(buffer)
  BY <1>1, WholeIs
<1>6. PartOf(doc, fed, buffer)
  BY DEF OrderInv, BufferInv
<1>7. PartOf(doc, fed, buffer') /\ Beyond(buffer', 1, Told)
  <2>1. 1 \in Nat /\ 1 <= EventStart
    BY <1>5
  <2> QED
    BY <1>1, <1>2, <1>4, <1>5, <1>6, <2>1, PartOfPart DEF From
<1>8. buffer' # <<>> /\ buffer'[1] = buffer[EventStart] /\ ObjectEnd(buffer', 1) = Len(buffer')
  BY <1>1, <1>4, <1>5, CutOut
<1>9. PartOf(doc, fed, rest') /\ Beyond(rest', 1, Told)
  <2>1. 1 \in Nat /\ 1 <= FirstJsonEnd + 1
    BY <1>5
  <2> QED
    BY <1>1, <1>2, <1>4, <1>5, <2>1, AfterIs DEF From
<1>10. ASSUME NEW i \in DOMAIN buffer', NEW j \in DOMAIN rest' PROVE buffer'[i].at <= rest'[j].at
  <2>1. PICK lo \in Nat \ {0}, hi \in 0..Len(buffer), af \in Nat \ {0} :
            lo = EventStart /\ hi = FirstJsonEnd /\ af = FirstJsonEnd + 1
    <3>1. EventStart \in Nat \ {0} /\ FirstJsonEnd \in 0..Len(buffer) /\ FirstJsonEnd + 1 \in Nat \ {0}
      BY <1>4, <1>5
    <3> QED
      BY <3>1
  <2>2. buffer \in Seq(ToSet(doc)) /\ Len(buffer) \in 0..Len(buffer)
    BY <1>4, <1>6 DEF PartOf
  <2>3. /\ DOMAIN buffer' = 1..(hi - lo + 1)
        /\ \A k \in 1..(hi - lo + 1) : lo + k - 1 \in DOMAIN buffer /\ buffer'[k] = buffer[lo + k - 1]
    BY <1>1, <2>1, <2>2, Section
  <2>4. /\ DOMAIN rest' = 1..(Len(buffer) - af + 1)
        /\ \A k \in 1..(Len(buffer) - af + 1) : af + k - 1 \in DOMAIN buffer /\ rest'[k] = buffer[af + k - 1]
    BY <1>1, <2>1, <2>2, Section DEF After
  <2>5. lo + i - 1 <= af + j - 1
    BY <1>4, <2>1, <2>3, <2>4
  <2>6. buffer[lo + i - 1].at <= buffer[af + j - 1].at
    BY <1>6, <2>3, <2>4, <2>5 DEF PartOf, Rising
  <2> QED
    BY <2>3, <2>4, <2>6
<1>11. BufferInv' /\ Free' /\ ~dm'.field.on
  BY <1>1, <1>2, <1>7 DEF BufferInv, Free
<1>12. pos' \in Nat
  <2>1. CASE WholeList = 0
    BY <1>1, <2>1 DEF OrderInv, ShapeInv
  <2>2. CASE WholeList # 0
    <3> DEFINE S == {i \in EventStart..FirstJsonEnd : Kind(i) = "list"}
    <3>1. \A i \in S : i \in Nat /\ EventStart <= i
      BY <1>5
    <3>2. S \in SUBSET Nat
      BY <3>1
    <3>3. WholeList = Least(S)
      BY DEF WholeList
    <3> HIDE DEF S
    <3>4. WholeList \in S
      BY <2>2, <3>2, <3>3, LeastIs
    <3>5. WholeList \in Nat /\ EventStart <= WholeList
      BY <3>1, <3>4
    <3> QED
      BY <1>1, <1>5, <2>2, <3>5
  <2> QED
    BY <2>1, <2>2
<1>13. ShapeInv'
  BY <1>1, <1>12 DEF OrderInv, ShapeInv
<1>14. FrameInv'
  BY <1>1, <1>3, <1>5, <1>8, <1>9, <1>10 DEF FrameInv
<1>15. CourseInv'
  BY <1>1 DEF OrderInv, CourseInv, Modes, Resting
<1>16. AheadInv'
  <2>1. Beyond(buffer', pos', Told)
    <3>1. 1 \in DOMAIN buffer' /\ \A i \in DOMAIN buffer' : 1 <= i
      <4>1. IsSeq(buffer') /\ DOMAIN buffer' = 1..Len(buffer') /\ Len(buffer') \in Nat
        BY <1>4, <1>7, PartIs
      <4>2. Len(buffer') # 0
        BY <1>8, <4>1 DEF IsSeq
      <4> QED
        BY <4>1, <4>2
    <3> QED
      BY <1>7, <3>1 DEF Beyond
  <2> QED
    BY <1>1, <1>3, <2>1 DEF AheadInv, From, Resting
<1> QED
  BY <1>3, <1>11, <1>13, <1>14, <1>15, <1>16, Calm DEF OrderInv

LEMMA EventWholeKeeps ==
    ASSUME OrderInv, EventWhole
    PROVE  OrderInv'
<1> DEFINE m == WholeEvent(EventStart, FirstJsonEnd)
<1>1. /\ pc = "events" /\ FirstJsonEnd # 0 /\ results' = results \o <<m>>
      /\ UNCHANGED <<doc, fed, streams, lastUnit, framed>>
      /\ \/ /\ buffer' = After(FirstJsonEnd) /\ pc' = pc
            /\ UNCHANGED <<mode, pos, dm, component, entries, paths>>
         \/ Reset /\ pc' = "dispatch"
  BY DEF EventWhole, Deliver, feed, receiver, plugin
<1>2. Free /\ ~dm.field.on /\ ~framed /\ From(1) /\ mode # "StreamingDataModel" /\ mode \in Modes
  BY <1>1, AtEvents
<1>3. /\ EventStart \in Nat /\ FirstJsonEnd \in Nat /\ EventStart \in DOMAIN buffer /\ EventStart # 0
      /\ EventStart <= FirstJsonEnd
  BY <1>1, WholeIs
<1>4. m.at = buffer[EventStart].at
  BY DEF WholeEvent, EventMessage
<1> HIDE DEF m
<1>5. /\ FeedInv' /\ ResultsInv' /\ Told' \in Nat
      /\ \A k \in Nat : EventStart <= k => Beyond(buffer, k, Told')
  <2>1. 1 \in Nat /\ 1 <= EventStart
    BY <1>3
  <2> QED
    BY <1>1, <1>2, <1>3, <1>4, <2>1, TellingOne
<1>6. CASE /\ buffer' = After(FirstJsonEnd) /\ pc' = pc
           /\ UNCHANGED <<mode, pos, dm, component, entries, paths>>
  <2>1. PartOf(doc, fed, buffer') /\ Beyond(buffer', 1, Told')
    <3>1. Beyond(buffer, FirstJsonEnd, Told') /\ FirstJsonEnd <= FirstJsonEnd + 1
      BY <1>3, <1>5
    <3> QED
      BY <1>3, <1>5, <1>6, <3>1, AfterIs
  <2>2. BufferInv' /\ ShapeInv' /\ Free' /\ ~dm'.field.on
    BY <1>1, <1>2, <1>6, <2>1 DEF OrderInv, BufferInv, ShapeInv, Free
  <2>3. CourseInv' /\ FrameInv'
    BY <1>1, <1>2, <1>6 DEF OrderInv, CourseInv, FrameInv, Resting
  <2>4. AheadInv'
    BY <1>1, <1>2, <1>6, <2>1 DEF AheadInv, From, Resting
  <2> QED
    BY <1>5, <2>2, <2>3, <2>4, Calm DEF OrderInv
<1>7. CASE Reset /\ pc' = "dispatch"
  <2>1. ShapeInv' /\ Free' /\ ~dm'.field.on /\ buffer' = <<>> /\ mode' = "Idle"
    BY <1>7, ResetIs
  <2>2. BufferInv' /\ AheadInv'
    BY <2>1, EmptyIs DEF BufferInv, AheadInv, From
  <2>3. CourseInv' /\ FrameInv'
    BY <1>1, <1>2, <1>7, <2>1 DEF CourseInv, FrameInv, Modes, Resting
  <2> QED
    BY <1>5, <2>1, <2>2, <2>3, Calm DEF OrderInv
<1> QED
  BY <1>1, <1>6, <1>7

LEMMA StartStreamingComponentsKeeps ==
    ASSUME OrderInv, StartStreamingComponents
    PROVE  OrderInv'
<1>1. /\ pc = "events" /\ mode' = "StreamingComponents" /\ pc' = "components" /\ pos' = ListStart + 1
      /\ UNCHANGED <<doc, fed, streams, lastUnit, results, buffer, framed, dm, component, entries, paths>>
  BY DEF StartStreamingComponents, feed, receiver, plugin
<1>2. Free /\ ~dm.field.on /\ ~framed /\ From(1) /\ mode # "StreamingDataModel" /\ mode \in Modes
  BY <1>1, AtEvents
<1>3. FeedInv' /\ ResultsInv' /\ Told' = Told
  BY <1>1, Untold
<1>4. pos' \in Nat
  BY <1>1, FirstKeyIs DEF ListStart
<1>5. BufferInv' /\ ShapeInv' /\ Free' /\ ~dm'.field.on
  BY <1>1, <1>2, <1>4 DEF OrderInv, BufferInv, ShapeInv, Free
<1>6. CourseInv' /\ FrameInv'
  BY <1>1, <1>2 DEF OrderInv, CourseInv, FrameInv, Modes, Resting
<1>7. From(pos)'
  BY <1>1, <1>2, <1>3, <1>4, StateIs DEF From, Beyond
<1>8. AheadInv'
  BY <1>1, <1>7 DEF AheadInv, Resting
<1> QED
  BY <1>3, <1>5, <1>6, <1>8, Calm DEF OrderInv

LEMMA StartStreamingDataModelKeeps ==
    ASSUME OrderInv, StartStreamingDataModel
    PROVE  OrderInv'
<1> DEFINE stack == <<[t |-> Kind(DataKey + 1), path |-> buffer[DataKey].path, idx |-> 0]>>
<1>1. /\ pc = "events" /\ mode' = "StreamingDataModel" /\ pc' = "data"
      /\ dm' = [NoData EXCEPT !.surface = FirstSurface, !.stack = stack, !.pos = DataKey + 2]
      /\ UNCHANGED <<doc, fed, streams, lastUnit, results, buffer, pos, framed, component, entries, paths>>
  BY DEF StartStreamingDataModel, feed, receiver, plugin
<1>2. Free /\ ~dm.field.on /\ ~framed /\ From(1) /\ mode # "StreamingDataModel" /\ mode \in Modes
  BY <1>1, AtEvents
<1>3. FeedInv' /\ ResultsInv' /\ Told' = Told
  BY <1>1, Untold
<1>4. DataKey + 2 \in Nat
  BY FirstKeyIs DEF DataKey
<1> HIDE DEF stack
<1>5. dm' = [surface |-> FirstSurface, stack |-> stack, pos |-> DataKey + 2, field |-> NoField]
  BY <1>1 DEF NoData
<1>6. ShapeInv' /\ ~dm'.field.on
  <2>1. dm'.surface = FirstSurface /\ dm'.stack = stack /\ dm'.pos = DataKey + 2 /\ dm'.field = NoField
    BY <1>5
  <2>2. dm' = [surface |-> dm'.surface, stack |-> dm'.stack, pos |-> dm'.pos, field |-> dm'.field]
    BY <1>5, <2>1
  <2>3. /\ NoField = [on |-> NoField.on, path |-> NoField.path, start |-> NoField.start,
                      sent |-> NoField.sent, first |-> NoField.first]
        /\ ~NoField.on
    BY DEF NoField
  <2>4. dm'.pos \in Nat
    BY <1>4, <2>1
  <2> QED
    BY <1>1, <2>1, <2>2, <2>3, <2>4, DataShape
<1>7. BufferInv' /\ Free'
  BY <1>1, <1>2 DEF OrderInv, BufferInv, Free
<1>8. CourseInv' /\ FrameInv'
  BY <1>1, <1>2 DEF OrderInv, CourseInv, FrameInv, Modes, Resting
<1>9. From(dm.pos)'
  BY <1>1, <1>2, <1>3, <1>4, <1>5, StateIs DEF From, Beyond
<1>10. AheadInv'
  BY <1>1, <1>9 DEF AheadInv, Resting
<1> QED
  BY <1>3, <1>6, <1>7, <1>8, <1>10, Calm DEF OrderInv

LEMMA EventsWaitKeeps ==
    ASSUME OrderInv, EventsWait
    PROVE  OrderInv'
<1>1. /\ pc = "events" /\ pc' = "dispatch"
      /\ UNCHANGED <<doc, fed, streams, lastUnit, results, buffer, mode, pos, framed, dm, component, entries, paths>>
  BY DEF EventsWait, feed, receiver, parser, plugin
<1>2. Free /\ ~dm.field.on /\ ~framed /\ From(1) /\ mode # "StreamingDataModel" /\ mode \in Modes
  BY <1>1, AtEvents
<1>3. FeedInv' /\ ResultsInv' /\ Told' = Told
  BY <1>1, Untold
<1>4. BufferInv' /\ ShapeInv' /\ Free' /\ ~dm'.field.on
  BY <1>1, <1>2 DEF OrderInv, BufferInv, ShapeInv, Free
<1>5. CourseInv' /\ FrameInv'
  BY <1>1, <1>2 DEF OrderInv, CourseInv, FrameInv, Resting
<1>6. From(1)' /\ From(pos)'
  BY <1>1, <1>2, <1>3, StateIs DEF From, Beyond
<1>7. AheadInv'
  BY <1>1, <1>2, <1>6 DEF AheadInv, Resting
<1> QED
  BY <1>3, <1>4, <1>5, <1>7, Calm DEF OrderInv

\* The image of a finite set is finite.
LEMMA FiniteImage ==
    ASSUME NEW f, IsFiniteSet(DOMAIN f)
    PROVE  IsFiniteSet({f[x] : x \in DOMAIN f})
<1> DEFINE T == {f[x] : x \in DOMAIN f}
           g == [x \in DOMAIN f |-> f[x]]
<1>1. g \in Surjection(DOMAIN f, T)
  BY DEF Surjection
<1> QED
  BY <1>1, FS_Surjection

\* A plugin takes a string that is still open, for all the paths bound to it.
LEMMA PluginTakesDataKeeps ==
    ASSUME OrderInv, NEW t \in Types, PluginTakesData(t)
    PROVE  OrderInv'
<1> DEFINE start == DataKey + 2
           matches == Matches(t, buffer[DataKey].path)
           bound == SetToSeq(matches)
           sent == SafeEnd(start)
           piece == Raw(Piece(buffer, start, sent))
           entry(p) == [surface |-> FirstSurface, event |-> buffer[DataKey].path, path |-> p,
                        start |-> start, sent |-> sent]
           new == {entry(p) : p \in ToSet(bound)}
           ms == [i \in DOMAIN bound |-> LeafMessage("data", FirstSurface, buffer[start - 1].at, bound[i], piece)]
<1>1. /\ pc = "events" /\ FirstJsonEnd = 0 /\ TakesData(t) /\ pc' = "dispatch" /\ results' = results \o ms
      /\ entries' = [entries EXCEPT ![t] = new]
      /\ UNCHANGED <<doc, fed, streams, lastUnit, buffer, mode, pos, framed, dm, component, paths>>
  BY DEF PluginTakesData, Deliver, feed, receiver, parser
<1>2. Free /\ ~dm.field.on /\ ~framed /\ From(1) /\ mode # "StreamingDataModel" /\ mode \in Modes
  BY <1>1, AtEvents
<1>3. IsFiniteSet(matches)
  <2>1. IsFiniteSet(paths["Markdown"]) /\ IsFiniteSet(paths["Text"])
    BY DEF OrderInv, ShapeInv, Types
  <2>2. matches \subseteq paths["Markdown"] \/ matches \subseteq paths["Text"]
    BY DEF Matches, TextMatches, MarkdownMatches
  <2> QED
    BY <2>1, <2>2, FS_Subset
<1>4. bound \in Seq(matches) /\ IsFiniteSet(ToSet(bound))
  <2> HIDE DEF matches
  <2> QED
    BY <1>3, Listed
<1> HIDE DEF bound, matches
<1>5. start \in Nat /\ start - 1 = DataKey + 1 /\ Kind(start - 1) = "str"
  <2>1. DataKey \in Nat
    BY FirstKeyIs DEF DataKey
  <2> QED
    BY <1>1, <2>1 DEF TakesData
<1>6. start - 1 \in DOMAIN buffer /\ start - 1 \in Nat /\ 1 <= start - 1
  <2>1. start - 1 \in DOMAIN buffer
    BY <1>5, KindIs
  <2> QED
    BY <2>1, StateIs
<1> DEFINE x == start - 1
<1>7. x \in Nat /\ buffer[x].at \in 0..fed /\ Beyond(buffer, x, buffer[x].at) /\ Told <= buffer[x].at
  BY <1>2, <1>6, StateIs
<1>8. IsSeq(ms) /\ \A i \in DOMAIN ms : ms[i].at = buffer[x].at
  <2>1. Len(bound) \in Nat /\ DOMAIN bound = 1..Len(bound)
    BY <1>4
  <2>2. \A i \in DOMAIN ms : ms[i] = LeafMessage("data", FirstSurface, buffer[x].at, bound[i], piece)
    OBVIOUS
  <2>3. \A i \in DOMAIN ms : ms[i].at = buffer[x].at
    BY <2>2 DEF LeafMessage
  <2>4. DOMAIN ms = 1..Len(bound)
    BY <2>1
  <2>5. ms = [i \in 1..Len(bound) |-> LeafMessage("data", FirstSurface, buffer[x].at, bound[i], piece)]
    BY <2>1
  <2> HIDE DEF ms
  <2>6. \A i \in 1..Len(bound) : ms[i] \in ToSet(ms)
    BY <2>4 DEF ToSet
  <2>7. ms \in [1..Len(bound) -> ToSet(ms)]
    BY <2>5, <2>6
  <2>8. IsSeq(ms)
    BY <2>1, <2>7 DEF IsSeq
  <2> QED
    BY <2>3, <2>8
<1> HIDE DEF ms, piece, sent
<1>9. ResultsInv' /\ Told' <= buffer[x].at /\ Told' \in Nat
  BY <1>1, <1>7, <1>8, Telling
<1>10. FeedInv' /\ BufferInv'
  BY <1>1 DEF OrderInv, FeedInv, BufferInv
<1>11. /\ DOMAIN entries' = Types /\ entries'[t] = new
       /\ \A u \in Types : u # t => entries'[u] = {}
  BY <1>1, <1>2 DEF OrderInv, ShapeInv, Free
<1>12. \A e \in new : /\ e.start = start
                      /\ e = [surface |-> e.surface, event |-> e.event, path |-> e.path,
                              start |-> e.start, sent |-> e.sent]
  OBVIOUS
<1>13. IsFiniteSet(new)
  <2> DEFINE f == [p \in ToSet(bound) |-> entry(p)]
  <2>1. IsFiniteSet({f[p] : p \in DOMAIN f})
    <3>1. IsFiniteSet(DOMAIN f)
      BY <1>4
    <3> HIDE DEF f
    <3> QED
      BY <3>1, FiniteImage
  <2>2. {f[p] : p \in DOMAIN f} = new
    OBVIOUS
  <2> QED
    BY <2>1, <2>2
<1> HIDE DEF new
<1>14. ShapeInv'
  <2>1. IsFiniteSet({})
    BY FS_EmptySet
  <2>2. \A u \in Types : IsFiniteSet(entries'[u])
    BY <1>11, <1>13, <2>1
  <2>3. \A u \in Types : \A e \in entries'[u] : e = [surface |-> e.surface, event |-> e.event, path |-> e.path,
                                                     start |-> e.start, sent |-> e.sent]
    BY <1>11, <1>12
  <2> QED
    BY <1>1, <1>11, <2>2, <2>3 DEF OrderInv, ShapeInv
<1>15. CourseInv' /\ FrameInv'
  BY <1>1, <1>2 DEF OrderInv, CourseInv, FrameInv, Resting
<1>16. Beyond(buffer', start - 1, Told')
  <2>1. PartOf(doc, fed, buffer) /\ fed \in Nat /\ buffer[x].at \in Nat /\ x <= x
    BY <1>7, StateIs DEF OrderInv, BufferInv
  <2>2. Beyond(buffer, x, Told')
    BY <1>7, <1>9, <2>1, Eases
  <2> QED
    BY <1>1, <2>2
<1>17. Unended(buffer, start - 2)
  <2>1. start - 2 \in Int
    BY <1>5
  <2> QED
    BY <1>1, <2>1, WholeIs
<1>18. ASSUME NEW u \in Types, NEW e \in entries'[u] PROVE EntryOn(u, e)'
  <2>1. u = t /\ e \in new /\ e.start = start
    BY <1>11, <1>12, <1>18
  <2>2. \A v \in Types : ~component'[v].on /\ (v # u => entries'[v] = {})
    BY <1>1, <1>2, <1>11, <2>1 DEF Free
  <2>3. \A f \in entries'[u] : f.start = e.start
    BY <1>11, <1>12, <2>1
  <2>4. e.start \in Nat /\ e.start - 1 \in DOMAIN buffer' /\ Unended(buffer', e.start - 2)
    BY <1>1, <1>5, <1>6, <1>17, <2>1
  <2>5. Beyond(buffer', e.start - 1, Told')
    BY <1>16, <2>1
  <2>6. From(e.start - 1)'
    BY <2>5 DEF From
  <2>7. pc' \in Resting /\ mode' # "StreamingDataModel"
    BY <1>1, <1>2 DEF Resting
  <2> QED
    BY <2>2, <2>3, <2>4, <2>6, <2>7 DEF EntryOn
<1>19. CarriedInv'
  BY <1>1, <1>2, <1>18 DEF CarriedInv, Free
<1>20. AheadInv'
  <2>1. entries'[t] # {}
    <3>1. matches # {}
      BY <1>1 DEF TakesData, matches
    <3>2. ToSet(bound) # {}
      BY <1>3, <3>1, Listed DEF bound
    <3>3. PICK p \in ToSet(bound) : TRUE
      BY <3>2
    <3>4. entry(p) \in new
      BY <3>3 DEF new
    <3> QED
      BY <1>11, <3>4
  <2>2. ~Free'
    BY <2>1 DEF Free
  <2> QED
    BY <1>1, <2>2 DEF AheadInv
<1> QED
  BY <1>9, <1>10, <1>14, <1>15, <1>19, <1>20 DEF OrderInv
-----------------------------------------------------------------------------
(* driveParser(). *)

\* Messages from one place leave the places from it on to be told.
LEMMA TellingAll ==
    ASSUME OrderInv, NEW ms, IsSeq(ms), NEW x \in DOMAIN buffer, NEW i \in Nat, From(i), i <= x,
           \A k \in DOMAIN ms : ms[k].at = buffer[x].at,
           results' = results \o ms, UNCHANGED <<doc, fed, streams, lastUnit>>
    PROVE  /\ FeedInv' /\ ResultsInv' /\ Told' \in Nat /\ Told' <= buffer[x].at
           /\ \A k \in Nat : x <= k => Beyond(buffer, k, Told')
<1>1. x \in Nat /\ buffer[x].at \in 0..fed /\ Beyond(buffer, x, buffer[x].at) /\ Told <= buffer[x].at /\ fed \in Nat
  BY StateIs
<1>2. FeedInv'
  BY DEF OrderInv, FeedInv
<1>3. ResultsInv' /\ Told' <= buffer[x].at /\ Told' \in Nat
  BY <1>1, Telling
<1>4. ASSUME NEW k \in Nat, x <= k PROVE Beyond(buffer, k, Told')
  <2>1. PartOf(doc, fed, buffer) /\ buffer[x].at \in Nat
    BY <1>1 DEF OrderInv, BufferInv
  <2> QED
    BY <1>1, <1>3, <1>4, <2>1, Eases
<1> QED
  BY <1>2, <1>3, <1>4

LEMMA LoopIs ==
    /\ Loop("Idle") = "events" /\ Loop("StreamingComponents") = "components" /\ Loop("StreamingDataModel") = "data"
BY DEF Loop

LEMMA DriveComponentKeeps ==
    ASSUME OrderInv, NEW t \in Types, DriveComponent(t)
    PROVE  OrderInv'
<1> DEFINE x == component[t].start
           end == ObjectEnd(buffer, x)
           quote == StringEnd(buffer, component[t].text)
           to == IF quote # 0 THEN quote - 1 ELSE SafeEnd(component[t].sent + 1)
           delta == Piece(buffer, component[t].sent + 1, to)
           m == ChunkMessage(surface, buffer[x].at, component[t].id, delta)
           ms == IF delta = <<>> THEN <<>> ELSE <<m>>
<1>1. /\ pc = "drive" /\ component[t].on /\ results' = results \o ms
      /\ UNCHANGED <<doc, fed, streams, lastUnit, buffer, mode, framed, dm, entries, paths>>
      /\ quote = 0 => /\ component' = [component EXCEPT ![t].sent = to]
                      /\ pc' = "dispatch" /\ pos' = pos
      /\ quote # 0 => /\ component' = [component EXCEPT ![t] = NoComponent]
                      /\ pos' = IF end # 0 THEN end + 1 ELSE x
                      /\ pc' = Loop(mode)
  BY DEF DriveComponent, Deliver, feed, receiver
<1>2. ComponentOn(t)
  BY <1>1 DEF OrderInv, CarriedInv
<1>3. /\ mode = "StreamingComponents" /\ x \in DOMAIN buffer /\ From(x)
      /\ \A u \in Types : entries[u] = {} /\ (u # t => ~component[u].on)
  BY <1>2 DEF ComponentOn
<1>4. ~dm.field.on /\ ~framed
  BY <1>1, <1>3, StateIs DEF OrderInv, CarriedInv, FieldOn
<1>5. IsSeq(buffer) /\ x \in Nat /\ x # 0 /\ x <= x
  BY <1>3, StateIs
<1>6. m.at = buffer[x].at
  BY DEF ChunkMessage
<1> HIDE DEF m, delta, to
<1>7. IsSeq(ms) /\ \A k \in DOMAIN ms : ms[k].at = buffer[x].at
  <2>1. CASE delta = <<>>
    <3>1. ms = <<>> /\ DOMAIN ms = {}
      BY <2>1
    <3> QED
      BY <3>1, SetOf
  <2>2. CASE delta # <<>>
    <3>1. ms = <<m>> /\ DOMAIN ms = {1} /\ ms[1] = m
      BY <2>2
    <3>2. IsSeq(ms)
      BY <3>1, SetOf
    <3> QED
      BY <1>6, <3>1, <3>2
  <2> QED
    BY <2>1, <2>2
<1> HIDE DEF ms
<1>8. /\ FeedInv' /\ ResultsInv' /\ Told' \in Nat
      /\ \A k \in Nat : x <= k => Beyond(buffer, k, Told')
  BY <1>1, <1>3, <1>5, <1>7, TellingAll
<1>9. BufferInv' /\ FrameInv'
  BY <1>1, <1>4 DEF OrderInv, BufferInv, FrameInv
<1>10. DOMAIN component = Types /\ component[t] = [on |-> component[t].on, start |-> x, text |-> component[t].text,
                                                   sent |-> component[t].sent, id |-> component[t].id]
  BY DEF OrderInv, ShapeInv
<1>11. CASE quote = 0
  <2>1. component' = [component EXCEPT ![t].sent = to] /\ pc' = "dispatch" /\ pos' = pos
    BY <1>1, <1>11
  <2>2. /\ DOMAIN component' = Types
        /\ component'[t] = [on |-> component[t].on, start |-> x, text |-> component[t].text,
                            sent |-> to, id |-> component[t].id]
        /\ \A u \in Types : u # t => component'[u] = component[u]
    BY <1>10, <2>1
  <2>3. component'[t].on /\ component'[t].start = x
    BY <1>1, <2>2
  <2>4. \A u \in Types : component'[u] = [on |-> component'[u].on, start |-> component'[u].start,
                                          text |-> component'[u].text, sent |-> component'[u].sent,
                                          id |-> component'[u].id]
    BY <2>2 DEF OrderInv, ShapeInv
  <2>5. ShapeInv'
    BY <1>1, <2>1, <2>2, <2>4 DEF OrderInv, ShapeInv
  <2>6. CourseInv'
    BY <1>1, <1>3, <2>1 DEF CourseInv, Resting, Modes
  <2>7. ComponentOn(t)'
    <3>1. From(component[t].start)'
      BY <1>1, <1>5, <1>8, <2>3 DEF From
    <3>2. \A u \in Types : entries'[u] = {} /\ (u # t => ~component'[u].on)
      BY <1>1, <1>3, <2>2
    <3> HIDE DEF x
    <3> QED
      BY <1>1, <1>3, <2>1, <2>3, <3>1, <3>2 DEF ComponentOn, Resting
  <2>8. CarriedInv'
    BY <1>1, <1>3, <1>4, <2>2, <2>7 DEF CarriedInv
  <2>9. AheadInv'
    BY <1>1, <1>3, <2>1, <2>3 DEF AheadInv, Free
  <2> QED
    BY <1>8, <1>9, <2>5, <2>6, <2>8, <2>9 DEF OrderInv
<1>12. CASE quote # 0
  <2>1. /\ component' = [component EXCEPT ![t] = NoComponent]
        /\ pos' = IF end # 0 THEN end + 1 ELSE x
        /\ pc' = "components"
    BY <1>1, <1>3, <1>12, LoopIs
  <2>2. /\ DOMAIN component' = Types /\ component'[t] = NoComponent
        /\ \A u \in Types : u # t => component'[u] = component[u]
    BY <1>10, <2>1
  <2>3. Free' /\ ~dm'.field.on
    BY <1>1, <1>3, <1>4, <2>2 DEF Free, NoComponent
  <2>4. pos' \in Nat /\ x <= pos'
    <3>1. end \in Nat /\ (end # 0 => x <= end)
      BY <1>5, EndsAre
    <3> HIDE DEF end, x
    <3> QED
      BY <1>5, <2>1, <3>1
  <2>5. \A u \in Types : component'[u] = [on |-> component'[u].on, start |-> component'[u].start,
                                          text |-> component'[u].text, sent |-> component'[u].sent,
                                          id |-> component'[u].id]
    BY <2>2 DEF OrderInv, ShapeInv, NoComponent
  <2>6. ShapeInv'
    BY <1>1, <2>2, <2>4, <2>5 DEF OrderInv, ShapeInv
  <2>7. CourseInv'
    BY <1>1, <1>3, <2>1 DEF CourseInv, Resting, Modes
  <2>8. From(pos)'
    BY <1>1, <1>8, <2>4 DEF From
  <2>9. AheadInv'
    BY <1>1, <1>3, <2>1, <2>8 DEF AheadInv, Resting
  <2> QED
    BY <1>8, <1>9, <2>3, <2>6, <2>7, <2>9, Calm DEF OrderInv
<1> QED
  BY <1>11, <1>12

LEMMA DriveLoopKeeps ==
    ASSUME OrderInv, DriveLoop
    PROVE  OrderInv'
<1>1. /\ pc = "drive" /\ Free /\ pc' = Loop(mode)
      /\ UNCHANGED <<doc, fed, streams, lastUnit, results, buffer, mode, pos, framed, dm, component, entries, paths>>
  BY DEF DriveLoop, Free, feed, receiver, parser, plugin
<1>2. ~framed /\ mode \in Modes
  BY <1>1, StateIs DEF OrderInv, CourseInv
<1>3. FeedInv' /\ ResultsInv' /\ Told' = Told
  BY <1>1, Untold
<1>4. BufferInv' /\ ShapeInv' /\ FrameInv' /\ Free'
  BY <1>1, <1>2 DEF OrderInv, BufferInv, ShapeInv, FrameInv, Free
<1>5. \/ pc' = "events" /\ mode = "Idle"
      \/ pc' = "components" /\ mode = "StreamingComponents"
      \/ pc' = "data" /\ mode = "StreamingDataModel"
  BY <1>1, <1>2, LoopIs DEF Modes
<1>6. CourseInv'
  BY <1>1, <1>2, <1>5 DEF CourseInv
<1>7. CarriedInv'
  BY <1>1, <1>4, <1>5 DEF OrderInv, CarriedInv, FieldOn, Free
<1>8. AheadInv'
  BY <1>1, <1>3, <1>5 DEF OrderInv, AheadInv, From, Resting
<1> QED
  BY <1>3, <1>4, <1>6, <1>7, <1>8 DEF OrderInv

LEMMA DriveEntriesKeeps ==
    ASSUME OrderInv, NEW t \in Types, DriveEntries(t)
    PROVE  OrderInv'
<1> DEFINE start == SkipSpace(1)
           end == IF Kind(start) \in Heads THEN ObjectEnd(buffer, start) ELSE 0
           quote(e) == StringEnd(buffer, e.start)
           to(e) == IF quote(e) # 0 THEN quote(e) - 1 ELSE SafeEnd(e.sent + 1)
           delta(e) == Piece(buffer, e.sent + 1, to(e))
           some == {e \in entries[t] : delta(e) # <<>>}
           new == SetToSeq(some)
           tail(i) == LeafMessage("append", new[i].surface, buffer[new[i].start - 1].at,
                                  new[i].path, Raw(delta(new[i])))
           tails == [i \in DOMAIN new |-> tail(i)]
           c == CHOOSE e \in entries[t] : TRUE
           last == LeafMessage("data", c.surface, buffer[c.start - 1].at, c.event, Piece(buffer, c.start, to(c)))
           image == {[e EXCEPT !.sent = to(e)] : e \in entries[t]}
<1>1. /\ pc = "drive" /\ entries[t] # {}
      /\ UNCHANGED <<doc, fed, streams, lastUnit, mode, pos, framed, dm, component, paths>>
      /\ end = 0 => /\ results' = results \o tails
                    /\ entries' = [entries EXCEPT ![t] = image]
                    /\ pc' = "dispatch" /\ buffer' = buffer
      /\ end # 0 => /\ results' = results \o Append(tails, last)
                    /\ entries' = [entries EXCEPT ![t] = {}]
                    /\ buffer' = After(end) /\ pc' = Loop(mode)
  BY DEF DriveEntries, Deliver, feed, receiver, parser
<1>2. PICK e0 \in entries[t] : TRUE
  BY <1>1
<1>3. EntryOn(t, e0)
  BY DEF OrderInv, CarriedInv
<1>4. PICK x \in DOMAIN buffer : x = e0.start - 1
  BY <1>3 DEF EntryOn
<1>5. /\ mode # "StreamingDataModel" /\ From(x) /\ Unended(buffer, e0.start - 2) /\ e0.start \in Nat
      /\ \A u \in Types : ~component[u].on /\ (u # t => entries[u] = {})
      /\ \A e \in entries[t] : e.start = e0.start
  BY <1>3, <1>4 DEF EntryOn
<1>6. IsSeq(buffer) /\ DOMAIN buffer = 1..Len(buffer) /\ Len(buffer) \in Nat /\ x \in Nat /\ x # 0 /\ x <= x
  BY StateIs
<1>7. ~dm.field.on /\ ~framed /\ mode \in Modes
  BY <1>1, <1>5, StateIs DEF OrderInv, CarriedInv, FieldOn, CourseInv
<1>8. \A e \in entries[t] : buffer[e.start - 1].at = buffer[x].at
  BY <1>4, <1>5
<1>9. IsFiniteSet(entries[t]) /\ DOMAIN entries = Types
  BY DEF OrderInv, ShapeInv
<1>10. some \subseteq entries[t]
  OBVIOUS
<1>11. new \in Seq(some) /\ \A i \in DOMAIN new : new[i] \in some
  <2>1. IsFiniteSet(some)
    BY <1>9, <1>10, FS_Subset
  <2> HIDE DEF some
  <2> QED
    BY <2>1, Listed
<1> HIDE DEF new, some, to, delta
<1>12. IsSeq(tails) /\ \A i \in DOMAIN tails : tails[i].at = buffer[x].at
  <2>1. Len(new) \in Nat /\ DOMAIN new = 1..Len(new)
    BY <1>11
  <2>2. \A i \in DOMAIN new : tail(i).at = buffer[new[i].start - 1].at
    BY DEF LeafMessage
  <2>3. \A i \in DOMAIN new : tail(i).at = buffer[x].at
    BY <1>8, <1>10, <1>11, <2>2
  <2>4. tails = [i \in 1..Len(new) |-> tail(i)]
    BY <2>1
  <2> HIDE DEF tail
  <2>5. \A i \in 1..Len(new) : tails[i] \in ToSet(tails)
    BY <2>1 DEF ToSet
  <2>6. DOMAIN tails = 1..Len(new) /\ \A i \in 1..Len(new) : tails[i].at = buffer[x].at
    BY <2>1, <2>3
  <2> HIDE DEF tails
  <2>7. tails \in [1..Len(new) -> ToSet(tails)]
    BY <2>4, <2>5
  <2>8. IsSeq(tails)
    BY <2>1, <2>7 DEF IsSeq
  <2> QED
    BY <2>6, <2>8
<1> HIDE DEF tails
<1>13. c \in entries[t]
  BY <1>2
<1>14. last.at = buffer[x].at
  BY <1>8, <1>13 DEF LeafMessage
<1> HIDE DEF c, last
<1>15. IsSeq(Append(tails, last)) /\ \A i \in DOMAIN Append(tails, last) : Append(tails, last)[i].at = buffer[x].at
  <2>1. tails \in Seq(ToSet(tails)) /\ Len(tails) \in Nat /\ DOMAIN tails = 1..Len(tails)
    BY <1>12, SetOf DEF IsSeq
  <2>2. IsSeq(<<last>>) /\ Len(<<last>>) = 1 /\ <<last>>[1] = last
    BY SetOf
  <2>3. Append(tails, last) = tails \o <<last>>
    BY <2>1
  <2>4. /\ IsSeq(tails \o <<last>>) /\ DOMAIN (tails \o <<last>>) = 1..(Len(tails) + 1)
        /\ \A i \in 1..Len(tails) : (tails \o <<last>>)[i] = tails[i]
        /\ (tails \o <<last>>)[Len(tails) + 1] = last
    <3>1. IsSeq(tails \o <<last>>)
      BY <1>12, <2>2, Joined
    <3> QED
      BY <2>1, <3>1
  <2>5. \A i \in 1..(Len(tails) + 1) : i \in 1..Len(tails) \/ i = Len(tails) + 1
    BY <2>1
  <2> QED
    BY <1>12, <1>14, <2>1, <2>3, <2>4, <2>5
<1>16. FrameInv' /\ pos' \in Nat
  BY <1>1, <1>7 DEF OrderInv, FrameInv, ShapeInv
<1>17. CASE end = 0
  <2>1. /\ results' = results \o tails /\ entries' = [entries EXCEPT ![t] = image]
        /\ pc' = "dispatch" /\ buffer' = buffer
    BY <1>1, <1>17
  <2>2. /\ FeedInv' /\ ResultsInv' /\ Told' \in Nat
        /\ \A k \in Nat : x <= k => Beyond(buffer, k, Told')
    BY <1>1, <1>5, <1>6, <1>12, <2>1, TellingAll
  <2>3. \A e \in image : /\ e.start = e0.start
                         /\ e = [surface |-> e.surface, event |-> e.event, path |-> e.path,
                                 start |-> e.start, sent |-> e.sent]
    <3> SUFFICES ASSUME NEW f \in entries[t], NEW e, e = [f EXCEPT !.sent = to(f)]
                 PROVE  /\ e.start = e0.start
                        /\ e = [surface |-> e.surface, event |-> e.event, path |-> e.path,
                                start |-> e.start, sent |-> e.sent]
      OBVIOUS
    <3>1. f = [surface |-> f.surface, event |-> f.event, path |-> f.path, start |-> f.start, sent |-> f.sent]
      BY DEF OrderInv, ShapeInv
    <3>2. e = [surface |-> f.surface, event |-> f.event, path |-> f.path, start |-> f.start, sent |-> to(f)]
      BY <3>1
    <3> QED
      BY <1>5, <3>2
  <2>4. IsFiniteSet(image)
    <3> DEFINE f == [e \in entries[t] |-> [e EXCEPT !.sent = to(e)]]
    <3>1. IsFiniteSet({f[e] : e \in DOMAIN f})
      <4>1. IsFiniteSet(DOMAIN f)
        BY <1>9
      <4> HIDE DEF f
      <4> QED
        BY <4>1, FiniteImage
    <3>2. {f[e] : e \in DOMAIN f} = image
      OBVIOUS
    <3> QED
      BY <3>1, <3>2
  <2>5. image # {}
    BY <1>2
  <2> HIDE DEF image
  <2>6. /\ DOMAIN entries' = Types /\ entries'[t] = image
        /\ \A u \in Types : u # t => entries'[u] = {}
    BY <1>5, <1>9, <2>1
  <2>7. ShapeInv'
    <3>1. \A u \in Types : IsFiniteSet(entries'[u])
      BY <2>4, <2>6, FS_EmptySet
    <3>2. \A u \in Types : \A e \in entries'[u] : e = [surface |-> e.surface, event |-> e.event, path |-> e.path,
                                                       start |-> e.start, sent |-> e.sent]
      BY <2>3, <2>6
    <3> QED
      BY <1>1, <2>6, <3>1, <3>2 DEF OrderInv, ShapeInv
  <2>8. BufferInv' /\ CourseInv'
    BY <1>1, <1>7, <2>1 DEF OrderInv, BufferInv, CourseInv, Resting
  <2>9. ASSUME NEW u \in Types, NEW e \in entries'[u] PROVE EntryOn(u, e)'
    <3>1. u = t /\ e.start = e0.start /\ \A f \in entries'[u] : f.start = e.start
      BY <2>3, <2>6, <2>9
    <3>2. e.start \in Nat /\ e.start - 1 \in DOMAIN buffer' /\ Unended(buffer', e.start - 2)
      BY <1>4, <1>5, <2>1, <3>1
    <3>3. From(e.start - 1)'
      BY <1>4, <1>6, <2>1, <2>2, <3>1 DEF From
    <3>4. \A v \in Types : ~component'[v].on /\ (v # u => entries'[v] = {})
      BY <1>1, <1>5, <2>6, <3>1
    <3>5. pc' \in Resting /\ mode' # "StreamingDataModel"
      BY <1>1, <1>5, <2>1 DEF Resting
    <3> QED
      BY <3>1, <3>2, <3>3, <3>4, <3>5 DEF EntryOn
  <2>10. CarriedInv'
    BY <1>1, <1>5, <1>7, <2>9 DEF CarriedInv
  <2>11. AheadInv'
    <3>1. ~Free'
      BY <2>5, <2>6 DEF Free
    <3> QED
      BY <2>1, <3>1 DEF AheadInv
  <2> QED
    BY <1>16, <2>2, <2>7, <2>8, <2>10, <2>11 DEF OrderInv
<1>18. CASE end # 0
  <2>1. /\ results' = results \o Append(tails, last) /\ entries' = [entries EXCEPT ![t] = {}]
        /\ pc' = Loop(mode) /\ buffer' = After(end)
    BY <1>1, <1>18
  <2>2. /\ FeedInv' /\ ResultsInv' /\ Told' \in Nat
        /\ \A k \in Nat : x <= k => Beyond(buffer, k, Told')
    BY <1>1, <1>5, <1>6, <1>15, <2>1, TellingAll
  <2>3. /\ DOMAIN entries' = Types /\ \A u \in Types : entries'[u] = {}
    BY <1>5, <1>9, <2>1
  <2>4. Free' /\ ~dm'.field.on
    BY <1>1, <1>5, <1>7, <2>3 DEF Free
  <2>5. ShapeInv'
    BY <1>1, <2>3, FS_EmptySet DEF OrderInv, ShapeInv
  <2>6. end \in Nat /\ x <= end
    <3>1. Kind(start) \in Heads /\ end = ObjectEnd(buffer, start)
      BY <1>18
    <3>2. start \in Nat /\ 1 <= start /\ \A j \in Nat : 1 <= j /\ j < start => Kind(j) = "ws"
      BY SkipIs
    <3> HIDE DEF start, end
    <3>3. start \in DOMAIN buffer /\ buffer[start].k \in Heads
      <4>1. Kind(start) # "end"
        BY <3>1 DEF Heads
      <4> QED
        BY <3>1, <4>1, KindIs
    <3>4. \A j \in 1..(start - 1) : buffer[j].k = "ws"
      <4> TAKE j \in 1..(start - 1)
      <4>1. j \in Nat /\ 1 <= j /\ j < start /\ j \in DOMAIN buffer
        BY <1>6, <3>2, <3>3
      <4> QED
        BY <3>2, <4>1 DEF Kind
    <3>5. end \notin 1..(e0.start - 2)
      BY <1>5, <3>1, <3>3, <3>4 DEF Unended
    <3>6. end \in Nat
      BY <1>6, <3>1, <3>2, EndsAre
    <3>7. end # 0
      BY <1>18
    <3> QED
      BY <1>4, <1>5, <3>5, <3>6, <3>7
  <2> HIDE DEF end
  <2>7. PartOf(doc, fed, buffer') /\ Beyond(buffer', 1, Told')
    <3>1. PICK k \in Nat : k = end + 1
      BY <2>6
    <3>2. Beyond(buffer, k, Told') /\ k <= end + 1
      BY <1>6, <2>2, <2>6, <3>1
    <3> QED
      BY <2>1, <2>2, <2>6, <3>2, AfterIs
  <2>8. From(1)' /\ From(pos)'
    <3>1. \A j \in DOMAIN buffer' : 1 <= j
      BY <2>7 DEF PartOf
    <3> QED
      BY <2>7, <3>1 DEF From, Beyond
  <2>9. BufferInv'
    BY <1>1, <2>7 DEF BufferInv
  <2>10. \/ pc' = "events" /\ mode = "Idle"
         \/ pc' = "components" /\ mode = "StreamingComponents"
    BY <1>5, <1>7, <2>1, LoopIs DEF Modes
  <2>11. CourseInv'
    BY <1>1, <1>7, <2>10 DEF CourseInv
  <2>12. AheadInv'
    BY <1>1, <2>8, <2>10 DEF AheadInv, Resting
  <2> QED
    BY <1>16, <2>2, <2>4, <2>5, <2>9, <2>11, <2>12, Calm DEF OrderInv
<1> QED
  BY <1>17, <1>18
-----------------------------------------------------------------------------
(* processStreamingData(). *)

\* What the loop over the components goes by.
LEMMA AtComponents ==
    ASSUME OrderInv, pc = "components"
    PROVE  /\ Free /\ ~dm.field.on /\ From(pos) /\ mode = "StreamingComponents" /\ pos \in Nat
           /\ Next1 \in Nat /\ pos <= Next1 /\ NextComponentEnd \in Nat
           /\ Kind(Next1) \in Heads => Next1 \in DOMAIN buffer /\ buffer[Next1].k \in Heads
           /\ NextComponentEnd # 0 => Kind(Next1) \in Heads /\ Next1 <= NextComponentEnd
           /\ NextComponentEnd = 0 /\ Kind(Next1) \in Heads => ~framed
<1>1. Free /\ ~dm.field.on /\ From(pos) /\ mode = "StreamingComponents" /\ pos \in Nat
  BY StateIs DEF OrderInv, AheadInv, CourseInv, ShapeInv
<1>2. Next1 \in Nat /\ pos <= Next1
  BY <1>1, SkipIs DEF Next1
<1>3. IsSeq(buffer) /\ (NextComponentEnd = IF Kind(Next1) \in Heads THEN ObjectEnd(buffer, Next1) ELSE 0)
  BY StateIs DEF NextComponentEnd
<1>4. ASSUME Kind(Next1) \in Heads PROVE Next1 \in DOMAIN buffer /\ buffer[Next1].k \in Heads
  <2>1. Kind(Next1) # "end"
    BY <1>4 DEF Heads
  <2> QED
    BY <1>4, <2>1, KindIs
<1>5. ObjectEnd(buffer, Next1) \in Nat /\ (ObjectEnd(buffer, Next1) # 0 => Next1 <= ObjectEnd(buffer, Next1))
  BY <1>2, <1>3, EndsAre
<1>6. NextComponentEnd \in Nat /\ (NextComponentEnd # 0 => Kind(Next1) \in Heads /\ Next1 <= NextComponentEnd)
  BY <1>3, <1>5
<1>7. ASSUME NextComponentEnd = 0, Kind(Next1) \in Heads, framed PROVE FALSE
  <2>1. ObjectEnd(buffer, Next1) = 0
    BY <1>3, <1>7
  <2>2. buffer # <<>> /\ buffer[1].k \in Heads /\ ObjectEnd(buffer, 1) = Len(buffer)
    BY <1>7 DEF OrderInv, FrameInv
  <2> QED
    BY <1>3, <1>4, <1>7, <2>1, <2>2, InnerIsWhole
<1> QED
  BY <1>1, <1>2, <1>4, <1>6, <1>7

LEMMA NextComponentKeeps ==
    ASSUME OrderInv, NextComponent
    PROVE  OrderInv'
<1> DEFINE m == ComponentMessage(buffer, surface, Next1, NextComponentEnd)
<1>1. /\ pc = "components" /\ NextComponentEnd # 0 /\ results' = results \o <<m>>
      /\ paths' = [t \in Types |-> CollectPath(t, Next1)] /\ pos' = NextComponentEnd + 1
      /\ UNCHANGED <<doc, fed, streams, lastUnit, pc, buffer, mode, rest, framed, dm, component, entries>>
  BY DEF NextComponent, Deliver, feed, receiver
<1>2. /\ Free /\ ~dm.field.on /\ From(pos) /\ mode = "StreamingComponents" /\ pos \in Nat
      /\ Next1 \in DOMAIN buffer /\ pos <= Next1
      /\ NextComponentEnd \in Nat /\ Next1 \in Nat /\ Next1 <= NextComponentEnd
  BY <1>1, AtComponents
<1>3. m.at = buffer[Next1].at
  BY DEF ComponentMessage
<1> HIDE DEF m
<1>4. /\ FeedInv' /\ ResultsInv' /\ Told' \in Nat /\ Told' <= buffer[Next1].at
      /\ \A k \in Nat : Next1 <= k => Beyond(buffer, k, Told')
  BY <1>1, <1>2, <1>3, TellingOne
<1>5. pos' \in Nat /\ Next1 <= pos'
  BY <1>1, <1>2
<1>6. BufferInv' /\ Free' /\ ~dm'.field.on
  BY <1>1, <1>2 DEF OrderInv, BufferInv, Free
<1>7. ShapeInv'
  <2>1. ASSUME NEW t \in Types PROVE IsFiniteSet(CollectPath(t, Next1))
    <3>1. IsFiniteSet(paths[t])
      BY DEF OrderInv, ShapeInv
    <3>2. IsFiniteSet(paths[t] \cup {buffer[Next1].path})
      BY <3>1, FS_AddElement
    <3> QED
      BY <3>1, <3>2 DEF CollectPath
  <2>2. DOMAIN paths' = Types /\ \A t \in Types : IsFiniteSet(paths'[t])
    BY <1>1, <2>1
  <2> QED
    BY <1>1, <1>5, <2>2 DEF OrderInv, ShapeInv
<1>8. CourseInv'
  BY <1>1 DEF OrderInv, CourseInv
<1>9. FrameInv'
  <2> SUFFICES ASSUME framed PROVE Beyond(rest, 1, Told')
    BY <1>1 DEF OrderInv, FrameInv
  <2>1. ASSUME NEW j \in DOMAIN rest PROVE Told' <= rest[j].at
    <3>1. PartOf(doc, fed, rest) /\ buffer[Next1].at <= rest[j].at
      BY <1>2 DEF OrderInv, FrameInv
    <3>2. rest[j].at \in Nat /\ buffer[Next1].at \in Nat
      BY <1>2, <3>1, StateIs, PartIs DEF OrderInv, BufferInv
    <3> QED
      BY <1>4, <3>1, <3>2
  <2> QED
    BY <2>1 DEF Beyond
<1>10. AheadInv'
  <2>1. From(pos)'
    BY <1>1, <1>4, <1>5 DEF From
  <2> QED
    BY <1>1, <1>2, <2>1 DEF AheadInv, Resting
<1> QED
  BY <1>4, <1>6, <1>7, <1>8, <1>9, <1>10, Calm DEF OrderInv

\* A whole event holds no component that is cut, so nothing is set apart here.
LEMMA PluginTakesComponentKeeps ==
    ASSUME OrderInv, NEW t \in Types, PluginTakesComponent(t)
    PROVE  OrderInv'
<1> DEFINE sent == SafeEnd(Next1 + 2)
           m == ComponentMessage(buffer, surface, Next1, sent)
           text == Next1 + 2
           c == [on |-> TRUE, start |-> Next1, text |-> text, sent |-> sent, id |-> buffer[Next1].id]
<1>1. /\ pc = "components" /\ NextComponentEnd = 0 /\ Kind(Next1) = "component"
      /\ results' = results \o <<m>> /\ component' = [component EXCEPT ![t] = c]
      /\ pos' = Next1 /\ pc' = "dispatch"
      /\ UNCHANGED <<doc, fed, streams, lastUnit, buffer, mode, framed, dm, entries, paths>>
  BY DEF PluginTakesComponent, TakesComponent, Deliver, feed, receiver
<1>2. Kind(Next1) \in Heads
  BY <1>1 DEF Heads
<1>3. /\ Free /\ ~dm.field.on /\ From(pos) /\ mode = "StreamingComponents" /\ pos \in Nat
      /\ Next1 \in DOMAIN buffer /\ pos <= Next1 /\ Next1 \in Nat /\ ~framed
  BY <1>1, <1>2, AtComponents
<1>4. m.at = buffer[Next1].at
  BY DEF ComponentMessage
<1> HIDE DEF m, text, sent
<1>5. /\ FeedInv' /\ ResultsInv' /\ Told' \in Nat
      /\ \A k \in Nat : Next1 <= k => Beyond(buffer, k, Told')
  BY <1>1, <1>3, <1>4, TellingOne
<1>6. BufferInv' /\ FrameInv'
  BY <1>1, <1>3 DEF OrderInv, BufferInv, FrameInv
<1>7. /\ DOMAIN component' = Types /\ component'[t] = c /\ c.on /\ c.start = Next1
      /\ \A u \in Types : u # t => component'[u] = component[u]
  BY <1>1 DEF OrderInv, ShapeInv
<1>8. c = [on |-> c.on, start |-> c.start, text |-> c.text, sent |-> c.sent, id |-> c.id]
  OBVIOUS
<1> HIDE DEF c
<1>9. ShapeInv'
  <2>1. \A u \in Types : component'[u] = [on |-> component'[u].on, start |-> component'[u].start,
                                          text |-> component'[u].text, sent |-> component'[u].sent,
                                          id |-> component'[u].id]
    BY <1>7, <1>8 DEF OrderInv, ShapeInv
  <2> QED
    BY <1>1, <1>3, <1>7, <2>1 DEF OrderInv, ShapeInv
<1>10. CourseInv'
  BY <1>1, <1>3 DEF CourseInv, Resting, Modes
<1>11. ComponentOn(t)'
  <2>1. From(component[t].start)'
    BY <1>1, <1>3, <1>5, <1>7 DEF From
  <2>2. \A u \in Types : entries'[u] = {} /\ (u # t => ~component'[u].on)
    BY <1>1, <1>3, <1>7 DEF Free
  <2> QED
    BY <1>1, <1>3, <1>7, <2>1, <2>2 DEF ComponentOn, Resting
<1>12. CarriedInv'
  BY <1>1, <1>3, <1>7, <1>11 DEF CarriedInv, Free
<1>13. AheadInv'
  BY <1>1, <1>3, <1>7 DEF AheadInv, Free
<1> QED
  BY <1>5, <1>6, <1>9, <1>10, <1>12, <1>13 DEF OrderInv

\* The loop is left with what is still to be told in the buffer.
LEMMA LeaveKeeps ==
    ASSUME OrderInv, pc = "components", NEW b, Leave(b),
           framed \/ (PartOf(doc, fed, b) /\ Beyond(b, 1, Told)),
           UNCHANGED <<doc, fed, streams, lastUnit, results>>,
           ShapeInv', Free', ~dm'.field.on, mode' \in {"Idle", "StreamingComponents"}
    PROVE  OrderInv'
<1>1. (buffer' = IF framed THEN rest ELSE b) /\ framed' = FALSE /\ pc' = "events"
  BY DEF Leave
<1>2. FeedInv' /\ ResultsInv' /\ Told' = Told
  BY Untold
<1>3. PartOf(doc, fed, buffer') /\ Beyond(buffer', 1, Told)
  <2>1. framed => PartOf(doc, fed, rest) /\ Beyond(rest, 1, Told)
    BY DEF OrderInv, FrameInv
  <2> QED
    BY <1>1, <2>1
<1>4. BufferInv' /\ FrameInv'
  BY <1>1, <1>3 DEF BufferInv, FrameInv
<1>5. CourseInv'
  BY <1>1 DEF CourseInv, Modes
<1>6. AheadInv'
  <2>1. From(1)'
    BY <1>2, <1>3 DEF From
  <2> QED
    BY <1>1, <2>1 DEF AheadInv, Resting
<1> QED
  BY <1>2, <1>4, <1>5, <1>6, Calm DEF OrderInv

LEMMA ComponentsEndKeeps ==
    ASSUME OrderInv, ComponentsEnd
    PROVE  OrderInv'
<1>1. /\ pc = "components" /\ Closed(Next1 + 1) # 0 /\ Leave(After(Closed(Next1 + 1)))
      /\ mode' = "Idle" /\ pos' = 1
      /\ UNCHANGED <<doc, fed, streams, lastUnit, results, dm, component, entries, paths>>
  BY DEF ComponentsEnd, feed, receiver, plugin
<1>2. Free /\ ~dm.field.on /\ From(pos) /\ pos \in Nat /\ Next1 \in Nat /\ pos <= Next1
  BY <1>1, AtComponents
<1>3. PICK i \in Nat : i = Next1 + 1
  BY <1>2
<1>4. Closed(i) \in Nat /\ i <= Closed(i)
  BY <1>1, <1>3, ClosedIs
<1>5. PartOf(doc, fed, After(Closed(i))) /\ Beyond(After(Closed(i)), 1, Told)
  <2>1. pos <= Closed(i) + 1
    BY <1>2, <1>3, <1>4
  <2>2. Told \in Nat /\ Beyond(buffer, pos, Told)
    BY <1>2, StateIs DEF From
  <2> QED
    BY <1>2, <1>4, <2>1, <2>2, AfterIs
<1>6. ShapeInv' /\ Free' /\ ~dm'.field.on
  BY <1>1, <1>2 DEF OrderInv, ShapeInv, Free
<1> QED
  BY <1>1, <1>3, <1>5, <1>6, LeaveKeeps

LEMMA ComponentsCutShortKeeps ==
    ASSUME OrderInv, ComponentsCutShort
    PROVE  OrderInv'
<1>1. /\ pc = "components" /\ Leave(<<>>) /\ mode' = "Idle" /\ pos' = 1 /\ dm' = NoData
      /\ component' = [t \in Types |-> NoComponent]
      /\ entries' = [t \in Types |-> {}] /\ paths' = [t \in Types |-> {}]
      /\ UNCHANGED <<doc, fed, streams, lastUnit, results>>
  BY DEF ComponentsCutShort, feed, receiver
<1>2. Free' /\ ~dm'.field.on
  BY <1>1 DEF Free, NoData, NoField, NoComponent
<1>3. ShapeInv'
  BY <1>1, FS_EmptySet DEF ShapeInv, NoData, NoField, NoComponent
<1> QED
  BY <1>1, <1>2, <1>3, EmptyIs, LeaveKeeps

LEMMA ComponentsWaitKeeps ==
    ASSUME OrderInv, ComponentsWait
    PROVE  OrderInv'
<1>1. /\ pc = "components" /\ pos' = Next1
      /\ IF framed THEN Leave(rest) ELSE pc' = "dispatch" /\ UNCHANGED <<buffer, rest, framed>>
      /\ UNCHANGED <<doc, fed, streams, lastUnit, results, mode, dm, component, entries, paths>>
  BY DEF ComponentsWait, feed, receiver, plugin
<1>2. /\ Free /\ ~dm.field.on /\ From(pos) /\ mode = "StreamingComponents" /\ pos \in Nat
      /\ Next1 \in Nat /\ pos <= Next1
  BY <1>1, AtComponents
<1>3. ShapeInv' /\ Free' /\ ~dm'.field.on
  BY <1>1, <1>2 DEF OrderInv, ShapeInv, Free
<1>4. CASE framed
  BY <1>1, <1>2, <1>3, <1>4, LeaveKeeps
<1>5. CASE ~framed
  <2>1. pc' = "dispatch" /\ UNCHANGED <<buffer, framed>>
    BY <1>1, <1>5
  <2>2. FeedInv' /\ ResultsInv' /\ Told' = Told
    BY <1>1, Untold
  <2>3. BufferInv' /\ FrameInv'
    BY <1>1, <1>5, <2>1 DEF OrderInv, BufferInv, FrameInv
  <2>4. CourseInv'
    BY <1>1, <1>2, <2>1 DEF CourseInv, Resting, Modes
  <2>5. From(pos)'
    <3>1. PartOf(doc, fed, buffer) /\ fed \in Nat /\ Told \in Nat /\ Told <= Told /\ Beyond(buffer, pos, Told)
      BY <1>2, StateIs DEF OrderInv, BufferInv, From
    <3>2. Beyond(buffer, Next1, Told)
      BY <1>2, <3>1, Eases
    <3> QED
      BY <1>1, <2>1, <2>2, <3>2 DEF From
  <2>6. AheadInv'
    BY <1>1, <1>2, <2>1, <2>5 DEF AheadInv, Resting
  <2> QED
    BY <1>3, <2>2, <2>3, <2>4, <2>6, Calm DEF OrderInv
<1> QED
  BY <1>4, <1>5
-----------------------------------------------------------------------------
(* processStreamingDataModel(). *)

\* What the loop over the values goes by.
LEMMA AtData ==
    ASSUME OrderInv, pc = "data"
    PROVE  /\ Free /\ ~framed /\ mode = "StreamingDataModel" /\ dm.pos \in Nat /\ From(dm.pos)
           /\ At \in Nat /\ dm.pos <= At /\ ValueAt \in Nat /\ At <= ValueAt
           /\ Kind(ValueAt) # "end" => ValueAt \in DOMAIN buffer
<1>1. Free /\ ~framed /\ mode = "StreamingDataModel" /\ dm.pos \in Nat /\ From(dm.pos)
  BY StateIs DEF OrderInv, AheadInv, CourseInv, ShapeInv
<1>2. At \in Nat /\ dm.pos <= At
  BY <1>1, SkipIs DEF At
<1>3. ValueAt \in Nat /\ At <= ValueAt
  <2>1. ValueAt = At \/ ValueAt = At + 1
    BY DEF ValueAt
  <2> QED
    BY <1>2, <2>1
<1>4. Kind(ValueAt) # "end" => ValueAt \in DOMAIN buffer
  BY KindIs
<1> QED
  BY <1>1, <1>2, <1>3, <1>4

\* A step of the loop, with what it makes of dm.
LEMMA DataKeeps ==
    ASSUME OrderInv, pc = "data", pc' \in {"data", "dispatch"}, FeedInv', ResultsInv',
           UNCHANGED <<doc, fed, buffer, mode, pos, framed, component, entries, paths>>,
           dm' = [surface |-> dm'.surface, stack |-> dm'.stack, pos |-> dm'.pos, field |-> dm'.field],
           dm'.field = [on |-> dm'.field.on, path |-> dm'.field.path, start |-> dm'.field.start,
                        sent |-> dm'.field.sent, first |-> dm'.field.first],
           dm'.pos \in Nat, Beyond(buffer, dm'.pos, Told'),
           dm'.field.on => /\ dm'.field.start \in Nat
                           /\ dm'.pos = dm'.field.start - 1 /\ dm'.pos \in DOMAIN buffer
    PROVE  OrderInv'
<1>1. Free /\ ~framed /\ mode = "StreamingDataModel"
  BY AtData
<1>2. ShapeInv'
  BY DataShape
<1>3. BufferInv' /\ FrameInv' /\ Free'
  BY <1>1 DEF OrderInv, BufferInv, FrameInv, Free
<1>4. CourseInv'
  BY <1>1 DEF CourseInv, Resting, Modes
<1>5. CarriedInv'
  <2>1. dm'.field.on => FieldOn'
    BY <1>1 DEF FieldOn, Resting
  <2> QED
    BY <1>3, <2>1 DEF CarriedInv, Free
<1>6. AheadInv'
  <2>1. From(dm.pos)'
    BY DEF From
  <2> QED
    BY <1>1, <2>1 DEF AheadInv, Resting
<1> QED
  BY <1>2, <1>3, <1>4, <1>5, <1>6 DEF OrderInv

\* Only the stack and the place in the buffer change, and nothing is told.
LEMMA StackKeeps ==
    ASSUME OrderInv, pc = "data", ~dm.field.on, pc' \in {"data", "dispatch"},
           UNCHANGED <<doc, fed, streams, lastUnit, results, buffer, mode, pos, framed, component, entries, paths>>,
           dm' = [surface |-> dm.surface, stack |-> dm'.stack, pos |-> dm'.pos, field |-> dm.field],
           dm'.pos \in Nat, dm.pos <= dm'.pos
    PROVE  OrderInv'
<1>1. dm.pos \in Nat /\ From(dm.pos)
  BY AtData
<1>2. FeedInv' /\ ResultsInv' /\ Told' = Told
  BY Untold
<1>3. Beyond(buffer, dm'.pos, Told')
  <2>1. PartOf(doc, fed, buffer) /\ fed \in Nat /\ Told \in Nat /\ Told <= Told /\ Beyond(buffer, dm.pos, Told)
    BY <1>1, StateIs DEF OrderInv, BufferInv, From
  <2> QED
    BY <1>1, <1>2, <2>1, Eases
<1>4. dm'.surface = dm.surface /\ dm'.field = dm.field
  OBVIOUS
<1>5. dm' = [surface |-> dm'.surface, stack |-> dm'.stack, pos |-> dm'.pos, field |-> dm'.field]
  BY <1>4
<1>6. dm'.field = [on |-> dm'.field.on, path |-> dm'.field.path, start |-> dm'.field.start,
                   sent |-> dm'.field.sent, first |-> dm'.field.first]
  BY <1>4 DEF OrderInv, ShapeInv
<1> QED
  BY <1>2, <1>3, <1>4, <1>5, <1>6, DataKeeps

LEMMA OpenValueKeeps ==
    ASSUME OrderInv, OpenValue
    PROVE  OrderInv'
<1> DEFINE stack == Append(Counted, [t |-> Kind(ValueAt), path |-> ValuePath, idx |-> 0])
<1>1. /\ pc = "data" /\ ~dm.field.on /\ dm' = [dm EXCEPT !.stack = stack, !.pos = ValueAt + 1]
      /\ UNCHANGED <<doc, fed, streams, lastUnit, results, pc, buffer, mode, pos, framed, component, entries, paths>>
  BY DEF OpenValue, InObject, InArray, InData, feed, receiver, parser, plugin
<1> HIDE DEF stack
<1>2. dm.pos \in Nat /\ At \in Nat /\ dm.pos <= At /\ ValueAt \in Nat /\ At <= ValueAt
  BY <1>1, AtData
<1>3. PICK p \in Nat : p = ValueAt + 1 /\ dm.pos <= p
  BY <1>2
<1>4. dm = [surface |-> dm.surface, stack |-> dm.stack, pos |-> dm.pos, field |-> dm.field]
  BY DEF OrderInv, ShapeInv
<1>5. dm' = [surface |-> dm.surface, stack |-> stack, pos |-> p, field |-> dm.field]
  BY <1>1, <1>3, <1>4
<1>6. dm'.stack = stack /\ dm'.pos = p
  BY <1>5
<1> QED
  BY <1>1, <1>3, <1>5, <1>6, StackKeeps

LEMMA CloseValueKeeps ==
    ASSUME OrderInv, CloseValue
    PROVE  OrderInv'
<1> DEFINE stack == Front(dm.stack)
<1>1. /\ pc = "data" /\ ~dm.field.on /\ dm' = [dm EXCEPT !.stack = stack, !.pos = At + 1]
      /\ UNCHANGED <<doc, fed, streams, lastUnit, results, pc, buffer, mode, pos, framed, component, entries, paths>>
  BY DEF CloseValue, InObject, InArray, InData, feed, receiver, parser, plugin
<1> HIDE DEF stack
<1>2. dm.pos \in Nat /\ At \in Nat /\ dm.pos <= At
  BY <1>1, AtData
<1>3. PICK p \in Nat : p = At + 1 /\ dm.pos <= p
  BY <1>2
<1>4. dm = [surface |-> dm.surface, stack |-> dm.stack, pos |-> dm.pos, field |-> dm.field]
  BY DEF OrderInv, ShapeInv
<1>5. dm' = [surface |-> dm.surface, stack |-> stack, pos |-> p, field |-> dm.field]
  BY <1>1, <1>3, <1>4
<1>6. dm'.stack = stack /\ dm'.pos = p
  BY <1>5
<1> QED
  BY <1>1, <1>3, <1>5, <1>6, StackKeeps

LEMMA DataWaitKeeps ==
    ASSUME OrderInv, DataWait
    PROVE  OrderInv'
<1>1. /\ pc = "data" /\ ~dm.field.on /\ pc' = "dispatch" /\ dm' = dm
      /\ UNCHANGED <<doc, fed, streams, lastUnit, results, buffer, mode, pos, framed, component, entries, paths>>
  BY DEF DataWait, InObject, InArray, InData, feed, receiver, parser, plugin
<1>2. dm = [surface |-> dm.surface, stack |-> dm.stack, pos |-> dm.pos, field |-> dm.field] /\ dm.pos \in Nat
  BY DEF OrderInv, ShapeInv
<1>3. dm.pos <= dm.pos
  BY <1>2
<1> QED
  BY <1>1, <1>2, <1>3, StackKeeps

\* A whole value, told from where it begins.
LEMMA ValueKeeps ==
    ASSUME OrderInv, pc = "data", ~dm.field.on, pc' = "data", NEW m,
           ValueAt \in DOMAIN buffer, m.at = buffer[ValueAt].at, results' = results \o <<m>>,
           UNCHANGED <<doc, fed, streams, lastUnit, buffer, mode, pos, framed, component, entries, paths>>,
           dm' = [surface |-> dm.surface, stack |-> dm'.stack, pos |-> dm'.pos, field |-> dm.field],
           dm'.pos \in Nat, ValueAt <= dm'.pos
    PROVE  OrderInv'
<1>1. dm.pos \in Nat /\ From(dm.pos) /\ At \in Nat /\ dm.pos <= At /\ ValueAt \in Nat /\ At <= ValueAt
  BY AtData
<1>2. dm.pos <= ValueAt
  BY <1>1
<1>3. /\ FeedInv' /\ ResultsInv' /\ Told' \in Nat
      /\ \A k \in Nat : ValueAt <= k => Beyond(buffer, k, Told')
  BY <1>1, <1>2, TellingOne
<1>4. dm'.surface = dm.surface /\ dm'.field = dm.field
  OBVIOUS
<1>5. dm' = [surface |-> dm'.surface, stack |-> dm'.stack, pos |-> dm'.pos, field |-> dm'.field]
  BY <1>4
<1>6. dm'.field = [on |-> dm'.field.on, path |-> dm'.field.path, start |-> dm'.field.start,
                   sent |-> dm'.field.sent, first |-> dm'.field.first]
  BY <1>4 DEF OrderInv, ShapeInv
<1> QED
  BY <1>3, <1>4, <1>5, <1>6, DataKeeps

LEMMA AtomFieldKeeps ==
    ASSUME OrderInv, AtomField
    PROVE  OrderInv'
<1> DEFINE piece == IF Kind(ValueAt) = "num" THEN Piece(buffer, ValueAt, ValueAt)
                    ELSE Piece(buffer, ValueAt + 1, AtomEnd - 1)
           m == LeafMessage("data", dm.surface, buffer[ValueAt].at, ValuePath, piece)
<1>1. /\ pc = "data" /\ ~dm.field.on /\ Kind(ValueAt) \in {"str", "num"} /\ AtomEnd # 0
      /\ dm' = [dm EXCEPT !.stack = Counted, !.pos = AtomEnd + 1] /\ results' = results \o <<m>>
      /\ UNCHANGED <<doc, fed, streams, lastUnit, pc, buffer, mode, pos, framed, component, entries, paths>>
  BY DEF AtomField, DataLeaf, Deliver, InObject, InArray, InData, feed, receiver, parser, plugin
<1>2. ValueAt \in Nat /\ ValueAt \in DOMAIN buffer /\ IsSeq(buffer)
  <2>1. Kind(ValueAt) # "end"
    BY <1>1
  <2> QED
    BY <1>1, <2>1, AtData, StateIs
<1>3. AtomEnd \in Nat /\ ValueAt <= AtomEnd
  <2>1. CASE Kind(ValueAt) = "str"
    <3>1. PICK i \in Nat : i = ValueAt + 1
      BY <1>2
    <3>2. AtomEnd = StringEnd(buffer, i)
      BY <2>1, <3>1 DEF AtomEnd
    <3>3. AtomEnd \in Nat /\ i <= AtomEnd
      BY <1>1, <1>2, <3>2, EndsAre
    <3> QED
      BY <1>2, <3>1, <3>3
  <2>2. CASE Kind(ValueAt) # "str"
    <3>1. AtomEnd = ValueAt
      BY <1>1, <2>2 DEF AtomEnd
    <3> QED
      BY <1>2, <3>1
  <2> QED
    BY <2>1, <2>2
<1>4. m.at = buffer[ValueAt].at
  BY DEF LeafMessage
<1> HIDE DEF m
<1>5. PICK p \in Nat : p = AtomEnd + 1 /\ ValueAt <= p
  BY <1>2, <1>3
<1>6. dm = [surface |-> dm.surface, stack |-> dm.stack, pos |-> dm.pos, field |-> dm.field]
  BY DEF OrderInv, ShapeInv
<1>7. dm' = [surface |-> dm.surface, stack |-> Counted, pos |-> p, field |-> dm.field]
  BY <1>1, <1>5, <1>6
<1>8. dm'.stack = Counted /\ dm'.pos = p
  BY <1>7
<1> QED
  BY <1>1, <1>2, <1>4, <1>5, <1>7, <1>8, ValueKeeps

LEMMA StreamedFieldKeeps ==
    ASSUME OrderInv, StreamedField
    PROVE  OrderInv'
<1> DEFINE start == ValueAt + 1
           quote == StringEnd(buffer, start)
           sent == SafeEnd(start)
           leaf(piece) == LeafMessage("data", dm.surface, buffer[ValueAt].at, ValuePath, piece)
           field == [on |-> TRUE, path |-> ValuePath, start |-> start, sent |-> sent, first |-> sent >= start]
<1>1. /\ pc = "data" /\ ~dm.field.on /\ Kind(ValueAt) = "str"
      /\ UNCHANGED <<doc, fed, streams, lastUnit, buffer, mode, pos, framed, component, entries, paths>>
      /\ quote # 0 => /\ results' = results \o <<leaf(Piece(buffer, start, quote - 1))>>
                      /\ dm' = [dm EXCEPT !.stack = Counted, !.pos = quote + 1]
                      /\ pc' = pc
      /\ quote = 0 => /\ results' = results \o <<leaf(Piece(buffer, start, sent))>> \/ results' = results
                      /\ dm' = [dm EXCEPT !.stack = Counted, !.pos = ValueAt, !.field = field]
                      /\ pc' = "dispatch"
  BY DEF StreamedField, DataLeaf, Deliver, InObject, InArray, InData, feed, receiver, parser, plugin
<1>2. /\ ValueAt \in Nat /\ ValueAt \in DOMAIN buffer /\ IsSeq(buffer)
      /\ dm.pos \in Nat /\ From(dm.pos) /\ At \in Nat /\ dm.pos <= At /\ At <= ValueAt
  <2>1. Kind(ValueAt) # "end"
    BY <1>1
  <2> QED
    BY <1>1, <2>1, AtData, StateIs
<1>3. \A piece : leaf(piece).at = buffer[ValueAt].at
  BY DEF LeafMessage
<1> HIDE DEF leaf
<1>4. dm = [surface |-> dm.surface, stack |-> dm.stack, pos |-> dm.pos, field |-> dm.field]
  BY DEF OrderInv, ShapeInv
<1>5. start \in Nat /\ ValueAt <= start /\ ValueAt = start - 1 /\ dm.pos <= ValueAt
  BY <1>2
<1>6. CASE quote # 0
  <2>1. quote \in Nat /\ start <= quote
    BY <1>2, <1>5, <1>6, EndsAre
  <2>2. PICK p \in Nat : p = quote + 1 /\ ValueAt <= p
    <3> HIDE DEF quote, start
    <3> QED
      BY <1>2, <1>5, <2>1
  <2>3. dm' = [surface |-> dm.surface, stack |-> Counted, pos |-> p, field |-> dm.field]
    BY <1>1, <1>4, <1>6, <2>2
  <2>4. dm'.stack = Counted /\ dm'.pos = p
    BY <2>3
  <2>5. PICK m : m = leaf(Piece(buffer, start, quote - 1))
    OBVIOUS
  <2>6. m.at = buffer[ValueAt].at /\ results' = results \o <<m>> /\ pc' = "data"
    BY <1>1, <1>3, <1>6, <2>5
  <2> QED
    BY <1>1, <1>2, <2>2, <2>3, <2>4, <2>6, ValueKeeps
<1>7. CASE quote = 0
  <2>1. /\ dm' = [surface |-> dm.surface, stack |-> Counted, pos |-> ValueAt, field |-> field]
        /\ pc' = "dispatch"
    BY <1>1, <1>4, <1>7
  <2>2. /\ field = [on |-> field.on, path |-> field.path, start |-> field.start,
                    sent |-> field.sent, first |-> field.first]
        /\ field.start = start
    OBVIOUS
  <2> HIDE DEF field
  <2>3. dm'.surface = dm.surface /\ dm'.stack = Counted /\ dm'.pos = ValueAt /\ dm'.field = field
    BY <2>1
  <2>4. FeedInv' /\ ResultsInv' /\ Beyond(buffer, ValueAt, Told')
    <3>1. CASE results' = results
      <4>1. FeedInv' /\ ResultsInv' /\ Told' = Told
        BY <1>1, <3>1, Untold
      <4>2. PartOf(doc, fed, buffer) /\ fed \in Nat /\ Told \in Nat /\ Told <= Told /\ Beyond(buffer, dm.pos, Told)
        BY <1>2, StateIs DEF OrderInv, BufferInv, From
      <4>3. Beyond(buffer, ValueAt, Told)
        BY <1>2, <1>5, <4>2, Eases
      <4> QED
        BY <4>1, <4>3
    <3>2. CASE results' # results
      <4>1. PICK m : m = leaf(Piece(buffer, start, sent))
        OBVIOUS
      <4>2. m.at = buffer[ValueAt].at /\ results' = results \o <<m>>
        BY <1>1, <1>3, <1>7, <3>2, <4>1
      <4>3. ValueAt <= ValueAt
        BY <1>2
      <4> QED
        BY <1>1, <1>2, <1>5, <4>2, <4>3, TellingOne
    <3> QED
      BY <3>1, <3>2
  <2>5. dm' = [surface |-> dm'.surface, stack |-> dm'.stack, pos |-> dm'.pos, field |-> dm'.field]
    BY <2>1, <2>3
  <2>6. /\ dm'.field.start \in Nat /\ dm'.pos = dm'.field.start - 1 /\ dm'.pos \in DOMAIN buffer
        /\ dm'.pos \in Nat /\ Beyond(buffer, dm'.pos, Told')
    BY <1>2, <1>5, <2>2, <2>3, <2>4
  <2>7. dm'.field = [on |-> dm'.field.on, path |-> dm'.field.path, start |-> dm'.field.start,
                     sent |-> dm'.field.sent, first |-> dm'.field.first]
    BY <2>2, <2>3
  <2> QED
    BY <1>1, <2>1, <2>4, <2>5, <2>6, <2>7, DataKeeps
<1> QED
  BY <1>6, <1>7

LEMMA ContinueFieldKeeps ==
    ASSUME OrderInv, ContinueField
    PROVE  OrderInv'
<1> DEFINE f == dm.field
           quote == StringEnd(buffer, f.start)
           to == IF quote # 0 THEN quote - 1 ELSE SafeEnd(f.sent + 1)
           delta == Piece(buffer, f.sent + 1, to)
           kind == IF f.first THEN "append" ELSE "data"
           m == LeafMessage(kind, dm.surface, buffer[f.start - 1].at, f.path, delta)
           first == f.first \/ delta # <<>>
<1>1. /\ pc = "data" /\ f.on
      /\ results' = results \/ results' = results \o <<m>>
      /\ UNCHANGED <<doc, fed, streams, lastUnit, buffer, mode, pos, framed, component, entries, paths>>
      /\ quote # 0 => dm' = [dm EXCEPT !.pos = quote + 1, !.field = NoField] /\ pc' = pc
      /\ quote = 0 => dm' = [dm EXCEPT !.field.sent = to, !.field.first = first] /\ pc' = "dispatch"
  BY DEF ContinueField, DataLeaf, Deliver, feed, receiver, parser, plugin
<1>2. dm.pos \in Nat /\ From(dm.pos) /\ IsSeq(buffer)
  BY <1>1, AtData, StateIs
<1>3. f.start \in Nat /\ dm.pos = f.start - 1 /\ dm.pos \in DOMAIN buffer
  BY <1>1 DEF OrderInv, CarriedInv, FieldOn
<1>4. m.at = buffer[dm.pos].at
  BY <1>3 DEF LeafMessage
<1> HIDE DEF m, first, to
<1>5. FeedInv' /\ ResultsInv' /\ \A k \in Nat : dm.pos <= k => Beyond(buffer, k, Told')
  <2>1. CASE results' = results
    <3>1. FeedInv' /\ ResultsInv' /\ Told' = Told
      BY <1>1, <2>1, Untold
    <3>2. PartOf(doc, fed, buffer) /\ fed \in Nat /\ Told \in Nat /\ Told <= Told /\ Beyond(buffer, dm.pos, Told)
      BY <1>2, StateIs DEF OrderInv, BufferInv, From
    <3>3. \A k \in Nat : dm.pos <= k => Beyond(buffer, k, Told)
      BY <1>2, <3>2, Eases
    <3> QED
      BY <3>1, <3>3
  <2>2. CASE results' = results \o <<m>>
    <3>1. dm.pos <= dm.pos
      BY <1>2
    <3> QED
      BY <1>1, <1>2, <1>3, <1>4, <2>2, <3>1, TellingOne
  <2> QED
    BY <1>1, <2>1, <2>2
<1>6. /\ dm = [surface |-> dm.surface, stack |-> dm.stack, pos |-> dm.pos, field |-> f]
      /\ f = [on |-> f.on, path |-> f.path, start |-> f.start, sent |-> f.sent, first |-> f.first]
  BY DEF OrderInv, ShapeInv
<1>7. CASE quote # 0
  <2>1. quote \in Nat /\ f.start <= quote
    BY <1>2, <1>3, <1>7, EndsAre
  <2>2. PICK p \in Nat : p = quote + 1 /\ dm.pos <= p
    <3> HIDE DEF quote, f
    <3> QED
      BY <1>2, <1>3, <2>1
  <2>3. dm' = [surface |-> dm.surface, stack |-> dm.stack, pos |-> p, field |-> NoField] /\ pc' = "data"
    BY <1>1, <1>6, <1>7, <2>2
  <2>4. dm'.surface = dm.surface /\ dm'.stack = dm.stack /\ dm'.pos = p /\ dm'.field = NoField
    BY <2>3
  <2>5. dm' = [surface |-> dm'.surface, stack |-> dm'.stack, pos |-> dm'.pos, field |-> dm'.field]
    BY <2>3, <2>4
  <2>6. /\ NoField = [on |-> NoField.on, path |-> NoField.path, start |-> NoField.start,
                      sent |-> NoField.sent, first |-> NoField.first]
        /\ ~NoField.on
    BY DEF NoField
  <2>7. dm'.pos \in Nat /\ Beyond(buffer, dm'.pos, Told')
    BY <1>5, <2>2, <2>4
  <2> QED
    BY <1>1, <1>5, <2>3, <2>4, <2>5, <2>6, <2>7, DataKeeps
<1>8. CASE quote = 0
  <2>1. pc' = "dispatch" /\ dm' = [dm EXCEPT !.field.sent = to, !.field.first = first]
    BY <1>1, <1>8
  <2> DEFINE field == [on |-> f.on, path |-> f.path, start |-> f.start, sent |-> to, first |-> first]
  <2>2. /\ field = [on |-> field.on, path |-> field.path, start |-> field.start,
                    sent |-> field.sent, first |-> field.first]
        /\ field.start = f.start
    OBVIOUS
  <2>3. dm' = [surface |-> dm.surface, stack |-> dm.stack, pos |-> dm.pos, field |-> field]
    BY <1>6, <2>1
  <2> HIDE DEF field
  <2>4. dm'.surface = dm.surface /\ dm'.stack = dm.stack /\ dm'.pos = dm.pos /\ dm'.field = field
    BY <2>3
  <2>5. dm' = [surface |-> dm'.surface, stack |-> dm'.stack, pos |-> dm'.pos, field |-> dm'.field]
    BY <2>3, <2>4
  <2>6. dm'.field = [on |-> dm'.field.on, path |-> dm'.field.path, start |-> dm'.field.start,
                     sent |-> dm'.field.sent, first |-> dm'.field.first]
    BY <2>2, <2>4
  <2>7. /\ dm'.field.start \in Nat /\ dm'.pos = dm'.field.start - 1 /\ dm'.pos \in DOMAIN buffer
        /\ dm'.pos \in Nat
    BY <1>2, <1>3, <2>2, <2>4
  <2>8. Beyond(buffer, dm'.pos, Told')
    <3>1. dm.pos <= dm.pos
      BY <1>2
    <3> QED
      BY <1>2, <1>5, <2>4, <3>1
  <2> QED
    BY <1>1, <1>5, <2>1, <2>5, <2>6, <2>7, <2>8, DataKeeps
<1> QED
  BY <1>7, <1>8

LEMMA DataEndKeeps ==
    ASSUME OrderInv, DataEnd
    PROVE  OrderInv'
<1>1. /\ pc = "data" /\ ~dm.field.on
      /\ UNCHANGED <<doc, fed, streams, lastUnit, results, framed>>
      /\ Closed(dm.pos) # 0 => /\ buffer' = After(Closed(dm.pos)) /\ mode' = "Idle" /\ dm' = NoData
                               /\ pc' = "events" /\ UNCHANGED <<pos, component, entries, paths>>
      /\ Closed(dm.pos) = 0 => Reset /\ pc' = "dispatch"
  BY DEF DataEnd, InData, feed, receiver, plugin
<1>2. Free /\ ~framed /\ dm.pos \in Nat /\ From(dm.pos)
  BY <1>1, AtData
<1>3. FeedInv' /\ ResultsInv' /\ Told' = Told
  BY <1>1, Untold
<1>4. FrameInv'
  BY <1>1, <1>2 DEF FrameInv
<1>5. CASE Closed(dm.pos) # 0
  <2>1. /\ buffer' = After(Closed(dm.pos)) /\ mode' = "Idle" /\ dm' = NoData /\ pc' = "events"
        /\ UNCHANGED <<pos, component, entries, paths>>
    BY <1>1, <1>5
  <2>2. Closed(dm.pos) \in Nat /\ dm.pos <= Closed(dm.pos)
    BY <1>2, <1>5, ClosedIs
  <2>3. PartOf(doc, fed, buffer') /\ Beyond(buffer', 1, Told)
    <3>1. dm.pos <= Closed(dm.pos) + 1
      BY <1>2, <2>2
    <3>2. Told \in Nat /\ Beyond(buffer, dm.pos, Told)
      BY <1>2, StateIs DEF From
    <3> QED
      BY <1>2, <2>1, <2>2, <3>1, <3>2, AfterIs
  <2>4. ShapeInv'
    <3>1. /\ NoData.pos \in Nat
          /\ NoData = [surface |-> NoData.surface, stack |-> NoData.stack, pos |-> NoData.pos, field |-> NoData.field]
          /\ NoData.field = [on |-> NoData.field.on, path |-> NoData.field.path, start |-> NoData.field.start,
                             sent |-> NoData.field.sent, first |-> NoData.field.first]
      BY DEF NoData, NoField
    <3> QED
      BY <2>1, <3>1, DataShape
  <2>5. Free' /\ ~dm'.field.on
    BY <1>2, <2>1 DEF Free, NoData, NoField
  <2>6. BufferInv' /\ CourseInv'
    BY <1>1, <2>1, <2>3 DEF BufferInv, CourseInv, Modes
  <2>7. AheadInv'
    BY <1>3, <2>1, <2>3 DEF AheadInv, From, Resting
  <2> QED
    BY <1>3, <1>4, <2>4, <2>5, <2>6, <2>7, Calm DEF OrderInv
<1>6. CASE Closed(dm.pos) = 0
  <2>1. Reset /\ pc' = "dispatch"
    BY <1>1, <1>6
  <2>2. ShapeInv' /\ Free' /\ ~dm'.field.on /\ buffer' = <<>> /\ mode' = "Idle"
    BY <2>1, ResetIs
  <2>3. BufferInv' /\ AheadInv'
    BY <2>2, EmptyIs DEF BufferInv, AheadInv, From
  <2>4. CourseInv'
    BY <2>1, <2>2 DEF CourseInv, Resting, Modes
  <2> QED
    BY <1>3, <1>4, <2>2, <2>3, <2>4, Calm DEF OrderInv
<1> QED
  BY <1>5, <1>6
-----------------------------------------------------------------------------
(* Every step. *)

LEMMA StutterKeeps ==
    ASSUME OrderInv, UNCHANGED vars
    PROVE  OrderInv'
<1>1. UNCHANGED <<doc, fed, streams, lastUnit, results, pc, buffer, mode, pos, rest, framed, dm,
                  component, entries, paths>>
  BY DEF vars, feed, receiver, parser, plugin
<1>2. Told' = Told
  BY <1>1 DEF Told
<1>3. FeedInv' /\ ResultsInv' /\ BufferInv' /\ ShapeInv' /\ CourseInv'
  BY <1>1 DEF OrderInv, FeedInv, ResultsInv, BufferInv, ShapeInv, CourseInv
<1>4. FrameInv'
  BY <1>1, <1>2 DEF OrderInv, FrameInv
<1>5. CarriedInv'
  BY <1>1, <1>2 DEF OrderInv, CarriedInv, ComponentOn, EntryOn, FieldOn, From
<1>6. AheadInv'
  BY <1>1, <1>2 DEF OrderInv, AheadInv, From, Free
<1> QED
  BY <1>3, <1>4, <1>5, <1>6 DEF OrderInv

LEMMA ProcessKeeps ==
    ASSUME OrderInv, Process
    PROVE  OrderInv'
<1>1. ASSUME NEW t \in Types, DriveComponent(t) \/ DriveEntries(t) PROVE OrderInv'
  BY <1>1, DriveComponentKeeps, DriveEntriesKeeps
<1>2. CASE DriveLoop
  BY <1>2, DriveLoopKeeps
<1>3. CASE EventUnknown \/ EventComponents \/ EventWhole
  BY <1>3, EventUnknownKeeps, EventComponentsKeeps, EventWholeKeeps
<1>4. CASE StartStreamingComponents \/ StartStreamingDataModel
  BY <1>4, StartStreamingComponentsKeeps, StartStreamingDataModelKeeps
<1>5. ASSUME NEW t \in Types, PluginTakesData(t) PROVE OrderInv'
  BY <1>5, PluginTakesDataKeeps
<1>6. CASE EventsWait
  BY <1>6, EventsWaitKeeps
<1>7. CASE NextComponent \/ ComponentsEnd \/ ComponentsCutShort \/ ComponentsWait
  BY <1>7, NextComponentKeeps, ComponentsEndKeeps, ComponentsCutShortKeeps, ComponentsWaitKeeps
<1>8. ASSUME NEW t \in Types, PluginTakesComponent(t) PROVE OrderInv'
  BY <1>8, PluginTakesComponentKeeps
<1>9. CASE OpenValue \/ CloseValue \/ StreamedField \/ AtomField \/ DataWait
  BY <1>9, OpenValueKeeps, CloseValueKeeps, StreamedFieldKeeps, AtomFieldKeeps, DataWaitKeeps
<1>10. CASE ContinueField \/ DataEnd
  BY <1>10, ContinueFieldKeeps, DataEndKeeps
<1>11. CASE Dispatch \/ ChunkDone
  BY <1>11, DispatchKeeps, ChunkDoneKeeps
<1> QED
  BY <1>1, <1>2, <1>3, <1>4, <1>5, <1>6, <1>7, <1>8, <1>9, <1>10, <1>11 DEF Process

LEMMA NextKeeps ==
    ASSUME OrderInv, [Next]_vars
    PROVE  OrderInv'
<1>1. CASE Begin \/ End
  BY <1>1, BeginKeeps, EndKeeps
<1>2. ASSUME NEW n \in 1..(Len(doc) - fed), Receive(n) PROVE OrderInv'
  BY <1>2, ReceiveKeeps
<1>3. CASE Process
  BY <1>3, ProcessKeeps
<1>4. CASE UNCHANGED vars
  BY <1>4, StutterKeeps
<1> QED
  BY <1>1, <1>2, <1>3, <1>4 DEF Next

LEMMA OrderIs ==
    ASSUME OrderInv
    PROVE  InDocumentOrder
<1>1. IsSeq(results) /\ Rising(results) /\ \A i \in DOMAIN results : results[i].at \in lastUnit..fed
  BY DEF OrderInv, ResultsInv, Tells
<1>2. DOMAIN results = 1..Len(results) /\ Len(results) \in Nat /\ results \in Seq(ToSet(results))
  BY <1>1, SetOf DEF IsSeq
<1>3. \A i, j \in DOMAIN results : i < j => results[i].at <= results[j].at
  BY <1>1, <1>2 DEF Rising
<1>4. ASSUME results # <<>> PROVE lastUnit <= results[1].at
  <2>1. 1 \in DOMAIN results
    BY <1>2, <1>4
  <2>2. lastUnit \in Nat
    BY DEF OrderInv, ResultsInv, Tells
  <2> QED
    BY <1>1, <2>1, <2>2
<1> QED
  BY <1>3, <1>4 DEF InDocumentOrder

\* Whatever the documents, however they are cut and however small the buffer
\* (chunks that do not fit are dropped), a message is never taken from a place
\* in front of one already taken: parser, both plugins and the batched
\* dispatch keep the order of the text (processDataAssembling(),
\* driveParser(), dispatchParseResultsBatched()).
THEOREM MessagesKeepTheOrder == Spec => []InDocumentOrder
<1>1. Init => OrderInv
  BY InitKeeps
<1>2. OrderInv /\ [Next]_vars => OrderInv'
  BY NextKeeps
<1>3. OrderInv => InDocumentOrder
  BY OrderIs
<1> QED
  BY <1>1, <1>2, <1>3, PTL DEF Spec
=============================================================================
