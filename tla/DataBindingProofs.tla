-------------------------- MODULE DataBindingProofs --------------------------
(***************************************************************************)
(* The bindings, the list and the screen follow the data, for any number of  *)
(* elements, any paths the template is bound to and any number of changes.   *)
(*                                                                          *)
(* The three invariants are about the quiet moments between two calls; in    *)
(* the middle of a call they are false, so each is strengthened by what is   *)
(* still owed: the observers a notification has still to call (ToBeTold) and *)
(* the marks that are still to be flushed.                                   *)
(*   BoundInv    the table holds the observers of the live components, at    *)
(*               any time.                                                  *)
(*   ListInv     the children are the first elements; one too few or one too *)
(*               many only while the list is still to be told.               *)
(*   ScreenInv   the last snapshot of a component differs from what would be *)
(*               built now only in what is marked or told, and it is what    *)
(*               the tree shows, or what waits as an orphan.                 *)
(***************************************************************************)
EXTENDS DataBinding, FiniteSetTheorems, SequenceTheorems, WellFoundedInduction, TLAPS

Marks    == AllPaths \cup {"all", "children"}
Statuses == {"None", "NotDependent", "FullyReady", "NotReady", "PartiallyReady"}
Models   == [alive : SUBSET Ids, table : [AllPaths -> SUBSET Ids], made : [Ids -> Nat], kids : Seq(ToSet(Items)),
             dirty : [Ids -> SUBSET Marks], append : SUBSET Ids, order : Seq(Ids), index : SUBSET Ids]
-----------------------------------------------------------------------------
(* Sequences. *)

\* Two sequences one after the other.
LEMMA Joined ==
    ASSUME NEW T, NEW s \in Seq(T), NEW t \in Seq(T)
    PROVE  /\ s \o t \in Seq(T) /\ Len(s \o t) = Len(s) + Len(t) /\ Len(s) \in Nat /\ Len(t) \in Nat
           /\ DOMAIN s = 1..Len(s) /\ DOMAIN t = 1..Len(t) /\ DOMAIN (s \o t) = 1..(Len(s) + Len(t))
           /\ \A i \in 1..Len(s) : (s \o t)[i] = s[i]
           /\ \A i \in 1..Len(t) : (s \o t)[Len(s) + i] = t[i]
           /\ ToSet(s \o t) = ToSet(s) \cup ToSet(t)
<1>1. s \o t \in Seq(T) /\ Len(s \o t) = Len(s) + Len(t) /\ Len(s) \in Nat /\ Len(t) \in Nat
  OBVIOUS
<1>2. /\ \A i \in 1..Len(s) : (s \o t)[i] = s[i]
      /\ \A i \in 1..Len(t) : (s \o t)[Len(s) + i] = t[i]
      /\ DOMAIN s = 1..Len(s) /\ DOMAIN t = 1..Len(t) /\ DOMAIN (s \o t) = 1..(Len(s) + Len(t))
  BY <1>1
<1>3. \A i \in 1..(Len(s) + Len(t)) : i \in 1..Len(s) \/ (i - Len(s) \in 1..Len(t) /\ i = Len(s) + (i - Len(s)))
  BY <1>1
<1>4. ToSet(s \o t) \subseteq ToSet(s) \cup ToSet(t)
  BY <1>2, <1>3 DEF ToSet
<1>5. \A i \in 1..Len(s) : i \in 1..(Len(s) + Len(t))
  BY <1>1
<1>6. \A i \in 1..Len(t) : Len(s) + i \in 1..(Len(s) + Len(t))
  BY <1>1
<1>7. ToSet(s) \subseteq ToSet(s \o t)
  BY <1>2, <1>5 DEF ToSet
<1>8. ToSet(t) \subseteq ToSet(s \o t)
  BY <1>2, <1>6 DEF ToSet
<1> QED
  BY <1>1, <1>2, <1>4, <1>7, <1>8

\* The elements of a sequence.
LEMMA SetOf ==
    /\ \A s : \A i \in DOMAIN s : s[i] \in ToSet(s)
    /\ \A s, T : s \in Seq(T) <=> s \in Seq(ToSet(s)) /\ ToSet(s) \subseteq T
    /\ ToSet(<<>>) = {}
    /\ \A c : ToSet(<<c>>) = {c}
<1>1. \A s : \A i \in DOMAIN s : s[i] \in ToSet(s)
  BY DEF ToSet
<1>2. ASSUME NEW s, NEW T, s \in Seq(T) PROVE s \in Seq(ToSet(s)) /\ ToSet(s) \subseteq T
  BY <1>2 DEF ToSet
<1>3. ASSUME NEW s, NEW T, s \in Seq(ToSet(s)), ToSet(s) \subseteq T PROVE s \in Seq(T)
  BY <1>3
<1>4. ToSet(<<>>) = {} /\ \A c : ToSet(<<c>>) = {c}
  BY DEF ToSet
<1> QED
  BY <1>1, <1>2, <1>3, <1>4

-----------------------------------------------------------------------------
(* The paths and the ids. *)

\* The entries of the binding table, in order.
LEMMA PathsAre ==
    /\ Len(Paths) = Len(Cells) + 2 /\ DOMAIN Paths = 1..(Len(Cells) + 2) /\ Len(Cells) \in Nat
    /\ Paths[1] = "/items" /\ Paths[Len(Cells) + 2] = "/title"
    /\ \A i \in DOMAIN Cells : Paths[i + 1] = Cells[i]
    /\ DOMAIN Cells = 1..Len(Cells)
    /\ AllPaths = {"/items", "/title"} \cup ToSet(Cells)
    /\ {"all", "children", "/"} \cap AllPaths = {}
<1> DEFINE T == ToSet(Cells) \cup {"/items", "/title"}
<1>1. Cells \in Seq(T) /\ Len(Cells) \in Nat /\ DOMAIN Cells = 1..Len(Cells)
  BY BindingAssumption DEF BindingAssumption
<1> DEFINE one == <<"/items">>
           two == <<"/title">>
<1>2. one \in Seq(T) /\ two \in Seq(T) /\ Len(one) = 1 /\ Len(two) = 1 /\ one[1] = "/items" /\ two[1] = "/title"
  OBVIOUS
<1> HIDE DEF one, two, T
<1>3. Paths = (one \o Cells) \o two
  BY DEF Paths, one, two
<1>4. /\ one \o Cells \in Seq(T) /\ Len(one \o Cells) = Len(Cells) + 1
      /\ (one \o Cells)[1] = "/items" /\ \A i \in DOMAIN Cells : (one \o Cells)[i + 1] = Cells[i]
  BY <1>1, <1>2, Joined
<1>5. /\ Len(Paths) = Len(Cells) + 2 /\ Paths \in Seq(T)
      /\ \A i \in 1..(Len(Cells) + 1) : Paths[i] = (one \o Cells)[i]
      /\ Paths[Len(Cells) + 2] = "/title"
  BY <1>1, <1>2, <1>3, <1>4, Joined, (Len(Cells) + 1) + 1 = Len(Cells) + 2
<1>6. /\ DOMAIN Paths = 1..(Len(Cells) + 2) /\ Paths[1] = "/items"
      /\ \A i \in DOMAIN Cells : Paths[i + 1] = Cells[i]
  <2>1. DOMAIN Paths = 1..(Len(Cells) + 2)
    BY <1>5
  <2>2. 1 \in 1..(Len(Cells) + 1) /\ \A i \in DOMAIN Cells : i + 1 \in 1..(Len(Cells) + 1)
    BY <1>1
  <2> QED
    BY <2>1, <2>2, <1>4, <1>5
<1>7. AllPaths = {"/items", "/title"} \cup ToSet(Cells)
  <2>1. ASSUME NEW i \in DOMAIN Paths
        PROVE  i = 1 \/ i = Len(Cells) + 2 \/ ((i - 1) \in DOMAIN Cells /\ Paths[i] = Cells[i - 1])
    BY <1>1, <1>6
  <2>2. AllPaths \subseteq {"/items", "/title"} \cup ToSet(Cells)
    BY <2>1, <1>5, <1>6 DEF AllPaths, ToSet
  <2>3. 1 \in DOMAIN Paths /\ Len(Cells) + 2 \in DOMAIN Paths /\ \A i \in DOMAIN Cells : i + 1 \in DOMAIN Paths
    BY <1>1, <1>6
  <2>4. {"/items", "/title"} \cup ToSet(Cells) \subseteq AllPaths
    BY <2>3, <1>5, <1>6 DEF AllPaths, ToSet
  <2> QED
    BY <2>2, <2>4
<1>8. {"all", "children", "/"} \cap AllPaths = {}
  BY <1>7, BindingAssumption DEF BindingAssumption
<1> QED
  BY <1>1, <1>5, <1>6, <1>7, <1>8

\* The ids: the items' and the fixed ones'.
LEMMA ItemsAre ==
    /\ Items \in Seq(ToSet(Items)) /\ Len(Items) \in Nat /\ DOMAIN Items = 1..Len(Items)
    /\ Ids = Fixed \cup ToSet(Items) /\ ToSet(Items) \cap Fixed = {}
    /\ \A n \in DOMAIN Items : Items[n] \in ToSet(Items)
    /\ \A k, n \in DOMAIN Items : Items[k] = Items[n] => k = n
    /\ \A c \in ToSet(Items) : Index(c) \in DOMAIN Items /\ Items[Index(c)] = c /\ Cells[Index(c)] \in ToSet(Cells)
<1>1. Items \in Seq(ToSet(Items)) /\ Len(Items) \in Nat /\ DOMAIN Items = 1..Len(Items) /\ DOMAIN Cells = DOMAIN Items
  BY BindingAssumption DEF BindingAssumption
<1>2. \A n \in DOMAIN Items : Items[n] \in ToSet(Items)
  BY DEF ToSet
<1>3. Items \in Seq(ToSet(Items))
  BY <1>1, <1>2
<1>4. \A c \in ToSet(Items) : \E n \in DOMAIN Items : Items[n] = c
  BY DEF ToSet
<1>5. \A c \in ToSet(Items) : Index(c) \in DOMAIN Items /\ Items[Index(c)] = c
  BY <1>4 DEF Index
<1> QED
  BY <1>1, <1>2, <1>3, <1>5, BindingAssumption DEF BindingAssumption, IsInjective, ToSet, Ids

\* Observers are bound to paths of the table.
LEMMA BoundIn == \A c : BoundPaths(c) \subseteq AllPaths
<1>1. \A c \in ToSet(Items) : Cells[Index(c)] \in ToSet(Cells)
  BY ItemsAre
<1> QED
  BY <1>1, PathsAre, BindingAssumption DEF BindingAssumption, BoundPaths, IsItem

\* A set of numbers has a least one.
LEMMA NatMinimum ==
    ASSUME NEW S \in SUBSET Nat, S # {}
    PROVE  \E n \in S : \A k \in S : n <= k
<1> DEFINE R == OpToRel(<, Nat)
<1>1. \A n, k \in Nat : n < k => <<n, k>> \in R
  BY DEF OpToRel
<1>2. IsWellFoundedOn(R, Nat)
  BY NatLessThanWellFounded
<1> HIDE DEF R
<1>3. PICK n \in S : \A k \in S : ~(<<k, n>> \in R)
  BY <1>2, WFMin
<1>4. \A k \in S : ~(k < n)
  BY <1>1, <1>3
<1> QED
  BY <1>4

\* What Among() leaves of a sequence is what it has of the set.
LEMMA AmongIs ==
    ASSUME NEW T, NEW seq \in Seq(T), NEW S
    PROVE  /\ Among(seq, S) \in Seq(T)
           /\ ToSet(Among(seq, S)) = ToSet(seq) \cap S
<1> DEFINE places  == {n \in DOMAIN seq : seq[n] \in S}
           Upto(n) == {k \in places : k <= n}
           Rank(n) == Cardinality(Upto(n))
           Spot(r) == CHOOSE n \in places : Rank(n) = r
<1>1. Len(seq) \in Nat /\ DOMAIN seq = 1..Len(seq) /\ places \subseteq 1..Len(seq)
  OBVIOUS
<1>2. IsFiniteSet(places) /\ Cardinality(places) \in Nat
  <2>1. IsFiniteSet(1..Len(seq))
    BY <1>1, FS_Interval
  <2> HIDE DEF places
  <2> QED
    BY <1>1, <2>1, FS_Subset, FS_CardinalityType
<1>3. ASSUME NEW n \in Nat
      PROVE  IsFiniteSet(Upto(n)) /\ Rank(n) \in Nat /\ Rank(n) <= Cardinality(places)
  <2>1. Upto(n) \subseteq places
    OBVIOUS
  <2> QED
    BY <1>2, <2>1, FS_Subset, FS_CardinalityType
<1>4. ASSUME NEW n \in Nat
      PROVE  Rank(n + 1) = IF n + 1 \in places THEN Rank(n) + 1 ELSE Rank(n)
  <2>1. CASE n + 1 \in places
    <3>1. Upto(n + 1) = Upto(n) \cup {n + 1} /\ n + 1 \notin Upto(n)
      BY <1>1, <2>1
    <3> QED
      BY <1>3, <2>1, <3>1, FS_AddElement
  <2>2. CASE n + 1 \notin places
    <3>1. Upto(n + 1) = Upto(n)
      BY <1>1, <2>2
    <3> QED
      BY <2>2, <3>1
  <2> QED
    BY <2>1, <2>2
<1>5. Rank(0) = 0 /\ Rank(Len(seq)) = Cardinality(places)
  <2>1. Upto(0) = {} /\ Upto(Len(seq)) = places
    BY <1>1
  <2> QED
    BY <2>1, FS_EmptySet
<1>6. ASSUME NEW n \in places, NEW k \in places, n < k
      PROVE  Rank(n) < Rank(k)
  <2>1. Upto(n) \subseteq Upto(k) /\ k \in Upto(k) /\ k \notin Upto(n) /\ n \in Nat /\ k \in Nat
    BY <1>1, <1>6
  <2>2. IsFiniteSet(Upto(k)) /\ Upto(n) # Upto(k) /\ Rank(n) \in Nat /\ Rank(k) \in Nat
    BY <2>1, <1>3
  <2>3. Rank(n) <= Rank(k) /\ Rank(n) # Rank(k)
    <3> HIDE DEF Upto
    <3> QED
      BY <2>1, <2>2, FS_Subset
  <2> HIDE DEF Rank
  <2> QED
    BY <2>2, <2>3
<1>7. ASSUME NEW n \in places PROVE Rank(n) \in 1..Cardinality(places) /\ Spot(Rank(n)) = n
  <2>1. n \in Upto(n) /\ n \in Nat /\ places \subseteq Nat
    BY <1>1
  <2>2. Rank(n) # 0
    BY <2>1, <1>3, FS_EmptySet
  <2>3. ASSUME NEW k \in places, Rank(k) = Rank(n) PROVE k = n
    <3>1. Rank(k) \in Nat /\ Rank(n) \in Nat /\ k \in Nat
      BY <1>3, <2>1
    <3>2. ~(n < k) /\ ~(k < n)
      <4> HIDE DEF Rank, places
      <4> QED
        BY <3>1, <2>3, <1>6
    <3> QED
      BY <3>1, <3>2, <2>1
  <2>4. Spot(Rank(n)) = n
    <3> HIDE DEF Rank, places
    <3> QED
      BY <2>3
  <2>5. Rank(n) \in Nat /\ Rank(n) <= Cardinality(places)
    BY <2>1, <1>3
  <2> HIDE DEF Rank, places, Spot
  <2> QED
    BY <2>2, <2>4, <2>5, <1>2
<1>8. ASSUME NEW r \in 1..Cardinality(places) PROVE Spot(r) \in places
  <2> DEFINE from == {n \in 0..Len(seq) : Rank(n) >= r}
  <2>1. Len(seq) \in from /\ from \subseteq Nat /\ r \in Nat /\ r >= 1
    BY <1>1, <1>2, <1>5
  <2>2. PICK n \in from : \A k \in from : n <= k
    BY <2>1, NatMinimum
  <2>3. n # 0 /\ n \in Nat /\ n - 1 \in Nat /\ n - 1 \in 0..Len(seq)
    <3>1. n \in 0..Len(seq) /\ Rank(n) >= r
      BY <2>2
    <3>2. n # 0
      <4> HIDE DEF Rank
      <4> QED
        BY <3>1, <1>5, <2>1
    <3> QED
      BY <3>1, <3>2, <1>1
  <2>4. Rank(n - 1) < r /\ Rank(n) >= r
    <3>1. n - 1 \notin from
      <4> HIDE DEF from
      <4> QED
        BY <2>1, <2>2, <2>3
    <3>2. Rank(n) >= r
      BY <2>2
    <3>3. ~(Rank(n - 1) >= r)
      BY <3>1, <2>3
    <3>4. Rank(n - 1) \in Nat
      BY <1>3, <2>3
    <3> HIDE DEF Rank
    <3> QED
      BY <2>1, <3>2, <3>3, <3>4
  <2>5. Rank(n) = IF n \in places THEN Rank(n - 1) + 1 ELSE Rank(n - 1)
    <3> HIDE DEF Rank, places
    <3>1. (n - 1) + 1 = n
      BY <2>3
    <3> QED
      BY <2>3, <3>1, <1>4
  <2>6. n \in places /\ Rank(n) = r
    <3>1. Rank(n) \in Nat /\ Rank(n - 1) \in Nat
      BY <1>3, <2>3
    <3> HIDE DEF Rank, places
    <3> QED
      BY <2>4, <2>5, <2>1, <3>1
  <2> HIDE DEF Rank, places
  <2> QED
    BY <2>6
<1>9. Among(seq, S) = [r \in 1..Cardinality(places) |-> seq[Spot(r)]]
  BY DEF Among
<1> HIDE DEF places, Spot, Rank
<1>10. \A n \in places : seq[n] \in T /\ seq[n] \in S /\ n \in DOMAIN seq
  BY DEF places
<1>11. Among(seq, S) \in Seq(T)
  BY <1>2, <1>8, <1>9, <1>10
<1>12. DOMAIN Among(seq, S) = 1..Cardinality(places) /\ \A r \in 1..Cardinality(places) : Among(seq, S)[r] = seq[Spot(r)]
  BY <1>9
<1>13. ToSet(Among(seq, S)) \subseteq ToSet(seq) \cap S
  BY <1>8, <1>10, <1>12 DEF ToSet
<1>14. ASSUME NEW k \in DOMAIN seq, seq[k] \in S PROVE seq[k] \in ToSet(Among(seq, S))
  <2>1. k \in places
    BY <1>14 DEF places
  <2> QED
    BY <2>1, <1>7, <1>12 DEF ToSet
<1> QED
  BY <1>11, <1>13, <1>14 DEF ToSet
\* What each component is bound to.
LEMMA BoundPathsAre ==
    /\ BoundPaths("text") = {"/title"} /\ BoundPaths("list") = {"/items"} /\ BoundPaths("tmpl") = Extra
    /\ BoundPaths("root") = {} /\ BoundPaths("card") = {}
    /\ \A c \in ToSet(Items) : BoundPaths(c) = {Cells[Index(c)]} \cup Extra /\ Cells[Index(c)] \in ToSet(Cells)
<1>1. \A c \in Fixed : ~IsItem(c)
  BY ItemsAre DEF IsItem
<1>2. \A c \in ToSet(Items) : c \notin Fixed /\ IsItem(c) /\ Cells[Index(c)] \in ToSet(Cells)
  BY ItemsAre DEF IsItem
<1> QED
  BY <1>1, <1>2 DEF BoundPaths, Fixed
-----------------------------------------------------------------------------
(* The operators on the components. *)

\* The type of the components, and what the dirty marks have to do with the
\* dirty queue.
Model(x) ==
    /\ x \in Models
    /\ x.index \subseteq ToSet(x.order) \cap x.alive
    /\ \A c \in x.alive : x.dirty[c] # {} => c \in x.index
    /\ \A c \in Ids : "all" \in x.dirty[c] => x.dirty[c] = {"all"}
    /\ x.append \subseteq {c \in x.alive : x.dirty[c] # {}}

\* onComponentChanged(): only the queue grows.
LEMMA EnqueueIs ==
    ASSUME NEW x \in Models, NEW cs \in Seq(Ids),
           NEW y, y = Enqueue(x, cs)
    PROVE  /\ y \in Models
           /\ y.alive = x.alive /\ y.table = x.table /\ y.kids = x.kids /\ y.made = x.made
           /\ y.dirty = x.dirty /\ y.append = x.append
           /\ y.index = x.index \cup (ToSet(cs) \cap x.alive)
           /\ ToSet(y.order) = ToSet(x.order) \cup (ToSet(cs) \cap (x.alive \ x.index))
<1> DEFINE new == Among(cs, x.alive \ x.index)
<1>1. new \in Seq(Ids) /\ ToSet(new) = ToSet(cs) \cap (x.alive \ x.index)
  BY AmongIs
<1>2. Enqueue(x, cs) = [x EXCEPT !.order = @ \o new, !.index = @ \cup ToSet(new)]
  BY DEF Enqueue
<1> HIDE DEF new
<1>3. x.order \in Seq(Ids) /\ x.index \in SUBSET Ids
  BY DEF Models
<1>4. x.order \o new \in Seq(Ids) /\ ToSet(x.order \o new) = ToSet(x.order) \cup ToSet(new)
  BY <1>1, <1>3, Joined
<1>5. ToSet(new) \in SUBSET Ids /\ x.index \cup ToSet(new) = x.index \cup (ToSet(cs) \cap x.alive)
  BY <1>1, <1>3, x.alive \in SUBSET Ids DEF Models
<1>6. /\ y \in Models /\ y.alive = x.alive /\ y.table = x.table /\ y.kids = x.kids /\ y.made = x.made
      /\ y.dirty = x.dirty /\ y.append = x.append
      /\ y.index = x.index \cup ToSet(new) /\ y.order = x.order \o new
  BY <1>2, <1>3, <1>4, <1>5 DEF Models
<1> QED
  BY <1>1, <1>4, <1>5, <1>6

\* The marks of a component after another one.
Marked(marks, attribute) ==
    IF attribute = "all" THEN {"all"} ELSE IF marks = {"all"} THEN marks ELSE marks \cup {attribute}

\* A mark more.
LEMMA MarkedIs ==
    ASSUME NEW marks \in SUBSET Marks, "all" \in marks => marks = {"all"}, NEW attribute \in Marks
    PROVE  /\ Marked(marks, attribute) \in SUBSET Marks /\ Marked(marks, attribute) # {}
           /\ "all" \in Marked(marks, attribute) => Marked(marks, attribute) = {"all"}
           /\ Marked(marks, attribute) = {"all"} \/ marks \cup {attribute} = Marked(marks, attribute)
           /\ attribute # "all" /\ Marked(marks, attribute) = {"all"} => marks = {"all"}
           /\ marks = {"all"} => Marked(marks, attribute) = {"all"}
<1>1. CASE attribute = "all"
  BY <1>1 DEF Marked, Marks
<1>2. CASE attribute # "all" /\ marks = {"all"}
  BY <1>2 DEF Marked, Marks
<1>3. CASE attribute # "all" /\ marks # {"all"}
  BY <1>3 DEF Marked, Marks
<1> QED
  BY <1>1, <1>2, <1>3

\* markDirty(): only the marks of the component change.
LEMMA MarkDirtyIs ==
    ASSUME NEW x \in Models, NEW c \in Ids, NEW attribute \in Marks, NEW mode,
           NEW y, y = MarkDirty(x, c, attribute, mode)
    PROVE  /\ y \in Models
           /\ y.alive = x.alive /\ y.table = x.table /\ y.kids = x.kids /\ y.made = x.made
           /\ y.order = x.order /\ y.index = x.index
           /\ \A k \in Ids \ {c} : y.dirty[k] = x.dirty[k]
           /\ y.dirty[c] = Marked(x.dirty[c], attribute)
           /\ y.append \subseteq x.append \cup {c}
<1> DEFINE owners == IF mode THEN x.append \cup {c} ELSE x.append
<1>1. x.dirty \in [Ids -> SUBSET Marks] /\ x.append \in SUBSET Ids
  BY DEF Models
<1>2. Marked(x.dirty[c], attribute) \in SUBSET Marks /\ owners \in SUBSET Ids
  BY <1>1 DEF Marked, Marks
<1>3. MarkDirty(x, c, attribute, mode) = [x EXCEPT !.dirty = [@ EXCEPT ![c] = Marked(x.dirty[c], attribute)], !.append = owners]
  BY <1>1 DEF MarkDirty, Marked, Models
<1>4. [x.dirty EXCEPT ![c] = Marked(x.dirty[c], attribute)] \in [Ids -> SUBSET Marks]
  BY <1>1, <1>2
<1>5. owners \subseteq x.append \cup {c}
  OBVIOUS
<1> HIDE DEF owners
<1>6. /\ y \in Models /\ y.alive = x.alive /\ y.table = x.table /\ y.kids = x.kids /\ y.made = x.made
      /\ y.order = x.order /\ y.index = x.index
      /\ y.append = owners /\ y.dirty = [x.dirty EXCEPT ![c] = Marked(x.dirty[c], attribute)]
  BY <1>2, <1>3, <1>4 DEF Models
<1> QED
  BY <1>1, <1>5, <1>6 DEF owners

\* A component gets its mark; a live one is in the queue.
LEMMA NotifyIs ==
    ASSUME NEW x, Model(x), NEW c \in Ids, NEW attribute \in Marks, NEW mode,
           NEW y, y = NotifyComponentChange(x, c, attribute, mode), c \in x.alive \/ y.append = x.append
    PROVE  /\ Model(y)
           /\ y.alive = x.alive /\ y.table = x.table /\ y.kids = x.kids /\ y.made = x.made
           /\ \A k \in Ids \ {c} : y.dirty[k] = x.dirty[k]
           /\ y.dirty[c] = Marked(x.dirty[c], attribute)
<1>0. PICK z : z = MarkDirty(x, c, attribute, mode)
  OBVIOUS
<1>1. x \in Models /\ x.alive \in SUBSET Ids /\ x.dirty \in [Ids -> SUBSET Marks]
  BY DEF Model, Models
<1>2. /\ z \in Models /\ z.alive = x.alive /\ z.table = x.table /\ z.kids = x.kids /\ z.made = x.made
      /\ z.order = x.order /\ z.index = x.index
      /\ \A k \in Ids \ {c} : z.dirty[k] = x.dirty[k]
      /\ z.dirty[c] = Marked(x.dirty[c], attribute)
      /\ z.append \subseteq x.append \cup {c}
  BY <1>0, <1>1, MarkDirtyIs
<1> DEFINE one == <<c>>
<1>3. y = Enqueue(z, one) /\ one \in Seq(Ids) /\ ToSet(one) = {c}
  BY <1>0, <1>1, SetOf DEF NotifyComponentChange
<1> HIDE DEF one
<1>4. /\ y \in Models /\ y.alive = z.alive /\ y.table = z.table /\ y.kids = z.kids /\ y.made = z.made
      /\ y.dirty = z.dirty /\ y.append = z.append
      /\ y.index = z.index \cup ({c} \cap z.alive)
      /\ ToSet(y.order) = ToSet(z.order) \cup ({c} \cap (z.alive \ z.index))
  <2>1. z \in Models
    BY <1>2
  <2> QED
    BY <2>1, <1>3, EnqueueIs
<1>5. /\ x.index \subseteq ToSet(x.order) \cap x.alive
      /\ \A k \in x.alive : x.dirty[k] # {} => k \in x.index
      /\ \A k \in Ids : "all" \in x.dirty[k] => x.dirty[k] = {"all"}
      /\ x.append \subseteq {k \in x.alive : x.dirty[k] # {}}
  BY DEF Model
<1>6. y.index \subseteq ToSet(y.order) \cap y.alive
  BY <1>2, <1>4, <1>5
<1>7. \A k \in y.alive : y.dirty[k] # {} => k \in y.index
  BY <1>1, <1>2, <1>4, <1>5
<1>8. y.dirty[c] # {} /\ ("all" \in y.dirty[c] => y.dirty[c] = {"all"})
  BY <1>1, <1>2, <1>4, <1>5, MarkedIs
<1>9. \A k \in Ids : "all" \in y.dirty[k] => y.dirty[k] = {"all"}
  BY <1>2, <1>4, <1>5, <1>8
<1>10. y.append \subseteq {k \in y.alive : y.dirty[k] # {}}
  BY <1>1, <1>2, <1>4, <1>5, <1>8
<1>11. Model(y)
  BY <1>4, <1>6, <1>7, <1>9, <1>10 DEF Model
<1> QED
  BY <1>2, <1>4, <1>11

\* The components cs are there, dirty as a whole, and bound.
LEMMA AddedIs ==
    ASSUME NEW x, Model(x), NEW cs \in Seq(Ids),
           NEW y, y = AddComponents(x, cs)
    PROVE  /\ Model(y)
           /\ y.alive = x.alive \cup ToSet(cs) /\ y.kids = x.kids /\ y.made = x.made
           /\ \A k \in Ids : y.dirty[k] = IF k \in ToSet(cs) THEN {"all"} ELSE x.dirty[k]
           /\ \A p \in AllPaths : y.table[p] = (x.table[p] \ ToSet(cs)) \cup {c \in ToSet(cs) : p \in BoundPaths(c)}
<1> DEFINE alive  == x.alive \cup ToSet(cs)
           append == x.append \ ToSet(cs)
           dirty  == [c \in Ids |-> IF c \in ToSet(cs) THEN {"all"} ELSE x.dirty[c]]
           table  == [p \in AllPaths |-> (x.table[p] \ ToSet(cs)) \cup {c \in ToSet(cs) : p \in BoundPaths(c)}]
<1>1. x \in Models /\ ToSet(cs) \subseteq Ids
  BY SetOf DEF Model
<1>2. PICK z : z = [x EXCEPT !.alive = alive, !.append = append, !.dirty = dirty, !.table = table]
  OBVIOUS
<1>3. y = Enqueue(z, cs)
  BY <1>1, <1>2 DEF AddComponents, Models
<1>4. /\ alive \in SUBSET Ids /\ append \in SUBSET Ids /\ table \in [AllPaths -> SUBSET Ids]
      /\ dirty \in [Ids -> SUBSET Marks]
  <2>1. x.alive \in SUBSET Ids /\ x.append \in SUBSET Ids /\ x.table \in [AllPaths -> SUBSET Ids] /\ x.dirty \in [Ids -> SUBSET Marks]
    BY <1>1 DEF Models
  <2>2. {"all"} \in SUBSET Marks
    BY DEF Marks
  <2>3. dirty \in [Ids -> SUBSET Marks]
    BY <2>1, <2>2
  <2>4. table \in [AllPaths -> SUBSET Ids]
    BY <1>1, <2>1
  <2> QED
    BY <1>1, <2>1, <2>3, <2>4
<1>5. /\ z \in Models /\ z.alive = alive /\ z.append = append /\ z.dirty = dirty /\ z.table = table
      /\ z.kids = x.kids /\ z.made = x.made /\ z.order = x.order /\ z.index = x.index
  <2> HIDE DEF alive, append, dirty, table
  <2> QED
    BY <1>1, <1>2, <1>4 DEF Models
<1>6. /\ y \in Models /\ y.alive = alive /\ y.table = table /\ y.kids = x.kids /\ y.made = x.made
      /\ y.dirty = dirty /\ y.append = append
      /\ y.index = x.index \cup (ToSet(cs) \cap alive)
      /\ ToSet(y.order) = ToSet(x.order) \cup (ToSet(cs) \cap (alive \ x.index))
  <2> HIDE DEF alive, append, dirty, table
  <2> QED
    BY <1>3, <1>5, EnqueueIs
<1>7. /\ x.index \subseteq ToSet(x.order) \cap x.alive
      /\ \A k \in x.alive : x.dirty[k] # {} => k \in x.index
      /\ \A k \in Ids : "all" \in x.dirty[k] => x.dirty[k] = {"all"}
      /\ x.append \subseteq {k \in x.alive : x.dirty[k] # {}}
  BY DEF Model
<1>8. \A k \in Ids : y.dirty[k] = IF k \in ToSet(cs) THEN {"all"} ELSE x.dirty[k]
  BY <1>6
<1>9. y.index \subseteq ToSet(y.order) \cap y.alive
  BY <1>6, <1>7
<1>10. x.alive \in SUBSET Ids /\ x.append \in SUBSET Ids
  BY <1>1 DEF Models
<1>11. \A k \in y.alive : y.dirty[k] # {} => k \in y.index
  BY <1>1, <1>6, <1>7, <1>8, <1>10
<1>12. \A k \in Ids : "all" \in y.dirty[k] => y.dirty[k] = {"all"}
  BY <1>7, <1>8
<1>13. y.append \subseteq {k \in y.alive : y.dirty[k] # {}}
  BY <1>6, <1>7, <1>8, <1>10
<1>14. Model(y)
  BY <1>6, <1>9, <1>11, <1>12, <1>13 DEF Model
<1> QED
  BY <1>6, <1>8, <1>14

\* The components C are gone, and so are their bindings.
LEMMA DeletedIs ==
    ASSUME NEW x, Model(x), NEW C \in SUBSET Ids,
           NEW y, y = OnComponentDeleted(x, C)
    PROVE  /\ Model(y)
           /\ y.alive = x.alive \ C /\ y.kids = x.kids /\ y.made = x.made
           /\ \A k \in Ids : y.dirty[k] = IF k \in C THEN {} ELSE x.dirty[k]
           /\ \A p \in AllPaths : y.table[p] = x.table[p] \ C
<1> DEFINE alive  == x.alive \ C
           index  == x.index \ C
           append == x.append \ C
           dirty  == [c \in Ids |-> IF c \in C THEN {} ELSE x.dirty[c]]
           table  == [p \in AllPaths |-> x.table[p] \ C]
<1>1. x \in Models
  BY DEF Model
<1>2. y = [x EXCEPT !.alive = alive, !.index = index, !.append = append, !.dirty = dirty, !.table = table]
  BY <1>1 DEF OnComponentDeleted, Models
<1>3. /\ x.table \in [AllPaths -> SUBSET Ids] /\ x.dirty \in [Ids -> SUBSET Marks]
      /\ alive \in SUBSET Ids /\ index \in SUBSET Ids /\ append \in SUBSET Ids
  BY <1>1 DEF Models
<1>4. dirty \in [Ids -> SUBSET Marks]
  BY <1>3
<1>5. table \in [AllPaths -> SUBSET Ids]
  BY <1>3
<1>6. /\ y \in Models /\ y.alive = alive /\ y.index = index /\ y.append = append
      /\ y.dirty = dirty /\ y.table = table /\ y.kids = x.kids /\ y.made = x.made /\ y.order = x.order
  <2> HIDE DEF alive, index, append, dirty, table
  <2> QED
    BY <1>1, <1>2, <1>3, <1>4, <1>5 DEF Models
<1>7. /\ x.index \subseteq ToSet(x.order) \cap x.alive
      /\ \A k \in x.alive : x.dirty[k] # {} => k \in x.index
      /\ \A k \in Ids : "all" \in x.dirty[k] => x.dirty[k] = {"all"}
      /\ x.append \subseteq {k \in x.alive : x.dirty[k] # {}}
      /\ x.alive \in SUBSET Ids
  BY <1>1 DEF Model, Models
<1>8. \A k \in Ids : y.dirty[k] = IF k \in C THEN {} ELSE x.dirty[k]
  BY <1>6
<1>9. y.index \subseteq ToSet(y.order) \cap y.alive
  BY <1>6, <1>7
<1>10. \A k \in y.alive : y.dirty[k] # {} => k \in y.index
  BY <1>6, <1>7, <1>8
<1>11. \A k \in Ids : "all" \in y.dirty[k] => y.dirty[k] = {"all"}
  BY <1>7, <1>8
<1>12. y.append \subseteq {k \in y.alive : y.dirty[k] # {}}
  BY <1>6, <1>7, <1>8
<1>13. Model(y)
  BY <1>6, <1>9, <1>10, <1>11, <1>12 DEF Model
<1> QED
  BY <1>6, <1>8, <1>13

\* The observers of C take their places in the table; the template may lose its.
Rebound(x, y, C) ==
    \A p \in AllPaths :
        /\ y.table[p] \subseteq (x.table[p] \ C) \cup {c \in C : p \in BoundPaths(c)}
        /\ ((x.table[p] \ C) \cup {c \in C : p \in BoundPaths(c)}) \ {"tmpl"} \subseteq y.table[p]

\* The clones cs are added; the template may lose its place in the table.
LEMMA GeneratedIs ==
    ASSUME NEW x, Model(x), NEW cs \in Seq(Ids),
           NEW y, y = GenerateComponentWithTemplate(x, cs)
    PROVE  /\ Model(y)
           /\ y.alive = x.alive \cup ToSet(cs) /\ y.kids = x.kids /\ \A k \in Ids \ ToSet(cs) : y.made[k] = x.made[k]
           /\ \A k \in Ids : y.dirty[k] = IF k \in ToSet(cs) THEN {"all"} ELSE x.dirty[k]
           /\ Rebound(x, y, ToSet(cs))
<1>1. x \in Models
  BY DEF Model
<1>2. CASE cs = <<>>
  <2>1. y = x /\ ToSet(cs) = {}
    BY <1>2, SetOf DEF GenerateComponentWithTemplate
  <2>2. Rebound(x, y, ToSet(cs))
    BY <2>1 DEF Rebound
  <2> QED
    BY <2>1, <2>2, <1>1
<1>3. CASE cs # <<>>
  <2> DEFINE table == [p \in AllPaths |-> IF p \in Extra THEN x.table[p] \ {"tmpl"} ELSE x.table[p]]
             made  == [c \in Ids |-> IF c \in ToSet(cs) THEN x.made["tmpl"] ELSE x.made[c]]
  <2>1. PICK z : z = [x EXCEPT !.table = table, !.made = made]
    OBVIOUS
  <2>2. x.table \in [AllPaths -> SUBSET Ids] /\ x.made \in [Ids -> Nat] /\ "tmpl" \in Ids
    BY <1>1, ItemsAre DEF Models, Fixed
  <2>3. y = AddComponents(z, cs)
    BY <1>1, <1>3, <2>1 DEF GenerateComponentWithTemplate, Models
  <2>4. table \in [AllPaths -> SUBSET Ids] /\ made \in [Ids -> Nat]
    BY <2>2
  <2>5. /\ \A p \in AllPaths : table[p] \subseteq x.table[p] /\ x.table[p] \ {"tmpl"} \subseteq table[p]
        /\ \A k \in Ids \ ToSet(cs) : made[k] = x.made[k]
    BY <2>2
  <2> HIDE DEF table, made
  <2>6. /\ z \in Models /\ z.alive = x.alive /\ z.index = x.index /\ z.append = x.append
        /\ z.dirty = x.dirty /\ z.table = table /\ z.kids = x.kids /\ z.made = made /\ z.order = x.order
    BY <1>1, <2>1, <2>4 DEF Models
  <2>7. Model(z)
    BY <2>6 DEF Model
  <2>8. /\ Model(y) /\ y.alive = z.alive \cup ToSet(cs) /\ y.kids = z.kids /\ y.made = z.made
        /\ \A k \in Ids : y.dirty[k] = IF k \in ToSet(cs) THEN {"all"} ELSE z.dirty[k]
        /\ \A p \in AllPaths : y.table[p] = (z.table[p] \ ToSet(cs)) \cup {c \in ToSet(cs) : p \in BoundPaths(c)}
    BY <2>3, <2>7, AddedIs
  <2>9. ASSUME NEW p \in AllPaths
        PROVE  /\ y.table[p] \subseteq (x.table[p] \ ToSet(cs)) \cup {c \in ToSet(cs) : p \in BoundPaths(c)}
               /\ ((x.table[p] \ ToSet(cs)) \cup {c \in ToSet(cs) : p \in BoundPaths(c)}) \ {"tmpl"} \subseteq y.table[p]
    <3>1. y.table[p] = (table[p] \ ToSet(cs)) \cup {c \in ToSet(cs) : p \in BoundPaths(c)}
      BY <2>6, <2>8
    <3> QED
      BY <3>1, <2>5
  <2>10. Rebound(x, y, ToSet(cs))
    BY <2>9 DEF Rebound
  <2> QED
    BY <2>5, <2>6, <2>8, <2>10
<1> QED
  BY <1>2, <1>3
-----------------------------------------------------------------------------
(* What a list that is brought up to date leaves as it was. *)

Cell == {<<p>> : p \in Pieces}

DataOK ==
    /\ data \in [has : SUBSET {"/items", "/title"}, title : Seq(Pieces), items : Seq(Cell)]
    /\ Len(data.items) <= Len(Items)
    /\ data.items # <<>> => "/items" \in data.has

\* The binding table holds the observers of the live components, but perhaps
\* for the template's.
Bound(x) ==
    \A p \in AllPaths :
        /\ x.table[p] \subseteq {c \in x.alive : p \in BoundPaths(c)}
        /\ {c \in x.alive \ {"tmpl"} : p \in BoundPaths(c)} \subseteq x.table[p]

KidsOK(x) == x.kids # <<>> => "tmpl" \in x.alive /\ "/items" \in data.has

\* The children are the first items, and there.
FirstItems(x) ==
    /\ Len(x.kids) <= Len(Items) /\ \A i \in 1..Len(x.kids) : x.kids[i] = Items[i]
    /\ ToSet(x.kids) \subseteq x.alive

\* c has a snapshot that still counts.
Known(x, c) == c \in x.alive /\ x.dirty[c] # {"all"}

\* From x to y some components were added, replaced or deleted.
Remade(x, y) ==
    /\ Model(y) /\ (Bound(x) => Bound(y)) /\ (KidsOK(x) => KidsOK(y))
    /\ x.alive \cap Fixed \subseteq y.alive
    /\ \A c \in Ids : Known(y, c) => Known(x, c) /\ x.dirty[c] \subseteq y.dirty[c] /\ y.made[c] = x.made[c]
    /\ \A c \in ToSet(y.kids) : Known(y, c) => c \in ToSet(x.kids)

\* What is remade twice is remade.
LEMMA RemadeAgain ==
    ASSUME NEW x, NEW y, NEW z, Remade(x, y), Remade(y, z)
    PROVE  Remade(x, z)
<1>1. Model(z) /\ (Bound(x) => Bound(z)) /\ (KidsOK(x) => KidsOK(z)) /\ x.alive \cap Fixed \subseteq z.alive
  BY DEF Remade
<1>2. \A c \in Ids : Known(z, c) => Known(x, c) /\ x.dirty[c] \subseteq z.dirty[c] /\ z.made[c] = x.made[c]
  BY DEF Remade
<1>3. ToSet(z.kids) \subseteq Ids
  <2>1. z.kids \in Seq(ToSet(Items))
    BY <1>1 DEF Model, Models
  <2> QED
    BY <2>1, SetOf, ItemsAre
<1>4. \A c \in ToSet(z.kids) : Known(z, c) => c \in ToSet(x.kids)
  BY <1>3 DEF Remade
<1> QED
  BY <1>1, <1>2, <1>4 DEF Remade

\* What adding, replacing and deleting does to the bindings.
LEMMA AddedBound ==
    ASSUME NEW x, NEW y, NEW C, Bound(x), y.alive = x.alive \cup C, Rebound(x, y, C)
    PROVE  Bound(y)
<1> SUFFICES ASSUME NEW p \in AllPaths
             PROVE  /\ y.table[p] \subseteq {c \in y.alive : p \in BoundPaths(c)}
                    /\ {c \in y.alive \ {"tmpl"} : p \in BoundPaths(c)} \subseteq y.table[p]
  BY DEF Bound
<1>1. /\ x.table[p] \subseteq {c \in x.alive : p \in BoundPaths(c)}
      /\ {c \in x.alive \ {"tmpl"} : p \in BoundPaths(c)} \subseteq x.table[p]
  BY DEF Bound
<1>2. /\ y.table[p] \subseteq (x.table[p] \ C) \cup {c \in C : p \in BoundPaths(c)}
      /\ ((x.table[p] \ C) \cup {c \in C : p \in BoundPaths(c)}) \ {"tmpl"} \subseteq y.table[p]
  BY DEF Rebound
<1>3. y.table[p] \subseteq {c \in y.alive : p \in BoundPaths(c)}
  BY <1>1, <1>2
<1>4. ASSUME NEW c \in y.alive, c # "tmpl", p \in BoundPaths(c) PROVE c \in y.table[p]
  BY <1>1, <1>2, <1>4
<1> QED
  BY <1>3, <1>4

\* A component that is added is remade: addComponent().
LEMMA AddedRemade ==
    ASSUME NEW x, Model(x), NEW cs \in Seq(Ids),
           NEW y, y = AddComponents(x, cs)
    PROVE  Remade(x, y)
<1>1. /\ Model(y)
      /\ y.alive = x.alive \cup ToSet(cs) /\ y.kids = x.kids /\ y.made = x.made
      /\ \A k \in Ids : y.dirty[k] = IF k \in ToSet(cs) THEN {"all"} ELSE x.dirty[k]
      /\ \A p \in AllPaths : y.table[p] = (x.table[p] \ ToSet(cs)) \cup {c \in ToSet(cs) : p \in BoundPaths(c)}
  BY AddedIs
<1>2. Bound(x) => Bound(y)
  <2>1. Rebound(x, y, ToSet(cs))
    BY <1>1 DEF Rebound
  <2> QED
    BY <1>1, <2>1, AddedBound
<1>3. KidsOK(x) => KidsOK(y)
  BY <1>1 DEF KidsOK
<1>4. \A c \in Ids : Known(y, c) => Known(x, c) /\ x.dirty[c] \subseteq y.dirty[c] /\ y.made[c] = x.made[c]
  BY <1>1 DEF Known
<1> QED
  BY <1>1, <1>2, <1>3, <1>4 DEF Remade

\* The list gets the children it lacks, if there is a template.
LEMMA GrownIs ==
    ASSUME NEW x, Model(x), DataOK, "/items" \in data.has,
           NEW y, y = Grow(x)
    PROVE  /\ Remade(x, y) /\ y.dirty["list"] = x.dirty["list"] /\ y.alive \cap Fixed = x.alive \cap Fixed
           /\ Len(x.kids) >= Len(data.items) => y.kids = x.kids /\ y.alive = x.alive
           /\ FirstItems(x) => FirstItems(y)
           /\ Len(x.kids) <= Len(data.items) /\ "tmpl" \in x.alive => Len(y.kids) = Len(data.items)
<1> DEFINE n    == Len(data.items)
           from == Len(x.kids) + 1
           new  == IF "tmpl" \in x.alive THEN SubSeq(Items, from, n) ELSE <<>>
<1>1. /\ x \in Models /\ x.kids \in Seq(ToSet(Items)) /\ Len(x.kids) \in Nat /\ n \in Nat /\ n <= Len(Items)
      /\ from \in Nat /\ from >= 1
  BY DEF Model, Models, DataOK
<1>2. new \in Seq(ToSet(Items)) /\ Len(new) \in Nat
  <2>1. \A i \in from..n : Items[i] \in ToSet(Items)
    BY <1>1, ItemsAre
  <2>2. SubSeq(Items, from, n) \in Seq(ToSet(Items))
    <3> HIDE DEF from, n
    <3> QED
      BY <2>1, <1>1, SubSeqProperties
  <2> QED
    BY <2>2
<1>3. CASE new = <<>> \* nothing is added
  <2>1. y = [x EXCEPT !.kids = @ \o new]
    BY <1>3 DEF Grow, GenerateComponentWithTemplate
  <2>2. x.kids \o <<>> = x.kids
    BY <1>1, ConcatEmptySeq
  <2>3. y = x
    <3>1. y = [x EXCEPT !.kids = x.kids \o <<>>]
      BY <2>1, <1>3
    <3>2. y = [x EXCEPT !.kids = x.kids]
      BY <3>1, <2>2
    <3> QED
      BY <3>2, <1>1 DEF Models
  <2>4. Remade(x, x)
    BY DEF Remade
  <2>5. ASSUME Len(x.kids) <= n, "tmpl" \in x.alive PROVE Len(x.kids) = n
    <3>1. CASE from <= n
      <4>1. \A i \in from..n : Items[i] \in ToSet(Items)
        BY <1>1, ItemsAre
      <4>2. Len(SubSeq(Items, from, n)) = n - from + 1
        <5> HIDE DEF from, n
        <5> QED
          BY <3>1, <4>1, <1>1, SubSeqProperties
      <4>3. Len(new) = 0
        BY <1>3
      <4> QED
        BY <4>2, <4>3, <2>5, <3>1, <1>1
    <3>2. CASE ~(from <= n)
      BY <3>2, <2>5, <1>1
    <3> QED
      BY <3>1, <3>2
  <2> QED
    BY <2>3, <2>4, <2>5
<1>4. CASE new # <<>>
  <2>1. "tmpl" \in x.alive /\ new = SubSeq(Items, from, n)
    BY <1>4
  <2>2. from <= n
    <3> HIDE DEF from, n
    <3>1. n < from => SubSeq(Items, from, n) = <<>>
      BY <1>1, SubSeqEmpty
    <3> QED
      BY <2>1, <3>1, <1>1, <1>4
  <2>3. Len(new) = n - from + 1 /\ \A i \in 1..(n - from + 1) : new[i] = Items[from + i - 1]
    <3>1. \A i \in from..n : Items[i] \in ToSet(Items)
      BY <1>1, ItemsAre
    <3> HIDE DEF from, n, new
    <3> QED
      BY <2>1, <2>2, <3>1, <1>1, SubSeqProperties
  <2>4. PICK z : z = GenerateComponentWithTemplate(x, new)
    OBVIOUS
  <2>5. new \in Seq(Ids) /\ ToSet(new) \subseteq ToSet(Items) /\ ToSet(Items) \subseteq Ids
    <3> HIDE DEF new
    <3> QED
      BY <1>2, ItemsAre, SetOf
  <2>6. /\ Model(z)
        /\ z.alive = x.alive \cup ToSet(new) /\ z.kids = x.kids
        /\ \A k \in Ids \ ToSet(new) : z.made[k] = x.made[k]
        /\ \A k \in Ids : z.dirty[k] = IF k \in ToSet(new) THEN {"all"} ELSE x.dirty[k]
        /\ Rebound(x, z, ToSet(new))
    <3> HIDE DEF new
    <3> QED
      BY <2>4, <2>5, GeneratedIs
  <2>7. y = [z EXCEPT !.kids = @ \o new]
    BY <2>4 DEF Grow
  <2> HIDE DEF new
  <2>8. x.kids \o new \in Seq(ToSet(Items)) /\ ToSet(x.kids \o new) = ToSet(x.kids) \cup ToSet(new)
    BY <1>1, <1>2, Joined
  <2>9. /\ y \in Models /\ y.alive = z.alive /\ y.index = z.index /\ y.append = z.append
        /\ y.dirty = z.dirty /\ y.table = z.table /\ y.order = z.order /\ y.made = z.made /\ y.kids = x.kids \o new
    <3>1. z \in Models /\ z.kids = x.kids
      BY <2>6 DEF Model
    <3> DEFINE kids == x.kids \o new
    <3>2. kids \in Seq(ToSet(Items)) /\ y = [z EXCEPT !.kids = kids]
      BY <2>7, <2>8, <3>1 DEF Models
    <3> HIDE DEF kids
    <3>3. /\ y \in Models /\ y.alive = z.alive /\ y.index = z.index /\ y.append = z.append
          /\ y.dirty = z.dirty /\ y.table = z.table /\ y.order = z.order /\ y.made = z.made /\ y.kids = kids
      BY <3>1, <3>2 DEF Models
    <3> QED
      BY <3>3 DEF kids
  <2>10. Model(y)
    BY <2>6, <2>9 DEF Model
  <2>11. Bound(x) => Bound(y)
    <3>1. Bound(x) => Bound(z)
      BY <2>6, AddedBound
    <3> QED
      BY <3>1, <2>9 DEF Bound
  <2>12. "tmpl" \in y.alive /\ KidsOK(y)
    BY <2>1, <2>6, <2>9 DEF KidsOK
  <2>13. \A c \in Ids : Known(y, c) => c \notin ToSet(new) /\ Known(x, c) /\ x.dirty[c] \subseteq y.dirty[c] /\ y.made[c] = x.made[c]
    BY <2>6, <2>9 DEF Known
  <2>14. \A c \in ToSet(y.kids) : Known(y, c) => c \in ToSet(x.kids)
    <3>1. ToSet(new) \subseteq Ids
      BY <2>5
    <3> QED
      BY <3>1, <2>8, <2>9, <2>13
  <2>15. Remade(x, y)
    BY <2>6, <2>9, <2>10, <2>11, <2>12, <2>13, <2>14 DEF Remade
  <2>16. "list" \in Ids /\ "list" \notin ToSet(new) /\ y.alive \cap Fixed = x.alive \cap Fixed
    BY <2>5, <2>6, <2>9, ItemsAre DEF Fixed
  <2>17. y.dirty["list"] = x.dirty["list"]
    BY <2>16, <2>6, <2>9
  <2>18. Len(y.kids) = n
    BY <2>3, <2>9, <1>1, <1>2, Joined
  <2>19. ~(Len(x.kids) >= n)
    BY <2>2, <1>1
  <2>20. ASSUME FirstItems(x) PROVE FirstItems(y)
    <3>1. ASSUME NEW i \in 1..Len(y.kids) PROVE y.kids[i] = Items[i]
      <4>1. CASE i <= Len(x.kids)
        <5>1. i \in 1..Len(x.kids)
          BY <4>1, <1>1, <2>18
        <5>2. y.kids[i] = x.kids[i]
          BY <5>1, <2>9, <1>1, <1>2, Joined
        <5> QED
          BY <5>1, <5>2, <2>20 DEF FirstItems
      <4>2. CASE i > Len(x.kids)
        <5> DEFINE j == i - Len(x.kids)
        <5>1. j \in 1..(n - from + 1) /\ i = Len(x.kids) + j /\ i = from + j - 1
          <6>1. i \in Nat /\ i <= n
            BY <2>18, <1>1
          <6>2. from = Len(x.kids) + 1 /\ n \in Nat /\ Len(x.kids) \in Nat
            BY <1>1
          <6>3. PICK l \in Nat : l = Len(x.kids)
            BY <6>2
          <6> HIDE DEF n, from
          <6>4. i > l /\ from = l + 1
            BY <4>2, <6>2, <6>3
          <6>5. i - l \in 1..(n - from + 1) /\ i = l + (i - l) /\ i = from + (i - l) - 1
            BY <6>1, <6>2, <6>4
          <6> QED
            BY <6>3, <6>5
        <5>2. new[j] = Items[i]
          BY <5>1, <2>3
        <5>3. j \in 1..Len(new)
          BY <5>1, <2>3
        <5> HIDE DEF j
        <5>4. (x.kids \o new)[Len(x.kids) + j] = new[j]
          BY <5>3, <1>1, <1>2, Joined
        <5> QED
          BY <5>1, <5>2, <5>4, <2>9
      <4> QED
        BY <4>1, <4>2, <1>1, <2>18
    <3>2. ToSet(y.kids) \subseteq y.alive
      BY <2>6, <2>8, <2>9, <2>20 DEF FirstItems
    <3> QED
      BY <3>1, <3>2, <2>18, <1>1 DEF FirstItems
  <2> HIDE DEF n
  <2> QED
    BY <2>15, <2>16, <2>17, <2>18, <2>19, <2>20 DEF n
<1> QED
  BY <1>3, <1>4

\* Half of a number.
LEMMA Half ==
    ASSUME NEW d \in Nat
    PROVE  d \div 2 \in Nat /\ 2 * (d \div 2) <= d /\ d <= 2 * (d \div 2) + 1
OBVIOUS

\* The children behind the last element go, every other one of them.
LEMMA ShrunkIs ==
    ASSUME NEW x, Model(x), DataOK,
           NEW y, y = Shrink(x)
    PROVE  /\ Remade(x, y) /\ y.dirty["list"] = x.dirty["list"] /\ y.alive \cap Fixed = x.alive \cap Fixed
           /\ Len(x.kids) <= Len(data.items) => y.kids = x.kids /\ y.alive = x.alive
           /\ FirstItems(x) /\ Len(x.kids) = Len(data.items) + 1 => FirstItems(y) /\ Len(y.kids) = Len(data.items)
<1> DEFINE n    == Len(data.items)
           last == Len(x.kids)
           gone == {k \in (n + 1)..last : (k - n) % 2 = 1}
           C    == {x.kids[k] : k \in gone}
           kids == [k \in 1..(n + (last - n) \div 2) |-> x.kids[IF k <= n THEN k ELSE 2 * k - n]]
<1>1. /\ x \in Models /\ x.kids \in Seq(ToSet(Items)) /\ last \in Nat /\ n \in Nat /\ DOMAIN x.kids = 1..last
  BY DEF Model, Models, DataOK
<1> HIDE DEF n, last
<1>2. CASE last <= n
  <2>1. y = x
    BY <1>2 DEF Shrink, n, last
  <2>2. Remade(x, x)
    BY DEF Remade
  <2>3. last # n + 1
    BY <1>1, <1>2
  <2> QED
    BY <2>1, <2>2, <2>3 DEF n, last
<1>3. CASE n < last
  <2> DEFINE h == (last - n) \div 2
  <2>1. h \in Nat /\ n + 2 * h <= last /\ last - n <= 2 * h + 1
    <3>1. last - n \in Nat
      BY <1>1, <1>3
    <3> QED
      BY <3>1, <1>1, Half
  <2>2. PICK z : z = OnComponentDeleted(x, C)
    OBVIOUS
  <2>3. y = [z EXCEPT !.kids = kids]
    BY <1>1, <1>3, <2>2 DEF Shrink, n, last
  <2>4. C \subseteq ToSet(Items) /\ C \in SUBSET Ids /\ C \cap Fixed = {}
    <3>1. \A k \in gone : k \in DOMAIN x.kids
      BY <1>1
    <3>2. \A k \in gone : x.kids[k] \in ToSet(Items)
      BY <3>1, <1>1
    <3>3. C \subseteq ToSet(Items)
      BY <3>2
    <3> HIDE DEF C
    <3> QED
      BY <3>3, ItemsAre
  <2>5. ASSUME NEW k \in 1..(n + h)
        PROVE  (IF k <= n THEN k ELSE 2 * k - n) \in 1..last
    <3> HIDE DEF h
    <3>1. k \in Nat /\ h \in Nat /\ k >= 1 /\ k <= n + h
      BY <2>1, <1>1
    <3>2. CASE k <= n
      BY <3>1, <3>2, <1>1, <1>3
    <3>3. CASE ~(k <= n)
      <4>1. 2 * k - n >= 1 /\ 2 * k - n <= n + 2 * h
        BY <3>1, <3>3, <1>1
      <4> QED
        BY <3>1, <3>3, <4>1, <2>1, <1>1
    <3> QED
      BY <3>2, <3>3
  <2>6. kids \in Seq(ToSet(Items)) /\ Len(kids) = n + h /\ ToSet(kids) \subseteq ToSet(x.kids)
    <3> DEFINE of(k) == IF k <= n THEN k ELSE 2 * k - n
    <3>1. \A k \in 1..(n + h) : of(k) \in DOMAIN x.kids /\ x.kids[of(k)] \in ToSet(Items)
      <4>1. \A k \in 1..(n + h) : of(k) \in 1..last
        BY <2>5
      <4> HIDE DEF of, h
      <4> QED
        BY <4>1, <1>1
    <3>2. kids = [k \in 1..(n + h) |-> x.kids[of(k)]]
      OBVIOUS
    <3>3. n + h \in Nat
      <4> HIDE DEF h
      <4> QED
        BY <2>1, <1>1
    <3> HIDE DEF of, h, kids
    <3>4. kids \in Seq(ToSet(Items)) /\ Len(kids) = n + h
      BY <3>1, <3>2, <3>3
    <3>5. ToSet(kids) \subseteq ToSet(x.kids)
      BY <3>1, <3>2 DEF ToSet
    <3> QED
      BY <3>4, <3>5
  <2> HIDE DEF C
  <2>7. /\ Model(z)
        /\ z.alive = x.alive \ C /\ z.kids = x.kids /\ z.made = x.made
        /\ \A k \in Ids : z.dirty[k] = IF k \in C THEN {} ELSE x.dirty[k]
        /\ \A p \in AllPaths : z.table[p] = x.table[p] \ C
    BY <2>2, <2>4, DeletedIs
  <2>8. /\ y \in Models /\ y.alive = z.alive /\ y.index = z.index /\ y.append = z.append
        /\ y.dirty = z.dirty /\ y.table = z.table /\ y.order = z.order /\ y.made = z.made /\ y.kids = kids
    <3>1. z \in Models
      BY <2>7 DEF Model
    <3>2. kids \in Seq(ToSet(Items))
      BY <2>6
    <3> HIDE DEF kids
    <3> QED
      BY <2>3, <3>1, <3>2 DEF Models
  <2> HIDE DEF kids, h
  <2>9. Model(y)
    BY <2>7, <2>8 DEF Model
  <2>10. Bound(x) => Bound(y)
    <3> SUFFICES ASSUME Bound(x), NEW p \in AllPaths
                 PROVE  /\ y.table[p] \subseteq {c \in y.alive : p \in BoundPaths(c)}
                        /\ {c \in y.alive \ {"tmpl"} : p \in BoundPaths(c)} \subseteq y.table[p]
      BY DEF Bound
    <3>1. /\ x.table[p] \subseteq {c \in x.alive : p \in BoundPaths(c)}
          /\ {c \in x.alive \ {"tmpl"} : p \in BoundPaths(c)} \subseteq x.table[p]
      BY DEF Bound
    <3>2. y.table[p] = x.table[p] \ C /\ y.alive = x.alive \ C
      BY <2>7, <2>8
    <3> QED
      BY <3>1, <3>2
  <2>11. KidsOK(x) => KidsOK(y)
    <3>1. x.kids # <<>>
      BY <1>1, <1>3
    <3>2. "tmpl" \in x.alive => "tmpl" \in y.alive
      BY <2>4, <2>7, <2>8 DEF Fixed
    <3> QED
      BY <3>1, <3>2 DEF KidsOK
  <2>12. \A c \in Ids : Known(y, c) => Known(x, c) /\ x.dirty[c] \subseteq y.dirty[c] /\ y.made[c] = x.made[c]
    BY <2>7, <2>8 DEF Known
  <2>13. y.alive \cap Fixed = x.alive \cap Fixed /\ y.dirty["list"] = x.dirty["list"]
    <3>1. "list" \in Ids /\ "list" \notin C
      BY <2>4, ItemsAre DEF Fixed
    <3>2. y.dirty["list"] = x.dirty["list"]
      BY <3>1, <2>7, <2>8
    <3> QED
      BY <3>2, <2>4, <2>7, <2>8
  <2>14. Remade(x, y)
    BY <2>6, <2>8, <2>9, <2>10, <2>11, <2>12, <2>13 DEF Remade
  <2>15. ASSUME FirstItems(x), last = n + 1 PROVE FirstItems(y) /\ Len(y.kids) = n
    <3>1. h = 0 /\ Len(y.kids) = n
      BY <2>1, <2>6, <2>8, <2>15, <1>1
    <3>2. ASSUME NEW i \in 1..n PROVE y.kids[i] = x.kids[i] /\ y.kids[i] = Items[i] /\ i \in 1..last
      <4>1. i \in 1..(n + (last - n) \div 2) /\ i <= n /\ i \in 1..last
        <5>1. n + (last - n) \div 2 = n + h
          BY DEF h
        <5>2. n + h = n
          BY <3>1, <1>1
        <5>3. i \in Nat /\ i >= 1 /\ i <= n
          BY <1>1
        <5>4. i \in 1..last
          BY <5>3, <1>1, <1>3
        <5>5. i \in 1..(n + h)
          BY <5>2, <5>3, <1>1
        <5> QED
          BY <5>1, <5>3, <5>4, <5>5
      <4>2. y.kids[i] = x.kids[i]
        BY <4>1, <2>8 DEF kids
      <4> QED
        BY <4>1, <4>2, <2>15 DEF FirstItems, last
    <3>3. last \in 1..last /\ last <= Len(Items) /\ x.kids[last] = Items[last]
      BY <1>1, <1>3, <2>15 DEF FirstItems, last
    <3>4. C = {Items[last]}
      <4>1. gone = {last}
        <5>1. \A k \in gone : k = last
          BY <1>1, <2>15
        <5>2. last \in gone
          BY <1>1, <2>15
        <5> QED
          BY <5>1, <5>2
      <4> QED
        BY <4>1, <3>3 DEF C
    <3>5. ASSUME NEW c \in ToSet(y.kids) PROVE c \in y.alive
      <4>1. DOMAIN y.kids = 1..n
        BY <3>1, <2>6, <2>8
      <4>2. PICK i \in 1..n : c = y.kids[i]
        BY <4>1 DEF ToSet
      <4>3. c = Items[i] /\ c \in ToSet(x.kids) /\ i # last /\ i \in DOMAIN Items /\ last \in DOMAIN Items
        <5>1. c = Items[i] /\ c = x.kids[i] /\ i \in 1..last
          BY <4>2, <3>2
        <5>2. c \in ToSet(x.kids)
          BY <5>1, <1>1, SetOf
        <5>3. i # last /\ i <= Len(Items) /\ last <= Len(Items) /\ i \in Nat /\ i >= 1 /\ last >= 1
          BY <5>1, <3>3, <2>15, <1>1
        <5>4. i \in DOMAIN Items /\ last \in DOMAIN Items
          BY <5>3, <1>1, ItemsAre
        <5> QED
          BY <5>1, <5>2, <5>3, <5>4
      <4>4. c # Items[last]
        BY <4>3, ItemsAre
      <4> QED
        BY <4>3, <4>4, <3>4, <2>7, <2>8, <2>15 DEF FirstItems
    <3> QED
      BY <3>1, <3>2, <3>3, <3>5, <2>15, <1>1 DEF FirstItems, last
  <2>16. ~(last <= n)
    BY <1>1, <1>3
  <2> QED
    BY <2>13, <2>14, <2>15, <2>16 DEF n, last
<1> QED
  BY <1>1, <1>2, <1>3

ListMarked(x, y) == Known(y, "list") => y.kids = x.kids \/ "children" \in y.dirty["list"]

\* An observer that leaves the components as they are had nothing to do.
ListTold(x, y) ==
    \/ y = x /\ ("/items" \notin data.has \/ Len(x.kids) = Len(data.items))
    \/ (Known(y, "list") => "children" \in y.dirty["list"])

\* generateListChildren() of a list that is there, or is just being defined.
LEMMA RegeneratedIs ==
    ASSUME NEW x, Model(x), DataOK,
           NEW y, y = GenerateListChildren(x)
    PROVE  /\ Remade(x, y) /\ ListMarked(x, y) /\ ListTold(x, y) /\ y.alive \cap Fixed = x.alive \cap Fixed
           /\ FirstItems(x) /\ "tmpl" \in x.alive /\ "/items" \in data.has /\ Len(x.kids) <= Len(data.items) + 1
                 => FirstItems(y) /\ Len(y.kids) = Len(data.items)
<1> DEFINE n == Len(data.items)
<1>1. /\ x \in Models /\ Len(x.kids) \in Nat /\ n \in Nat
  BY DEF Model, Models, DataOK
<1>2. CASE "/items" \notin data.has \/ Len(x.kids) = n
  <2>1. y = x
    BY <1>2 DEF GenerateListChildren
  <2>2. Remade(x, x) /\ ListMarked(x, x)
    BY DEF Remade, ListMarked
  <2>3. ListTold(x, y)
    BY <2>1, <1>2 DEF ListTold
  <2> QED
    BY <2>1, <2>2, <2>3, <1>2
<1>3. CASE "/items" \in data.has /\ Len(x.kids) # n
  <2>1. PICK g : g = Grow(x)
    OBVIOUS
  <2>2. PICK s : s = Shrink(g)
    OBVIOUS
  <2>3. y = NotifyComponentChange(s, "list", "children", FALSE)
    BY <1>3, <2>1, <2>2 DEF GenerateListChildren
  <2>4. /\ Remade(x, g) /\ g.dirty["list"] = x.dirty["list"] /\ g.alive \cap Fixed = x.alive \cap Fixed
        /\ Len(x.kids) >= n => g.kids = x.kids /\ g.alive = x.alive
        /\ FirstItems(x) => FirstItems(g)
        /\ Len(x.kids) <= n /\ "tmpl" \in x.alive => Len(g.kids) = n
    BY <1>3, <2>1, GrownIs
  <2>5. Model(g)
    BY <2>4 DEF Remade
  <2>6. /\ Remade(g, s) /\ s.dirty["list"] = g.dirty["list"] /\ s.alive \cap Fixed = g.alive \cap Fixed
        /\ Len(g.kids) <= n => s.kids = g.kids /\ s.alive = g.alive
        /\ FirstItems(g) /\ Len(g.kids) = n + 1 => FirstItems(s) /\ Len(s.kids) = n
    BY <2>2, <2>5, ShrunkIs
  <2>7. Model(s) /\ "list" \in Ids /\ "children" \in Marks /\ "children" # "all"
    BY <2>6, ItemsAre DEF Remade, Fixed, Marks
  <2>8. /\ Model(y) /\ y.alive = s.alive /\ y.table = s.table /\ y.kids = s.kids /\ y.made = s.made
        /\ \A k \in Ids \ {"list"} : y.dirty[k] = s.dirty[k]
        /\ y.dirty["list"] = Marked(s.dirty["list"], "children")
    <3>1. y.append = s.append
      BY <2>3, <2>7 DEF NotifyComponentChange, Enqueue, MarkDirty, Model, Models
    <3>2. PICK mode : y = NotifyComponentChange(s, "list", "children", mode)
      BY <2>3
    <3> QED
      BY <2>7, <3>1, <3>2, NotifyIs
  <2>9. /\ s.dirty["list"] \in SUBSET Marks
        /\ "all" \in s.dirty["list"] => s.dirty["list"] = {"all"}
    BY <2>7 DEF Model, Models
  <2>10. y.dirty["list"] # {"all"} =>
            s.dirty["list"] # {"all"} /\ s.dirty["list"] \subseteq y.dirty["list"] /\ "children" \in y.dirty["list"]
    BY <2>7, <2>8, <2>9, MarkedIs
  <2>11. \A c \in Ids : Known(y, c) => Known(s, c) /\ s.dirty[c] \subseteq y.dirty[c] /\ y.made[c] = s.made[c]
    BY <2>8, <2>10 DEF Known
  <2>12. Remade(s, y)
    <3>1. (Bound(s) => Bound(y)) /\ (KidsOK(s) => KidsOK(y))
      BY <2>8 DEF Bound, KidsOK
    <3> QED
      BY <2>8, <2>11, <3>1 DEF Remade
  <2>13. Remade(x, y)
    BY <2>4, <2>6, <2>12, RemadeAgain
  <2>14. ListMarked(x, y) /\ ListTold(x, y)
    BY <2>10 DEF ListMarked, ListTold, Known
  <2>15. ASSUME FirstItems(x), "tmpl" \in x.alive, Len(x.kids) <= n + 1
         PROVE  FirstItems(y) /\ Len(y.kids) = n
    <3>1. FirstItems(s) /\ Len(s.kids) = n
      <4>1. CASE Len(x.kids) <= n
        <5>1. FirstItems(g) /\ Len(g.kids) = n
          BY <2>4, <2>15, <4>1
        <5>2. s.kids = g.kids /\ s.alive = g.alive
          BY <2>6, <5>1, <1>1
        <5> QED
          BY <5>1, <5>2 DEF FirstItems
      <4>2. CASE Len(x.kids) = n + 1
        <5>1. Len(x.kids) >= n
          BY <4>2, <1>1
        <5>2. FirstItems(g) /\ Len(g.kids) = n + 1
          BY <2>4, <2>15, <4>2, <5>1
        <5> QED
          BY <2>6, <5>2
      <4> QED
        BY <4>1, <4>2, <2>15, <1>1
    <3> QED
      BY <3>1, <2>8 DEF FirstItems
  <2> QED
    BY <2>4, <2>6, <2>8, <2>13, <2>14, <2>15
<1> QED
  BY <1>2, <1>3

\* The list has a child for every element.
Matching(x) == {"list", "tmpl"} \subseteq x.alive /\ "/items" \in data.has => Len(x.kids) = Len(data.items)

\* A definition: parseComponent(), addComponent(), tryUpdateTemplate().
LEMMA ReplacedIs ==
    ASSUME NEW x, Model(x), DataOK, KidsOK(x), NEW c \in Fixed,
           NEW y, y = ReplaceComponent(x, c)
    PROVE  /\ Remade(x, y) /\ ListMarked(x, y)
           /\ y.alive \cap Fixed = (x.alive \cap Fixed) \cup {c} /\ y.dirty[c] = {"all"}
           /\ FirstItems(x) /\ Matching(x) => FirstItems(y) /\ Matching(y)
<1> DEFINE one == <<c>>
<1>1. c \in Ids /\ one \in Seq(Ids) /\ ToSet(one) = {c} /\ x.kids \in Seq(ToSet(Items)) /\ Len(x.kids) \in Nat
  BY ItemsAre, SetOf DEF Model, Models
<1> HIDE DEF one
<1>2. ASSUME NEW a, Model(a), NEW b, b = AddComponent(a, c)
      PROVE  /\ Remade(a, b) /\ b.alive = a.alive \cup {c} /\ b.kids = a.kids
             /\ b.dirty[c] = {"all"} /\ \A k \in Ids \ {c} : b.dirty[k] = a.dirty[k]
             /\ (FirstItems(a) => FirstItems(b))
  <2>1. b = AddComponents(a, one)
    BY <1>2 DEF AddComponent, one
  <2>2. /\ b.alive = a.alive \cup ToSet(one) /\ b.kids = a.kids
        /\ \A k \in Ids : b.dirty[k] = IF k \in ToSet(one) THEN {"all"} ELSE a.dirty[k]
    BY <1>1, <1>2, <2>1, AddedIs
  <2>3. Remade(a, b)
    BY <1>1, <1>2, <2>1, AddedRemade
  <2> QED
    BY <1>1, <2>2, <2>3 DEF FirstItems
<1>3. CASE c = "list"
  <2>1. PICK x0 : x0 = [x EXCEPT !.kids = <<>>]
    OBVIOUS
  <2>2. PICK g : g = GenerateListChildren(x0)
    OBVIOUS
  <2>3. y = AddComponent(g, c)
    BY <1>3, <2>1, <2>2 DEF ReplaceComponent
  <2>4. /\ x0 \in Models /\ x0.alive = x.alive /\ x0.index = x.index /\ x0.append = x.append
        /\ x0.dirty = x.dirty /\ x0.table = x.table /\ x0.order = x.order /\ x0.made = x.made /\ x0.kids = <<>>
    <3>1. x \in Models /\ <<>> \in Seq(ToSet(Items))
      BY DEF Model
    <3> QED
      BY <2>1, <3>1 DEF Models
  <2>5. ToSet(x0.kids) = {} /\ Len(x0.kids) = 0
    BY <2>4, SetOf
  <2>6. Model(x0) /\ FirstItems(x0) /\ KidsOK(x0)
    BY <2>4, <2>5, ItemsAre DEF Model, FirstItems, KidsOK
  <2>7. Remade(x, x0)
    <3>1. Bound(x) => Bound(x0)
      BY <2>4 DEF Bound
    <3>2. \A k \in Ids : Known(x0, k) => Known(x, k) /\ x.dirty[k] \subseteq x0.dirty[k] /\ x0.made[k] = x.made[k]
      BY <2>4 DEF Known
    <3> QED
      BY <2>4, <2>5, <2>6, <3>1, <3>2 DEF Remade
  <2>8. /\ Remade(x0, g) /\ g.alive \cap Fixed = x0.alive \cap Fixed
        /\ FirstItems(x0) /\ "tmpl" \in x0.alive /\ "/items" \in data.has /\ Len(x0.kids) <= Len(data.items) + 1
                 => FirstItems(g) /\ Len(g.kids) = Len(data.items)
    BY <2>2, <2>6, RegeneratedIs
  <2>9. Model(g) /\ KidsOK(g)
    BY <2>6, <2>8 DEF Remade
  <2>10. /\ Remade(g, y) /\ y.alive = g.alive \cup {c} /\ y.kids = g.kids
         /\ y.dirty[c] = {"all"} /\ (FirstItems(g) => FirstItems(y))
    BY <1>2, <2>3, <2>9
  <2>11. Remade(x, y)
    BY <2>7, <2>8, <2>10, RemadeAgain
  <2>12. ListMarked(x, y)
    BY <1>3, <2>10 DEF ListMarked, Known
  <2>13. FirstItems(y) /\ Matching(y)
    <3>1. CASE "tmpl" \in x0.alive /\ "/items" \in data.has
      <4>1. Len(x0.kids) <= Len(data.items) + 1
        BY <2>5 DEF DataOK
      <4> QED
        BY <3>1, <4>1, <2>6, <2>8, <2>10 DEF Matching
    <3>2. CASE ~("tmpl" \in x0.alive /\ "/items" \in data.has)
      <4>1. "tmpl" \in g.alive <=> "tmpl" \in x0.alive
        BY <2>8 DEF Fixed
      <4>2. g.kids = <<>>
        BY <3>2, <4>1, <2>9 DEF KidsOK
      <4>3. FirstItems(g)
        BY <4>2, SetOf, ItemsAre DEF FirstItems
      <4>4. "tmpl" \in y.alive <=> "tmpl" \in x0.alive
        BY <4>1, <2>10, <1>3
      <4> QED
        BY <4>3, <4>4, <3>2, <2>10 DEF Matching
    <3> QED
      BY <3>1, <3>2
  <2> QED
    BY <2>4, <2>8, <2>10, <2>11, <2>12, <2>13
<1>4. CASE c = "tmpl" /\ "list" \in x.alive
  <2>1. PICK a : a = AddComponent(x, c)
    OBVIOUS
  <2>2. y = GenerateListChildren(a)
    BY <1>4, <2>1 DEF ReplaceComponent
  <2>3. /\ Remade(x, a) /\ a.alive = x.alive \cup {c} /\ a.kids = x.kids
        /\ a.dirty[c] = {"all"} /\ \A k \in Ids \ {c} : a.dirty[k] = x.dirty[k]
        /\ (FirstItems(x) => FirstItems(a))
    BY <1>2, <2>1
  <2>4. Model(a) /\ KidsOK(a)
    BY <2>3 DEF Remade
  <2>5. /\ Remade(a, y) /\ ListMarked(a, y) /\ y.alive \cap Fixed = a.alive \cap Fixed
        /\ FirstItems(a) /\ "tmpl" \in a.alive /\ "/items" \in data.has /\ Len(a.kids) <= Len(data.items) + 1
                 => FirstItems(y) /\ Len(y.kids) = Len(data.items)
    BY <2>2, <2>4, RegeneratedIs
  <2>6. Remade(x, y)
    BY <2>3, <2>5, RemadeAgain
  <2>7. ListMarked(x, y)
    BY <2>3, <2>5 DEF ListMarked
  <2>8. y.dirty[c] = {"all"}
    <3>1. c \in y.alive
      BY <2>3, <2>5
    <3>2. Known(y, c) => Known(a, c)
      BY <1>1, <2>5 DEF Remade
    <3> QED
      BY <3>1, <3>2, <2>3 DEF Known
  <2>9. ASSUME FirstItems(x), Matching(x) PROVE FirstItems(y) /\ Matching(y)
    <3>1. CASE "/items" \in data.has
      <4>1. Len(x.kids) <= Len(data.items) + 1
        <5>1. CASE "tmpl" \in x.alive
          <6>1. Len(x.kids) = Len(data.items)
            BY <1>4, <2>9, <3>1, <5>1 DEF Matching
          <6> QED
            BY <6>1, <1>1
        <5>2. CASE "tmpl" \notin x.alive
          <6>1. Len(x.kids) = 0
            BY <5>2 DEF KidsOK
          <6> QED
            BY <6>1 DEF DataOK
        <5> QED
          BY <5>1, <5>2
      <4> QED
        BY <1>4, <4>1, <3>1, <2>3, <2>5, <2>9 DEF Matching
    <3>2. CASE "/items" \notin data.has
      <4>1. y = a
        BY <2>2, <3>2 DEF GenerateListChildren
      <4> QED
        BY <4>1, <3>2, <2>3, <2>9 DEF Matching
    <3> QED
      BY <3>1, <3>2
  <2> QED
    BY <2>3, <2>5, <2>6, <2>7, <2>8, <2>9
<1>5. CASE c # "list" /\ ~(c = "tmpl" /\ "list" \in x.alive)
  <2>1. y = AddComponent(x, c)
    BY <1>5 DEF ReplaceComponent
  <2>2. /\ Remade(x, y) /\ y.alive = x.alive \cup {c} /\ y.kids = x.kids
        /\ y.dirty[c] = {"all"}
        /\ (FirstItems(x) => FirstItems(y))
    BY <1>2, <2>1
  <2>3. Matching(x) => Matching(y)
    BY <2>2, <1>5 DEF Matching
  <2> QED
    BY <2>2, <2>3 DEF ListMarked
<1> QED
  BY <1>3, <1>4, <1>5

\* updateComponents() with one component: it has new attributes, and is replaced.
LEMMA DefinedIs ==
    ASSUME NEW x, Model(x), KidsOK(x), DataOK, NEW c \in Fixed, NEW y, y = DefineComponent(x, c)
    PROVE  /\ Remade(x, y) /\ ListMarked(x, y)
           /\ y.alive \cap Fixed = (x.alive \cap Fixed) \cup {c} /\ y.dirty[c] = {"all"}
           /\ FirstItems(x) /\ Matching(x) => FirstItems(y) /\ Matching(y)
<1>1. x \in Models /\ c \in Ids /\ x.made \in [Ids -> Nat]
  BY ItemsAre DEF Model, Models
<1> DEFINE made == [x.made EXCEPT ![c] = @ + 1]
<1>2. made \in [Ids -> Nat] /\ \A k \in Ids \ {c} : made[k] = x.made[k]
  BY <1>1
<1>3. PICK z : z = [x EXCEPT !.made = made]
  OBVIOUS
<1>4. y = ReplaceComponent(z, c)
  BY <1>1, <1>3 DEF DefineComponent, Models
<1> HIDE DEF made
<1>5. /\ z \in Models /\ z.alive = x.alive /\ z.index = x.index /\ z.append = x.append
      /\ z.dirty = x.dirty /\ z.table = x.table /\ z.kids = x.kids /\ z.order = x.order /\ z.made = made
  BY <1>1, <1>2, <1>3 DEF Models
<1>6. Model(z) /\ KidsOK(z) /\ (Bound(x) => Bound(z)) /\ (FirstItems(x) => FirstItems(z)) /\ (Matching(x) => Matching(z))
  BY <1>5 DEF Model, KidsOK, Bound, FirstItems, Matching
<1>7. /\ Remade(z, y) /\ ListMarked(z, y)
      /\ y.alive \cap Fixed = (z.alive \cap Fixed) \cup {c} /\ y.dirty[c] = {"all"}
      /\ FirstItems(z) /\ Matching(z) => FirstItems(y) /\ Matching(y)
  BY <1>4, <1>6, ReplacedIs
<1>8. Remade(x, y)
  <2>1. \A k \in Ids : Known(y, k) => Known(x, k) /\ x.dirty[k] \subseteq y.dirty[k] /\ y.made[k] = x.made[k]
    <3> SUFFICES ASSUME NEW k \in Ids, Known(y, k)
                 PROVE  Known(x, k) /\ x.dirty[k] \subseteq y.dirty[k] /\ y.made[k] = x.made[k]
      OBVIOUS
    <3>1. k # c
      BY <1>7 DEF Known
    <3>2. Known(z, k) /\ z.dirty[k] \subseteq y.dirty[k] /\ y.made[k] = z.made[k]
      BY <1>7 DEF Remade
    <3> QED
      BY <1>2, <1>5, <3>1, <3>2 DEF Known
  <2> QED
    BY <1>5, <1>6, <1>7, <2>1 DEF Remade
<1> QED
  BY <1>5, <1>6, <1>7, <1>8 DEF ListMarked
-----------------------------------------------------------------------------
(* The types, and the queue. *)

TypeInv ==
    /\ DataOK /\ Model(m) /\ KidsOK(m)
    /\ pc \in {"idle", "notify", "flush"} /\ at \in 0..Len(Paths) /\ todo \in SUBSET Ids
    /\ pc = "idle" => m.order = <<>>
    /\ pc # "notify" => todo = {}
    /\ at = 0 => todo = {}

\* The initial state has the types.
LEMMA TypesAtFirst == Init => TypeInv
<1> SUFFICES ASSUME Init PROVE TypeInv
  OBVIOUS
<1>1. DataOK
  BY ItemsAre DEF Init, DataOK
<1>2. m \in Models
  <2>1. [p \in AllPaths |-> {}] \in [AllPaths -> SUBSET Ids] /\ [c \in Ids |-> {}] \in [Ids -> SUBSET Marks]
    OBVIOUS
  <2>2. <<>> \in Seq(ToSet(Items)) /\ <<>> \in Seq(Ids)
    OBVIOUS
  <2> QED
    BY <2>1, <2>2 DEF Init, Models
<1>3. m.alive = {} /\ m.index = {} /\ m.append = {} /\ m.kids = <<>> /\ m.order = <<>> /\ \A c \in Ids : m.dirty[c] = {}
  BY DEF Init
<1>4. Model(m) /\ KidsOK(m)
  BY <1>2, <1>3 DEF Model, KidsOK
<1>5. 0 \in 0..Len(Paths)
  BY PathsAre
<1> QED
  BY <1>1, <1>3, <1>4, <1>5 DEF Init, TypeInv

\* updateComponents(): what the definition of c makes of the components.
LEMMA UpdatedIs ==
    ASSUME TypeInv, NEW c \in Fixed \ {"text"}, UpdateComponents(c)
    PROVE  /\ Remade(m, m') /\ ListMarked(m, m')
           /\ c \in m'.alive /\ ~Known(m', c)
           /\ m'.alive \cap Fixed = (m.alive \cap Fixed) \cup (IF c = "card" THEN {"card", "text"} ELSE {c})
           /\ FirstItems(m) /\ Matching(m) => FirstItems(m') /\ Matching(m')
<1>1. Model(m) /\ DataOK /\ KidsOK(m)
  BY DEF TypeInv
<1>2. CASE c # "card"
  <2>1. m' = DefineComponent(m, c)
    BY <1>2 DEF UpdateComponents
  <2>2. /\ Remade(m, m') /\ ListMarked(m, m')
        /\ m'.alive \cap Fixed = (m.alive \cap Fixed) \cup {c} /\ m'.dirty[c] = {"all"}
        /\ FirstItems(m) /\ Matching(m) => FirstItems(m') /\ Matching(m')
    BY <1>1, <2>1, DefinedIs
  <2> QED
    BY <1>2, <2>2 DEF Known
<1>3. CASE c = "card"
  <2>1. PICK x : x = DefineComponent(m, "card")
    OBVIOUS
  <2>2. m' = DefineComponent(x, "text")
    BY <1>3, <2>1 DEF UpdateComponents
  <2>3. "card" \in Fixed /\ "text" \in Fixed /\ "card" \in Ids
    BY ItemsAre DEF Fixed
  <2>4. /\ Remade(m, x) /\ ListMarked(m, x)
        /\ x.alive \cap Fixed = (m.alive \cap Fixed) \cup {"card"} /\ x.dirty["card"] = {"all"}
        /\ FirstItems(m) /\ Matching(m) => FirstItems(x) /\ Matching(x)
    BY <1>1, <2>1, <2>3, DefinedIs
  <2>5. Model(x) /\ KidsOK(x)
    BY <1>1, <2>4 DEF Remade
  <2>6. /\ Remade(x, m') /\ ListMarked(x, m')
        /\ m'.alive \cap Fixed = (x.alive \cap Fixed) \cup {"text"}
        /\ FirstItems(x) /\ Matching(x) => FirstItems(m') /\ Matching(m')
    BY <1>1, <2>2, <2>3, <2>5, DefinedIs
  <2>7. Remade(m, m')
    BY <2>4, <2>6, RemadeAgain
  <2>8. ListMarked(m, m')
    <3>1. "list" \in Ids
      BY ItemsAre DEF Fixed
    <3> QED
      BY <2>4, <2>6, <3>1 DEF ListMarked, Remade
  <2>9. ~Known(m', "card")
    BY <2>3, <2>4, <2>6 DEF Remade, Known
  <2> QED
    BY <1>3, <2>4, <2>6, <2>7, <2>8, <2>9
<1> QED
  BY <1>2, <1>3

\* invalidateFunctionCallValues(): nothing counts any more.
LEMMA InvalidatedIs ==
    ASSUME TypeInv, InvalidateFunctionCallValues
    PROVE  /\ Model(m') /\ m'.alive = m.alive /\ m'.table = m.table /\ m'.kids = m.kids /\ m'.made = m.made
           /\ \A c \in Ids : ~Known(m', c)
<1> DEFINE dirty == [c \in Ids |-> IF c \in m.alive THEN {"all"} ELSE m.dirty[c]]
<1>1. m \in Models /\ Model(m)
  BY DEF TypeInv, Model
<1>2. PICK x : x = [m EXCEPT !.dirty = dirty]
  OBVIOUS
<1>3. m' = Enqueue(x, InOrder)
  BY <1>1, <1>2 DEF InvalidateFunctionCallValues, Models
<1>4. dirty \in [Ids -> SUBSET Marks]
  <2>1. m.dirty \in [Ids -> SUBSET Marks]
    BY <1>1 DEF Models
  <2> QED
    BY <2>1 DEF Marks
<1>5. \A c \in Ids : dirty[c] = IF c \in m.alive THEN {"all"} ELSE m.dirty[c]
  OBVIOUS
<1> HIDE DEF dirty
<1>6. /\ x \in Models /\ x.alive = m.alive /\ x.table = m.table /\ x.kids = m.kids /\ x.made = m.made
      /\ x.dirty = dirty /\ x.append = m.append /\ x.index = m.index /\ x.order = m.order
  BY <1>1, <1>2, <1>4 DEF Models
<1>7. InOrder \in Seq(Ids) /\ ToSet(InOrder) = Ids
  <2> DEFINE one == <<"card">>
             two == <<"list", "root", "text", "tmpl">>
  <2>1. one \in Seq(Ids) /\ two \in Seq(Ids) /\ Items \in Seq(Ids)
    BY ItemsAre, SetOf DEF Fixed
  <2>2. ToSet(one) = {"card"} /\ ToSet(two) = {"list", "root", "text", "tmpl"}
    BY DEF ToSet
  <2>3. InOrder = (one \o Items) \o two
    BY DEF InOrder
  <2> HIDE DEF one, two
  <2>4. one \o Items \in Seq(Ids) /\ ToSet(one \o Items) = ToSet(one) \cup ToSet(Items)
    BY <2>1, Joined
  <2>5. PICK left : left = one \o Items
    OBVIOUS
  <2>6. left \o two \in Seq(Ids) /\ ToSet(left \o two) = ToSet(left) \cup ToSet(two)
    <3>1. left \in Seq(Ids) /\ two \in Seq(Ids)
      BY <2>1, <2>4, <2>5
    <3> QED
      BY <3>1, Joined
  <2> QED
    BY <2>2, <2>3, <2>4, <2>5, <2>6, ItemsAre DEF Fixed
<1>8. /\ m' \in Models /\ m'.alive = m.alive /\ m'.table = m.table /\ m'.kids = m.kids /\ m'.made = m.made
      /\ m'.dirty = dirty /\ m'.append = m.append
      /\ m'.index = m.index \cup (ToSet(InOrder) \cap m.alive)
      /\ ToSet(m'.order) = ToSet(m.order) \cup (ToSet(InOrder) \cap (m.alive \ m.index))
  BY <1>3, <1>6, <1>7, EnqueueIs
<1>9. m.index \subseteq m.alive /\ m.alive \in SUBSET Ids /\ m.append \subseteq m.alive /\ m.index \subseteq ToSet(m.order)
  BY <1>1 DEF Model, Models
<1>10. m'.index = m.alive /\ m.alive \subseteq ToSet(m'.order)
  BY <1>7, <1>8, <1>9
<1>11. \A c \in Ids : "all" \in m'.dirty[c] => m'.dirty[c] = {"all"}
  BY <1>1, <1>5, <1>8 DEF Model
<1>12. m'.append \subseteq {c \in m'.alive : m'.dirty[c] # {}}
  BY <1>5, <1>8, <1>9
<1>13. Model(m')
  BY <1>8, <1>10, <1>11, <1>12 DEF Model
<1> QED
  BY <1>5, <1>8, <1>13 DEF Known

\* onDataChanged() of an observer: a mark, or the list brought up to date.
LEMMA ObservedIs ==
    ASSUME TypeInv, NEW c \in Ids, OnDataChanged(c)
    PROVE  /\ Remade(m, m') /\ ListMarked(m, m') /\ m'.alive \cap Fixed = m.alive \cap Fixed
           /\ (c = "list" /\ c \in m.alive => ListTold(m, m'))
           /\ (c # "list" => m'.alive = m.alive /\ m'.table = m.table /\ m'.kids = m.kids)
           /\ (c # "list" /\ c \in m.alive => Paths[at] \in m'.dirty[c] \/ ~Known(m', c))
           /\ (c = "list" /\ {"list", "tmpl"} \subseteq m.alive
               /\ FirstItems(m) /\ "/items" \in data.has /\ Len(m.kids) <= Len(data.items) + 1)
                    => FirstItems(m') /\ Len(m'.kids) = Len(data.items)
<1>1. Model(m) /\ DataOK /\ at \in DOMAIN Paths
  <2>1. at \in 0..Len(Paths) /\ at # 0
    BY DEF TypeInv, OnDataChanged
  <2> QED
    BY <2>1, PathsAre DEF TypeInv
<1>2. CASE c \notin m.alive
  <2>1. m' = m
    BY <1>2 DEF OnDataChanged
  <2>2. Remade(m, m) /\ ListMarked(m, m)
    BY <1>1 DEF Remade, ListMarked
  <2> QED
    BY <1>2, <2>1, <2>2
<1>3. CASE c \in m.alive /\ c = "list"
  <2>1. m' = GenerateListChildren(m)
    BY <1>3 DEF OnDataChanged
  <2> QED
    BY <1>1, <1>3, <2>1, RegeneratedIs
<1>4. CASE c \in m.alive /\ c # "list"
  <2>1. m' = NotifyComponentChange(m, c, Paths[at], appending)
    BY <1>4 DEF OnDataChanged
  <2>2. Paths[at] \in AllPaths /\ Paths[at] \in Marks /\ Paths[at] # "all"
    BY <1>1, PathsAre, SetOf DEF AllPaths, Marks
  <2>3. PICK mode, p : mode = appending /\ p = Paths[at]
    OBVIOUS
  <2>4. /\ Model(m')
        /\ m'.alive = m.alive /\ m'.table = m.table /\ m'.kids = m.kids /\ m'.made = m.made
        /\ \A k \in Ids \ {c} : m'.dirty[k] = m.dirty[k]
        /\ m'.dirty[c] = Marked(m.dirty[c], p)
    BY <1>1, <1>4, <2>1, <2>2, <2>3, NotifyIs
  <2>5. m.dirty[c] \in SUBSET Marks /\ ("all" \in m.dirty[c] => m.dirty[c] = {"all"})
    BY <1>1 DEF Model, Models
  <2>6. m'.dirty[c] # {"all"} => m.dirty[c] # {"all"} /\ m.dirty[c] \subseteq m'.dirty[c] /\ p \in m'.dirty[c]
    BY <2>2, <2>3, <2>4, <2>5, MarkedIs
  <2>7. \A k \in Ids : Known(m', k) => Known(m, k) /\ m.dirty[k] \subseteq m'.dirty[k] /\ m'.made[k] = m.made[k]
    BY <2>4, <2>6 DEF Known
  <2>8. (Bound(m) => Bound(m')) /\ (KidsOK(m) => KidsOK(m)')
    BY <2>4 DEF Bound, KidsOK, OnDataChanged
  <2>9. Remade(m, m')
    BY <2>4, <2>7, <2>8 DEF Remade, KidsOK, OnDataChanged
  <2> QED
    BY <1>4, <2>3, <2>4, <2>6, <2>9 DEF ListMarked, Known
<1> QED
  BY <1>2, <1>3, <1>4

\* flushDirtyComponents(), one component: only its marks go.
LEMMA FlushedIs ==
    ASSUME TypeInv, FlushDirtyComponent, NEW c, c = Head(m.order)
    PROVE  /\ c \in Ids /\ Model(m')
           /\ m'.alive = m.alive /\ m'.table = m.table /\ m'.kids = m.kids /\ m'.made = m.made
           /\ \A k \in Ids \ {c} : m'.dirty[k] = m.dirty[k]
           /\ \/ /\ c \notin m.alive \/ m.dirty[c] = {}
                 /\ m'.dirty = m.dirty /\ current' = current /\ dom' = dom
              \/ /\ c \in m.alive /\ m.dirty[c] # {} /\ m'.dirty[c] = {}
                 /\ current' = [current EXCEPT ![c] = Snapshot(c)]
                 /\ dom' = UpdateNode(dom, c, Snapshot(c))
<1> DEFINE tail  == Tail(m.order)
           index == m.index \ {c}
           rest  == [m EXCEPT !.order = tail, !.index = index]
<1>1. m \in Models /\ Model(m) /\ m.order \in Seq(Ids) /\ m.order # <<>>
  BY DEF TypeInv, Model, Models, FlushDirtyComponent
<1>2. c \in Ids /\ tail \in Seq(Ids) /\ \A k \in ToSet(m.order) : k = c \/ k \in ToSet(tail)
  <2>1. Len(m.order) \in Nat /\ Len(m.order) >= 1 /\ DOMAIN m.order = 1..Len(m.order)
    BY <1>1
  <2>2. /\ c \in Ids /\ c = m.order[1] /\ tail \in Seq(Ids) /\ Len(tail) = Len(m.order) - 1
        /\ \A i \in 1..Len(tail) : tail[i] = m.order[i + 1]
    BY <1>1, HeadTailProperties
  <2> HIDE DEF tail
  <2>3. ASSUME NEW i \in 1..Len(m.order), i # 1 PROVE m.order[i] \in ToSet(tail)
    <3>1. i - 1 \in 1..Len(tail) /\ (i - 1) + 1 = i
      BY <2>1, <2>2, <2>3
    <3>2. tail[i - 1] = m.order[i] /\ i - 1 \in DOMAIN tail
      BY <2>2, <3>1
    <3> QED
      BY <3>2, SetOf
  <2> QED
    BY <2>1, <2>2, <2>3 DEF ToSet
<1>3. /\ m.index \subseteq ToSet(m.order) \cap m.alive
      /\ \A k \in m.alive : m.dirty[k] # {} => k \in m.index
      /\ \A k \in Ids : "all" \in m.dirty[k] => m.dirty[k] = {"all"}
      /\ m.append \subseteq {k \in m.alive : m.dirty[k] # {}}
      /\ m.alive \in SUBSET Ids /\ m.index \in SUBSET Ids /\ m.append \in SUBSET Ids
      /\ m.dirty \in [Ids -> SUBSET Marks]
  BY <1>1 DEF Model, Models
<1>4. index \in SUBSET Ids /\ index \subseteq ToSet(tail) \cap m.alive
  BY <1>2, <1>3
<1>5. CASE c \notin m.alive \/ m.dirty[c] = {}
  <2>1. m' = rest /\ current' = current /\ dom' = dom
    BY <1>1, <1>5 DEF FlushDirtyComponent, Models
  <2>2. \A k \in m.alive : m.dirty[k] # {} => k \in index
    BY <1>3, <1>5
  <2> HIDE DEF tail, index
  <2>3. /\ m' \in Models /\ m'.alive = m.alive /\ m'.table = m.table /\ m'.kids = m.kids /\ m'.made = m.made
        /\ m'.dirty = m.dirty /\ m'.append = m.append /\ m'.index = index /\ m'.order = tail
    BY <1>1, <1>2, <1>4, <2>1 DEF Models
  <2>4. Model(m')
    BY <1>3, <1>4, <2>2, <2>3 DEF Model
  <2> QED
    BY <1>2, <1>5, <2>1, <2>3, <2>4
<1>6. CASE c \in m.alive /\ m.dirty[c] # {}
  <2> DEFINE dirty  == [m.dirty EXCEPT ![c] = {}]
             append == m.append \ {c}
  <2>1. /\ m' = [m EXCEPT !.order = tail, !.index = index, !.dirty = dirty, !.append = append]
        /\ current' = [current EXCEPT ![c] = Snapshot(c)]
        /\ dom' = UpdateNode(dom, c, Snapshot(c))
    BY <1>1, <1>6 DEF FlushDirtyComponent, Models
  <2>2. dirty \in [Ids -> SUBSET Marks] /\ append \in SUBSET Ids
    BY <1>3
  <2>3. \A k \in Ids : dirty[k] = IF k = c THEN {} ELSE m.dirty[k]
    BY <1>3
  <2>4. append \subseteq {k \in m.alive : dirty[k] # {}}
    BY <1>3, <2>3
  <2>5. \A k \in m.alive : dirty[k] # {} => k \in index
    BY <1>3, <2>3
  <2>6. \A k \in Ids : "all" \in dirty[k] => dirty[k] = {"all"}
    BY <1>3, <2>3
  <2> HIDE DEF tail, index, dirty, append
  <2>7. /\ m' \in Models /\ m'.alive = m.alive /\ m'.table = m.table /\ m'.kids = m.kids /\ m'.made = m.made
        /\ m'.dirty = dirty /\ m'.append = append /\ m'.index = index /\ m'.order = tail
    BY <1>1, <1>2, <1>4, <2>1, <2>2 DEF Models
  <2>8. Model(m')
    BY <1>4, <2>4, <2>5, <2>6, <2>7 DEF Model
  <2> QED
    BY <1>2, <1>6, <2>1, <2>3, <2>7, <2>8
<1> QED
  BY <1>5, <1>6

\* The data the calls may bring.
LEMMA ArraysAre ==
    \A items \in Arrays : items \in Seq(Cell) /\ Len(items) <= Len(Items) /\ Len(items) \in Nat
<1> SUFFICES ASSUME NEW items \in Arrays
             PROVE  items \in Seq(Cell) /\ Len(items) <= Len(Items) /\ Len(items) \in Nat
  OBVIOUS
<1>1. PICK n \in 0..Len(Items) : items \in [1..n -> Cell]
  BY DEF Arrays, Cell
<1>2. n \in Nat /\ n <= Len(Items)
  BY <1>1, ItemsAre
<1>3. items \in Seq(Cell) /\ Len(items) = n
  BY <1>1, <1>2
<1> QED
  BY <1>2, <1>3

\* An array with another element is an array.
LEMMA CellIs ==
    ASSUME DataOK, NEW i \in DOMAIN data.items, NEW p \in Pieces
    PROVE  LET items == [data.items EXCEPT ![i] = <<p>>]
           IN  items \in Seq(Cell) /\ Len(items) = Len(data.items)
<1>1. data.items \in Seq(Cell) /\ <<p>> \in Cell
  BY DEF DataOK, Cell
<1> QED
  BY <1>1

\* An array that is set has the type of the data.
LEMMA ItemsSet ==
    ASSUME TypeInv, NEW items \in Seq(Cell), Len(items) <= Len(Items), NEW path, SetItems(path, items)
    PROVE  TypeInv' /\ data'.items = items /\ data'.has = data.has \cup {"/items"} /\ data'.title = data.title
<1>1. data \in [has : SUBSET {"/items", "/title"}, title : Seq(Pieces), items : Seq(Cell)]
  BY DEF TypeInv, DataOK
<1> DEFINE has == data.has \cup {"/items"}
<1>2. has \in SUBSET {"/items", "/title"}
  BY <1>1
<1>3. data' = [data EXCEPT !.items = items, !.has = has]
  BY <1>1 DEF SetItems
<1>4. /\ data' \in [has : SUBSET {"/items", "/title"}, title : Seq(Pieces), items : Seq(Cell)]
      /\ data'.items = items /\ data'.has = has /\ data'.title = data.title
  <2> HIDE DEF has
  <2> QED
    BY <1>1, <1>2, <1>3
<1>5. DataOK'
  BY <1>4 DEF DataOK
<1>6. m' = m /\ pc' = "notify" /\ at' = 0 /\ todo' = {} /\ 0 \in 0..Len(Paths)
  BY PathsAre DEF SetItems, Notify
<1>7. Model(m)' /\ KidsOK(m)'
  BY <1>4, <1>6 DEF TypeInv, Model, KidsOK
<1> QED
  BY <1>4, <1>5, <1>6, <1>7 DEF TypeInv

\* So has a text.
LEMMA TitleSet ==
    ASSUME TypeInv, NEW has \in SUBSET {"/items", "/title"}, data.has \subseteq has, NEW title \in Seq(Pieces),
           data' = [data EXCEPT !.title = title, !.has = has], NEW path, NEW mode, Notify(path, mode)
    PROVE  TypeInv' /\ data'.items = data.items /\ data'.has = has /\ data'.title = title
<1>1. data \in [has : SUBSET {"/items", "/title"}, title : Seq(Pieces), items : Seq(Cell)]
  BY DEF TypeInv, DataOK
<1>2. /\ data' \in [has : SUBSET {"/items", "/title"}, title : Seq(Pieces), items : Seq(Cell)]
      /\ data'.items = data.items /\ data'.has = has /\ data'.title = title
  BY <1>1
<1>3. DataOK'
  BY <1>2 DEF TypeInv, DataOK
<1>4. m' = m /\ pc' = "notify" /\ at' = 0 /\ todo' = {} /\ 0 \in 0..Len(Paths)
  BY PathsAre DEF Notify
<1>5. Model(m)' /\ KidsOK(m)'
  BY <1>2, <1>4 DEF TypeInv, Model, KidsOK
<1> QED
  BY <1>2, <1>3, <1>4, <1>5 DEF TypeInv

\* What the next entry of the table is.
LEMMA NextIs ==
    ASSUME TypeInv, NextEntry
    PROVE  /\ at' \in DOMAIN Paths /\ at < at' /\ Affected(Paths[at']) /\ todo' = m.table[Paths[at']]
           /\ \A i \in DOMAIN Paths : at < i /\ Affected(Paths[i]) /\ m.table[Paths[i]] # {} => at' <= i
<1> DEFINE next == {i \in (at + 1)..Len(Paths) : Affected(Paths[i]) /\ m.table[Paths[i]] # {}}
<1>1. at \in Nat /\ Len(Paths) \in Nat /\ DOMAIN Paths = 1..Len(Paths)
  BY PathsAre DEF TypeInv
<1>2. next # {} /\ at' = Min(next) /\ todo' = m.table[Paths[Min(next)]]
  BY DEF NextEntry
<1>3. next \in SUBSET Nat
  BY <1>1
<1>4. Min(next) \in next /\ \A i \in next : Min(next) <= i
  <2> HIDE DEF next
  <2> QED
    BY <1>2, <1>3, NatMinimum DEF Min
<1>5. at' \in next /\ \A i \in next : at' <= i
  BY <1>2, <1>4
<1>6. ASSUME NEW i \in DOMAIN Paths, at < i, Affected(Paths[i]), m.table[Paths[i]] # {} PROVE i \in next
  BY <1>1, <1>6
<1>7. at' \in DOMAIN Paths /\ at < at' /\ Affected(Paths[at'])
  BY <1>1, <1>5
<1> HIDE DEF next
<1> QED
  BY <1>2, <1>5, <1>6, <1>7

\* Every step keeps the types, and the queue in step with the marks.
LEMMA TypesStay == TypeInv /\ [Next]_vars => TypeInv'
<1> SUFFICES ASSUME TypeInv, [Next]_vars PROVE TypeInv'
  OBVIOUS
<1>0. /\ DataOK /\ Model(m) /\ KidsOK(m) /\ at \in 0..Len(Paths)
      /\ pc \in {"idle", "notify", "flush"} /\ todo \in SUBSET Ids
      /\ (pc = "idle" => m.order = <<>>) /\ (pc # "notify" => todo = {}) /\ (at = 0 => todo = {})
  BY DEF TypeInv
<1>1. ASSUME NEW c \in Fixed \ {"text"}, UpdateComponents(c) PROVE TypeInv'
  <2>1. Remade(m, m')
    BY <1>1, UpdatedIs
  <2>2. Model(m)' /\ KidsOK(m)' /\ DataOK'
    BY <1>0, <1>1, <2>1 DEF Remade, KidsOK, DataOK, UpdateComponents, Model
  <2> QED
    BY <1>0, <1>1, <2>2 DEF TypeInv, UpdateComponents, notification, Change
<1>2. ASSUME NEW path, NEW items \in Arrays, UpdateItems(path, items) PROVE TypeInv'
  BY <1>2, ArraysAre, ItemsSet DEF UpdateItems
<1>3. ASSUME NEW i, NEW p \in Pieces, UpdateCell(i, <<p>>) PROVE TypeInv'
  <2> DEFINE items == [data.items EXCEPT ![i] = <<p>>]
  <2>1. i \in DOMAIN data.items /\ SetItems(Cells[i], items)
    BY <1>3 DEF UpdateCell
  <2>2. items \in Seq(Cell) /\ Len(items) <= Len(Items)
    BY <1>0, <2>1, CellIs DEF DataOK
  <2> HIDE DEF items
  <2> QED
    BY <2>1, <2>2, ItemsSet
<1>4. ASSUME NEW path, NEW p \in Pieces, UpdateTitle(path, p) PROVE TypeInv'
  <2> DEFINE has == data.has \cup {"/title"}
  <2>1. has \in SUBSET {"/items", "/title"} /\ data.has \subseteq has /\ <<p>> \in Seq(Pieces)
    BY <1>0 DEF DataOK
  <2>2. data' = [data EXCEPT !.title = <<p>>, !.has = has] /\ Notify(path, FALSE)
    BY <1>0, <1>4 DEF UpdateTitle, SetTitle, DataOK
  <2> HIDE DEF has
  <2> QED
    BY <2>1, <2>2, TitleSet
<1>5. ASSUME NEW p \in Pieces, AppendData(p) PROVE TypeInv'
  <2>1. data.has \in SUBSET {"/items", "/title"} /\ <<p>> \in Seq(Pieces)
    BY <1>0 DEF DataOK
  <2>2. data' = [data EXCEPT !.title = <<p>>, !.has = data.has] /\ Notify("/title", TRUE)
    BY <1>0, <1>5 DEF AppendData, DataOK
  <2> QED
    BY <2>1, <2>2, TitleSet
<1>6. ASSUME InvalidateFunctionCallValues PROVE TypeInv'
  <2>1. Model(m') /\ m'.kids = m.kids /\ m'.alive = m.alive
    BY <1>6, InvalidatedIs
  <2>2. Model(m)' /\ KidsOK(m)' /\ DataOK'
    BY <1>0, <1>6, <2>1 DEF KidsOK, DataOK, InvalidateFunctionCallValues, Model
  <2> QED
    BY <1>0, <1>6, <2>2 DEF TypeInv, InvalidateFunctionCallValues, notification, Change
<1>7. ASSUME NextEntry PROVE TypeInv'
  <2>1. at' \in DOMAIN Paths /\ at < at' /\ todo' = m.table[Paths[at']]
    BY <1>7, NextIs
  <2>2. Paths[at'] \in AllPaths
    BY <2>1, SetOf DEF AllPaths
  <2>3. todo' \in SUBSET Ids
    BY <1>0, <2>1, <2>2 DEF Model, Models
  <2>4. at' \in 0..Len(Paths) /\ at' # 0
    BY <2>1, PathsAre
  <2>5. Model(m)' /\ KidsOK(m)' /\ DataOK' /\ pc' = pc /\ pc = "notify"
    BY <1>0, <1>7 DEF Model, KidsOK, DataOK, NextEntry
  <2> QED
    BY <2>3, <2>4, <2>5 DEF TypeInv
<1>8. ASSUME NEW c \in Ids, OnDataChanged(c) PROVE TypeInv'
  <2>1. Remade(m, m')
    BY <1>8, ObservedIs
  <2>2. Model(m)' /\ KidsOK(m)' /\ DataOK'
    BY <1>0, <1>8, <2>1 DEF Remade, KidsOK, DataOK, OnDataChanged, Model
  <2>3. pc = "notify" /\ pc' = pc /\ at' = at /\ todo' = todo \ {c}
    BY <1>8 DEF OnDataChanged
  <2> QED
    BY <1>0, <2>2, <2>3 DEF TypeInv
<1>9. ASSUME FlushDirtyComponent PROVE TypeInv'
  <2>1. Model(m') /\ m'.alive = m.alive /\ m'.kids = m.kids
    BY <1>9, FlushedIs
  <2>2. Model(m)' /\ KidsOK(m)' /\ DataOK'
    BY <1>0, <1>9, <2>1 DEF KidsOK, DataOK, FlushDirtyComponent, Model
  <2> QED
    BY <1>0, <1>9, <2>2 DEF TypeInv, FlushDirtyComponent, notification
<1>10. ASSUME NotifyDone \/ FlushDone \/ UNCHANGED vars PROVE TypeInv'
  <2>1. data' = data /\ m' = m /\ at' = at /\ todo' = todo
    BY <1>10 DEF NotifyDone, FlushDone, vars, notification
  <2>2. Model(m)' /\ KidsOK(m)' /\ DataOK'
    BY <1>0, <2>1 DEF KidsOK, DataOK, Model
  <2> QED
    BY <1>0, <1>10, <2>1, <2>2 DEF TypeInv, NotifyDone, FlushDone, vars
<1> QED
  BY <1>1, <1>2, <1>3, <1>4, <1>5, <1>6, <1>7, <1>8, <1>9, <1>10 DEF Next
-----------------------------------------------------------------------------
(* Who is told of a change. *)

\* The observer of c at p is still to be called by the notification that runs.
ToBeTold(c, p) ==
    /\ pc = "notify"
    /\ \E i \in DOMAIN Paths : Paths[i] = p /\ ((at < i /\ Affected(p)) \/ (at = i /\ c \in todo))

\* The table is never wrong, whatever the observers do to the components.
BoundInv == TypeInv /\ Bound(m)

\* Every step keeps the table.
LEMMA BoundStays == BoundInv /\ [Next]_vars => BoundInv'
<1> SUFFICES ASSUME TypeInv, Bound(m), [Next]_vars PROVE BoundInv'
  BY DEF BoundInv
<1>1. ASSUME NEW c \in Fixed \ {"text"}, UpdateComponents(c) PROVE Bound(m')
  BY <1>1, UpdatedIs DEF Remade
<1>2. ASSUME NEW c \in Ids, OnDataChanged(c) PROVE Bound(m')
  BY <1>2, ObservedIs DEF Remade
<1>3. ASSUME InvalidateFunctionCallValues PROVE Bound(m')
  <2>1. m'.alive = m.alive /\ m'.table = m.table
    BY <1>3, InvalidatedIs
  <2> QED
    BY <2>1 DEF Bound
<1>4. ASSUME FlushDirtyComponent PROVE Bound(m')
  <2>1. m'.alive = m.alive /\ m'.table = m.table
    BY <1>4, FlushedIs
  <2> QED
    BY <2>1 DEF Bound
<1>5. ASSUME m' = m PROVE Bound(m')
  BY <1>5
<1>6. Bound(m')
  BY <1>1, <1>2, <1>3, <1>4, <1>5
     DEF Next, UpdateItems, UpdateCell, UpdateTitle, AppendData, SetItems, SetTitle, Notify, NextEntry, NotifyDone, FlushDone, vars
<1> QED
  BY <1>6, TypesStay DEF BoundInv, Bound

\* The table is empty at first, as are the components.
LEMMA BoundAtFirst == Init => BoundInv
<1> SUFFICES ASSUME Init PROVE Bound(m)
  BY TypesAtFirst DEF BoundInv
<1>1. m.alive = {} /\ \A p \in AllPaths : m.table[p] = {}
  BY DEF Init
<1> QED
  BY <1>1 DEF Bound

\* What is told stays to be told until it is.
LEMMA StillToBeTold ==
    ASSUME BoundInv, NEW c \in m.alive \ {"tmpl"}, NEW p \in BoundPaths(c), ToBeTold(c, p)
    PROVE  /\ NextEntry => ToBeTold(c, p)'
           /\ \A k : OnDataChanged(k) => ToBeTold(c, p)' \/ (k = c /\ Paths[at] = p)
           /\ ~NotifyDone /\ pc = "notify"
<1>1. PICK i \in DOMAIN Paths : Paths[i] = p /\ ((at < i /\ Affected(p)) \/ (at = i /\ c \in todo))
  BY DEF ToBeTold
<1>2. p \in AllPaths /\ c \in m.table[p] /\ pc = "notify"
  BY BoundIn DEF BoundInv, Bound, ToBeTold
<1>3. at \in Nat /\ Len(Paths) \in Nat /\ DOMAIN Paths = 1..Len(Paths)
  BY PathsAre DEF BoundInv, TypeInv
<1>4. ASSUME NextEntry PROVE ToBeTold(c, p)'
  <2>1. /\ at' \in DOMAIN Paths /\ at < at' /\ todo' = m.table[Paths[at']]
        /\ \A j \in DOMAIN Paths : at < j /\ Affected(Paths[j]) /\ m.table[Paths[j]] # {} => at' <= j
    BY <1>4, NextIs DEF BoundInv
  <2>2. at < i /\ Affected(p)
    BY <1>1, <1>4 DEF NextEntry
  <2>3. at' <= i
    BY <1>1, <1>2, <2>1, <2>2
  <2>4. Affected(p)'
    BY <1>4, <2>2 DEF Affected, IsSubPathOrEqual, NextEntry
  <2>5. at' < i \/ (at' = i /\ c \in todo')
    BY <1>1, <1>2, <1>3, <2>1, <2>3
  <2>6. pc' = "notify"
    BY <1>4 DEF NextEntry
  <2> QED
    BY <1>1, <2>4, <2>5, <2>6 DEF ToBeTold
<1>5. ASSUME NEW k, OnDataChanged(k), ~(k = c /\ Paths[at] = p) PROVE ToBeTold(c, p)'
  <2>1. pc' = "notify" /\ at' = at /\ changed' = changed /\ todo' = todo \ {k}
    BY <1>5 DEF OnDataChanged
  <2>2. Affected(p)' <=> Affected(p)
    BY <2>1 DEF Affected, IsSubPathOrEqual
  <2>3. (at < i /\ Affected(p)) \/ (at = i /\ c \in todo')
    BY <1>1, <1>5, <2>1
  <2> QED
    BY <1>1, <2>1, <2>2, <2>3 DEF ToBeTold
<1>6. ~NotifyDone
  <2>1. SUFFICES ASSUME NotifyDone PROVE FALSE
    OBVIOUS
  <2>2. todo = {} /\ \A j \in (at + 1)..Len(Paths) : ~(Affected(Paths[j]) /\ m.table[Paths[j]] # {})
    BY <2>1 DEF NotifyDone
  <2>3. i \in (at + 1)..Len(Paths) /\ Affected(p)
    BY <1>1, <1>3, <2>2
  <2> QED
    BY <1>1, <1>2, <2>2, <2>3
<1> QED
  BY <1>2, <1>4, <1>5, <1>6

\* A call that changes the data tells everyone it concerns.
LEMMA Announced ==
    ASSUME NEW path, NEW mode, Notify(path, mode), NEW p \in AllPaths,
           path = "/" \/ path = p \/ (path = "/items" /\ p \in ToSet(Cells)) \/ (p = "/items" /\ path \in ToSet(Cells))
    PROVE  \A c : ToBeTold(c, p)'
<1>1. pc' = "notify" /\ changed' = path /\ at' = 0
  BY DEF Notify
<1>2. PICK i \in DOMAIN Paths : Paths[i] = p
  BY DEF AllPaths, ToSet
<1>3. 0 < i
  BY PathsAre
<1>4. Affected(p)'
  BY <1>1 DEF Affected, IsSubPathOrEqual
<1> QED
  BY <1>1, <1>2, <1>3, <1>4 DEF ToBeTold

\* Between two calls nothing is marked, and the queue is empty.
LEMMA NothingMarked ==
    ASSUME TypeInv
    PROVE  TypeOK /\ (pc = "idle" => \A c \in m.alive : m.dirty[c] = {})
           /\ (pc = "flush" /\ m.order = <<>> => \A c \in m.alive : m.dirty[c] = {})
<1>1. /\ m \in Models /\ m.index \subseteq ToSet(m.order) \cap m.alive
      /\ \A c \in m.alive : m.dirty[c] # {} => c \in m.index
      /\ m.append \subseteq {c \in m.alive : m.dirty[c] # {}}
      /\ m.alive \in SUBSET Ids /\ m.table \in [AllPaths -> SUBSET Ids] /\ m.made \in [Ids -> Nat]
  BY DEF TypeInv, Model, Models
<1>2. m.order = <<>> => \A c \in m.alive : m.dirty[c] = {}
  BY <1>1, SetOf
<1>3. pc = "idle" => m.order = <<>>
  BY DEF TypeInv
<1> QED
  BY <1>1, <1>2, <1>3 DEF TypeOK, Quiet

\* The binding table holds the observers of the live components at any time,
\* in the middle of a notification too, whatever the template is bound to.
THEOREM TableIsExact == Spec => []BoundInv
<1> QED
  BY BoundAtFirst, BoundStays, PTL DEF Spec

\* Between two calls queue, marks, table and components agree, whatever the
\* template is bound to.
THEOREM BindingsAreMatched == Spec => []BindingsMatchComponents
<1>1. BoundInv => BindingsMatchComponents
  BY NothingMarked DEF BoundInv, Bound, BindingsMatchComponents, Quiet
<1> QED
  BY <1>1, TableIsExact, PTL
-----------------------------------------------------------------------------
(* The list. *)

\* As long as the list never shrank by two or more its children are the first
\* items; it has too few, or one too many, only while it is still to be told.
ListInv ==
    ~surplus =>
        /\ FirstItems(m)
        /\ {"list", "tmpl"} \subseteq m.alive /\ "/items" \in data.has =>
              \/ Len(m.kids) = Len(data.items)
              \/ ToBeTold("list", "/items") /\ Len(m.kids) <= Len(data.items) + 1

\* There is no child at first.
LEMMA ListAtFirst == Init => ListInv
<1> SUFFICES ASSUME Init PROVE FirstItems(m) /\ m.alive = {}
  BY DEF ListInv
<1>1. m.kids = <<>> /\ m.alive = {}
  BY DEF Init
<1> QED
  BY <1>1, SetOf, ItemsAre DEF FirstItems

\* In no other phase than that of the notification anything is to be told.
LEMMA ListMatches ==
    ASSUME ListInv, ~surplus, pc # "notify"
    PROVE  FirstItems(m) /\ Matching(m)
BY DEF ListInv, ToBeTold, Matching

\* Every step keeps the children and the elements together.
LEMMA ListStays == BoundInv /\ ListInv /\ [Next]_vars => ListInv'
<1> SUFFICES ASSUME BoundInv, ListInv, [Next]_vars, ~surplus' PROVE ListInv'
  BY DEF ListInv
<1>0. TypeInv /\ DataOK /\ Len(m.kids) \in Nat /\ Len(data.items) \in Nat /\ Model(m)
  BY DEF BoundInv, TypeInv, DataOK, Model, Models
<1>1. ASSUME NEW c \in Fixed \ {"text"}, UpdateComponents(c) PROVE ListInv'
  <2>1. data' = data /\ surplus' = surplus /\ pc = "idle"
    BY <1>1 DEF UpdateComponents, Change
  <2>2. FirstItems(m) /\ Matching(m)
    BY <2>1, ListMatches
  <2>3. FirstItems(m') /\ Matching(m')
    BY <1>0, <1>1, <2>2, UpdatedIs
  <2> QED
    BY <2>1, <2>3 DEF ListInv, FirstItems, Matching
<1>2. ASSUME NEW path, path \in {"/", "/items"} \cup ToSet(Cells), NEW items \in Seq(Cell), Len(items) <= Len(Items),
             SetItems(path, items)
      PROVE  ListInv'
  <2>1. data'.items = items /\ m' = m /\ surplus' = (surplus \/ LeavesSurplus(m, items)) /\ pc = "idle"
    BY <1>0, <1>2, ItemsSet DEF SetItems, Notify, Change
  <2>2. ToBeTold("list", "/items")'
    <3>1. Notify(path, FALSE) /\ "/items" \in AllPaths
      BY <1>2, PathsAre DEF SetItems
    <3> QED
      BY <1>2, <3>1, Announced
  <2>3. Len(m.kids) <= Len(items) + 1
    <3>1. ~LeavesSurplus(m, items)
      BY <2>1
    <3>2. Len(items) \in Nat
      BY <1>2
    <3> QED
      BY <1>0, <3>1, <3>2 DEF LeavesSurplus
  <2>4. FirstItems(m)
    BY <2>1 DEF ListInv
  <2> QED
    BY <2>1, <2>2, <2>3, <2>4 DEF ListInv, FirstItems
<1>3. ASSUME NEW path, NEW items \in Arrays, UpdateItems(path, items) PROVE ListInv'
  BY <1>2, <1>3, ArraysAre DEF UpdateItems
<1>4. ASSUME NEW i \in DOMAIN Cells, NEW p \in Pieces, UpdateCell(i, <<p>>) PROVE ListInv'
  <2> DEFINE items == [data.items EXCEPT ![i] = <<p>>]
  <2>1. i \in DOMAIN data.items /\ SetItems(Cells[i], items) /\ Cells[i] \in ToSet(Cells)
    BY <1>4, SetOf DEF UpdateCell
  <2>2. items \in Seq(Cell) /\ Len(items) <= Len(Items)
    BY <1>0, <2>1, CellIs DEF DataOK
  <2> HIDE DEF items
  <2> QED
    BY <1>2, <2>1, <2>2
<1>5. ASSUME data'.items = data.items, data'.has \cap {"/items"} = data.has \cap {"/items"}, m' = m, surplus' = surplus, pc = "idle"
      PROVE  ListInv'
  BY <1>5, ListMatches DEF ListInv, FirstItems, Matching
<1>6. ASSUME NEW path, NEW p \in Pieces, UpdateTitle(path, p) PROVE ListInv'
  <2> DEFINE has == data.has \cup {"/title"}
  <2>1. has \in SUBSET {"/items", "/title"} /\ data.has \subseteq has /\ <<p>> \in Seq(Pieces)
    BY <1>0 DEF DataOK
  <2>2. data' = [data EXCEPT !.title = <<p>>, !.has = has] /\ Notify(path, FALSE)
    BY <1>0, <1>6 DEF UpdateTitle, SetTitle, DataOK
  <2>3. data'.items = data.items /\ data'.has = has
    <3> HIDE DEF has
    <3> QED
      BY <1>0, <2>1, <2>2, TitleSet
  <2> QED
    BY <1>5, <1>6, <2>3 DEF UpdateTitle, SetTitle, Notify, Change
<1>7. ASSUME NEW p \in Pieces, AppendData(p) PROVE ListInv'
  <2>1. data'.items = data.items /\ data'.has = data.has
    BY <1>0, <1>7 DEF AppendData, DataOK
  <2> QED
    BY <1>5, <1>7, <2>1 DEF AppendData, Notify, Change
<1>8. ASSUME InvalidateFunctionCallValues PROVE ListInv'
  <2>1. m'.alive = m.alive /\ m'.kids = m.kids
    BY <1>0, <1>8, InvalidatedIs
  <2>2. data' = data /\ surplus' = surplus /\ pc = "idle"
    BY <1>8 DEF InvalidateFunctionCallValues, Change
  <2>3. FirstItems(m) /\ Matching(m)
    BY <2>2, ListMatches
  <2> QED
    BY <2>1, <2>2, <2>3 DEF ListInv, FirstItems, Matching
<1>9. "list" \in m.alive => "/items" \in BoundPaths("list") /\ "list" \in m.alive \ {"tmpl"}
  BY BoundPathsAre
<1>10. ASSUME NextEntry PROVE ListInv'
  <2>1. m' = m /\ data' = data /\ surplus' = surplus
    BY <1>10 DEF NextEntry, history
  <2>2. "list" \in m.alive /\ ToBeTold("list", "/items") => ToBeTold("list", "/items")'
    BY <1>9, <1>10, StillToBeTold
  <2> QED
    BY <2>1, <2>2 DEF ListInv, FirstItems
<1>11. ASSUME NEW c \in Ids, OnDataChanged(c) PROVE ListInv'
  <2>1. data' = data /\ surplus' = surplus
    BY <1>11 DEF OnDataChanged, history
  <2>2. /\ KidsOK(m') /\ m'.alive \cap Fixed = m.alive \cap Fixed
        /\ (c # "list" => m'.alive = m.alive /\ m'.table = m.table /\ m'.kids = m.kids)
        /\ (c = "list" /\ {"list", "tmpl"} \subseteq m.alive
               /\ FirstItems(m) /\ "/items" \in data.has /\ Len(m.kids) <= Len(data.items) + 1)
                    => FirstItems(m') /\ Len(m'.kids) = Len(data.items)
    BY <1>0, <1>11, ObservedIs DEF Remade, TypeInv
  <2>3. {"list", "tmpl"} \subseteq m'.alive <=> {"list", "tmpl"} \subseteq m.alive
    BY <2>2 DEF Fixed
  <2>4. CASE c # "list" \/ "list" \notin m.alive
    <3>1. m'.alive = m.alive /\ m'.kids = m.kids
      BY <1>11, <2>2, <2>4 DEF OnDataChanged
    <3>2. "list" \in m.alive /\ ToBeTold("list", "/items") => ToBeTold("list", "/items")'
      BY <1>9, <1>11, <2>4, StillToBeTold
    <3> QED
      BY <2>1, <3>1, <3>2 DEF ListInv, FirstItems
  <2>5. CASE c = "list" /\ "list" \in m.alive /\ "tmpl" \in m.alive /\ "/items" \in data.has
    <3>1. FirstItems(m) /\ Len(m.kids) <= Len(data.items) + 1
      BY <1>0, <2>1, <2>5 DEF ListInv
    <3>2. FirstItems(m') /\ Len(m'.kids) = Len(data.items)
      BY <2>2, <2>5, <3>1
    <3> QED
      BY <2>1, <3>2 DEF ListInv, FirstItems
  <2>6. CASE c = "list" /\ "list" \in m.alive /\ ~("tmpl" \in m.alive /\ "/items" \in data.has)
    <3>1. "tmpl" \in m'.alive <=> "tmpl" \in m.alive
      BY <2>2 DEF Fixed
    <3>2. m'.kids = <<>>
      BY <2>2, <2>6, <3>1 DEF KidsOK
    <3>3. FirstItems(m')
      BY <3>2, SetOf, ItemsAre DEF FirstItems
    <3> QED
      BY <2>1, <2>6, <3>1, <3>3 DEF ListInv, FirstItems
  <2> QED
    BY <2>4, <2>5, <2>6
<1>12. ASSUME NotifyDone PROVE ListInv'
  <2>1. m' = m /\ data' = data /\ surplus' = surplus
    BY <1>12 DEF NotifyDone, history
  <2>2. ~("list" \in m.alive /\ ToBeTold("list", "/items"))
    BY <1>9, <1>12, StillToBeTold
  <2> QED
    BY <2>1, <2>2 DEF ListInv, FirstItems
<1>13. ASSUME FlushDirtyComponent \/ FlushDone PROVE ListInv'
  <2>1. m'.alive = m.alive /\ m'.kids = m.kids
    BY <1>0, <1>13, FlushedIs DEF FlushDone
  <2>2. data' = data /\ surplus' = surplus /\ pc = "flush"
    BY <1>13 DEF FlushDirtyComponent, FlushDone, history
  <2>3. FirstItems(m) /\ Matching(m)
    BY <2>2, ListMatches
  <2> QED
    BY <2>1, <2>2, <2>3 DEF ListInv, FirstItems, Matching
<1>14. ASSUME UNCHANGED vars PROVE ListInv'
  <2>1. m' = m /\ data' = data /\ surplus' = surplus /\ (ToBeTold("list", "/items") => ToBeTold("list", "/items")')
    BY <1>14 DEF vars, history, notification, ToBeTold, Affected, IsSubPathOrEqual
  <2> QED
    BY <2>1 DEF ListInv, FirstItems
<1> QED
  BY <1>1, <1>3, <1>4, <1>6, <1>7, <1>8, <1>10, <1>11, <1>12, <1>13, <1>14 DEF Next

\* Whichever of list, template and data came first, and whatever changed since,
\* the children of the list are those of the elements, in order and there,
\* unless the list ever shrank by two or more at once.
THEOREM ListIsFollowed == Spec => []ListFollowsData
<1> DEFINE IInv == BoundInv /\ ListInv
<1>1. Init => IInv
  BY BoundAtFirst, ListAtFirst
<1>2. IInv /\ [Next]_vars => IInv'
  BY BoundStays, ListStays
<1>3. IInv => ListFollowsData
  <2> SUFFICES ASSUME BoundInv, ListInv, Quiet, ~surplus, {"list", "tmpl"} \subseteq m.alive, "/items" \in data.has
               PROVE  m.kids = SubSeq(Items, 1, Len(data.items)) /\ ToSet(m.kids) \subseteq m.alive
    BY DEF ListFollowsData
  <2>1. FirstItems(m) /\ Len(m.kids) = Len(data.items)
    BY ListMatches DEF Quiet, Matching
  <2>2. m.kids \in Seq(ToSet(Items)) /\ Len(data.items) \in Nat
    BY DEF BoundInv, TypeInv, DataOK, Model, Models
  <2> DEFINE n    == Len(data.items)
             part == SubSeq(Items, 1, n)
  <2>3. \A i \in 1..n : Items[i] \in ToSet(Items) /\ m.kids[i] = Items[i]
    BY <2>1, <2>2, ItemsAre DEF FirstItems
  <2>4. part \in Seq(ToSet(Items)) /\ Len(part) = n /\ \A i \in 1..n : part[i] = Items[i]
    <3>1. n \in Nat /\ 1 \in Int /\ n \in Int
      BY <2>2
    <3> HIDE DEF n
    <3>2. \A i \in 1..n : Items[i] \in ToSet(Items)
      BY <2>3
    <3>3. /\ part \in Seq(ToSet(Items)) /\ Len(part) = IF 1 <= n THEN n - 1 + 1 ELSE 0
          /\ \A i \in 1..(n - 1 + 1) : part[i] = Items[1 + i - 1]
      BY <3>1, <3>2, SubSeqProperties
    <3> QED
      BY <3>1, <3>3
  <2> HIDE DEF part
  <2>5. m.kids = part
    BY <2>1, <2>2, <2>3, <2>4
  <2> QED
    BY <2>1, <2>5 DEF part, FirstItems
<1> QED
  BY <1>1, <1>2, <1>3, PTL DEF Spec
-----------------------------------------------------------------------------
(* What the screen shows. *)

Displays == {"FullyReady", "NotDependent"}

\* A snapshot has its fields, whatever they hold.
IsSnapshot(t) == t \in [ver : {t.ver}, vals : {t.vals}, kids : {t.kids}, status : {t.status}, append : {t.append}]

\* The children a snapshot of c may have.
Shaped(c, t) ==
    /\ t # NoSnapshot => t.status # "None"
    /\ c = "root" => t = NoSnapshot \/ ToSet(t.kids) = {"card", "list"}
    /\ c = "card" => t = NoSnapshot \/ ToSet(t.kids) = {"text"}
    /\ c = "list" => ToSet(t.kids) \subseteq ToSet(Items)
    /\ c \notin {"root", "card", "list"} => ToSet(t.kids) = {}

\* A node with a snapshot is in the tree.
Tree(d) ==
    /\ d \in [snap : {d.snap}, orphan : {d.orphan}] /\ DOMAIN d.snap = Ids /\ DOMAIN d.orphan = Ids
    /\ \A c \in Ids : Shaped(c, d.snap[c]) /\ Shaped(c, d.orphan[c])
    /\ d.snap["card"] # NoSnapshot \/ d.snap["list"] # NoSnapshot => d.snap["root"] # NoSnapshot
    /\ d.snap["text"] # NoSnapshot => d.snap["card"] # NoSnapshot
    /\ \A c \in ToSet(Items) : d.snap[c] # NoSnapshot => c \in ToSet(d.snap["list"].kids)
    /\ d.snap["tmpl"] = NoSnapshot

\* An array that arrived empty is not seen.
EmptyUnseen(c) == c = "list" /\ data.items = <<>> /\ m.kids = <<>> /\ current[c].status = "NotReady"

\* A snapshot that counts has the data, the children and the status of now, but
\* for what is marked or still to be told.
CurrentOK(c) ==
    LET s == current[c]
    IN  /\ s.ver = m.made[c]
        /\ DOMAIN s.vals = Attributes(c) /\ s.append = FALSE
        /\ s.vals = [p \in DOMAIN s.vals |-> s.vals[p]]
        /\ \A p \in Attributes(c) : s.vals[p] = GetValue(p) \/ p \in m.dirty[c] \/ ToBeTold(c, p)
        /\ s.kids = Children(c) \/ "children" \in m.dirty[c]
        /\ \/ s.status = AggregateBindingStatus(c) \/ m.dirty[c] # {} \/ EmptyUnseen(c)
           \/ \E p \in BoundPaths(c) : ToBeTold(c, p)

\* The list is shown, or waits to be.
Showable(d) == d.snap["list"] # NoSnapshot \/ d.orphan["list"].status \in Displays

\* The list has data as soon as it is shown, or could be.
ListShown ==
    /\ "list" \notin m.alive => dom.snap["list"] = NoSnapshot /\ dom.orphan["list"] = NoSnapshot
    /\ Showable(dom) => "/items" \in data.has
    /\ Known(m, "list") =>
          /\ current["list"].status \in {"FullyReady", "NotReady"}
          /\ current["list"].status = "FullyReady" => "/items" \in data.has
          /\ current["list"].status = "NotReady" /\ m.dirty["list"] = {} => m.kids = <<>>
          /\ Showable(dom) => current["list"].status = "FullyReady"

\* Those the tree has a place for, but for the card, which has a rule of its own.
Claimed(c) == c \in {"root", "list", "text"} \/ c \in ToSet(m.kids)

\* c is shown as t if it is in the tree, and waits as t if it is not.
PlacedAs(d, c, t) == IF InTree(d, c) THEN d.snap[c] = t ELSE d.orphan[c] = t

ScreenInv ==
    /\ DOMAIN current = Ids
    /\ \A c \in Ids : IsSnapshot(current[c]) /\ Shaped(c, current[c])
    /\ \A c \in Ids \ {"tmpl"} : Known(m, c) => CurrentOK(c)
    /\ Tree(dom) /\ ListShown
    /\ \A c \in Ids : Claimed(c) /\ Known(m, c) /\ current[c].status \in Displays => PlacedAs(dom, c, current[c])

\* What no snapshot looks like.
LEMMA NoSnapshotIs ==
    /\ IsSnapshot(NoSnapshot) /\ NoSnapshot.status = "None" /\ NoSnapshot.kids = <<>> /\ ToSet(NoSnapshot.kids) = {}
    /\ \A c : Shaped(c, NoSnapshot)
<1>1. NoSnapshot.status = "None" /\ NoSnapshot.kids = <<>> /\ IsSnapshot(NoSnapshot)
  BY DEF NoSnapshot, IsSnapshot
<1>2. ToSet(NoSnapshot.kids) = {}
  BY <1>1, SetOf
<1> QED
  BY <1>1, <1>2 DEF Shaped

\* Who is in the tree.
LEMMA TreeIs ==
    ASSUME NEW d, Tree(d)
    PROVE  /\ InTree(d, "root")
           /\ InTree(d, "card") <=> d.snap["root"] # NoSnapshot
           /\ InTree(d, "list") <=> d.snap["root"] # NoSnapshot
           /\ InTree(d, "text") <=> d.snap["card"] # NoSnapshot
           /\ \A c \in ToSet(Items) : InTree(d, c) <=> c \in Kids(d, "list")
           /\ ~InTree(d, "tmpl")
           /\ Kids(d, "root") = IF d.snap["root"] = NoSnapshot THEN {} ELSE {"card", "list"}
           /\ Kids(d, "card") = IF d.snap["card"] = NoSnapshot THEN {} ELSE {"text"}
           /\ Kids(d, "list") \subseteq ToSet(Items)
           /\ \A c \in Ids \ {"root", "card", "list"} : Kids(d, c) = {}
<1>1. Fixed \subseteq Ids /\ ToSet(Items) \subseteq Ids /\ ToSet(Items) \cap Fixed = {}
  BY ItemsAre
<1>2. Kids(d, "root") = IF d.snap["root"] = NoSnapshot THEN {} ELSE {"card", "list"}
  BY <1>1, NoSnapshotIs DEF Kids, Tree, Shaped, Fixed
<1>3. Kids(d, "card") = IF d.snap["card"] = NoSnapshot THEN {} ELSE {"text"}
  BY <1>1, NoSnapshotIs DEF Kids, Tree, Shaped, Fixed
<1>4. Kids(d, "list") \subseteq ToSet(Items)
  BY <1>1 DEF Kids, Tree, Shaped, Fixed
<1>5. \A c \in Ids \ {"root", "card", "list"} : Kids(d, c) = {}
  BY DEF Kids, Tree, Shaped
<1>6. d.snap["root"] = NoSnapshot => Kids(d, "card") = {} /\ Kids(d, "list") = {}
  BY NoSnapshotIs DEF Tree, Kids
<1>7. UNION {Kids(d, k) : k \in Kids(d, "root")} = Kids(d, "card") \cup Kids(d, "list")
  <2>1. CASE d.snap["root"] = NoSnapshot
    BY <1>2, <1>6, <2>1
  <2>2. CASE d.snap["root"] # NoSnapshot
    <3>1. Kids(d, "root") = {"card", "list"}
      BY <1>2, <2>2
    <3> QED
      BY <3>1
  <2> QED
    BY <2>1, <2>2
<1>8. \A c : InTree(d, c) <=> c = "root" \/ c \in Kids(d, "root") \/ c \in Kids(d, "card") \/ c \in Kids(d, "list")
  BY <1>7 DEF InTree, Below
<1>9. InTree(d, "root") /\ ~InTree(d, "tmpl")
  BY <1>1, <1>2, <1>3, <1>4, <1>8 DEF Fixed
<1>10. (InTree(d, "card") <=> d.snap["root"] # NoSnapshot) /\ (InTree(d, "list") <=> d.snap["root"] # NoSnapshot)
  BY <1>1, <1>2, <1>3, <1>4, <1>8 DEF Fixed
<1>11. InTree(d, "text") <=> d.snap["card"] # NoSnapshot
  BY <1>1, <1>2, <1>3, <1>4, <1>8 DEF Fixed
<1>12. ASSUME NEW c \in ToSet(Items) PROVE InTree(d, c) <=> c \in Kids(d, "list")
  <2>1. c \notin Fixed
    BY <1>1
  <2> QED
    BY <2>1, <1>2, <1>3, <1>8 DEF Fixed
<1> QED
  BY <1>2, <1>3, <1>4, <1>5, <1>9, <1>10, <1>11, <1>12

\* The rule of every component but the card.
LEMMA DisplayedAlways ==
    ASSUME NEW d, NEW c, c # "card", NEW t
    PROVE  CheckCanDisplay(d, c, t) <=> t.status \in Displays
BY DEF CheckCanDisplay, DisplayRule, Displays

\* What an orphan that may be shown is.
Adoptable(d, k) == d.orphan[k] # NoSnapshot /\ CheckCanDisplay(d, k, d.orphan[k])

\* An orphan other than the card is adopted if its status is one that displays.
LEMMA AdoptableIs ==
    ASSUME NEW d, NEW k, k # "card"
    PROVE  Adoptable(d, k) <=> d.orphan[k].status \in Displays
BY DisplayedAlways, NoSnapshotIs DEF Adoptable, Displays

\* Whose child is whose.
LEMMA ShapeIs ==
    ASSUME NEW x \in Ids, NEW t, Shaped(x, t), NEW k \in ToSet(t.kids)
    PROVE  /\ t # NoSnapshot /\ k \in Ids \ {"root", "tmpl"}
           /\ \/ x = "root" /\ k \in {"card", "list"}
              \/ x = "card" /\ k = "text"
              \/ x = "list" /\ k \in ToSet(Items)
<1>1. t # NoSnapshot
  BY NoSnapshotIs
<1>2. Fixed \subseteq Ids /\ ToSet(Items) \subseteq Ids /\ ToSet(Items) \cap Fixed = {}
  BY ItemsAre
<1> QED
  BY <1>1, <1>2 DEF Shaped, Fixed

\* In the tree is who is the child of a snapshot.
LEMMA InTreeIff ==
    ASSUME NEW d, Tree(d), NEW k \in Ids \ {"root"}
    PROVE  /\ InTree(d, k) <=> \E x \in Ids : k \in ToSet(d.snap[x].kids)
           /\ d.snap[k] # NoSnapshot => InTree(d, k)
<1>1. Fixed \subseteq Ids /\ ToSet(Items) \subseteq Ids /\ ToSet(Items) \cap Fixed = {} /\ Ids = Fixed \cup ToSet(Items)
  BY ItemsAre
<1>2. ASSUME NEW x \in Ids, k \in ToSet(d.snap[x].kids) PROVE InTree(d, k)
  <2>1. /\ d.snap[x] # NoSnapshot
        /\ \/ x = "root" /\ k \in {"card", "list"}
           \/ x = "card" /\ k = "text"
           \/ x = "list" /\ k \in ToSet(Items)
    BY <1>2, ShapeIs DEF Tree
  <2> QED
    BY <1>2, <2>1, TreeIs DEF Kids
<1>3. ASSUME InTree(d, k) PROVE \E x \in Ids : k \in ToSet(d.snap[x].kids)
  <2>1. k \in Kids(d, "root") \/ k \in Kids(d, "card") \/ k \in Kids(d, "list")
    BY <1>1, <1>3, TreeIs DEF Fixed
  <2> QED
    BY <1>1, <2>1 DEF Kids, Fixed
<1>4. ASSUME d.snap[k] # NoSnapshot PROVE InTree(d, k)
  BY <1>1, <1>4, TreeIs DEF Tree, Fixed, Kids
<1> QED
  BY <1>2, <1>3, <1>4

\* A tree is one in which whoever has a snapshot is someone's child.
LEMMA TreeIf ==
    ASSUME NEW d, d \in [snap : {d.snap}, orphan : {d.orphan}], DOMAIN d.snap = Ids, DOMAIN d.orphan = Ids,
           \A c \in Ids : Shaped(c, d.snap[c]) /\ Shaped(c, d.orphan[c]),
           \A c \in Ids \ {"root"} : d.snap[c] # NoSnapshot => \E x \in Ids : c \in ToSet(d.snap[x].kids)
    PROVE  Tree(d)
<1>1. Fixed \subseteq Ids /\ ToSet(Items) \subseteq Ids /\ ToSet(Items) \cap Fixed = {}
  BY ItemsAre
<1>2. ASSUME NEW c \in Ids \ {"root"}, d.snap[c] # NoSnapshot
      PROVE  \E x \in Ids :
                /\ c \in ToSet(d.snap[x].kids) /\ d.snap[x] # NoSnapshot /\ c # "tmpl"
                /\ \/ x = "root" /\ c \in {"card", "list"}
                   \/ x = "card" /\ c = "text"
                   \/ x = "list" /\ c \in ToSet(Items)
  <2>1. PICK x \in Ids : c \in ToSet(d.snap[x].kids)
    BY <1>2
  <2> QED
    BY <2>1, ShapeIs
<1>3. d.snap["card"] # NoSnapshot \/ d.snap["list"] # NoSnapshot => d.snap["root"] # NoSnapshot
  BY <1>1, <1>2 DEF Fixed
<1>4. d.snap["text"] # NoSnapshot => d.snap["card"] # NoSnapshot
  BY <1>1, <1>2 DEF Fixed
<1>5. \A c \in ToSet(Items) : d.snap[c] # NoSnapshot => c \in ToSet(d.snap["list"].kids)
  BY <1>1, <1>2 DEF Fixed
<1>6. d.snap["tmpl"] = NoSnapshot
  BY <1>1, <1>2 DEF Fixed
<1> QED
  BY <1>3, <1>4, <1>5, <1>6 DEF Tree
-----------------------------------------------------------------------------
(* setSnapshot(). *)

Gone(d, c, s)    == IF c = "list" THEN Kids(d, "list") \ ToSet(s.kids) ELSE {}
Kept(d, c, s, k) == IF k = c THEN s ELSE IF k \in Gone(d, c, s) THEN NoSnapshot ELSE d.snap[k]
First(d, c, s)   == {k \in ToSet(s.kids) : Kept(d, c, s, k) = NoSnapshot /\ Adoptable(d, k)}
Taken(d, c, s)   == First(d, c, s) \cup
                    {k \in UNION {ToSet(d.orphan[f].kids) : f \in First(d, c, s)} :
                        Kept(d, c, s, k) = NoSnapshot /\ Adoptable(d, k)}

\* What updateChildren() removes: items of the list.
LEMMA GoneIs ==
    ASSUME NEW d, Tree(d), NEW c \in Ids, NEW s, s # NoSnapshot, Shaped(c, s)
    PROVE  UNION {Below(d, k) : k \in Kids(d, c) \ ToSet(s.kids)} = Gone(d, c, s)
<1>1. Fixed \subseteq Ids /\ ToSet(Items) \subseteq Ids /\ ToSet(Items) \cap Fixed = {}
  BY ItemsAre
<1>2. CASE c # "list"
  <2>1. Kids(d, c) \ ToSet(s.kids) = {}
    BY <1>2, TreeIs DEF Shaped
  <2> QED
    BY <1>2, <2>1 DEF Gone
<1>3. CASE c = "list"
  <2>1. ASSUME NEW k \in Kids(d, "list") PROVE Below(d, k) = {k}
    <3>1. k \in Ids \ {"root", "card", "list"}
      BY <1>1, <2>1, TreeIs DEF Fixed
    <3>2. Kids(d, k) = {}
      BY <3>1, TreeIs
    <3> QED
      BY <3>2 DEF Below
  <2>2. {Below(d, k) : k \in Kids(d, "list") \ ToSet(s.kids)} = {{k} : k \in Kids(d, "list") \ ToSet(s.kids)}
    BY <2>1
  <2> QED
    BY <1>3, <2>2 DEF Gone
<1> QED
  BY <1>2, <1>3

\* setSnapshot(), node by node.
LEMMA SetIs ==
    ASSUME NEW d, Tree(d), NEW c \in Ids, NEW s, s # NoSnapshot, Shaped(c, s),
           NEW e, e = SetSnapshot(d, c, s)
    PROVE  /\ e \in [snap : {e.snap}, orphan : {e.orphan}] /\ DOMAIN e.snap = Ids /\ DOMAIN e.orphan = Ids
           /\ \A k \in Ids : e.snap[k] = IF k \in Taken(d, c, s) THEN d.orphan[k] ELSE Kept(d, c, s, k)
           /\ \A k \in Ids : e.orphan[k] = IF k \in Taken(d, c, s) THEN NoSnapshot ELSE d.orphan[k]
<1> DEFINE gone  == UNION {Below(d, k) : k \in Kids(d, c) \ ToSet(s.kids)}
           new   == [k \in Ids |-> IF k = c THEN s ELSE IF k \in gone THEN NoSnapshot ELSE d.snap[k]]
           kept  == [d EXCEPT !.snap = new]
           first == Adopting(kept, ToSet(s.kids))
           taken == first \cup Adopting(kept, UNION {ToSet(kept.orphan[k].kids) : k \in first})
<1>1. e = [snap   |-> [k \in Ids |-> IF k \in taken THEN kept.orphan[k] ELSE kept.snap[k]],
           orphan |-> [k \in Ids |-> IF k \in taken THEN NoSnapshot ELSE kept.orphan[k]]]
  <2>1. kept = [d EXCEPT !.snap = [k \in Ids |-> IF k = c THEN s ELSE IF k \in gone THEN NoSnapshot ELSE @[k]]]
    BY DEF Tree
  <2> QED
    BY <2>1 DEF SetSnapshot
<1>2. gone = Gone(d, c, s)
  BY GoneIs
<1>3. \A k \in Ids : new[k] = Kept(d, c, s, k)
  BY <1>2 DEF Kept
<1> HIDE DEF gone, new
<1>4. kept.snap = new /\ kept.orphan = d.orphan
  BY DEF Tree
<1> HIDE DEF kept
<1>5. \A k : CheckCanDisplay(kept, k, d.orphan[k]) <=> CheckCanDisplay(d, k, d.orphan[k])
  BY <1>4 DEF CheckCanDisplay, AnyChildReady, NoChildDepends
<1>6. \A C \in SUBSET Ids : Adopting(kept, C) = {k \in C : Kept(d, c, s, k) = NoSnapshot /\ Adoptable(d, k)}
  BY <1>3, <1>4, <1>5 DEF Adopting, Adoptable
<1>7. ToSet(s.kids) \in SUBSET Ids /\ \A k \in Ids : ToSet(d.orphan[k].kids) \in SUBSET Ids
  BY ShapeIs DEF Tree
<1>8. first = First(d, c, s) /\ first \in SUBSET Ids
  BY <1>6, <1>7 DEF First
<1>9. UNION {ToSet(d.orphan[k].kids) : k \in first} \in SUBSET Ids
  BY <1>7, <1>8
<1>10. taken = Taken(d, c, s)
  <2> HIDE DEF first
  <2> QED
    BY <1>4, <1>6, <1>8, <1>9 DEF Taken
<1> HIDE DEF taken
<1>11. /\ e \in [snap : {e.snap}, orphan : {e.orphan}] /\ DOMAIN e.snap = Ids /\ DOMAIN e.orphan = Ids
       /\ \A k \in Ids : e.snap[k] = IF k \in taken THEN d.orphan[k] ELSE new[k]
       /\ \A k \in Ids : e.orphan[k] = IF k \in taken THEN NoSnapshot ELSE d.orphan[k]
  BY <1>1, <1>4
<1> QED
  BY <1>3, <1>10, <1>11

\* Who has a snapshot and is not a child that is given up keeps it.
LEMMA KeptIs ==
    ASSUME NEW d, Tree(d), NEW c \in Ids, NEW s, s # NoSnapshot, Shaped(c, s),
           NEW e, e = SetSnapshot(d, c, s)
    PROVE  /\ e.snap[c] = s /\ e.orphan[c] = d.orphan[c] /\ c \notin Taken(d, c, s)
           /\ Gone(d, c, s) \subseteq ToSet(Items) /\ Taken(d, c, s) \subseteq Ids \ {"root", "tmpl"}
           /\ \A x \in Ids \ {c} : d.snap[x] # NoSnapshot /\ x \notin Gone(d, c, s) => e.snap[x] = d.snap[x]
<1>1. /\ \A k \in Ids : e.snap[k] = IF k \in Taken(d, c, s) THEN d.orphan[k] ELSE Kept(d, c, s, k)
      /\ \A k \in Ids : e.orphan[k] = IF k \in Taken(d, c, s) THEN NoSnapshot ELSE d.orphan[k]
  BY SetIs
<1>2. \A k \in Taken(d, c, s) : Kept(d, c, s, k) = NoSnapshot
  BY DEF Taken, First
<1>3. c \notin Taken(d, c, s) /\ Kept(d, c, s, c) = s
  BY <1>2 DEF Kept
<1>4. Gone(d, c, s) \subseteq ToSet(Items)
  BY TreeIs DEF Gone
<1>5. Taken(d, c, s) \subseteq Ids \ {"root", "tmpl"}
  <2>1. First(d, c, s) \subseteq Ids \ {"root", "tmpl"}
    BY ShapeIs DEF First
  <2>2. \A f \in First(d, c, s) : ToSet(d.orphan[f].kids) \subseteq Ids \ {"root", "tmpl"}
    BY <2>1, ShapeIs DEF Tree
  <2> QED
    BY <2>1, <2>2 DEF Taken
<1>6. ASSUME NEW x \in Ids \ {c}, d.snap[x] # NoSnapshot, x \notin Gone(d, c, s) PROVE e.snap[x] = d.snap[x]
  BY <1>1, <1>2, <1>6 DEF Kept
<1> QED
  BY <1>1, <1>3, <1>4, <1>5, <1>6

\* setSnapshot() of a node of the tree leaves a tree.
LEMMA TreeSet ==
    ASSUME NEW d, Tree(d), NEW c \in Ids, c = "root" \/ InTree(d, c), NEW s, s # NoSnapshot, Shaped(c, s),
           NEW e, e = SetSnapshot(d, c, s)
    PROVE  Tree(e) /\ InTree(e, c)
<1>1. /\ e \in [snap : {e.snap}, orphan : {e.orphan}] /\ DOMAIN e.snap = Ids /\ DOMAIN e.orphan = Ids
      /\ \A k \in Ids : e.snap[k] = IF k \in Taken(d, c, s) THEN d.orphan[k] ELSE Kept(d, c, s, k)
      /\ \A k \in Ids : e.orphan[k] = IF k \in Taken(d, c, s) THEN NoSnapshot ELSE d.orphan[k]
  BY SetIs
<1>2. /\ e.snap[c] = s /\ c \notin Taken(d, c, s)
      /\ Gone(d, c, s) \subseteq ToSet(Items) /\ Taken(d, c, s) \subseteq Ids \ {"root", "tmpl"}
      /\ \A x \in Ids \ {c} : d.snap[x] # NoSnapshot /\ x \notin Gone(d, c, s) => e.snap[x] = d.snap[x]
  BY KeptIs
<1>3. \A k \in Ids : Shaped(k, e.snap[k]) /\ Shaped(k, e.orphan[k])
  <2>1. \A k \in Ids : Shaped(k, d.snap[k]) /\ Shaped(k, d.orphan[k]) /\ Shaped(k, NoSnapshot)
    BY NoSnapshotIs DEF Tree
  <2> QED
    BY <1>1, <2>1 DEF Kept
<1>4. Fixed \subseteq Ids /\ ToSet(Items) \subseteq Ids /\ ToSet(Items) \cap Fixed = {}
  BY ItemsAre
<1>5. ASSUME NEW x \in Ids, NEW k \in ToSet(d.snap[x].kids)
      PROVE  /\ x # k /\ d.snap[x] # NoSnapshot /\ x \notin Gone(d, c, s)
             /\ x # c => e.snap[x] = d.snap[x]
  <2>1. /\ d.snap[x] # NoSnapshot
        /\ \/ x = "root" /\ k \in {"card", "list"}
           \/ x = "card" /\ k = "text"
           \/ x = "list" /\ k \in ToSet(Items)
    BY <1>5, ShapeIs DEF Tree
  <2>2. x \notin ToSet(Items) /\ x # k
    BY <2>1, <1>4 DEF Fixed
  <2> QED
    BY <2>1, <2>2, <1>2
<1>6. ASSUME NEW k \in Taken(d, c, s) PROVE \E x \in Ids : k \in ToSet(e.snap[x].kids)
  <2>1. CASE k \in First(d, c, s)
    BY <2>1, <1>2 DEF First
  <2>2. CASE k \notin First(d, c, s)
    <3>1. PICK f \in First(d, c, s) : k \in ToSet(d.orphan[f].kids)
      BY <2>2 DEF Taken
    <3>2. f \in Taken(d, c, s) /\ f \in Ids
      BY <1>2 DEF Taken
    <3> QED
      BY <3>1, <3>2, <1>1
  <2> QED
    BY <2>1, <2>2
<1>7. ASSUME NEW k \in Ids \ {"root", c}, k \notin Taken(d, c, s), e.snap[k] # NoSnapshot
      PROVE  \E x \in Ids : k \in ToSet(e.snap[x].kids)
  <2>1. d.snap[k] # NoSnapshot /\ k \notin Gone(d, c, s)
    BY <1>1, <1>7 DEF Kept
  <2>2. PICK x \in Ids : k \in ToSet(d.snap[x].kids)
    BY <2>1, InTreeIff
  <2>3. CASE x = c
    <3>1. /\ d.snap[x] # NoSnapshot
          /\ \/ x = "root" /\ k \in {"card", "list"}
             \/ x = "card" /\ k = "text"
             \/ x = "list" /\ k \in ToSet(Items)
      BY <2>2, ShapeIs DEF Tree
    <3>2. k \in ToSet(s.kids)
      BY <2>1, <2>2, <2>3, <3>1 DEF Shaped, Gone, Kids
    <3> QED
      BY <3>2, <1>2
  <2>4. CASE x # c
    BY <2>2, <2>4, <1>5
  <2> QED
    BY <2>3, <2>4
<1>8. c # "root" => \E x \in Ids : c \in ToSet(e.snap[x].kids)
  <2> SUFFICES ASSUME c # "root" PROVE \E x \in Ids : c \in ToSet(e.snap[x].kids)
    OBVIOUS
  <2>1. PICK x \in Ids : c \in ToSet(d.snap[x].kids)
    BY InTreeIff
  <2> QED
    BY <2>1, <1>5
<1>9. \A k \in Ids \ {"root"} : e.snap[k] # NoSnapshot => \E x \in Ids : k \in ToSet(e.snap[x].kids)
  BY <1>6, <1>7, <1>8
<1>10. Tree(e)
  BY <1>1, <1>3, <1>9, TreeIf
<1>11. InTree(e, c)
  BY <1>8, <1>10, InTreeIff, TreeIs
<1> QED
  BY <1>10, <1>11

\* What is shown, or waits to be, is so after setSnapshot() of another node.
LEMMA PlacedKept ==
    ASSUME NEW d, Tree(d), NEW c \in Ids, c = "root" \/ InTree(d, c), NEW s, s # NoSnapshot, Shaped(c, s),
           NEW e, e = SetSnapshot(d, c, s),
           NEW k \in Ids \ {"card", c}, k \notin Gone(d, c, s), NEW v, v.status \in Displays, PlacedAs(d, k, v)
    PROVE  PlacedAs(e, k, v)
<1>1. /\ \A x \in Ids : e.snap[x] = IF x \in Taken(d, c, s) THEN d.orphan[x] ELSE Kept(d, c, s, x)
      /\ \A x \in Ids : e.orphan[x] = IF x \in Taken(d, c, s) THEN NoSnapshot ELSE d.orphan[x]
  BY SetIs
<1>2. /\ e.snap[c] = s /\ Taken(d, c, s) \subseteq Ids \ {"root", "tmpl"}
      /\ \A x \in Ids \ {c} : d.snap[x] # NoSnapshot /\ x \notin Gone(d, c, s) => e.snap[x] = d.snap[x]
  BY KeptIs
<1>3. Tree(e) /\ v # NoSnapshot
  BY TreeSet, NoSnapshotIs DEF Displays
<1>4. CASE InTree(d, k)
  <2>1. d.snap[k] = v /\ e.snap[k] = v
    BY <1>2, <1>3, <1>4 DEF PlacedAs
  <2>2. InTree(e, k)
    BY <1>3, <2>1, InTreeIff, TreeIs
  <2> QED
    BY <2>1, <2>2 DEF PlacedAs
<1>5. CASE ~InTree(d, k)
  <2>1. k # "root" /\ d.orphan[k] = v
    BY <1>5, TreeIs DEF PlacedAs
  <2>2. d.snap[k] = NoSnapshot /\ Adoptable(d, k) /\ Kept(d, c, s, k) = NoSnapshot
    BY <1>5, <2>1, InTreeIff, AdoptableIs DEF Kept
  <2>3. CASE k \in Taken(d, c, s)
    <3>1. e.snap[k] = v
      BY <1>1, <2>1, <2>3
    <3> QED
      BY <1>3, <2>1, <3>1, InTreeIff DEF PlacedAs
  <2>4. CASE k \notin Taken(d, c, s)
    <3>1. ASSUME NEW x \in Ids, k \in ToSet(e.snap[x].kids) PROVE FALSE
      <4>1. e.snap[x] # NoSnapshot /\ x \in {"root", "card", "list"}
        BY <1>3, <3>1, ShapeIs DEF Tree
      <4>2. CASE x = c
        BY <1>2, <2>2, <2>4, <3>1, <4>2 DEF Taken, First
      <4>3. CASE x # c /\ x \notin Taken(d, c, s)
        <5>1. e.snap[x] = d.snap[x]
          BY <1>1, <4>1, <4>3 DEF Kept
        <5> QED
          BY <1>5, <2>1, <3>1, <5>1, InTreeIff
      <4>4. CASE x \in First(d, c, s)
        <5>1. e.snap[x] = d.orphan[x]
          BY <1>1, <4>4 DEF Taken
        <5> QED
          BY <2>2, <2>4, <3>1, <4>4, <5>1 DEF Taken
      <4>5. CASE x \in Taken(d, c, s) \ First(d, c, s)
        <5>1. PICK f \in First(d, c, s) : x \in ToSet(d.orphan[f].kids)
          BY <4>5 DEF Taken
        <5>2. f \in Ids \ {"root"}
          BY <1>2, <5>1 DEF Taken
        <5>3. (f = "card" /\ x = "text") \/ (f = "list" /\ x \in ToSet(Items))
          BY <5>1, <5>2, ShapeIs DEF Tree
        <5> QED
          BY <4>1, <5>3, ItemsAre DEF Fixed
      <4> QED
        BY <4>2, <4>3, <4>4, <4>5
    <3>2. ~InTree(e, k)
      BY <1>3, <2>1, <3>1, InTreeIff
    <3>3. e.orphan[k] = v
      BY <1>1, <2>1, <2>4
    <3> QED
      BY <3>2, <3>3 DEF PlacedAs
  <2> QED
    BY <2>3, <2>4
<1> QED
  BY <1>4, <1>5

\* setSnapshot() of another node shows the list only if it waited.
LEMMA ListKept ==
    ASSUME NEW d, Tree(d), NEW c \in Ids \ {"list"}, NEW s, s # NoSnapshot, Shaped(c, s),
           NEW e, e = SetSnapshot(d, c, s)
    PROVE  /\ Showable(e) => Showable(d)
           /\ d.snap["list"] = NoSnapshot /\ d.orphan["list"] = NoSnapshot
                 => e.snap["list"] = NoSnapshot /\ e.orphan["list"] = NoSnapshot
<1>1. "list" \in Ids /\ "list" \notin ToSet(Items)
  BY ItemsAre DEF Fixed
<1>2. /\ e.snap["list"] = IF "list" \in Taken(d, c, s) THEN d.orphan["list"] ELSE Kept(d, c, s, "list")
      /\ e.orphan["list"] = IF "list" \in Taken(d, c, s) THEN NoSnapshot ELSE d.orphan["list"]
  BY <1>1, SetIs
<1>3. Kept(d, c, s, "list") = d.snap["list"]
  BY <1>1, KeptIs DEF Kept
<1>4. "list" \in Taken(d, c, s) => d.orphan["list"].status \in Displays /\ d.orphan["list"] # NoSnapshot
  BY AdoptableIs DEF Taken, First, Adoptable
<1> QED
  BY <1>2, <1>3, <1>4, NoSnapshotIs DEF Showable, Displays

\* d with the orphan s, or without one.
WithOrphan(d, c, s) == [d EXCEPT !.orphan[c] = s]

\* An orphan says nothing about the tree.
LEMMA OrphanIs ==
    ASSUME NEW d, Tree(d), NEW c \in Ids, NEW s, Shaped(c, s),
           NEW e, e = WithOrphan(d, c, s)
    PROVE  /\ Tree(e) /\ e.snap = d.snap /\ e.orphan[c] = s
           /\ \A k \in Ids \ {c} : e.orphan[k] = d.orphan[k]
           /\ \A k : InTree(e, k) <=> InTree(d, k)
           /\ \A k \in Ids \ {c} : \A v : PlacedAs(e, k, v) <=> PlacedAs(d, k, v)
<1>1. d \in [snap : {d.snap}, orphan : {d.orphan}] /\ DOMAIN d.snap = Ids /\ DOMAIN d.orphan = Ids
  BY DEF Tree
<1>2. /\ e.snap = d.snap /\ e.orphan[c] = s /\ \A k \in Ids \ {c} : e.orphan[k] = d.orphan[k]
      /\ e \in [snap : {e.snap}, orphan : {e.orphan}] /\ DOMAIN e.orphan = Ids
  BY <1>1 DEF WithOrphan
<1>3. \A k : InTree(e, k) <=> InTree(d, k)
  BY <1>2 DEF InTree, Below, Kids
<1>4. Tree(e)
  BY <1>2 DEF Tree
<1> QED
  BY <1>2, <1>3, <1>4 DEF PlacedAs

\* tryAttachReadyOrphans().
LEMMA AttachedIs ==
    ASSUME NEW d, Tree(d), NEW e, e = TryAttachReadyOrphans(d)
    PROVE  /\ Tree(e)
           /\ \A k \in Ids \ {"card"} : \A v : v.status \in Displays /\ PlacedAs(d, k, v) => PlacedAs(e, k, v)
           /\ Showable(e) => Showable(d)
           /\ d.snap["list"] = NoSnapshot /\ d.orphan["list"] = NoSnapshot
                 => e.snap["list"] = NoSnapshot /\ e.orphan["list"] = NoSnapshot
<1>1. PICK s : s = d.orphan["card"]
  OBVIOUS
<1>2. "card" \in Ids /\ "card" # "list" /\ "list" \in Ids
  BY ItemsAre DEF Fixed
<1>3. CASE s # NoSnapshot /\ CheckCanDisplay(d, "card", s) /\ InTree(d, "card")
  <2>1. PICK f : f = SetSnapshot(d, "card", s)
    OBVIOUS
  <2>2. e = WithOrphan(f, "card", NoSnapshot)
    BY <1>1, <1>3, <2>1 DEF WithOrphan, TryAttachReadyOrphans
  <2>3. Shaped("card", s) /\ Shaped("card", NoSnapshot) /\ Gone(d, "card", s) = {}
    BY <1>1, <1>2, NoSnapshotIs DEF Tree, Gone
  <2>4. Tree(f)
    BY <1>2, <1>3, <2>1, <2>3, TreeSet
  <2>5. \A k \in Ids \ {"card"} : \A v : v.status \in Displays /\ PlacedAs(d, k, v) => PlacedAs(f, k, v)
    BY <1>2, <1>3, <2>1, <2>3, PlacedKept
  <2>6. /\ Showable(f) => Showable(d)
        /\ d.snap["list"] = NoSnapshot /\ d.orphan["list"] = NoSnapshot
              => f.snap["list"] = NoSnapshot /\ f.orphan["list"] = NoSnapshot
    BY <1>2, <1>3, <2>1, <2>3, ListKept
  <2>7. /\ Tree(e) /\ e.snap = f.snap /\ \A k \in Ids \ {"card"} : e.orphan[k] = f.orphan[k]
        /\ \A k \in Ids \ {"card"} : \A v : PlacedAs(e, k, v) <=> PlacedAs(f, k, v)
    BY <1>2, <2>2, <2>3, <2>4, OrphanIs
  <2> QED
    BY <1>2, <2>5, <2>6, <2>7 DEF Showable
<1>4. CASE ~(s # NoSnapshot /\ CheckCanDisplay(d, "card", s) /\ InTree(d, "card"))
  <2>1. e = d
    BY <1>1, <1>4 DEF TryAttachReadyOrphans
  <2> QED
    BY <2>1
<1> QED
  BY <1>3, <1>4

\* updateNode(): c is shown if it may be and has a place, or waits; what else
\* was shown, or waited for its place, still does.
LEMMA NodeIs ==
    ASSUME NEW d, Tree(d), NEW c \in Ids, NEW s, s # NoSnapshot, Shaped(c, s),
           NEW e, e = UpdateNode(d, c, s)
    PROVE  /\ Tree(e)
           /\ c # "card" /\ s.status \in Displays => PlacedAs(e, c, s)
           /\ \A k \in Ids \ {"card", c} : \A v :
                 k \notin Gone(d, c, s) /\ v.status \in Displays /\ PlacedAs(d, k, v) => PlacedAs(e, k, v)
           /\ Showable(e) => Showable(d) \/ (c = "list" /\ s.status \in Displays)
           /\ c # "list" /\ d.snap["list"] = NoSnapshot /\ d.orphan["list"] = NoSnapshot
                 => e.snap["list"] = NoSnapshot /\ e.orphan["list"] = NoSnapshot
<1>1. "list" \in Ids
  BY ItemsAre DEF Fixed
<1>2. CASE c = "root" \/ (InTree(d, c) /\ CheckCanDisplay(d, c, s))
  <2>1. e = SetSnapshot(d, c, s)
    BY <1>2 DEF UpdateNode
  <2>2. Tree(e) /\ InTree(e, c) /\ e.snap[c] = s
    BY <1>2, <2>1, TreeSet, KeptIs
  <2>3. PlacedAs(e, c, s)
    BY <2>2 DEF PlacedAs
  <2>4. \A k \in Ids \ {"card", c} : \A v :
            k \notin Gone(d, c, s) /\ v.status \in Displays /\ PlacedAs(d, k, v) => PlacedAs(e, k, v)
    BY <1>2, <2>1, PlacedKept
  <2>5. c # "list" =>
            /\ Showable(e) => Showable(d)
            /\ d.snap["list"] = NoSnapshot /\ d.orphan["list"] = NoSnapshot
                  => e.snap["list"] = NoSnapshot /\ e.orphan["list"] = NoSnapshot
    BY <2>1, ListKept
  <2>6. c = "list" => s.status \in Displays
    BY <1>2, DisplayedAlways
  <2> QED
    BY <2>2, <2>3, <2>4, <2>5, <2>6
<1>3. CASE c # "root" /\ ~(InTree(d, c) /\ CheckCanDisplay(d, c, s))
  <2>1. PICK f : f = WithOrphan(d, c, s)
    OBVIOUS
  <2>2. e = TryAttachReadyOrphans(f)
    BY <1>3, <2>1 DEF UpdateNode, WithOrphan
  <2>3. /\ Tree(f) /\ f.snap = d.snap /\ f.orphan[c] = s
        /\ \A k \in Ids \ {c} : f.orphan[k] = d.orphan[k]
        /\ \A k : InTree(f, k) <=> InTree(d, k)
        /\ \A k \in Ids \ {c} : \A v : PlacedAs(f, k, v) <=> PlacedAs(d, k, v)
    BY <2>1, OrphanIs
  <2>4. /\ Tree(e)
        /\ \A k \in Ids \ {"card"} : \A v : v.status \in Displays /\ PlacedAs(f, k, v) => PlacedAs(e, k, v)
        /\ Showable(e) => Showable(f)
        /\ f.snap["list"] = NoSnapshot /\ f.orphan["list"] = NoSnapshot
              => e.snap["list"] = NoSnapshot /\ e.orphan["list"] = NoSnapshot
    BY <2>2, <2>3, AttachedIs
  <2>5. c # "card" /\ s.status \in Displays => PlacedAs(e, c, s)
    <3>1. c # "card" /\ s.status \in Displays => PlacedAs(f, c, s)
      BY <1>3, <2>3, DisplayedAlways DEF PlacedAs
    <3> QED
      BY <2>4, <3>1
  <2>6. \A k \in Ids \ {"card", c} : \A v : v.status \in Displays /\ PlacedAs(d, k, v) => PlacedAs(e, k, v)
    BY <2>3, <2>4
  <2>7. Showable(f) => Showable(d) \/ (c = "list" /\ s.status \in Displays)
    BY <1>1, <2>3 DEF Showable
  <2> QED
    BY <1>1, <2>3, <2>4, <2>5, <2>6, <2>7
<1> QED
  BY <1>2, <1>3
-----------------------------------------------------------------------------
(* What is read again. *)

\* What is read again, and what is not.
LEMMA StatusIs ==
    ASSUME NEW c
    PROVE  /\ AggregateBindingStatus(c) \in Statuses \ {"None"}
           /\ BoundPaths(c) = {} => AggregateBindingStatus(c) = "NotDependent"
           /\ \A p : BoundPaths(c) = {p} =>
                 AggregateBindingStatus(c) = IF GetValue(p) # <<>> THEN "FullyReady" ELSE "NotReady"
           /\ (\A p \in BoundPaths(c) : GetValue(p)' = GetValue(p))
                 => AggregateBindingStatus(c)' = AggregateBindingStatus(c)
<1> DEFINE ready == {GetValue(p) # <<>> : p \in BoundPaths(c)}
<1>1. AggregateBindingStatus(c) =
         CASE ready = {}      -> "NotDependent"
           [] ready = {TRUE}  -> "FullyReady"
           [] ready = {FALSE} -> "NotReady"
           [] OTHER           -> "PartiallyReady"
  BY DEF AggregateBindingStatus
<1>2. AggregateBindingStatus(c) \in Statuses \ {"None"}
  <2> HIDE DEF ready
  <2> QED
    BY <1>1 DEF Statuses
<1>3. BoundPaths(c) = {} => AggregateBindingStatus(c) = "NotDependent"
  <2>1. BoundPaths(c) = {} => ready = {}
    OBVIOUS
  <2> HIDE DEF ready
  <2> QED
    BY <1>1, <2>1
<1>4. ASSUME NEW p, BoundPaths(c) = {p}
      PROVE  AggregateBindingStatus(c) = IF GetValue(p) # <<>> THEN "FullyReady" ELSE "NotReady"
  <2>1. ready = {GetValue(p) # <<>>}
    BY <1>4
  <2>2. CASE GetValue(p) # <<>>
    <3>1. ready = {TRUE}
      BY <2>1, <2>2
    <3> HIDE DEF ready
    <3>2. ready # {}
      BY <3>1
    <3> QED
      BY <1>1, <2>2, <3>1, <3>2, Zenon
  <2>3. CASE ~(GetValue(p) # <<>>)
    <3>1. ready = {FALSE}
      BY <2>1, <2>3
    <3> HIDE DEF ready
    <3>2. ready # {} /\ ready # {TRUE}
      BY <3>1
    <3> QED
      BY <1>1, <2>3, <3>1, <3>2, Zenon
  <2> QED
    BY <2>2, <2>3
<1>5. ASSUME \A p \in BoundPaths(c) : GetValue(p)' = GetValue(p)
      PROVE  AggregateBindingStatus(c)' = AggregateBindingStatus(c)
  <2>1. ready' = ready
    BY <1>5
  <2>2. AggregateBindingStatus(c)' =
           CASE ready' = {}      -> "NotDependent"
             [] ready' = {TRUE}  -> "FullyReady"
             [] ready' = {FALSE} -> "NotReady"
             [] OTHER            -> "PartiallyReady"
    BY DEF AggregateBindingStatus
  <2> HIDE DEF ready
  <2> QED
    BY <1>1, <2>1, <2>2
<1> QED
  BY <1>2, <1>3, <1>4, <1>5

\* What is built from the data.
LEMMA FullIs ==
    ASSUME TypeInv, NEW c \in Ids, NEW full, full = FullSnapshot(c)
    PROVE  /\ IsSnapshot(full) /\ Shaped(c, full) /\ full # NoSnapshot
           /\ full.ver = m.made[c]
           /\ full.vals = [p \in Attributes(c) |-> GetValue(p)]
           /\ full.kids = Children(c) /\ full.status = AggregateBindingStatus(c) /\ full.append = FALSE
<1>1. /\ full.ver = m.made[c]
      /\ full.vals = [p \in Attributes(c) |-> GetValue(p)]
      /\ full.kids = Children(c) /\ full.status = AggregateBindingStatus(c) /\ full.append = FALSE
      /\ IsSnapshot(full)
  BY DEF FullSnapshot, IsSnapshot
<1>2. full.status # "None" /\ full # NoSnapshot
  BY <1>1, StatusIs, NoSnapshotIs
<1>3. /\ c = "root" => ToSet(Children(c)) = {"card", "list"}
      /\ c = "card" => ToSet(Children(c)) = {"text"}
      /\ c = "list" => ToSet(Children(c)) \subseteq ToSet(Items)
      /\ c \notin {"root", "card", "list"} => ToSet(Children(c)) = {}
  <2>1. ToSet(<<"card", "list">>) = {"card", "list"} /\ ToSet(<<"text">>) = {"text"} /\ ToSet(<<>>) = {}
    BY SetOf DEF ToSet
  <2>2. ToSet(m.kids) \subseteq ToSet(Items)
    BY SetOf DEF TypeInv, Model, Models
  <2> QED
    BY <2>1, <2>2 DEF Children
<1> QED
  BY <1>1, <1>2, <1>3 DEF Shaped

\* Snapshots with the same fields are the same.
LEMMA SameSnapshot ==
    ASSUME NEW s, IsSnapshot(s), NEW t, IsSnapshot(t),
           s.ver = t.ver, s.vals = t.vals, s.kids = t.kids, s.status = t.status, s.append = t.append
    PROVE  s = t
<1> DEFINE Built(r) == [ver |-> r.ver, vals |-> r.vals, kids |-> r.kids, status |-> r.status, append |-> r.append]
<1>1. s = Built(s)
  BY DEF IsSnapshot
<1>2. t = Built(t)
  BY DEF IsSnapshot
<1> QED
  BY <1>1, <1>2

\* When the call flushes what it marked, what is read again and what is not
\* make up what would be built now.
LEMMA SnapshotIs ==
    ASSUME TypeInv, ScreenInv, pc = "flush", NEW c \in m.alive, NEW s, s = Snapshot(c)
    PROVE  /\ IsSnapshot(s) /\ Shaped(c, s) /\ s # NoSnapshot /\ s.status = AggregateBindingStatus(c)
           /\ c # "tmpl" => s = FullSnapshot(c)
<1>1. c \in Ids
  BY DEF TypeInv, Model, Models
<1>2. PICK full : full = FullSnapshot(c)
  OBVIOUS
<1>3. /\ IsSnapshot(full) /\ Shaped(c, full) /\ full # NoSnapshot
      /\ full.ver = m.made[c]
      /\ full.vals = [p \in Attributes(c) |-> GetValue(p)]
      /\ full.kids = Children(c) /\ full.status = AggregateBindingStatus(c) /\ full.append = FALSE
  BY <1>1, <1>2, FullIs
<1>4. CASE m.dirty[c] = {"all"}
  <2>1. s = full
    BY <1>2, <1>4 DEF Snapshot
  <2> QED
    BY <1>2, <1>3, <2>1
<1>5. CASE m.dirty[c] # {"all"}
  <2>1. PICK old : old = current[c]
    OBVIOUS
  <2> DEFINE vals == [p \in DOMAIN old.vals |-> IF p \in m.dirty[c] THEN full.vals[p] ELSE old.vals[p]]
             kids == IF "children" \in m.dirty[c] THEN full.kids ELSE old.kids
  <2>2. IsSnapshot(old) /\ Shaped(c, old)
    BY <1>1, <2>1 DEF ScreenInv
  <2>3. s = [old EXCEPT !.vals = vals, !.kids = kids, !.status = full.status, !.append = FALSE]
    BY <1>2, <1>5, <2>1, <2>2 DEF Snapshot, IsSnapshot
  <2> HIDE DEF vals, kids
  <2>4. s.ver = old.ver /\ s.vals = vals /\ s.kids = kids /\ s.status = full.status /\ s.append = FALSE /\ IsSnapshot(s)
    BY <2>2, <2>3 DEF IsSnapshot
  <2>5. s.status # "None" /\ s # NoSnapshot
    BY <1>3, <2>4, NoSnapshotIs DEF Shaped
  <2>6. ASSUME c # "tmpl" PROVE s = full
    <3>1. CurrentOK(c)
      BY <1>1, <1>5, <2>6 DEF ScreenInv, Known
    <3>2. \A p : ~ToBeTold(c, p)
      BY DEF ToBeTold
    <3>3. /\ old.ver = full.ver /\ DOMAIN old.vals = Attributes(c)
          /\ \A p \in Attributes(c) : old.vals[p] = GetValue(p) \/ p \in m.dirty[c]
          /\ old.kids = full.kids \/ "children" \in m.dirty[c]
      BY <1>3, <2>1, <3>1, <3>2 DEF CurrentOK
    <3>4. vals = full.vals
      BY <1>3, <3>3 DEF vals
    <3>5. kids = full.kids
      BY <3>3 DEF kids
    <3>6. IsSnapshot(full) /\ full.status = s.status /\ full.append = s.append /\ full.ver = s.ver
          /\ full.vals = s.vals /\ full.kids = s.kids /\ IsSnapshot(s)
      BY <1>3, <2>4, <3>3, <3>4, <3>5
    <3> QED
      BY <3>6, SameSnapshot
  <2>7. c = "tmpl" => Shaped(c, s)
    <3> SUFFICES ASSUME c = "tmpl" PROVE Shaped(c, s)
      OBVIOUS
    <3>1. ToSet(kids) = {}
      BY <1>3, <2>2 DEF Shaped, kids
    <3> QED
      BY <2>4, <2>5, <3>1 DEF Shaped
  <2> QED
    BY <1>2, <1>3, <2>4, <2>5, <2>6, <2>7
<1> QED
  BY <1>4, <1>5
-----------------------------------------------------------------------------
(* What counts keeps counting. *)

\* The attributes of a component, and what there are of them.
LEMMA AttributesAre ==
    /\ \A c : Attributes(c) \subseteq BoundPaths(c)
    /\ Attributes("list") = {}
BY BoundPathsAre DEF Attributes

\* A snapshot counts on as long as what changes is told or marked.
LEMMA CurrentKept ==
    ASSUME NEW c \in Ids, CurrentOK(c), current'[c] = current[c], m.dirty[c] \subseteq m'.dirty[c],
           m'.made[c] = m.made[c],
           c = "list" => m'.kids = m.kids \/ "children" \in m'.dirty[c],
           c = "list" => data'.items = data.items \/ ToBeTold(c, "/items")',
           \A p \in BoundPaths(c) : GetValue(p)' = GetValue(p) \/ ToBeTold(c, p)',
           \A p \in BoundPaths(c) : ToBeTold(c, p) => ToBeTold(c, p)' \/ p \in m'.dirty[c]
    PROVE  CurrentOK(c)'
<1>1. PICK s : s = current[c]
  OBVIOUS
<1>2. current[c]' = s
  BY <1>1
<1>3. /\ s.ver = m'.made[c]
      /\ DOMAIN s.vals = Attributes(c) /\ s.append = FALSE
      /\ s.vals = [p \in DOMAIN s.vals |-> s.vals[p]]
  BY <1>1 DEF CurrentOK
<1>4. \A p \in Attributes(c) : s.vals[p] = GetValue(p)' \/ p \in m'.dirty[c] \/ ToBeTold(c, p)'
  <2>1. \A p \in Attributes(c) : s.vals[p] = GetValue(p) \/ p \in m.dirty[c] \/ ToBeTold(c, p)
    BY <1>1 DEF CurrentOK
  <2> QED
    BY <2>1, AttributesAre
<1>5. s.kids = Children(c)' \/ "children" \in m'.dirty[c]
  <2>1. s.kids = Children(c) \/ "children" \in m'.dirty[c]
    BY <1>1 DEF CurrentOK
  <2>2. Children(c)' = Children(c) \/ "children" \in m'.dirty[c]
    BY DEF Children
  <2> QED
    BY <2>1, <2>2
<1>6. \/ s.status = AggregateBindingStatus(c)' \/ m'.dirty[c] # {} \/ EmptyUnseen(c)'
      \/ \E p \in BoundPaths(c) : ToBeTold(c, p)'
  <2> SUFFICES ASSUME m'.dirty[c] = {}, \A p \in BoundPaths(c) : ~ToBeTold(c, p)'
               PROVE  s.status = AggregateBindingStatus(c)' \/ EmptyUnseen(c)'
    OBVIOUS
  <2>1. AggregateBindingStatus(c)' = AggregateBindingStatus(c)
    BY StatusIs
  <2>2. s.status = AggregateBindingStatus(c) \/ EmptyUnseen(c)
    BY <1>1 DEF CurrentOK
  <2>3. EmptyUnseen(c) => EmptyUnseen(c)'
    BY BoundPathsAre DEF EmptyUnseen
  <2> QED
    BY <2>1, <2>2, <2>3
<1> QED
  BY <1>2, <1>3, <1>4, <1>5, <1>6 DEF CurrentOK

\* What a call does to the components without a flush.
Moved(x, y) ==
    /\ "list" \in x.alive => "list" \in y.alive
    /\ \A c \in Ids : Known(y, c) => Known(x, c) /\ x.dirty[c] \subseteq y.dirty[c] /\ y.made[c] = x.made[c]
    /\ \A c \in ToSet(y.kids) : Known(y, c) => c \in ToSet(x.kids)
    /\ ListMarked(x, y)

\* Components that are remade, or left alone, are moved.
LEMMA MovedIs == \A x, y : (Remade(x, y) /\ ListMarked(x, y)) \/ x = y => Moved(x, y)
BY ItemsAre DEF Moved, Remade, ListMarked, Fixed

\* A step that flushes nothing changes no snapshot and no node.
LEMMA ScreenKept ==
    ASSUME ScreenInv, current' = current, dom' = dom, data.has \subseteq data'.has, Moved(m, m'),
           \A c \in Ids \ {"tmpl"} : Known(m', c) => CurrentOK(c)'
    PROVE  ScreenInv'
<1>1. "list" \in Ids /\ {"root", "list", "text"} \subseteq Ids
  BY ItemsAre DEF Fixed
<1>2. Tree(dom') /\ DOMAIN current' = Ids /\ \A c \in Ids : IsSnapshot(current'[c]) /\ Shaped(c, current'[c])
  BY DEF ScreenInv
<1>3. ListShown'
  <2>1. /\ "list" \notin m.alive => dom.snap["list"] = NoSnapshot /\ dom.orphan["list"] = NoSnapshot
        /\ Showable(dom) => "/items" \in data.has
        /\ Known(m, "list") =>
              /\ current["list"].status \in {"FullyReady", "NotReady"}
              /\ current["list"].status = "FullyReady" => "/items" \in data.has
              /\ current["list"].status = "NotReady" /\ m.dirty["list"] = {} => m.kids = <<>>
              /\ Showable(dom) => current["list"].status = "FullyReady"
    BY DEF ScreenInv, ListShown
  <2>2. /\ "list" \in m.alive => "list" \in m'.alive
        /\ Known(m', "list") => /\ Known(m, "list") /\ m.dirty["list"] \subseteq m'.dirty["list"]
                                /\ m'.kids = m.kids \/ "children" \in m'.dirty["list"]
    BY <1>1 DEF Moved, ListMarked
  <2>3. Known(m', "list") =>
              /\ current'["list"].status \in {"FullyReady", "NotReady"}
              /\ current'["list"].status = "FullyReady" => "/items" \in data'.has
              /\ current'["list"].status = "NotReady" /\ m'.dirty["list"] = {} => m'.kids = <<>>
              /\ Showable(dom') => current'["list"].status = "FullyReady"
    BY <2>1, <2>2
  <2> QED
    BY <2>1, <2>2, <2>3 DEF ListShown
<1>4. ASSUME NEW c \in Ids, Claimed(c)', Known(m', c), current'[c].status \in Displays
      PROVE  PlacedAs(dom', c, current'[c])
  <2>1. Known(m, c) /\ Claimed(c)
    BY <1>4 DEF Moved, Claimed
  <2> QED
    BY <1>4, <2>1 DEF ScreenInv
<1> QED
  BY <1>2, <1>3, <1>4 DEF ScreenInv

\* The value of an element.
LEMMA CellValue ==
    ASSUME NEW p, p # "/items", p # "/title", NEW k, k = CHOOSE n \in DOMAIN Cells : Cells[n] = p
    PROVE  /\ GetValue(p) = IF k \in DOMAIN data.items THEN <<data.items[k]>> ELSE <<>>
           /\ GetValue(p)' = IF k \in DOMAIN data'.items THEN <<data'.items[k]>> ELSE <<>>
<1> DEFINE n == CHOOSE n \in DOMAIN Cells : Cells[n] = p
           value == IF n \in DOMAIN data.items THEN <<data.items[n]>> ELSE <<>>
<1>1. GetValue(p) = value
  BY SMT DEF GetValue
<1>2. GetValue(p)' = value'
  BY SMT DEF GetValue
<1> QED
  BY <1>1, <1>2

\* A change of the array, of one of its elements, or of the text tells those
\* it concerns.
LEMMA ItemsTold ==
    ASSUME NEW path, NEW items, SetItems(path, items),
           data \in [has : {data.has}, title : {data.title}, items : {data.items}],
           \/ path \in {"/", "/items"}
           \/ \E i \in DOMAIN Cells : \E v : path = Cells[i] /\ items = [data.items EXCEPT ![i] = v]
    PROVE  /\ \A p \in AllPaths : GetValue(p)' = GetValue(p) \/ \A c : ToBeTold(c, p)'
           /\ \A c : ToBeTold(c, "/items")'
           /\ data.has \subseteq data'.has
<1>1. data' = [data EXCEPT !.items = items, !.has = @ \cup {"/items"}] /\ Notify(path, FALSE)
  BY DEF SetItems
<1>2. data'.items = items /\ data'.title = data.title /\ data'.has = data.has \cup {"/items"}
  BY <1>1
<1>3. PICK mode : Notify(path, mode)
  BY <1>1
<1>4. path \in {"/", "/items"} \cup ToSet(Cells)
  BY DEF ToSet
<1>5. \A c : ToBeTold(c, "/items")'
  BY <1>3, <1>4, Announced, PathsAre
<1>6. ASSUME NEW p \in ToSet(Cells) PROVE GetValue(p)' = GetValue(p) \/ \A c : ToBeTold(c, p)'
  <2>1. CASE path \in {"/", "/items"} \/ path = p
    BY <1>3, <1>6, <2>1, Announced, PathsAre
  <2>2. CASE ~(path \in {"/", "/items"} \/ path = p)
    <3>1. PICK i \in DOMAIN Cells : \E v : path = Cells[i] /\ items = [data.items EXCEPT ![i] = v]
      BY <2>2
    <3>2. PICK k : k = CHOOSE n \in DOMAIN Cells : Cells[n] = p
      OBVIOUS
    <3>3. k \in DOMAIN Cells /\ Cells[k] = p
      BY <1>6, <3>2 DEF ToSet
    <3>4. p \notin {"/items", "/title"}
      BY BindingAssumption DEF BindingAssumption
    <3>5. GetValue(p) = IF k \in DOMAIN data.items THEN <<data.items[k]>> ELSE <<>>
      BY <3>2, <3>4, CellValue
    <3>6. GetValue(p)' = IF k \in DOMAIN data'.items THEN <<data'.items[k]>> ELSE <<>>
      BY <3>2, <3>4, CellValue
    <3>7. k # i
      BY <2>2, <3>1, <3>3
    <3>8. (k \in DOMAIN data'.items <=> k \in DOMAIN data.items) /\ (k \in DOMAIN data.items => data'.items[k] = data.items[k])
      BY <1>2, <3>1, <3>7
    <3> QED
      BY <3>5, <3>6, <3>8
  <2> QED
    BY <2>1, <2>2
<1>7. GetValue("/title")' = GetValue("/title")
  <2>1. ("/title" \in data'.has <=> "/title" \in data.has) /\ data'.title = data.title
    BY <1>2
  <2>2. GetValue("/title") = IF "/title" \in data.has THEN <<data.title>> ELSE <<>>
    BY DEF GetValue
  <2>3. GetValue("/title")' = IF "/title" \in data'.has THEN <<data'.title>> ELSE <<>>
    BY DEF GetValue
  <2> QED
    BY <2>1, <2>2, <2>3
<1>8. AllPaths = {"/items", "/title"} \cup ToSet(Cells)
  BY PathsAre
<1> QED
  BY <1>2, <1>5, <1>6, <1>7, <1>8

\* The same of a change of the text.
LEMMA TitleTold ==
    ASSUME NEW path \in {"/", "/title"}, NEW mode, Notify(path, mode),
           data'.items = data.items, data.has \subseteq data'.has, data'.has \subseteq data.has \cup {"/title"}
    PROVE  \A p \in AllPaths : GetValue(p)' = GetValue(p) \/ \A c : ToBeTold(c, p)'
<1>1. \A c : ToBeTold(c, "/title")'
  BY Announced, PathsAre
<1>2. ASSUME NEW p \in AllPaths, p # "/title" PROVE GetValue(p)' = GetValue(p)
  <2>1. CASE p = "/items"
    <3>1. GetValue(p) = IF "/items" \in data.has THEN <<data.items>> ELSE <<>>
      BY <2>1 DEF GetValue
    <3>2. GetValue(p)' = IF "/items" \in data'.has THEN <<data'.items>> ELSE <<>>
      BY <2>1 DEF GetValue
    <3>3. "/items" \in data'.has <=> "/items" \in data.has
      OBVIOUS
    <3> QED
      BY <3>1, <3>2, <3>3
  <2>2. CASE p # "/items"
    <3>1. PICK k : k = CHOOSE n \in DOMAIN Cells : Cells[n] = p
      OBVIOUS
    <3>2. GetValue(p) = IF k \in DOMAIN data.items THEN <<data.items[k]>> ELSE <<>>
      BY <1>2, <2>2, <3>1, CellValue
    <3>3. GetValue(p)' = IF k \in DOMAIN data'.items THEN <<data'.items[k]>> ELSE <<>>
      BY <1>2, <2>2, <3>1, CellValue
    <3> QED
      BY <3>2, <3>3
  <2> QED
    BY <2>1, <2>2
<1> QED
  BY <1>1, <1>2

\* A call that changes the data leaves what counts counting.
LEMMA ScreenTold ==
    ASSUME BoundInv, ScreenInv, pc = "idle", UNCHANGED <<m, current, dom>>,
           data.has \subseteq data'.has,
           data'.items = data.items \/ \A c : ToBeTold(c, "/items")',
           \A p \in AllPaths : GetValue(p)' = GetValue(p) \/ \A c : ToBeTold(c, p)'
    PROVE  ScreenInv'
<1>1. \A c, p : ~ToBeTold(c, p)
  BY DEF ToBeTold
<1>2. ASSUME NEW c \in Ids \ {"tmpl"}, Known(m', c) PROVE CurrentOK(c)'
  <2>1. CurrentOK(c)
    BY <1>2 DEF ScreenInv
  <2>2. \A p \in BoundPaths(c) : p \in AllPaths
    BY BoundIn
  <2> QED
    BY <1>1, <2>1, <2>2, CurrentKept
<1> QED
  BY <1>2, MovedIs, ScreenKept

\* The same data have the same values.
LEMMA SameValues == data' = data => \A p : GetValue(p)' = GetValue(p)
BY DEF GetValue

\* onDataChanged() of the list.
LEMMA ListObserved ==
    ASSUME BoundInv, ScreenInv, OnDataChanged("list"), Known(m', "list")
    PROVE  CurrentOK("list")'
<1>1. "list" \in Ids \ {"tmpl"} /\ TypeInv
  BY ItemsAre DEF Fixed, BoundInv
<1>2. /\ Remade(m, m') /\ ListMarked(m, m')
      /\ "list" \in m.alive => ListTold(m, m')
  BY <1>1, ObservedIs
<1>3. Known(m, "list") /\ m.dirty["list"] \subseteq m'.dirty["list"] /\ "list" \in m.alive
  BY <1>1, <1>2 DEF Remade, Known
<1>4. CurrentOK("list") /\ ListShown
  BY <1>1, <1>3 DEF ScreenInv
<1>5. current' = current /\ data' = data
  BY DEF OnDataChanged
<1>6. PICK s : s = current["list"]
  OBVIOUS
<1>7. /\ current["list"]' = s /\ s.ver = m'.made["list"] /\ DOMAIN s.vals = Attributes("list") /\ s.append = FALSE
      /\ s.vals = [p \in DOMAIN s.vals |-> s.vals[p]]
      /\ s.kids = Children("list") \/ "children" \in m.dirty["list"]
  <2>1. m'.made["list"] = m.made["list"]
    BY <1>1, <1>2 DEF Remade
  <2> QED
    BY <1>4, <1>5, <1>6, <2>1 DEF CurrentOK
<1>8. Children("list") = m.kids /\ Children("list")' = m'.kids
  BY DEF Children
<1>9. s.kids = Children("list")' \/ "children" \in m'.dirty["list"]
  BY <1>2, <1>3, <1>7, <1>8 DEF ListMarked
<1>10. s.status = AggregateBindingStatus("list")' \/ m'.dirty["list"] # {} \/ EmptyUnseen("list")'
  <2> SUFFICES ASSUME m'.dirty["list"] = {} PROVE s.status = AggregateBindingStatus("list")' \/ EmptyUnseen("list")'
    OBVIOUS
  <2>1. m' = m /\ ("/items" \notin data.has \/ Len(m.kids) = Len(data.items))
    BY <1>2, <1>3 DEF ListTold
  <2>2. AggregateBindingStatus("list")' = AggregateBindingStatus("list")
    BY <1>5, SameValues, StatusIs
  <2>3. AggregateBindingStatus("list") = IF "/items" \in data.has THEN "FullyReady" ELSE "NotReady"
    <3>1. AggregateBindingStatus("list") = IF GetValue("/items") # <<>> THEN "FullyReady" ELSE "NotReady"
      BY BoundPathsAre, StatusIs
    <3> QED
      BY <3>1 DEF GetValue
  <2>4. /\ s.status \in {"FullyReady", "NotReady"}
        /\ s.status = "FullyReady" => "/items" \in data.has
        /\ s.status = "NotReady" => m.kids = <<>>
    BY <1>3, <1>4, <1>6 DEF ListShown
  <2>5. CASE s.status = "NotReady" /\ "/items" \in data.has
    <3>1. m.kids = <<>> /\ Len(data.items) = 0
      BY <2>1, <2>4, <2>5
    <3>2. data.items = <<>>
      <4>1. data.items \in Seq(Cell)
        BY <1>1 DEF TypeInv, DataOK
      <4> QED
        BY <3>1, <4>1
    <3> QED
      BY <1>5, <1>6, <2>1, <2>5, <3>1, <3>2 DEF EmptyUnseen
  <2>6. CASE ~(s.status = "NotReady" /\ "/items" \in data.has)
    BY <2>2, <2>3, <2>4, <2>6
  <2> QED
    BY <2>5, <2>6
<1> QED
  BY <1>7, <1>9, <1>10, AttributesAre DEF CurrentOK

\* onDataChanged().
LEMMA ScreenObserved ==
    ASSUME BoundInv, ScreenInv, NEW k \in Ids, OnDataChanged(k)
    PROVE  ScreenInv'
<1>1. /\ Remade(m, m') /\ ListMarked(m, m')
      /\ (k # "list" /\ k \in m.alive => Paths[at] \in m'.dirty[k] \/ ~Known(m', k))
  BY ObservedIs DEF BoundInv
<1>2. current' = current /\ dom' = dom /\ data' = data
  BY DEF OnDataChanged
<1>3. Moved(m, m')
  BY <1>1, MovedIs
<1>4. ASSUME NEW c \in Ids \ {"tmpl"}, Known(m', c) PROVE CurrentOK(c)'
  <2>1. CASE k = "list" /\ c = "list"
    BY <1>4, <2>1, ListObserved
  <2>2. CASE ~(k = "list" /\ c = "list")
    <3>1. Known(m, c) /\ m.dirty[c] \subseteq m'.dirty[c] /\ c \in m.alive /\ m'.made[c] = m.made[c]
      BY <1>3, <1>4 DEF Moved, Known
    <3>2. CurrentOK(c)
      BY <1>4, <3>1 DEF ScreenInv
    <3>3. \A p \in BoundPaths(c) : ToBeTold(c, p) => ToBeTold(c, p)' \/ p \in m'.dirty[c]
      BY <1>1, <1>4, <2>2, <3>1, StillToBeTold
    <3>4. c = "list" => m'.kids = m.kids \/ "children" \in m'.dirty[c]
      BY <1>1, <1>4 DEF ListMarked
    <3> QED
      BY <1>2, <3>1, <3>2, <3>3, <3>4, SameValues, CurrentKept
  <2> QED
    BY <2>1, <2>2
<1> QED
  BY <1>2, <1>3, <1>4, ScreenKept

\* A component that is read again: its snapshot counts, and is placed.
LEMMA ScreenFlushed ==
    ASSUME BoundInv, ScreenInv, pc = "flush", NEW c \in m.alive, NEW s, s = Snapshot(c),
           UNCHANGED <<data, pc>>, m'.alive = m.alive, m'.kids = m.kids, m'.made = m.made,
           \A k \in Ids \ {c} : m'.dirty[k] = m.dirty[k], m'.dirty[c] = {},
           current' = [current EXCEPT ![c] = s], dom' = UpdateNode(dom, c, s)
    PROVE  ScreenInv'
<1>1. TypeInv /\ c \in Ids /\ "list" \in Ids
  BY ItemsAre DEF BoundInv, TypeInv, Model, Models, Fixed
<1>2. /\ IsSnapshot(s) /\ Shaped(c, s) /\ s # NoSnapshot /\ s.status = AggregateBindingStatus(c)
      /\ c # "tmpl" => s = FullSnapshot(c)
  BY <1>1, SnapshotIs
<1>3. DOMAIN current' = Ids /\ current'[c] = s /\ \A k \in Ids \ {c} : current'[k] = current[k]
  BY <1>1 DEF ScreenInv
<1>4. Tree(dom)
  BY DEF ScreenInv
<1>5. PICK e : e = UpdateNode(dom, c, s)
  OBVIOUS
<1>6. /\ Tree(e)
      /\ c # "card" /\ s.status \in Displays => PlacedAs(e, c, s)
      /\ \A k \in Ids \ {"card", c} : \A v :
            k \notin Gone(dom, c, s) /\ v.status \in Displays /\ PlacedAs(dom, k, v) => PlacedAs(e, k, v)
      /\ Showable(e) => Showable(dom) \/ (c = "list" /\ s.status \in Displays)
      /\ c # "list" /\ dom.snap["list"] = NoSnapshot /\ dom.orphan["list"] = NoSnapshot
            => e.snap["list"] = NoSnapshot /\ e.orphan["list"] = NoSnapshot
  BY <1>1, <1>2, <1>4, <1>5, NodeIs
<1>7. dom' = e
  BY <1>5
<1>8. \A k \in Ids \ {c} : Known(m', k) <=> Known(m, k)
  BY DEF Known
<1>9. \A p : GetValue(p)' = GetValue(p)
  BY SameValues
<1>10. ASSUME NEW k \in Ids \ {"tmpl"}, Known(m', k) PROVE CurrentOK(k)'
  <2>1. CASE k = c
    <3>1. /\ s.ver = m.made[c]
          /\ s.vals = [p \in Attributes(c) |-> GetValue(p)]
          /\ s.kids = Children(c) /\ s.status = AggregateBindingStatus(c) /\ s.append = FALSE
      BY <1>1, <1>2, <1>10, <2>1, FullIs
    <3>2. AggregateBindingStatus(c)' = AggregateBindingStatus(c) /\ Children(c)' = Children(c)
      BY <1>9, StatusIs DEF Children
    <3> QED
      BY <1>3, <1>9, <2>1, <3>1, <3>2 DEF CurrentOK
  <2>2. CASE k # c
    <3>1. CurrentOK(k)
      BY <1>8, <1>10, <2>2 DEF ScreenInv
    <3>2. \A p : ~ToBeTold(k, p)
      BY DEF ToBeTold
    <3> QED
      BY <1>3, <1>9, <2>2, <3>1, <3>2, CurrentKept
  <2> QED
    BY <2>1, <2>2
<1>11. c = "list" => s.status = IF "/items" \in data.has THEN "FullyReady" ELSE "NotReady"
  <2>1. AggregateBindingStatus("list") = IF GetValue("/items") # <<>> THEN "FullyReady" ELSE "NotReady"
    BY BoundPathsAre, StatusIs
  <2> QED
    BY <1>2, <2>1 DEF GetValue
<1>12. ListShown'
  <2>1. /\ "list" \notin m.alive => dom.snap["list"] = NoSnapshot /\ dom.orphan["list"] = NoSnapshot
        /\ Showable(dom) => "/items" \in data.has
        /\ Known(m, "list") =>
              /\ current["list"].status \in {"FullyReady", "NotReady"}
              /\ current["list"].status = "FullyReady" => "/items" \in data.has
              /\ current["list"].status = "NotReady" /\ m.dirty["list"] = {} => m.kids = <<>>
              /\ Showable(dom) => current["list"].status = "FullyReady"
    BY DEF ScreenInv, ListShown
  <2>2. "list" \notin m.alive => e.snap["list"] = NoSnapshot /\ e.orphan["list"] = NoSnapshot
    BY <1>6, <2>1
  <2>3. Showable(e) => "/items" \in data.has
    BY <1>6, <1>11, <2>1 DEF Displays
  <2>4. Known(m', "list") =>
              /\ current'["list"].status \in {"FullyReady", "NotReady"}
              /\ current'["list"].status = "FullyReady" => "/items" \in data'.has
              /\ current'["list"].status = "NotReady" /\ m'.dirty["list"] = {} => m'.kids = <<>>
              /\ Showable(e) => current'["list"].status = "FullyReady"
    <3>1. CASE c = "list"
      <4>1. m.kids # <<>> => "/items" \in data.has
        BY <1>1 DEF TypeInv, KidsOK
      <4> QED
        BY <1>3, <1>11, <2>3, <3>1, <4>1
    <3>2. CASE c # "list"
      BY <1>1, <1>3, <1>6, <1>8, <2>1, <3>2
    <3> QED
      BY <3>1, <3>2
  <2> QED
    BY <1>7, <2>2, <2>3, <2>4 DEF ListShown
<1>13. ASSUME NEW k \in Ids, Claimed(k)', Known(m', k), current'[k].status \in Displays
       PROVE  PlacedAs(e, k, current'[k])
  <2>1. Claimed(k) /\ k # "card"
    <3>1. ToSet(m.kids) \subseteq ToSet(Items)
      BY <1>1, SetOf DEF TypeInv, Model, Models
    <3> QED
      BY <1>13, <3>1, ItemsAre DEF Claimed, Fixed
  <2>2. CASE k = c
    BY <1>3, <1>6, <1>13, <2>1, <2>2
  <2>3. CASE k # c
    <3>1. PlacedAs(dom, k, current[k])
      BY <1>3, <1>8, <1>13, <2>1, <2>3 DEF ScreenInv
    <3>2. k \notin Gone(dom, c, s)
      <4>1. c = "list" => s.kids = m.kids
        BY <1>1, <1>2, FullIs DEF Children
      <4>2. Kids(dom, "list") \subseteq ToSet(Items)
        BY <1>4, TreeIs
      <4> QED
        BY <2>1, <4>1, <4>2, ItemsAre DEF Gone, Claimed, Fixed
    <3> QED
      BY <1>3, <1>6, <1>13, <2>1, <2>3, <3>1, <3>2
  <2> QED
    BY <2>2, <2>3
<1>14. \A k \in Ids : IsSnapshot(current'[k]) /\ Shaped(k, current'[k])
  BY <1>2, <1>3 DEF ScreenInv
<1> QED
  BY <1>3, <1>6, <1>7, <1>10, <1>12, <1>13, <1>14 DEF ScreenInv

\* Every step keeps the screen behind the data by no more than what is marked or told.
LEMMA ScreenStays == BoundInv /\ ScreenInv /\ [Next]_vars => ScreenInv'
<1> SUFFICES ASSUME BoundInv, ScreenInv, [Next]_vars PROVE ScreenInv'
  OBVIOUS
<1>0. TypeInv /\ DataOK /\ data \in [has : {data.has}, title : {data.title}, items : {data.items}]
  BY DEF BoundInv, TypeInv, DataOK
<1>1. ASSUME NEW c \in Fixed \ {"text"}, UpdateComponents(c) PROVE ScreenInv'
  <2>1. Remade(m, m') /\ ListMarked(m, m') /\ ~Known(m', c)
    BY <1>0, <1>1, UpdatedIs
  <2>2. /\ current' = current /\ dom' = dom /\ data' = data /\ pc = "idle"
    BY <1>1 DEF UpdateComponents, Change
  <2>3. Moved(m, m')
    BY <2>1, MovedIs
  <2>4. ASSUME NEW k \in Ids \ {"tmpl"}, Known(m', k) PROVE CurrentOK(k)'
    <3>1. CurrentOK(k) /\ m.dirty[k] \subseteq m'.dirty[k]
      BY <2>3, <2>4 DEF ScreenInv, Moved
    <3>2. \A p : ~ToBeTold(k, p)
      BY <2>2 DEF ToBeTold
    <3>3. m'.made[k] = m.made[k]
      BY <2>3, <2>4 DEF Moved
    <3>4. k = "list" => m'.kids = m.kids \/ "children" \in m'.dirty[k]
      BY <2>1, <2>4 DEF ListMarked
    <3> QED
      BY <2>2, <3>1, <3>2, <3>3, <3>4, SameValues, CurrentKept
  <2> QED
    BY <2>2, <2>3, <2>4, ScreenKept
<1>2. ASSUME NEW path, NEW items, SetItems(path, items),
             \/ path \in {"/", "/items"}
             \/ \E i \in DOMAIN Cells : \E v : path = Cells[i] /\ items = [data.items EXCEPT ![i] = v]
      PROVE  ScreenInv'
  <2>1. /\ \A p \in AllPaths : GetValue(p)' = GetValue(p) \/ \A c : ToBeTold(c, p)'
        /\ \A c : ToBeTold(c, "/items")'
        /\ data.has \subseteq data'.has
    BY <1>0, <1>2, ItemsTold
  <2>2. pc = "idle" /\ UNCHANGED <<m, current, dom>>
    BY <1>2 DEF SetItems, Notify, Change
  <2> QED
    BY <2>1, <2>2, ScreenTold
<1>3. ASSUME NEW path \in {"/", "/items"}, NEW items, UpdateItems(path, items) PROVE ScreenInv'
  BY <1>2, <1>3 DEF UpdateItems
<1>4. ASSUME NEW i \in DOMAIN Cells, NEW v, UpdateCell(i, v) PROVE ScreenInv'
  BY <1>2, <1>4 DEF UpdateCell
<1>5. ASSUME NEW path \in {"/", "/title"}, NEW mode, Notify(path, mode), pc = "idle",
             data'.items = data.items, data.has \subseteq data'.has, data'.has \subseteq data.has \cup {"/title"}
      PROVE  ScreenInv'
  <2>1. \A p \in AllPaths : GetValue(p)' = GetValue(p) \/ \A c : ToBeTold(c, p)'
    BY <1>5, TitleTold
  <2>2. UNCHANGED <<m, current, dom>>
    BY <1>5 DEF Notify
  <2> QED
    BY <1>5, <2>1, <2>2, ScreenTold
<1>6. ASSUME NEW path, NEW p, UpdateTitle(path, p) PROVE ScreenInv'
  <2>1. /\ path \in {"/", "/title"} /\ Notify(path, FALSE) /\ pc = "idle"
        /\ data' = [data EXCEPT !.title = <<p>>, !.has = @ \cup {"/title"}]
    BY <1>6 DEF UpdateTitle, SetTitle, Change
  <2>2. data'.items = data.items /\ data'.has = data.has \cup {"/title"}
    BY <1>0, <2>1
  <2>3. PICK mode : Notify(path, mode)
    BY <2>1
  <2> QED
    BY <1>5, <2>1, <2>2, <2>3
<1>7. ASSUME NEW p, AppendData(p) PROVE ScreenInv'
  <2>1. Notify("/title", TRUE) /\ pc = "idle" /\ data' = [data EXCEPT !.title = <<p>>]
    BY <1>7 DEF AppendData, Change
  <2>2. data'.items = data.items /\ data'.has = data.has
    BY <1>0, <2>1
  <2>3. PICK mode : Notify("/title", mode)
    BY <2>1
  <2> QED
    BY <1>5, <2>1, <2>2, <2>3
<1>8. ASSUME InvalidateFunctionCallValues PROVE ScreenInv'
  <2>1. m'.alive = m.alive /\ m'.kids = m.kids /\ \A c \in Ids : ~Known(m', c)
    BY <1>0, <1>8, InvalidatedIs
  <2>2. ToSet(m.kids) \subseteq Ids
    BY <1>0, SetOf, ItemsAre DEF TypeInv, Model, Models
  <2>3. Moved(m, m')
    BY <2>1, <2>2, ItemsAre DEF Moved, ListMarked, Fixed
  <2> QED
    BY <1>8, <2>1, <2>3, ScreenKept DEF InvalidateFunctionCallValues
<1>9. ASSUME NextEntry PROVE ScreenInv'
  <2>1. UNCHANGED <<m, current, dom, data>>
    BY <1>9 DEF NextEntry
  <2>2. ASSUME NEW c \in Ids \ {"tmpl"}, Known(m', c) PROVE CurrentOK(c)'
    <3>1. CurrentOK(c) /\ c \in m.alive
      BY <2>1, <2>2 DEF ScreenInv, Known
    <3>2. \A p \in BoundPaths(c) : ToBeTold(c, p) => ToBeTold(c, p)'
      BY <1>9, <2>2, <3>1, StillToBeTold
    <3> QED
      BY <2>1, <2>2, <3>1, <3>2, SameValues, CurrentKept
  <2> QED
    BY <2>1, <2>2, MovedIs, ScreenKept
<1>10. ASSUME NEW k \in Ids, OnDataChanged(k) PROVE ScreenInv'
  BY <1>10, ScreenObserved
<1>11. ASSUME NotifyDone \/ FlushDone \/ UNCHANGED vars PROVE ScreenInv'
  <2>1. UNCHANGED <<m, current, dom, data>>
    BY <1>11 DEF NotifyDone, FlushDone, vars
  <2>2. ASSUME NEW c \in Ids \ {"tmpl"}, Known(m', c) PROVE CurrentOK(c)'
    <3>1. CurrentOK(c) /\ c \in m.alive
      BY <2>1, <2>2 DEF ScreenInv, Known
    <3>2. \A p \in BoundPaths(c) : ToBeTold(c, p) => ToBeTold(c, p)'
      <4>1. CASE NotifyDone
        BY <2>2, <3>1, <4>1, StillToBeTold
      <4>2. CASE FlushDone
        BY <4>2 DEF FlushDone, ToBeTold
      <4>3. CASE UNCHANGED vars
        BY <4>3 DEF vars, notification, ToBeTold, Affected, IsSubPathOrEqual
      <4> QED
        BY <1>11, <4>1, <4>2, <4>3
    <3> QED
      BY <2>1, <2>2, <3>1, <3>2, SameValues, CurrentKept
  <2> QED
    BY <2>1, <2>2, MovedIs, ScreenKept
<1>12. ASSUME FlushDirtyComponent PROVE ScreenInv'
  <2>1. PICK c : c = Head(m.order)
    OBVIOUS
  <2>2. /\ c \in Ids /\ m'.alive = m.alive /\ m'.kids = m.kids /\ m'.made = m.made
        /\ \A k \in Ids \ {c} : m'.dirty[k] = m.dirty[k]
        /\ \/ /\ c \notin m.alive \/ m.dirty[c] = {}
              /\ m'.dirty = m.dirty /\ current' = current /\ dom' = dom
           \/ /\ c \in m.alive /\ m.dirty[c] # {} /\ m'.dirty[c] = {}
              /\ current' = [current EXCEPT ![c] = Snapshot(c)]
              /\ dom' = UpdateNode(dom, c, Snapshot(c))
    BY <1>0, <1>12, <2>1, FlushedIs
  <2>3. pc = "flush" /\ UNCHANGED <<data, pc>>
    BY <1>12 DEF FlushDirtyComponent
  <2>4. CASE m'.dirty = m.dirty /\ current' = current /\ dom' = dom
    <3>1. Moved(m, m')
      BY <2>2, <2>4 DEF Moved, ListMarked, Known
    <3>2. ASSUME NEW k \in Ids \ {"tmpl"}, Known(m', k) PROVE CurrentOK(k)'
      <4>1. CurrentOK(k)
        BY <2>2, <2>4, <3>2 DEF ScreenInv, Known
      <4>2. \A p : ~ToBeTold(k, p)
        BY <2>3 DEF ToBeTold
      <4> QED
        BY <2>2, <2>3, <2>4, <4>1, <4>2, SameValues, CurrentKept
    <3> QED
      BY <2>3, <2>4, <3>1, <3>2, ScreenKept
  <2>5. CASE /\ c \in m.alive /\ m'.dirty[c] = {}
             /\ current' = [current EXCEPT ![c] = Snapshot(c)]
             /\ dom' = UpdateNode(dom, c, Snapshot(c))
    BY <2>2, <2>3, <2>5, ScreenFlushed
  <2> QED
    BY <2>2, <2>4, <2>5
<1> QED
  BY <1>1, <1>3, <1>4, <1>6, <1>7, <1>8, <1>9, <1>10, <1>11, <1>12 DEF Next

\* Nothing is shown at first.
LEMMA ScreenAtFirst == Init => ScreenInv
<1> SUFFICES ASSUME Init PROVE ScreenInv
  OBVIOUS
<1>1. /\ m.alive = {} /\ current = [c \in Ids |-> NoSnapshot]
      /\ dom = [snap |-> [c \in Ids |-> NoSnapshot], orphan |-> [c \in Ids |-> NoSnapshot]]
  BY DEF Init
<1>2. \A c : ~Known(m, c)
  BY <1>1 DEF Known
<1>3. "list" \in Ids /\ \A c \in Ids : dom.snap[c] = NoSnapshot /\ dom.orphan[c] = NoSnapshot
  BY <1>1, ItemsAre DEF Fixed
<1>4. Tree(dom)
  BY <1>1, <1>3, NoSnapshotIs, TreeIf
<1>5. ListShown
  BY <1>2, <1>3, NoSnapshotIs DEF ListShown, Showable, Displays
<1> QED
  BY <1>1, <1>2, <1>4, <1>5, NoSnapshotIs DEF ScreenInv

\* Whatever the order of data, tree and template: between two calls what is
\* shown is what would be built from the data now: from the attributes a
\* component has, which a child of the list keeps from the template it was
\* cloned from.
THEOREM ScreenIsFollowed == Spec => []ScreenFollowsData
<1> DEFINE IInv == BoundInv /\ ScreenInv
<1>1. Init => IInv
  BY BoundAtFirst, ScreenAtFirst
<1>2. IInv /\ [Next]_vars => IInv'
  BY BoundStays, ScreenStays
<1>3. IInv => ScreenFollowsData
  <2> SUFFICES ASSUME BoundInv, ScreenInv, Quiet, NEW c \in m.alive,
                      InTree(dom, c), ~OwnRule(c), Ready(c), ~EmptyFromTheStart(c)
               PROVE  dom.snap[c] = Fresh(c)
    BY DEF ScreenFollowsData
  <2>1. TypeInv /\ Tree(dom) /\ ListShown /\ "list" \in Ids
    BY ItemsAre DEF BoundInv, ScreenInv, Fixed
  <2>2. c \in Ids /\ c # "card" /\ c # "tmpl"
    BY <2>1, TreeIs DEF TypeInv, Model, Models, OwnRule, DisplayRule
  <2>3. (\A k \in m.alive : m.dirty[k] = {} /\ Known(m, k)) /\ \A k, p : ~ToBeTold(k, p)
    <3>1. \A k \in m.alive : m.dirty[k] = {}
      BY <2>1, NothingMarked DEF Quiet
    <3> QED
      BY <3>1 DEF Known, Quiet, ToBeTold
  <2>4. PICK s : s = current[c]
    OBVIOUS
  <2>5. PICK full : full = FullSnapshot(c)
    OBVIOUS
  <2>6. /\ IsSnapshot(full)
        /\ full.ver = m.made[c]
        /\ full.vals = [p \in Attributes(c) |-> GetValue(p)]
        /\ full.kids = Children(c) /\ full.status = AggregateBindingStatus(c) /\ full.append = FALSE
    BY <2>1, <2>2, <2>5, FullIs
  <2>7. CurrentOK(c) /\ IsSnapshot(s)
    BY <2>2, <2>3, <2>4 DEF ScreenInv
  <2>8. ~EmptyUnseen(c)
    <3> SUFFICES ASSUME EmptyUnseen(c) PROVE FALSE
      OBVIOUS
    <3>1. c = "list" /\ data.items = <<>> /\ current["list"].status = "NotReady"
      BY DEF EmptyUnseen
    <3>2. dom.snap["list"] = NoSnapshot
      BY <2>1, <2>3, <3>1 DEF ListShown, Showable
    <3> QED
      BY <3>1, <3>2 DEF EmptyFromTheStart
  <2>9. s = full
    <3>1. /\ s.ver = full.ver /\ s.kids = full.kids /\ s.status = full.status /\ s.append = full.append
          /\ DOMAIN s.vals = Attributes(c) /\ s.vals = [p \in DOMAIN s.vals |-> s.vals[p]]
          /\ \A p \in Attributes(c) : s.vals[p] = GetValue(p)
      BY <2>3, <2>4, <2>6, <2>7, <2>8 DEF CurrentOK
    <3>2. s.vals = full.vals
      BY <2>6, <3>1
    <3> QED
      BY <2>6, <2>7, <3>1, <3>2, SameSnapshot
  <2>10. s.status \in Displays
    BY <2>6, <2>9 DEF Ready, Displays
  <2>11. Claimed(c)
    <3> SUFFICES ASSUME c \in ToSet(Items) PROVE c \in ToSet(m.kids)
      BY <2>2, ItemsAre DEF Claimed, Fixed
    <3>1. c \in ToSet(dom.snap["list"].kids)
      BY <2>1, TreeIs DEF Kids
    <3>2. dom.snap["list"] # NoSnapshot
      BY <3>1, NoSnapshotIs
    <3>3. "list" \in m.alive /\ InTree(dom, "list")
      BY <2>1, <3>2, InTreeIff DEF ListShown
    <3>4. current["list"].status \in Displays
      BY <2>1, <2>3, <3>2, <3>3 DEF ListShown, Showable, Displays
    <3>5. dom.snap["list"] = current["list"]
      BY <2>1, <2>3, <3>3, <3>4 DEF ScreenInv, Claimed, PlacedAs
    <3>6. current["list"].kids = m.kids
      <4>1. CurrentOK("list") /\ m.dirty["list"] = {}
        BY <2>1, <2>3, <3>3 DEF ScreenInv
      <4> QED
        BY <4>1 DEF CurrentOK, Children
    <3> QED
      BY <3>1, <3>5, <3>6
  <2>12. dom.snap[c] = s
    BY <2>2, <2>3, <2>4, <2>10, <2>11 DEF ScreenInv, PlacedAs
  <2> QED
    BY <2>5, <2>9, <2>12 DEF Fresh
<1> QED
  BY <1>1, <1>2, <1>3, PTL DEF Spec
=============================================================================
