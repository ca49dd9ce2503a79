------------------------ MODULE HarmonyRendererProofs ------------------------
(***************************************************************************)
(* Proofs about HarmonyRenderer, for any number of instances, surfaces,     *)
(* components, containers, listeners, reports and waiting tasks.            *)
(***************************************************************************)
EXTENDS HarmonyRenderer, FiniteSetTheorems, SequenceTheorems, WellFoundedInduction, TLAPS

Kinds    == {"create", "add", "update", "remove", "delete"}
Parents  == Components \cup {Nobody}
Reports  == {t \in [kind : Kinds, i : Instances, s : Surfaces, ids : SUBSET Components,
                    parent : Parents] :
               t.kind = "add" =>
                  \E c \in Components : t.ids = {c} /\ (c = Root <=> t.parent = Nobody)}
Sheets   == [tree : Trees, handle : Containers \cup {Nobody}, mounted : SUBSET Containers,
             cleared : BOOLEAN]
Statuses == {"none", "live", "held", "dead"}
Runs     == [kind : {"create", "delete"}, i : Instances, s : Surfaces, at : Nat, last : Nat, to : Nat \ {0},
             upto : Nat, moved : BOOLEAN]
Bindings == [state : {"new", "shown", "gone"}, i : Instances \cup {0}, s : Surfaces \cup {Nobody}]

StatusOK  == status \in [Instances -> Statuses]
CoreOK    == core \in [Instances -> Maps(Surfaces, Trees)]
QueueOK   == queue \in Seq(Reports)
RunOK     == running = Idle \/ running \in Runs
PlatOK    == platform \in [Instances -> Maps(Surfaces, Sheets)]
HandlesOK == handles \in [Instances -> Maps(Surfaces, Containers)]
TableOK   == mapping \in Maps(Surfaces, Instances)
BindOK    == container \in [Containers -> Bindings]
ListsOK   == ets \in [Instances -> Seq(Listeners)] /\ native = ets
HeardOK   == known \in [Instances -> SUBSET Surfaces]
             /\ heard \subseteq Instances \X Listeners \X Surfaces
HistoryOK == history \in [reports : Nat, aborted : BOOLEAN, repeated : BOOLEAN, astray : BOOLEAN,
                          skipped : BOOLEAN]

\* A task holds its listener, if anything does.
HoldOK == /\ running # Idle => status[running.i] \in {"live", "held"}
          /\ \A i \in Instances : status[i] = "held" => running # Idle /\ running.i = i

\* An instance that is not there has nothing, and none is reported before it is.
EmptyOK == \A i \in Instances :
              /\ status[i] \in {"none", "dead"} => platform[i] = Empty
              /\ status[i] # "live" => core[i] = Empty
              /\ status[i] = "none" => \A n \in 1..Len(queue) : queue[n].i # i

Types == /\ StatusOK /\ CoreOK /\ QueueOK /\ RunOK /\ PlatOK /\ HandlesOK /\ TableOK /\ BindOK
         /\ ListsOK /\ HeardOK /\ HistoryOK

-----------------------------------------------------------------------------
(* Maps. *)

LEMMA MapOf ==
    \A D, R : \A f \in Maps(D, R) : DOMAIN f \subseteq D /\ f \in [DOMAIN f -> R]
BY DEF Maps

LEMMA IsMap ==
    \A D, R, S : \A f \in [S -> R] : S \subseteq D => f \in Maps(D, R)
BY DEF Maps

LEMMA EmptyMap ==
    /\ DOMAIN Empty = {}
    /\ \A D, R : Empty \in Maps(D, R)
<1>1. DOMAIN Empty = {} /\ \A R : Empty \in [{} -> R]
    BY DEF Empty
<1> QED
    BY <1>1, IsMap

LEMMA WithMap ==
    \A D, R : \A f \in Maps(D, R), d \in D, x \in R :
        /\ With(f, d, x) \in Maps(D, R) /\ DOMAIN With(f, d, x) = DOMAIN f \cup {d}
        /\ \A e \in DOMAIN f \cup {d} : With(f, d, x)[e] = IF e = d THEN x ELSE f[e]
<1> TAKE D, R
<1> TAKE f \in Maps(D, R), d \in D, x \in R
<1>1. DOMAIN f \subseteq D /\ \A e \in DOMAIN f : f[e] \in R
    BY MapOf
<1>2. With(f, d, x) \in [DOMAIN f \cup {d} -> R]
    BY <1>1 DEF With
<1>3. With(f, d, x) \in Maps(D, R)
    BY <1>1, <1>2, IsMap
<1> QED
    BY <1>3 DEF With

LEMMA WithoutMap ==
    \A D, R : \A f \in Maps(D, R) : \A S :
        /\ Without(f, S) \in Maps(D, R) /\ DOMAIN Without(f, S) = DOMAIN f \ S
        /\ \A e \in DOMAIN f \ S : Without(f, S)[e] = f[e]
<1> TAKE D, R
<1> TAKE f \in Maps(D, R)
<1> TAKE S
<1>1. DOMAIN f \subseteq D /\ \A e \in DOMAIN f : f[e] \in R
    BY MapOf
<1>2. Without(f, S) \in [DOMAIN f \ S -> R]
    BY <1>1 DEF Without
<1>3. Without(f, S) \in Maps(D, R)
    BY <1>1, <1>2, IsMap
<1> QED
    BY <1>3 DEF Without

LEMMA ExceptMap ==
    \A D, R : \A f \in Maps(D, R) : \A d \in DOMAIN f, x \in R :
        /\ [f EXCEPT ![d] = x] \in Maps(D, R) /\ DOMAIN [f EXCEPT ![d] = x] = DOMAIN f
        /\ \A e \in DOMAIN f : [f EXCEPT ![d] = x][e] = IF e = d THEN x ELSE f[e]
<1> TAKE D, R
<1> TAKE f \in Maps(D, R)
<1> TAKE d \in DOMAIN f, x \in R
<1>1. DOMAIN f \subseteq D /\ f \in [DOMAIN f -> R]
    BY MapOf
<1>2. [f EXCEPT ![d] = x] \in [DOMAIN f -> R]
    BY <1>1
<1>3. [f EXCEPT ![d] = x] \in Maps(D, R)
    BY <1>1, <1>2, IsMap
<1> QED
    BY <1>1, <1>3
-----------------------------------------------------------------------------
(* Trees. *)

LEMMA TreeOf ==
    \A t \in Trees : /\ t \in Maps(Components, Nodes) /\ DOMAIN t \subseteq Components
                     /\ \A c \in DOMAIN t : t[c] \in Nodes /\ (c = Root <=> t[c].parent = Nobody)
BY MapOf DEF Trees

LEMMA IsTree ==
    \A t \in Maps(Components, Nodes) :
        (\A c \in DOMAIN t : c = Root <=> t[c].parent = Nobody) => t \in Trees
BY DEF Trees

LEMMA EmptyTree == Empty \in Trees
BY EmptyMap, IsTree

LEMMA GrownTree ==
    \A t \in Trees, c \in Components, p \in Parents :
        (c = Root <=> p = Nobody) =>
            /\ Grown(t, {c}, p) \in Trees /\ DOMAIN Grown(t, {c}, p) = DOMAIN t \cup {c}
            /\ Grown(t, {c}, p) = With(t, c, [parent |-> p, ver |-> 0])
<1> TAKE t \in Trees, c \in Components, p \in Parents
<1> DEFINE x == [parent |-> p, ver |-> 0]
<1>1. SUFFICES ASSUME c = Root <=> p = Nobody
               PROVE  /\ With(t, c, x) \in Trees /\ DOMAIN With(t, c, x) = DOMAIN t \cup {c}
                      /\ Grown(t, {c}, p) = With(t, c, x)
    OBVIOUS
<1>2. x \in Nodes /\ x.parent = p
    BY DEF Nodes, Parents
<1>3. Grown(t, {c}, p) = With(t, c, x)
    BY DEF Grown, With
<1> HIDE DEF x
<1>4. t \in Maps(Components, Nodes)
    BY TreeOf
<1>5. /\ With(t, c, x) \in Maps(Components, Nodes) /\ DOMAIN With(t, c, x) = DOMAIN t \cup {c}
      /\ \A e \in DOMAIN t \cup {c} : With(t, c, x)[e] = IF e = c THEN x ELSE t[e]
    BY ONLY <1>2, <1>4, c \in Components, WithMap
<1>6. With(t, c, x) \in Trees
    BY <1>1, <1>2, <1>5, TreeOf, IsTree
<1> QED
    BY <1>3, <1>5, <1>6

LEMMA TouchedTree ==
    \A t \in Trees : \A C : Touched(t, C) \in Trees /\ DOMAIN Touched(t, C) = DOMAIN t
<1> TAKE t \in Trees
<1> TAKE C
<1>1. \A d \in DOMAIN t : [t[d] EXCEPT !.ver = 1] \in Nodes /\ [t[d] EXCEPT !.ver = 1].parent = t[d].parent
    BY TreeOf DEF Nodes
<1>2. Touched(t, C) \in [DOMAIN t -> Nodes]
    BY <1>1, TreeOf DEF Touched
<1>3. Touched(t, C) \in Maps(Components, Nodes)
    BY <1>2, TreeOf, IsMap
<1>4. \A d \in DOMAIN t : Touched(t, C)[d].parent = t[d].parent
    BY <1>1 DEF Touched
<1>5. DOMAIN Touched(t, C) = DOMAIN t
    BY DEF Touched
<1> QED
    BY <1>3, <1>4, <1>5, TreeOf, IsTree

LEMMA SmallerTree ==
    \A t \in Trees : \A S : Without(t, S) \in Trees /\ DOMAIN Without(t, S) = DOMAIN t \ S
<1> TAKE t \in Trees
<1> TAKE S
<1>1. /\ Without(t, S) \in Maps(Components, Nodes) /\ DOMAIN Without(t, S) = DOMAIN t \ S
      /\ \A e \in DOMAIN t \ S : Without(t, S)[e] = t[e]
    <2>1. t \in Maps(Components, Nodes)
        BY TreeOf
    <2>2. Without(t, S) \in Maps(Components, Nodes)
        BY ONLY <2>1, WithoutMap
    <2> QED
        BY <2>2 DEF Without
<1> QED
    BY <1>1, TreeOf, IsTree

LEMMA SubtreesOf ==
    \A t \in Trees : \A C :
        /\ Subtrees(t, C) \subseteq DOMAIN t
        /\ C \cap DOMAIN t \subseteq Subtrees(t, C)
        /\ Closed(t, Subtrees(t, C))
        /\ \A S \in SUBSET DOMAIN t :
              C \cap DOMAIN t \subseteq S /\ Closed(t, S) => Subtrees(t, C) \subseteq S
BY DEF Subtrees, Closed

\* The root is below no other component.
LEMMA RootIsAbove ==
    \A t \in Trees : \A C : Root \notin Subtrees(t, C \ {Root})
<1> TAKE t \in Trees
<1> TAKE C
<1> DEFINE S == DOMAIN t \ {Root}
<1>1. DOMAIN t \subseteq Components /\ \A c \in DOMAIN t : c = Root <=> t[c].parent = Nobody
    BY TreeOf
<1>2. Closed(t, S)
    BY <1>1, RendererAssumption DEF Closed
<1>3. S \in SUBSET DOMAIN t /\ (C \ {Root}) \cap DOMAIN t \subseteq S
    OBVIOUS
<1>4. Subtrees(t, C \ {Root}) \subseteq S
    BY ONLY <1>2, <1>3, t \in Trees, SubtreesOf
<1> QED
    BY <1>4

LEMMA PrunedTree ==
    \A t \in Trees : \A C :
        /\ Pruned(t, C) \in Trees
        /\ DOMAIN Pruned(t, C) = DOMAIN t \ Subtrees(t, C \ {Root})
        /\ Root \in DOMAIN Pruned(t, C) <=> Root \in DOMAIN t
BY SmallerTree, RootIsAbove DEF Pruned

LEMMA PrunedNothing ==
    \A t \in Trees : Pruned(t, {}) = t
<1> TAKE t \in Trees
<1>1. Closed(t, {}) /\ {} \in SUBSET DOMAIN t /\ ({} \ {Root}) \cap DOMAIN t \subseteq {}
    BY DEF Closed
<1>2. Subtrees(t, {} \ {Root}) \subseteq {}
    BY ONLY <1>1, t \in Trees, SubtreesOf
<1>3. Subtrees(t, {} \ {Root}) = {}
    BY <1>2
<1>4. t \in [DOMAIN t -> Nodes]
    BY TreeOf, MapOf
<1>5. Without(t, {}) = t
    BY <1>4 DEF Without
<1> QED
    BY <1>3, <1>5 DEF Pruned

\* One more component goes.
LEMMA SubtreesJoin ==
    ASSUME NEW t \in Trees, NEW C, NEW D
    PROVE  LET u == Without(t, Subtrees(t, C))
           IN  Subtrees(t, C \cup D) = Subtrees(t, C) \cup Subtrees(u, D)
<1> DEFINE u == Without(t, Subtrees(t, C))
<1>1. /\ u \in Trees /\ DOMAIN u = DOMAIN t \ Subtrees(t, C)
      /\ \A d \in DOMAIN u : u[d] = t[d]
    BY SmallerTree DEF Without
<1> HIDE DEF u
<1> DEFINE B == Subtrees(t, C)
           E == Subtrees(u, D)
           A == Subtrees(t, C \cup D)
<1>2. /\ B \subseteq DOMAIN t /\ C \cap DOMAIN t \subseteq B /\ Closed(t, B)
      /\ \A S \in SUBSET DOMAIN t : C \cap DOMAIN t \subseteq S /\ Closed(t, S) => B \subseteq S
    BY SubtreesOf
<1>3. /\ E \subseteq DOMAIN u /\ D \cap DOMAIN u \subseteq E /\ Closed(u, E)
      /\ \A S \in SUBSET DOMAIN u : D \cap DOMAIN u \subseteq S /\ Closed(u, S) => E \subseteq S
    BY <1>1, SubtreesOf
<1>4. /\ A \subseteq DOMAIN t /\ (C \cup D) \cap DOMAIN t \subseteq A /\ Closed(t, A)
      /\ \A S \in SUBSET DOMAIN t : (C \cup D) \cap DOMAIN t \subseteq S /\ Closed(t, S) => A \subseteq S
    BY SubtreesOf
<1>5. DOMAIN u = DOMAIN t \ B
    BY <1>1
<1> HIDE DEF A, B, E
<1>6. A \subseteq B \cup E
    <2>1. B \cup E \in SUBSET DOMAIN t /\ (C \cup D) \cap DOMAIN t \subseteq B \cup E
        BY <1>2, <1>3, <1>5
    <2>2. Closed(t, B \cup E)
        BY <1>1, <1>2, <1>3, <1>5 DEF Closed
    <2> QED
        BY <1>4, <2>1, <2>2
<1>7. B \subseteq A
    BY <1>2, <1>4
<1>8. E \subseteq A
    <2>1. A \ B \in SUBSET DOMAIN u /\ D \cap DOMAIN u \subseteq A \ B
        BY <1>4, <1>5
    <2>2. Closed(u, A \ B)
        BY <1>1, <1>2, <1>4, <1>5 DEF Closed
    <2> QED
        BY <1>3, <2>1, <2>2
<1>9. A = B \cup E
    BY <1>6, <1>7, <1>8
<1> QED
    BY <1>9 DEF A, B, E, u

LEMMA PrunedBoth ==
    \A t \in Trees : \A C, D : Pruned(Pruned(t, C), D) = Pruned(t, C \cup D)
<1> TAKE t \in Trees
<1> TAKE C, D
<1> DEFINE B == Subtrees(t, C \ {Root})
           u == Without(t, B)
           E == Subtrees(u, D \ {Root})
           A == Subtrees(t, (C \cup D) \ {Root})
<1>1. (C \cup D) \ {Root} = (C \ {Root}) \cup (D \ {Root})
    OBVIOUS
<1>2. Subtrees(t, (C \ {Root}) \cup (D \ {Root})) = B \cup E
    <2>1. \A X, Y : Subtrees(t, X \cup Y) = Subtrees(t, X) \cup Subtrees(Without(t, Subtrees(t, X)), Y)
        <3> TAKE X, Y
        <3> QED
            BY SubtreesJoin
    <2> QED
        BY <2>1
<1>3. A = B \cup E
    BY <1>1, <1>2
<1>4. Pruned(Pruned(t, C), D) = Without(u, E) /\ Pruned(t, C \cup D) = Without(t, A)
    BY DEF Pruned
<1>5. DOMAIN u = DOMAIN t \ B /\ \A d \in DOMAIN u : u[d] = t[d]
    BY DEF Without
<1> HIDE DEF A, B, E, u
<1>6. Without(u, E) = Without(t, A)
    BY <1>3, <1>5 DEF Without
<1> QED
    BY <1>4, <1>6

\* The worker takes away what is below a component, and reports all of it.
LEMMA PrunedSubtree ==
    \A t \in Trees : \A c \in DOMAIN t \ {Root} :
        Pruned(t, Subtrees(t, {c})) = Without(t, Subtrees(t, {c}))
<1> TAKE t \in Trees
<1> TAKE c \in DOMAIN t \ {Root}
<1> DEFINE B == Subtrees(t, {c})
           A == Subtrees(t, B \ {Root})
<1>1. B \subseteq DOMAIN t /\ c \in B /\ Closed(t, B)
      /\ \A S \in SUBSET DOMAIN t : {c} \cap DOMAIN t \subseteq S /\ Closed(t, S) => B \subseteq S
    BY SubtreesOf
<1>2. A \subseteq DOMAIN t /\ (B \ {Root}) \cap DOMAIN t \subseteq A /\ Closed(t, A)
      /\ \A S \in SUBSET DOMAIN t : (B \ {Root}) \cap DOMAIN t \subseteq S /\ Closed(t, S) => A \subseteq S
    BY SubtreesOf
<1> HIDE DEF A, B
<1>3. A \subseteq B
    BY <1>1, <1>2
<1>4. c \in A
    BY <1>1, <1>2
<1>5. B \subseteq A
    BY <1>1, <1>2, <1>4
<1>6. A = B
    BY <1>3, <1>5
<1> QED
    BY <1>6 DEF Pruned, A, B

-----------------------------------------------------------------------------
(* What a report does to a surface. *)

TreeKinds == {"add", "update", "remove"}

TreeAfter(tree, t) ==
    IF t.kind = "add" THEN Grown(tree, t.ids, t.parent)
    ELSE IF t.kind = "update" THEN Touched(tree, t.ids) ELSE Pruned(tree, t.ids)

LEMMA TreeAfterTask ==
    \A tree \in Trees, t \in Reports :
        /\ TreeAfter(tree, t) \in Trees
        /\ Root \in DOMAIN TreeAfter(tree, t)
              <=> Root \in DOMAIN tree \/ (t.kind = "add" /\ Root \in t.ids)
<1> TAKE tree \in Trees, t \in Reports
<1>1. CASE t.kind = "add"
    <2>1. PICK c \in Components : t.ids = {c} /\ (c = Root <=> t.parent = Nobody)
        BY <1>1 DEF Reports
    <2>2. t.parent \in Parents
        BY DEF Reports
    <2>3. Grown(tree, {c}, t.parent) \in Trees
          /\ DOMAIN Grown(tree, {c}, t.parent) = DOMAIN tree \cup {c}
        BY ONLY <2>1, <2>2, tree \in Trees, c \in Components, GrownTree
    <2> QED
        BY <1>1, <2>1, <2>3 DEF TreeAfter
<1>2. CASE t.kind = "update"
    BY <1>2, TouchedTree DEF TreeAfter
<1>3. CASE t.kind \notin {"add", "update"}
    BY <1>3, PrunedTree DEF TreeAfter
<1> QED
    BY <1>1, <1>2, <1>3

LEMMA Mounting ==
    \A x \in Sheets :
        /\ Mount(x) \in Sheets /\ Unmount(x) \in Sheets
        /\ Mount(x).tree = x.tree /\ Mount(x).handle = x.handle /\ Mount(x).cleared = x.cleared
        /\ Unmount(x).tree = x.tree /\ Unmount(x).handle = x.handle /\ Unmount(x).cleared = x.cleared
        /\ Root \in DOMAIN x.tree /\ x.handle # Nobody => x.handle \in Mount(x).mounted
        /\ x.mounted \subseteq Mount(x).mounted
BY DEF Mount, Unmount, Sheets, HasRoot

LEMMA Applying ==
    \A x \in Sheets, t \in Reports : t.kind \in TreeKinds =>
        /\ Applied(x, t) \in Sheets /\ Applied(x, t).tree = TreeAfter(x.tree, t)
        /\ Applied(x, t).handle = x.handle /\ Applied(x, t).cleared = x.cleared
        /\ x.mounted \subseteq Applied(x, t).mounted
        /\ Root \in DOMAIN Applied(x, t).tree /\ Root \notin DOMAIN x.tree /\ x.handle # Nobody =>
              x.handle \in Applied(x, t).mounted
<1> TAKE x \in Sheets, t \in Reports
<1>1. SUFFICES ASSUME t.kind \in TreeKinds
               PROVE  /\ Applied(x, t) \in Sheets /\ Applied(x, t).tree = TreeAfter(x.tree, t)
                      /\ Applied(x, t).handle = x.handle /\ Applied(x, t).cleared = x.cleared
                      /\ x.mounted \subseteq Applied(x, t).mounted
                      /\ Root \in DOMAIN Applied(x, t).tree /\ Root \notin DOMAIN x.tree
                         /\ x.handle # Nobody => x.handle \in Applied(x, t).mounted
    OBVIOUS
<1>2. x.tree \in Trees
    BY DEF Sheets
<1> DEFINE u == TreeAfter(x.tree, t)
           y == [x EXCEPT !.tree = u]
<1>3. u \in Trees /\ (Root \in DOMAIN u <=> Root \in DOMAIN x.tree \/ (t.kind = "add" /\ Root \in t.ids))
    BY <1>2, TreeAfterTask
<1>4. Applied(x, t) = IF t.kind = "add" /\ Root \in t.ids THEN Mount(y) ELSE y
    BY <1>1 DEF Applied, Added, Updated, Removed, TreeAfter, TreeKinds
<1> HIDE DEF u
<1>5. y \in Sheets /\ y.tree = u /\ y.handle = x.handle /\ y.cleared = x.cleared /\ y.mounted = x.mounted
    BY <1>3 DEF Sheets
<1> HIDE DEF y
<1>6. /\ Applied(x, t) \in Sheets /\ Applied(x, t).tree = u
      /\ Applied(x, t).handle = x.handle /\ Applied(x, t).cleared = x.cleared
      /\ x.mounted \subseteq Applied(x, t).mounted
    BY <1>4, <1>5, Mounting
<1>7. ASSUME Root \in DOMAIN u, Root \notin DOMAIN x.tree, x.handle # Nobody
      PROVE  x.handle \in Applied(x, t).mounted
    BY <1>3, <1>4, <1>5, <1>7, Mounting
<1> QED
    BY <1>6, <1>7 DEF u

-----------------------------------------------------------------------------
(* What the worker reports, and what becomes of a surface when it is applied. *)

\* A surface as somebody sees it: it is not there, or it has a tree.
Sights      == [has : BOOLEAN, tree : Trees]
Absent      == [has |-> FALSE, tree |-> Empty]
There(tree) == [has |-> TRUE, tree |-> tree]
Of(f, s)    == IF s \in DOMAIN f THEN There(f[s]) ELSE Absent
Has(x)      == x.has = TRUE

StepOf(x, t) == IF t.kind = "create" THEN There(Empty)
                ELSE IF t.kind = "delete" THEN Absent
                ELSE IF Has(x) THEN There(TreeAfter(x.tree, t)) ELSE Absent

\* No assertion of the renderer fails.
MayRun(x, t) == /\ t.kind = "create" => ~Has(x)
                /\ t.kind = "add" => Has(x) /\ t.ids \cap DOMAIN x.tree = {}

\* Instance i gets the surfaces f, which differ in s only; the tasks lead from
\* what it had to what it gets.
Leads(i, s, f, tasks, U) ==
    /\ U \in [0..Len(tasks) -> Sights]
    /\ U[0] = Of(core[i], s) /\ U[Len(tasks)] = Of(f, s)
    /\ \A r \in Surfaces \ {s} : Of(f, r) = Of(core[i], r)
    /\ \A n \in 1..Len(tasks) :
          /\ tasks[n].i = i /\ tasks[n].s = s
          /\ U[n] = StepOf(U[n - 1], tasks[n]) /\ MayRun(U[n - 1], tasks[n])
          /\ tasks[n].kind \in {"create", "delete"} => MayUse(i, s)

Reported(i, s, f, tasks) ==
    /\ status[i] = "live" /\ core' = [core EXCEPT ![i] = f] /\ Report(tasks)
    /\ \E U : Leads(i, s, f, tasks, U)

LEMMA SightsOf ==
    /\ Absent \in Sights /\ ~Has(Absent)
    /\ \A t \in Trees : There(t) \in Sights /\ Has(There(t)) /\ There(t).tree = t
    /\ \A f \in Maps(Surfaces, Trees), s \in Surfaces :
          /\ Of(f, s) \in Sights
          /\ s \in DOMAIN f => Of(f, s) = There(f[s]) /\ Has(Of(f, s)) /\ Of(f, s).tree = f[s]
          /\ s \notin DOMAIN f => Of(f, s) = Absent /\ ~Has(Of(f, s))
<1>1. Absent \in Sights /\ ~Has(Absent)
    BY EmptyTree DEF Absent, Sights, Has
<1>2. \A t \in Trees : There(t) \in Sights /\ Has(There(t)) /\ There(t).tree = t
    BY DEF There, Sights, Has
<1>3. \A f \in Maps(Surfaces, Trees), s \in Surfaces : s \in DOMAIN f => f[s] \in Trees
    BY MapOf
<1> QED
    BY <1>1, <1>2, <1>3 DEF Of

LEMMA StepOfType ==
    \A x \in Sights, t \in Reports : StepOf(x, t) \in Sights
BY EmptyTree, SightsOf, TreeAfterTask DEF StepOf, Sights

\* A report that is one task.
LEMMA OneTask ==
    ASSUME NEW i \in Instances, NEW s \in Surfaces, NEW f \in Maps(Surfaces, Trees),
           NEW t \in Reports, NEW x \in Sights, NEW y \in Sights,
           t.i = i, t.s = s, x = Of(core[i], s), y = Of(f, s),
           \A r \in Surfaces \ {s} : Of(f, r) = Of(core[i], r),
           y = StepOf(x, t), MayRun(x, t),
           t.kind \in {"create", "delete"} => MayUse(i, s)
    PROVE  <<t>> \in Seq(Reports) /\ \E U : Leads(i, s, f, <<t>>, U)
<1> DEFINE U == [n \in 0..1 |-> IF n = 0 THEN x ELSE y]
<1>1. U \in [0..1 -> Sights] /\ U[0] = x /\ U[1] = y
    OBVIOUS
<1>2. Len(<<t>>) = 1 /\ <<t>>[1] = t /\ <<t>> \in Seq(Reports)
    OBVIOUS
<1> HIDE DEF U
<1>3. \A n \in 1..Len(<<t>>) : n = 1 /\ n - 1 = 0 /\ <<t>>[n] = t
    BY <1>2
<1>4. \A n \in 1..Len(<<t>>) :
          /\ <<t>>[n].i = i /\ <<t>>[n].s = s
          /\ U[n] = StepOf(U[n - 1], <<t>>[n]) /\ MayRun(U[n - 1], <<t>>[n])
          /\ <<t>>[n].kind \in {"create", "delete"} => MayUse(i, s)
    BY <1>1, <1>3
<1>5. Leads(i, s, f, <<t>>, U)
    BY <1>1, <1>2, <1>4 DEF Leads
<1> QED
    BY <1>2, <1>5

LEMMA TaskFields ==
    \A kind \in Kinds, i \in Instances, s \in Surfaces, ids \in SUBSET Components, p \in Parents :
        (kind = "add" => \E c \in Components : ids = {c} /\ (c = Root <=> p = Nobody)) =>
        /\ Task(kind, i, s, ids, p) \in Reports
        /\ Task(kind, i, s, ids, p).kind = kind /\ Task(kind, i, s, ids, p).i = i
        /\ Task(kind, i, s, ids, p).s = s /\ Task(kind, i, s, ids, p).ids = ids
        /\ Task(kind, i, s, ids, p).parent = p
BY DEF Task, Reports

\* What a surface of an instance becomes, the others staying as they are.
LEMMA OthersStay ==
    \A f \in Maps(Surfaces, Trees), s \in Surfaces, t \in Trees :
        /\ With(f, s, t) \in Maps(Surfaces, Trees) /\ Of(With(f, s, t), s) = There(t)
        /\ \A r \in Surfaces \ {s} : Of(With(f, s, t), r) = Of(f, r)
        /\ Without(f, {s}) \in Maps(Surfaces, Trees) /\ Of(Without(f, {s}), s) = Absent
        /\ \A r \in Surfaces \ {s} : Of(Without(f, {s}), r) = Of(f, r)
<1> TAKE f \in Maps(Surfaces, Trees), s \in Surfaces, t \in Trees
<1>1. /\ With(f, s, t) \in Maps(Surfaces, Trees) /\ DOMAIN With(f, s, t) = DOMAIN f \cup {s}
      /\ \A e \in DOMAIN f \cup {s} : With(f, s, t)[e] = IF e = s THEN t ELSE f[e]
    <2>1. With(f, s, t) \in Maps(Surfaces, Trees)
        BY ONLY f \in Maps(Surfaces, Trees), s \in Surfaces, t \in Trees, WithMap
    <2> QED
        BY <2>1 DEF With
<1>2. /\ Without(f, {s}) \in Maps(Surfaces, Trees) /\ DOMAIN Without(f, {s}) = DOMAIN f \ {s}
      /\ \A e \in DOMAIN f \ {s} : Without(f, {s})[e] = f[e]
    BY WithoutMap DEF Without
<1> QED
    BY <1>1, <1>2 DEF Of

ChangesTo(i, s, t, f) ==
    /\ [core EXCEPT ![i][s] = t] = [core EXCEPT ![i] = f]
    /\ Of(f, s) = There(t) /\ \A r \in Surfaces \ {s} : Of(f, r) = Of(core[i], r)

LEMMA ChangesOne ==
    ASSUME CoreOK
    PROVE  \A i \in Instances : \A s \in DOMAIN core[i] : \A t \in Trees :
              /\ s \in Surfaces /\ core[i][s] \in Trees
              /\ Of(core[i], s) = There(core[i][s])
              /\ \E f \in Maps(Surfaces, Trees) : ChangesTo(i, s, t, f)
<1> TAKE i \in Instances
<1> TAKE s \in DOMAIN core[i]
<1> TAKE t \in Trees
<1>1. core[i] \in Maps(Surfaces, Trees)
    BY DEF CoreOK
<1>2. s \in Surfaces /\ core[i][s] \in Trees
    BY <1>1, MapOf
<1>3. PICK f : f = [core[i] EXCEPT ![s] = t]
    OBVIOUS
<1>4. /\ f \in Maps(Surfaces, Trees) /\ DOMAIN f = DOMAIN core[i]
      /\ \A e \in DOMAIN core[i] : f[e] = IF e = s THEN t ELSE core[i][e]
    BY <1>1, <1>3, ExceptMap
<1>5. [core EXCEPT ![i][s] = t] = [core EXCEPT ![i] = f]
    BY <1>3
<1> QED
    BY <1>2, <1>4, <1>5 DEF Of, ChangesTo

LEMMA SurfaceCreated ==
    ASSUME Types, NEW i \in Instances, NEW s \in Surfaces, CreateSurface(i, s)
    PROVE  \E f \in Maps(Surfaces, Trees), tasks \in Seq(Reports) : Reported(i, s, f, tasks)
<1>1. core[i] \in Maps(Surfaces, Trees)
    BY DEF Types, CoreOK
<1> DEFINE f == With(core[i], s, Empty)
           t == Task("create", i, s, {}, Nobody)
<1>2. t \in Reports /\ t.kind = "create" /\ t.i = i /\ t.s = s
    BY TaskFields DEF Kinds, Parents
<1>3. f \in Maps(Surfaces, Trees) /\ Of(f, s) = There(Empty)
      /\ \A r \in Surfaces \ {s} : Of(f, r) = Of(core[i], r)
    BY <1>1, EmptyTree, OthersStay
<1>4. status[i] = "live" /\ s \notin DOMAIN core[i] /\ MayUse(i, s)
      /\ core' = [core EXCEPT ![i] = f] /\ Report(<<t>>)
    BY DEF CreateSurface
<1>5. Of(core[i], s) = Absent
    BY <1>4 DEF Of
<1> HIDE DEF f, t
<1>6. Absent \in Sights /\ There(Empty) \in Sights /\ ~Has(Absent)
    BY SightsOf, EmptyTree
<1>7. There(Empty) = StepOf(Absent, t) /\ MayRun(Absent, t)
    BY <1>2, <1>6 DEF StepOf, MayRun
<1>8. <<t>> \in Seq(Reports) /\ \E U : Leads(i, s, f, <<t>>, U)
    BY <1>2, <1>3, <1>4, <1>5, <1>6, <1>7, OneTask
<1> QED
    BY <1>3, <1>4, <1>8 DEF Reported

LEMMA ComponentAdded ==
    ASSUME Types, NEW i \in Instances, NEW s \in Surfaces, NEW c \in Components, NEW p \in Parents,
           AddComponent(i, s, c, p)
    PROVE  \E f \in Maps(Surfaces, Trees), tasks \in Seq(Reports) : Reported(i, s, f, tasks)
<1>1. /\ s \in DOMAIN core[i] /\ status[i] = "live" /\ c \notin DOMAIN core[i][s]
      /\ IF c = Root THEN p = Nobody ELSE p \in DOMAIN core[i][s]
      /\ core' = [core EXCEPT ![i][s] = With(core[i][s], c, [parent |-> p, ver |-> 0])]
      /\ Report(<<Task("add", i, s, {c}, p)>>)
    BY DEF AddComponent, Types, CoreOK
<1>2. core[i][s] \in Trees
    BY <1>1, MapOf DEF Types, CoreOK
<1>3. c = Root <=> p = Nobody
    BY <1>1, <1>2, TreeOf, RendererAssumption
<1> DEFINE t == Task("add", i, s, {c}, p)
           tree == Grown(core[i][s], {c}, p)
<1>4. t \in Reports /\ t.kind = "add" /\ t.i = i /\ t.s = s /\ t.ids = {c} /\ t.parent = p
    BY <1>3, TaskFields DEF Kinds
<1>5. tree \in Trees /\ tree = With(core[i][s], c, [parent |-> p, ver |-> 0])
    BY <1>2, <1>3, GrownTree
<1>6. tree = TreeAfter(core[i][s], t)
    BY <1>4 DEF TreeAfter
<1> HIDE DEF t, tree
<1>7. PICK f \in Maps(Surfaces, Trees) :
        /\ Of(core[i], s) = There(core[i][s]) /\ core' = [core EXCEPT ![i] = f]
        /\ Of(f, s) = There(tree) /\ \A r \in Surfaces \ {s} : Of(f, r) = Of(core[i], r)
    <2>1. \E f \in Maps(Surfaces, Trees) : ChangesTo(i, s, tree, f) /\ Of(core[i], s) = There(core[i][s])
        BY <1>1, <1>5, ChangesOne DEF Types
    <2> QED
        BY <1>1, <1>5, <2>1 DEF ChangesTo
<1> DEFINE x == There(core[i][s])
           y == There(tree)
<1>8. x \in Sights /\ y \in Sights /\ Has(x) /\ x.tree = core[i][s]
    BY <1>2, <1>5, SightsOf
<1>9. y = StepOf(x, t) /\ MayRun(x, t)
    BY <1>1, <1>4, <1>6, <1>8 DEF StepOf, MayRun
<1> HIDE DEF x, y
<1>10. x = Of(core[i], s) /\ y = Of(f, s)
    BY <1>7 DEF x, y
<1>11. <<t>> \in Seq(Reports) /\ \E U : Leads(i, s, f, <<t>>, U)
    BY <1>4, <1>7, <1>8, <1>9, <1>10, OneTask
<1> QED
    BY <1>1, <1>7, <1>11 DEF Reported, t

LEMMA ComponentUpdated ==
    ASSUME Types, NEW i \in Instances, NEW s \in Surfaces, NEW c \in Components,
           UpdateComponent(i, s, c)
    PROVE  \E f \in Maps(Surfaces, Trees), tasks \in Seq(Reports) : Reported(i, s, f, tasks)
<1>1. /\ s \in DOMAIN core[i] /\ status[i] = "live" /\ c \in DOMAIN core[i][s]
      /\ core' = [core EXCEPT ![i][s][c].ver = 1]
      /\ Report(<<Task("update", i, s, {c}, Nobody)>>)
    BY DEF UpdateComponent, Types, CoreOK
<1>2. core[i][s] \in Trees
    BY <1>1, MapOf DEF Types, CoreOK
<1> DEFINE t == Task("update", i, s, {c}, Nobody)
           tree == Touched(core[i][s], {c})
<1>3. t \in Reports /\ t.kind = "update" /\ t.i = i /\ t.s = s /\ t.ids = {c}
    BY TaskFields DEF Kinds, Parents
<1>4. tree \in Trees
    BY <1>2, TouchedTree
<1>5. tree = [core[i][s] EXCEPT ![c].ver = 1]
    <2>1. core[i][s] \in [DOMAIN core[i][s] -> Nodes]
        BY <1>2, TreeOf, MapOf
    <2> QED
        BY <1>1, <2>1 DEF Touched
<1>6. tree = TreeAfter(core[i][s], t)
    BY <1>3 DEF TreeAfter
<1>7. core' = [core EXCEPT ![i][s] = tree]
    BY <1>1, <1>5
<1> HIDE DEF t, tree
<1>8. PICK f \in Maps(Surfaces, Trees) :
        /\ Of(core[i], s) = There(core[i][s]) /\ core' = [core EXCEPT ![i] = f]
        /\ Of(f, s) = There(tree) /\ \A r \in Surfaces \ {s} : Of(f, r) = Of(core[i], r)
    <2>1. \E f \in Maps(Surfaces, Trees) : ChangesTo(i, s, tree, f) /\ Of(core[i], s) = There(core[i][s])
        BY <1>1, <1>4, <1>7, ChangesOne DEF Types
    <2> QED
        BY <1>1, <1>4, <1>7, <2>1 DEF ChangesTo
<1> DEFINE x == There(core[i][s])
           y == There(tree)
<1>9. x \in Sights /\ y \in Sights /\ Has(x) /\ x.tree = core[i][s]
    BY <1>2, <1>4, SightsOf
<1>10. y = StepOf(x, t) /\ MayRun(x, t)
    BY <1>1, <1>3, <1>6, <1>9 DEF StepOf, MayRun
<1> HIDE DEF x, y
<1>11. x = Of(core[i], s) /\ y = Of(f, s)
    BY <1>8 DEF x, y
<1>12. <<t>> \in Seq(Reports) /\ \E U : Leads(i, s, f, <<t>>, U)
    BY <1>3, <1>8, <1>9, <1>10, <1>11, OneTask
<1> QED
    BY <1>1, <1>8, <1>12 DEF Reported, t

LEMMA ComponentRemoved ==
    ASSUME Types, NEW i \in Instances, NEW s \in Surfaces, NEW c \in Components,
           RemoveComponent(i, s, c)
    PROVE  \E f \in Maps(Surfaces, Trees), tasks \in Seq(Reports) : Reported(i, s, f, tasks)
<1> DEFINE gone == Subtrees(core[i][s], {c})
           t == Task("remove", i, s, gone, Nobody)
           tree == Without(core[i][s], gone)
<1>1. /\ s \in DOMAIN core[i] /\ status[i] = "live" /\ c \in DOMAIN core[i][s] \ {Root}
      /\ core' = [core EXCEPT ![i][s] = tree]
      /\ Report(<<t>>)
    BY DEF RemoveComponent, Types, CoreOK
<1>2. core[i][s] \in Trees
    BY <1>1, MapOf DEF Types, CoreOK
<1>3. gone \in SUBSET Components
    BY <1>2, SubtreesOf, TreeOf
<1>4. tree \in Trees /\ tree = Pruned(core[i][s], gone)
    BY <1>1, <1>2, SmallerTree, PrunedSubtree
<1> HIDE DEF gone, tree
<1>5. t \in Reports /\ t.kind = "remove" /\ t.i = i /\ t.s = s /\ t.ids = gone
    BY <1>3, TaskFields DEF Kinds, Parents
<1>6. tree = TreeAfter(core[i][s], t)
    BY <1>4, <1>5 DEF TreeAfter
<1> HIDE DEF t
<1>7. PICK f \in Maps(Surfaces, Trees) :
        /\ Of(core[i], s) = There(core[i][s]) /\ core' = [core EXCEPT ![i] = f]
        /\ Of(f, s) = There(tree) /\ \A r \in Surfaces \ {s} : Of(f, r) = Of(core[i], r)
    <2>1. \E f \in Maps(Surfaces, Trees) : ChangesTo(i, s, tree, f) /\ Of(core[i], s) = There(core[i][s])
        BY <1>1, <1>4, ChangesOne DEF Types
    <2> QED
        BY <1>1, <1>4, <2>1 DEF ChangesTo
<1> DEFINE x == There(core[i][s])
           y == There(tree)
<1>8. x \in Sights /\ y \in Sights /\ Has(x) /\ x.tree = core[i][s]
    BY <1>2, <1>4, SightsOf
<1>9. y = StepOf(x, t) /\ MayRun(x, t)
    BY <1>1, <1>5, <1>6, <1>8 DEF StepOf, MayRun
<1> HIDE DEF x, y
<1>10. x = Of(core[i], s) /\ y = Of(f, s)
    BY <1>7 DEF x, y
<1>11. <<t>> \in Seq(Reports) /\ \E U : Leads(i, s, f, <<t>>, U)
    BY <1>5, <1>7, <1>8, <1>9, <1>10, OneTask
<1> QED
    BY <1>1, <1>7, <1>11 DEF Reported

\* The end of a surface: first its components go one by one, then it goes.
LEMMA SurfaceDeleted ==
    ASSUME Types, NEW i \in Instances, NEW s \in Surfaces, DeleteSurface(i, s)
    PROVE  \E f \in Maps(Surfaces, Trees), tasks \in Seq(Reports) : Reported(i, s, f, tasks)
<1> DEFINE tree == IF s \in DOMAIN core[i] THEN core[i][s] ELSE Empty
           f == Without(core[i], {s})
           last == Task("delete", i, s, {}, Nobody)
<1>1. PICK nodes \in ParentsFirst(tree) :
        /\ status[i] = "live" /\ MayUse(i, s) /\ core' = [core EXCEPT ![i] = f]
        /\ Report(Append([n \in DOMAIN nodes |-> Task("remove", i, s, {nodes[n]}, Nobody)], last))
    BY DEF DeleteSurface, Types, CoreOK
<1>2. core[i] \in Maps(Surfaces, Trees) /\ tree \in Trees
    BY MapOf, EmptyTree DEF Types, CoreOK
<1>3. f \in Maps(Surfaces, Trees) /\ Of(f, s) = Absent
      /\ \A r \in Surfaces \ {s} : Of(f, r) = Of(core[i], r)
    BY <1>2, OthersStay
<1>4. last \in Reports /\ last.kind = "delete" /\ last.i = i /\ last.s = s
    BY TaskFields DEF Kinds, Parents
<1> DEFINE has == s \in DOMAIN core[i]
<1>5. /\ has => Of(core[i], s) = There(tree)
      /\ ~has => Of(core[i], s) = Absent /\ tree = Empty
    BY DEF Of
<1> HIDE DEF tree, f, last, has
<1>6. nodes \in Seq(DOMAIN tree)
    <2>1. nodes \in SetToSeqs(DOMAIN tree)
        BY DEF ParentsFirst
    <2>2. Cardinality(DOMAIN tree) \in Nat
        <3>1. IsFiniteSet(Components)
            BY RendererAssumption, FS_Union, FS_Singleton DEF Components
        <3>2. IsFiniteSet(DOMAIN tree)
            BY <1>2, <3>1, TreeOf, FS_Subset
        <3> QED
            BY <3>2, FS_CardinalityType
    <2>3. nodes \in [1..Cardinality(DOMAIN tree) -> DOMAIN tree]
        BY <2>1 DEF SetToSeqs
    <2> QED
        BY <2>2, <2>3
<1>7. /\ Len(nodes) \in Nat /\ DOMAIN nodes = 1..Len(nodes)
      /\ \A n \in 1..Len(nodes) : nodes[n] \in DOMAIN tree /\ nodes[n] \in Components
    BY <1>2, <1>6, TreeOf
<1> DEFINE removes == [n \in DOMAIN nodes |-> Task("remove", i, s, {nodes[n]}, Nobody)]
           tasks == Append(removes, last)
<1>8. \A n \in 1..Len(nodes) :
         LET t == Task("remove", i, s, {nodes[n]}, Nobody)
         IN  t \in Reports /\ t.kind = "remove" /\ t.i = i /\ t.s = s /\ t.ids = {nodes[n]}
    BY <1>7, TaskFields DEF Kinds, Parents
<1>9. removes \in Seq(Reports) /\ Len(removes) = Len(nodes)
    BY <1>7, <1>8
<1>10. /\ tasks \in Seq(Reports) /\ Len(tasks) = Len(nodes) + 1
       /\ tasks[Len(nodes) + 1] = last /\ \A n \in 1..Len(nodes) : tasks[n] = removes[n]
    BY <1>4, <1>9
<1>11. \A n \in 1..Len(nodes) :
         /\ tasks[n].kind = "remove" /\ tasks[n].i = i /\ tasks[n].s = s
         /\ tasks[n].ids = {nodes[n]}
    BY <1>7, <1>8, <1>10
<1> HIDE DEF tasks
<1> DEFINE N == Len(nodes)
           left(n) == Pruned(tree, {nodes[m] : m \in 1..n})
           U == [n \in 0..N + 1 |-> IF n <= N /\ has THEN There(left(n)) ELSE Absent]
<1>12. N \in Nat /\ \A n \in 0..N : left(n) \in Trees
    BY <1>2, <1>7, PrunedTree
<1>13. left(0) = tree
    <2>1. {nodes[m] : m \in 1..0} = {}
        OBVIOUS
    <2> QED
        BY <1>2, <2>1, PrunedNothing
<1>14. \A n \in 1..N : left(n) = Pruned(left(n - 1), {nodes[n]})
    <2> TAKE n \in 1..N
    <2>1. {nodes[m] : m \in 1..n} = {nodes[m] : m \in 1..n - 1} \cup {nodes[n]}
        BY <1>12
    <2> QED
        BY <1>2, <2>1, PrunedBoth
<1> HIDE DEF left, N
<1>15. /\ U \in [0..N + 1 -> Sights] /\ U[0] = Of(core[i], s) /\ U[N + 1] = Absent
       /\ \A n \in 0..N : U[n] = IF has THEN There(left(n)) ELSE Absent
    <2>1. \A n \in 0..N + 1 : (IF n <= N /\ has THEN There(left(n)) ELSE Absent) \in Sights
        BY <1>12, SightsOf
    <2>2. 0 \in 0..N + 1 /\ 0 <= N /\ N + 1 \in 0..N + 1 /\ ~(N + 1 <= N)
        BY <1>12
    <2> QED
        BY <1>5, <1>12, <1>13, <2>1, <2>2
<1> HIDE DEF U
<1>16. ASSUME NEW n \in 1..N
       PROVE  U[n] = StepOf(U[n - 1], tasks[n]) /\ MayRun(U[n - 1], tasks[n])
    <2>1. n - 1 \in 0..N /\ n \in 0..N
        BY <1>12
    <2>2. tasks[n].kind = "remove" /\ tasks[n].ids = {nodes[n]}
        BY <1>11 DEF N
    <2>3. MayRun(U[n - 1], tasks[n])
        BY <2>2 DEF MayRun
    <2>4. CASE has
        <3>1. /\ U[n - 1] = There(left(n - 1)) /\ U[n] = There(left(n))
              /\ Has(U[n - 1]) /\ U[n - 1].tree = left(n - 1)
            BY <1>12, <1>15, <2>1, <2>4, SightsOf
        <3>2. left(n) = TreeAfter(left(n - 1), tasks[n])
            BY <1>14, <2>2 DEF TreeAfter
        <3> QED
            BY <2>2, <2>3, <3>1, <3>2 DEF StepOf
    <2>5. CASE ~has
        <3>1. U[n - 1] = Absent /\ U[n] = Absent /\ ~Has(Absent)
            BY <1>15, <2>1, <2>5, SightsOf
        <3> QED
            BY <2>2, <2>3, <3>1 DEF StepOf
    <2> QED
        BY <2>4, <2>5
<1>17. U[N + 1] = StepOf(U[N], tasks[N + 1]) /\ MayRun(U[N], tasks[N + 1])
    BY <1>4, <1>10, <1>15 DEF StepOf, MayRun, N
<1>18. ASSUME NEW n \in 1..Len(tasks)
       PROVE  /\ tasks[n].i = i /\ tasks[n].s = s
              /\ U[n] = StepOf(U[n - 1], tasks[n]) /\ MayRun(U[n - 1], tasks[n])
              /\ tasks[n].kind \in {"create", "delete"} => MayUse(i, s)
    <2>1. CASE n \in 1..N
        BY <1>1, <1>11, <1>16, <2>1 DEF N
    <2>2. CASE n = N + 1
        <3>1. n - 1 = N
            BY <1>12, <2>2
        <3> QED
            BY <1>1, <1>4, <1>10, <1>17, <2>2, <3>1 DEF N
    <2> QED
        BY <1>10, <1>12, <2>1, <2>2 DEF N
<1>19. Leads(i, s, f, tasks, U)
    BY <1>3, <1>10, <1>15, <1>18 DEF Leads, N
<1> QED
    BY <1>1, <1>3, <1>10, <1>19 DEF Reported, tasks

\* Whatever the worker does, it reports how it leads from what there was to
\* what there is.
LEMMA WorkerReports ==
    ASSUME Types, Worker
    PROVE  \E i \in Instances, s \in Surfaces, f \in Maps(Surfaces, Trees), tasks \in Seq(Reports) :
              Reported(i, s, f, tasks)
<1>1. PICK i \in Instances, s \in Surfaces :
        \/ CreateSurface(i, s) \/ DeleteSurface(i, s)
        \/ \E c \in Components :
              \/ UpdateComponent(i, s, c) \/ RemoveComponent(i, s, c)
              \/ \E p \in Components \cup {Nobody} : AddComponent(i, s, c, p)
    BY DEF Worker
<1>2. CASE CreateSurface(i, s)
    BY <1>2, SurfaceCreated
<1>3. CASE DeleteSurface(i, s)
    BY <1>3, SurfaceDeleted
<1>4. ASSUME NEW c \in Components, UpdateComponent(i, s, c)
      PROVE  \E f \in Maps(Surfaces, Trees), tasks \in Seq(Reports) : Reported(i, s, f, tasks)
    BY <1>4, ComponentUpdated
<1>5. ASSUME NEW c \in Components, RemoveComponent(i, s, c)
      PROVE  \E f \in Maps(Surfaces, Trees), tasks \in Seq(Reports) : Reported(i, s, f, tasks)
    BY <1>5, ComponentRemoved
<1>6. ASSUME NEW c \in Components, NEW p \in Components \cup {Nobody}, AddComponent(i, s, c, p)
      PROVE  \E f \in Maps(Surfaces, Trees), tasks \in Seq(Reports) : Reported(i, s, f, tasks)
    BY <1>6, ComponentAdded DEF Parents
<1> QED
    BY <1>1, <1>2, <1>3, <1>4, <1>5, <1>6

-----------------------------------------------------------------------------
(* Every variable keeps its type. *)

LEMMA RunsOf ==
    /\ \A r \in Runs : r # Idle
    /\ RunOK /\ running # Idle =>
          /\ running \in Runs /\ running.i \in Instances /\ running.s \in Surfaces
          /\ running.kind \in {"create", "delete"} /\ running.at \in Nat /\ running.last \in Nat
          /\ running.to \in Nat /\ running.upto \in Nat
BY DEF Runs, RunOK, Idle

LEMMA FirstTask ==
    ASSUME QueueOK, queue # <<>>
    PROVE  /\ Head(queue) \in Reports /\ Head(queue) = queue[1] /\ Tail(queue) \in Seq(Reports)
           /\ Len(queue) \in Nat /\ Len(queue) >= 1 /\ Len(Tail(queue)) = Len(queue) - 1
           /\ \A n \in 1..Len(Tail(queue)) : n + 1 \in 1..Len(queue) /\ Tail(queue)[n] = queue[n + 1]
           /\ \A n \in 1..Len(queue) : queue[n] \in Reports
BY DEF QueueOK

LEMMA ReportOf ==
    \A t \in Reports : t.kind \in Kinds /\ t.i \in Instances /\ t.s \in Surfaces
BY DEF Reports

\* What becomes of the surfaces when an instance gets others, or one of them changes.
LEMMA PlatformGets ==
    ASSUME PlatOK
    PROVE  \A i \in Instances, m \in Maps(Surfaces, Sheets) :
              /\ [platform EXCEPT ![i] = m] \in [Instances -> Maps(Surfaces, Sheets)]
              /\ [platform EXCEPT ![i] = m][i] = m
              /\ \A j \in Instances \ {i} : [platform EXCEPT ![i] = m][j] = platform[j]
BY DEF PlatOK

LEMMA SheetOf ==
    ASSUME PlatOK
    PROVE  \A i \in Instances : \A s \in DOMAIN platform[i] :
              s \in Surfaces /\ platform[i][s] \in Sheets /\ platform[i][s].tree \in Trees
<1> TAKE i \in Instances
<1>1. platform[i] \in Maps(Surfaces, Sheets)
    BY DEF PlatOK
<1>2. \A s \in DOMAIN platform[i] : s \in Surfaces /\ platform[i][s] \in Sheets
    BY ONLY <1>1, MapOf
<1> QED
    BY <1>2 DEF Sheets

\* The surface s of instance i becomes x.
Becomes(i, s, x, p) ==
    /\ p \in [Instances -> Maps(Surfaces, Sheets)]
    /\ \A j \in Instances \ {i} : p[j] = platform[j]
    /\ DOMAIN p[i] = DOMAIN platform[i]
    /\ \A r \in DOMAIN platform[i] : p[i][r] = IF r = s THEN x ELSE platform[i][r]

LEMMA SheetBecomes ==
    ASSUME PlatOK
    PROVE  \A i \in Instances : \A s \in DOMAIN platform[i] : \A x \in Sheets :
              Becomes(i, s, x, [platform EXCEPT ![i][s] = x])
<1> TAKE i \in Instances
<1> TAKE s \in DOMAIN platform[i]
<1> TAKE x \in Sheets
<1>1. platform[i] \in Maps(Surfaces, Sheets)
    BY DEF PlatOK
<1>2. PICK m : m = [platform[i] EXCEPT ![s] = x]
    OBVIOUS
<1>3. /\ m \in Maps(Surfaces, Sheets) /\ DOMAIN m = DOMAIN platform[i]
      /\ \A r \in DOMAIN platform[i] : m[r] = IF r = s THEN x ELSE platform[i][r]
    BY <1>1, <1>2, ExceptMap
<1>4. [platform EXCEPT ![i][s] = x] = [platform EXCEPT ![i] = m]
    BY <1>2
<1>5. /\ [platform EXCEPT ![i] = m] \in [Instances -> Maps(Surfaces, Sheets)]
      /\ [platform EXCEPT ![i] = m][i] = m
      /\ \A j \in Instances \ {i} : [platform EXCEPT ![i] = m][j] = platform[j]
    BY <1>3, PlatformGets
<1> QED
    BY <1>3, <1>4, <1>5 DEF Becomes

LEMMA TypesInit ==
    ASSUME Init
    PROVE  Types /\ HoldOK /\ EmptyOK
<1>1. Empty \in Maps(Surfaces, Trees) /\ Empty \in Maps(Surfaces, Sheets)
      /\ Empty \in Maps(Surfaces, Containers) /\ Empty \in Maps(Surfaces, Instances)
    BY EmptyMap
<1>2. StatusOK /\ CoreOK /\ PlatOK /\ HandlesOK /\ TableOK
    BY <1>1 DEF Init, StatusOK, CoreOK, PlatOK, HandlesOK, TableOK, Statuses
<1>3. QueueOK /\ RunOK /\ BindOK
    BY DEF Init, QueueOK, RunOK, BindOK, Bindings
<1>4. ListsOK /\ HeardOK /\ HistoryOK
    BY DEF Init, ListsOK, HeardOK, HistoryOK
<1>5. HoldOK /\ EmptyOK
    BY DEF Init, HoldOK, EmptyOK
<1> QED
    BY <1>2, <1>3, <1>4, <1>5 DEF Types

LEMMA TypesReport ==
    ASSUME Types, HoldOK, EmptyOK, NEW i \in Instances, NEW s \in Surfaces,
           NEW f \in Maps(Surfaces, Trees), NEW tasks \in Seq(Reports), Reported(i, s, f, tasks)
    PROVE  Types' /\ HoldOK' /\ EmptyOK'
<1>1. /\ status[i] = "live" /\ core' = [core EXCEPT ![i] = f] /\ queue' = queue \o tasks
      /\ history' = [history EXCEPT !.reports = @ + 1]
      /\ UNCHANGED <<status, running, platform, handles, mapping, container, native, ets, known, heard>>
    BY DEF Reported, Report, arkts
<1>2. CoreOK' /\ QueueOK' /\ HistoryOK'
    <2>1. CoreOK'
        BY <1>1 DEF Types, CoreOK
    <2>2. QueueOK'
        BY <1>1 DEF Types, QueueOK
    <2>3. HistoryOK'
        <3>1. history.reports + 1 \in Nat /\ HistoryOK
            BY DEF Types, HistoryOK
        <3> QED
            BY <1>1, <3>1 DEF HistoryOK
    <2> QED
        BY <2>1, <2>2, <2>3
<1>3. /\ StatusOK' /\ RunOK' /\ PlatOK' /\ HandlesOK' /\ TableOK' /\ BindOK'
      /\ ListsOK' /\ HeardOK' /\ HoldOK'
    BY <1>1 DEF Types, StatusOK, RunOK, PlatOK, HandlesOK, TableOK, BindOK, ListsOK, HeardOK, HoldOK
<1>4. \A n \in 1..Len(tasks) : tasks[n].i = i
    BY DEF Reported, Leads
<1>5. \A n \in 1..Len(queue') : \/ n \in 1..Len(queue) /\ queue'[n] = queue[n]
                                \/ n - Len(queue) \in 1..Len(tasks) /\ queue'[n] = tasks[n - Len(queue)]
    BY <1>1 DEF Types, QueueOK
<1>6. EmptyOK'
    BY <1>1, <1>4, <1>5 DEF EmptyOK, Types, CoreOK
<1> QED
    BY <1>2, <1>3, <1>6 DEF Types

LEMMA TypesTree ==
    ASSUME Types, HoldOK, EmptyOK, RunTreeTask
    PROVE  Types' /\ HoldOK' /\ EmptyOK'
<1>1. PICK t : t = Head(queue)
    OBVIOUS
<1>2. /\ running = Idle /\ queue # <<>> /\ t.kind \in TreeKinds /\ queue' = Tail(queue)
      /\ UNCHANGED <<status, core, running, handles, mapping, container, native, ets, known, heard>>
      /\ status[t.i] = "live" /\ t.s \in DOMAIN platform[t.i] =>
            /\ platform' = [platform EXCEPT ![t.i][t.s] = Applied(platform[t.i][t.s], t)]
            /\ \E b \in BOOLEAN : history' = [history EXCEPT !.aborted = b]
      /\ ~(status[t.i] = "live" /\ t.s \in DOMAIN platform[t.i]) =>
            platform' = platform /\ history' = history
    BY <1>1 DEF RunTreeTask, TreeKinds, arkts, Types, PlatOK, HistoryOK
<1>3. QueueOK /\ PlatOK
    BY DEF Types
<1>4. t \in Reports /\ t.i \in Instances /\ t.s \in Surfaces /\ QueueOK'
    BY <1>1, <1>2, <1>3, FirstTask, ReportOf DEF QueueOK
<1>5. ASSUME status[t.i] = "live", t.s \in DOMAIN platform[t.i]
      PROVE  PlatOK' /\ HistoryOK' /\ \A j \in Instances : status[j] # "live" => platform'[j] = platform[j]
    <2>1. platform[t.i][t.s] \in Sheets
        BY <1>3, <1>4, <1>5, SheetOf
    <2>2. Applied(platform[t.i][t.s], t) \in Sheets
        BY <1>2, <1>4, <2>1, Applying
    <2>3. Becomes(t.i, t.s, Applied(platform[t.i][t.s], t), platform')
        BY <1>2, <1>3, <1>4, <1>5, <2>2, SheetBecomes
    <2>4. PlatOK' /\ \A j \in Instances \ {t.i} : platform'[j] = platform[j]
        BY <2>3 DEF PlatOK, Becomes
    <2>5. HistoryOK'
        <3>1. PICK b \in BOOLEAN : history' = [history EXCEPT !.aborted = b]
            BY <1>2, <1>5
        <3> QED
            BY <3>1 DEF HistoryOK, Types
    <2> QED
        BY <1>5, <2>4, <2>5
<1>6. ASSUME ~(status[t.i] = "live" /\ t.s \in DOMAIN platform[t.i])
      PROVE  PlatOK' /\ HistoryOK' /\ \A j \in Instances : status[j] # "live" => platform'[j] = platform[j]
    <2>1. platform' = platform /\ history' = history
        BY <1>2, <1>6
    <2> QED
        BY <2>1 DEF PlatOK, HistoryOK, Types
<1>7. PlatOK' /\ HistoryOK' /\ \A j \in Instances : status[j] # "live" => platform'[j] = platform[j]
    BY <1>2, <1>4, <1>5, <1>6
<1>8. /\ StatusOK' /\ CoreOK' /\ RunOK' /\ HandlesOK' /\ TableOK' /\ BindOK'
      /\ ListsOK' /\ HeardOK' /\ HoldOK'
    BY <1>2 DEF Types, StatusOK, CoreOK, RunOK, HandlesOK, TableOK, BindOK, ListsOK, HeardOK, HoldOK
<1>9. EmptyOK'
    BY <1>2, <1>3, <1>7, FirstTask DEF EmptyOK
<1> QED
    BY <1>4, <1>7, <1>8, <1>9 DEF Types

LEMMA NewIsSheet == NewSurface \in Sheets
BY EmptyTree DEF NewSurface, Sheets

LEMMA CallingRuns ==
    ASSUME Types
    PROVE  \A t \in Reports : t.kind \in {"create", "delete"} =>
              Calling(t) \in Runs /\ Calling(t).i = t.i /\ Calling(t).s = t.s
              /\ Calling(t).kind = t.kind /\ Calling(t).at = 0 /\ Calling(t).last = Len(native[t.i])
              /\ Calling(t).to = 1 /\ Calling(t).upto = 0 /\ Calling(t).moved = FALSE
<1>1. SUFFICES ASSUME NEW t \in Reports, t.kind \in {"create", "delete"}
               PROVE  Calling(t) \in Runs /\ Calling(t).i = t.i /\ Calling(t).s = t.s
              /\ Calling(t).kind = t.kind /\ Calling(t).at = 0 /\ Calling(t).last = Len(native[t.i])
              /\ Calling(t).to = 1 /\ Calling(t).upto = 0 /\ Calling(t).moved = FALSE
    OBVIOUS
<1>2. PICK n : n = Len(native[t.i])
    OBVIOUS
<1>3. n \in Nat /\ t.i \in Instances /\ t.s \in Surfaces
    BY <1>1, <1>2 DEF Types, ListsOK, Reports
<1>4. Calling(t) = [kind |-> t.kind, i |-> t.i, s |-> t.s, at |-> 0, last |-> n, to |-> 1, upto |-> 0,
                    moved |-> FALSE]
    BY <1>2 DEF Calling
<1>5. Calling(t) \in Runs
    BY <1>1, <1>3, <1>4 DEF Runs
<1> QED
    BY <1>2, <1>4, <1>5

\* Nobody is called but by the task that runs: it stays the same task.
SameTask == /\ RunOK' /\ (running' = Idle <=> running = Idle)
            /\ running'.kind = running.kind /\ running'.i = running.i /\ running'.s = running.s

LEMMA CallsKeep ==
    ASSUME Types, CallListener \/ TellListener
    PROVE  /\ SameTask /\ running # Idle
           /\ UNCHANGED <<status, core, queue, platform, handles, mapping, container, native, ets>>
           /\ HistoryOK' /\ history'.aborted = history.aborted /\ history'.skipped = history.skipped
           /\ HeardOK'
<1>1. running # Idle
    BY DEF CallListener, TellListener
<1>2. running \in Runs /\ running.i \in Instances /\ running.s \in Surfaces
    BY <1>1, RunsOf DEF Types
<1>3. ets[running.i] \in Seq(Listeners) /\ Len(ets[running.i]) \in Nat
    BY <1>2 DEF Types, ListsOK
<1>4. running' \in Runs => RunOK' /\ running' # Idle
    BY RunsOf DEF RunOK
<1>5. CASE CallListener
    <2>1. PICK n \in Nat : \/ running' = [running EXCEPT !.at = running.at + 1, !.to = 1, !.upto = n]
                           \/ running' = [running EXCEPT !.at = running.at + 1]
        <3>1. PICK n : n = IF running.kind = "create" \/ running.s \in known[running.i]
                           THEN Len(ets[running.i]) ELSE 0
            OBVIOUS
        <3>2. n \in Nat
            BY <1>3, <3>1
        <3> QED
            BY <1>5, <3>1, <3>2 DEF CallListener
    <2>2. /\ running' \in Runs
          /\ running'.kind = running.kind /\ running'.i = running.i /\ running'.s = running.s
        <3>1. running.at + 1 \in Nat /\ 1 \in Nat \ {0}
            BY <1>2 DEF Runs
        <3>2. PICK m \in Nat : m = running.at + 1
            BY <3>1
        <3>3. CASE running' = [running EXCEPT !.at = m, !.to = 1, !.upto = n]
            BY <1>2, <3>1, <3>3 DEF Runs
        <3>4. CASE running' = [running EXCEPT !.at = m]
            BY <1>2, <3>4 DEF Runs
        <3> QED
            BY <2>1, <3>2, <3>3, <3>4
    <2>3. UNCHANGED <<status, core, queue, platform, handles, mapping, container, native, ets, heard>>
        BY <1>5 DEF CallListener
    <2>4. HistoryOK' /\ history'.aborted = history.aborted /\ history'.skipped = history.skipped
        BY <1>5 DEF CallListener, Types, HistoryOK, Within
    <2>5. \/ known' = known
          \/ known' = [known EXCEPT ![running.i] = known[running.i] \cup {running.s}]
          \/ known' = [known EXCEPT ![running.i] = known[running.i] \ {running.s}]
        BY <1>5 DEF CallListener
    <2>6. HeardOK'
        BY <1>2, <2>3, <2>5 DEF Types, HeardOK
    <2> QED
        BY <1>1, <1>4, <2>2, <2>3, <2>4, <2>6 DEF SameTask
<1>6. CASE TellListener
    <2>1. /\ running' = [running EXCEPT !.to = running.to + 1]
          /\ UNCHANGED <<status, core, queue, platform, handles, mapping, container, native, ets, known>>
        BY <1>6 DEF TellListener
    <2>2. /\ running' \in Runs
          /\ running'.kind = running.kind /\ running'.i = running.i /\ running'.s = running.s
        BY <1>2, <2>1 DEF Runs
    <2>3. HistoryOK' /\ history'.aborted = history.aborted /\ history'.skipped = history.skipped
        BY <1>6 DEF TellListener, Types, HistoryOK
    <2>4. running.to <= Len(ets[running.i]) => ets[running.i][running.to] \in Listeners
        <3>1. running.to >= 1
            BY <1>2, <1>6 DEF TellListener, Types, RunOK, Runs
        <3> QED
            BY <1>2, <1>3, <3>1 DEF Runs
    <2>5. HeardOK'
        <3>1. heard \subseteq Instances \X Listeners \X Surfaces
            BY DEF Types, HeardOK
        <3>2. heard' \subseteq heard \/ (running.to <= Len(ets[running.i])
                 /\ heard' = heard \cup {<<running.i, ets[running.i][running.to], running.s>>})
            BY <1>2, <1>3, <1>6 DEF TellListener, Receiver, Runs
        <3>3. heard' \subseteq Instances \X Listeners \X Surfaces
            BY <1>2, <2>4, <3>1, <3>2
        <3> QED
            BY <2>1, <3>3 DEF Types, HeardOK
    <2> QED
        BY <1>1, <1>4, <2>1, <2>2, <2>3, <2>5 DEF SameTask
<1> QED
    BY <1>5, <1>6

LEMMA TypesCreate ==
    ASSUME Types, HoldOK, EmptyOK, RunCreate
    PROVE  Types' /\ HoldOK' /\ EmptyOK'
<1>1. PICK t : t = Head(queue)
    OBVIOUS
<1>2. /\ running = Idle /\ queue # <<>> /\ t.kind = "create" /\ queue' = Tail(queue)
      /\ UNCHANGED <<status, core, handles, container, native, ets, known, heard>>
      /\ IF status[t.i] = "live"
         THEN /\ mapping' = With(mapping, t.s, t.i)
              /\ platform' = [platform EXCEPT ![t.i] = With(platform[t.i], t.s, NewSurface)]
              /\ history' = [history EXCEPT !.aborted = history.aborted \/ t.s \in DOMAIN platform[t.i]]
              /\ running' = Calling(t)
         ELSE UNCHANGED <<mapping, platform, history, running>>
    BY <1>1 DEF RunCreate, Registered, arkts, Types, PlatOK, HistoryOK
<1>3. QueueOK /\ PlatOK
    BY DEF Types
<1>4. t \in Reports /\ t.i \in Instances /\ t.s \in Surfaces /\ QueueOK'
    BY <1>1, <1>2, <1>3, FirstTask, ReportOf DEF QueueOK
<1>5. /\ StatusOK' /\ CoreOK' /\ HandlesOK' /\ BindOK' /\ ListsOK' /\ HeardOK'
    BY <1>2 DEF Types, StatusOK, CoreOK, HandlesOK, BindOK, ListsOK, HeardOK
<1>6. CASE status[t.i] = "live"
    <2>1. With(mapping, t.s, t.i) \in Maps(Surfaces, Instances)
        BY <1>4, WithMap DEF Types, TableOK
    <2>2. platform[t.i] \in Maps(Surfaces, Sheets)
        BY <1>3, <1>4 DEF PlatOK
    <2>3. With(platform[t.i], t.s, NewSurface) \in Maps(Surfaces, Sheets)
        BY <1>4, <2>2, NewIsSheet, WithMap
    <2>4. PlatOK' /\ \A j \in Instances \ {t.i} : platform'[j] = platform[j]
        BY <1>2, <1>3, <1>4, <1>6, <2>3, PlatformGets DEF PlatOK
    <2>5. running' \in Runs /\ running'.i = t.i
        BY <1>2, <1>4, <1>6, CallingRuns
    <2>6. HistoryOK'
        BY <1>2, <1>6 DEF HistoryOK, Types
    <2>7. TableOK' /\ RunOK'
        BY <1>2, <1>6, <2>1, <2>5 DEF TableOK, RunOK
    <2>8. HoldOK'
        BY <1>2, <1>6, <2>5 DEF HoldOK
    <2>9. EmptyOK'
        BY <1>2, <1>3, <1>6, <2>4, FirstTask DEF EmptyOK
    <2> QED
        BY <1>4, <1>5, <2>4, <2>6, <2>7, <2>8, <2>9 DEF Types
<1>7. CASE status[t.i] # "live"
    <2>1. TableOK' /\ PlatOK' /\ HistoryOK' /\ RunOK' /\ HoldOK'
        BY <1>2, <1>7 DEF Types, TableOK, PlatOK, HistoryOK, RunOK, HoldOK
    <2>2. EmptyOK'
        BY <1>2, <1>3, <1>7, FirstTask DEF EmptyOK
    <2> QED
        BY <1>4, <1>5, <2>1, <2>2 DEF Types
<1> QED
    BY <1>6, <1>7

LEMMA TypesDelete ==
    ASSUME Types, HoldOK, EmptyOK, RunDelete
    PROVE  Types' /\ HoldOK' /\ EmptyOK'
<1>1. PICK t : t = Head(queue)
    OBVIOUS
<1>2. /\ running = Idle /\ queue # <<>> /\ t.kind = "delete" /\ queue' = Tail(queue)
      /\ UNCHANGED <<status, core, platform, handles, container, native, ets, known, heard, history>>
      /\ IF status[t.i] = "live"
         THEN running' = Calling(t) /\ UNCHANGED mapping
         ELSE mapping' = Without(mapping, {t.s}) /\ UNCHANGED running
    BY <1>1 DEF RunDelete, arkts
<1>3. QueueOK
    BY DEF Types
<1>4. t \in Reports /\ t.i \in Instances /\ t.s \in Surfaces /\ QueueOK'
    BY <1>1, <1>2, <1>3, FirstTask, ReportOf DEF QueueOK
<1>5. /\ StatusOK' /\ CoreOK' /\ PlatOK' /\ HandlesOK' /\ BindOK' /\ ListsOK' /\ HeardOK'
      /\ HistoryOK'
    BY <1>2 DEF Types, StatusOK, CoreOK, PlatOK, HandlesOK, BindOK, ListsOK, HeardOK, HistoryOK
<1>6. EmptyOK'
    BY <1>2, <1>3, FirstTask DEF EmptyOK
<1>7. CASE status[t.i] = "live"
    <2>1. running' \in Runs /\ running'.i = t.i
        BY <1>2, <1>4, <1>7, CallingRuns
    <2>2. TableOK' /\ RunOK'
        BY <1>2, <1>7, <2>1 DEF Types, TableOK, RunOK
    <2>3. HoldOK'
        BY <1>2, <1>7, <2>1 DEF HoldOK
    <2> QED
        BY <1>4, <1>5, <1>6, <2>2, <2>3 DEF Types
<1>8. CASE status[t.i] # "live"
    <2>1. TableOK'
        <3>1. Without(mapping, {t.s}) \in Maps(Surfaces, Instances)
            BY WithoutMap DEF Types, TableOK
        <3> QED
            BY <1>2, <1>8, <3>1 DEF TableOK
    <2>2. RunOK' /\ HoldOK'
        BY <1>2, <1>8 DEF Types, RunOK, HoldOK
    <2> QED
        BY <1>4, <1>5, <1>6, <2>1, <2>2 DEF Types
<1> QED
    BY <1>7, <1>8

LEMMA TypesCall ==
    ASSUME Types, HoldOK, EmptyOK, CallListener \/ TellListener
    PROVE  Types' /\ HoldOK' /\ EmptyOK'
<1>1. /\ SameTask /\ running # Idle /\ HistoryOK' /\ HeardOK'
      /\ UNCHANGED <<status, core, queue, platform, handles, mapping, container, native, ets>>
    BY CallsKeep
<1>2. /\ StatusOK' /\ CoreOK' /\ QueueOK' /\ PlatOK' /\ HandlesOK' /\ TableOK' /\ BindOK'
      /\ ListsOK' /\ EmptyOK'
    BY <1>1 DEF Types, StatusOK, CoreOK, QueueOK, PlatOK, HandlesOK, TableOK, BindOK, ListsOK, EmptyOK
<1>3. RunOK' /\ HoldOK'
    BY <1>1 DEF SameTask, HoldOK
<1> QED
    BY <1>1, <1>2, <1>3 DEF Types

LEMMA TypesEnd ==
    ASSUME Types, HoldOK, EmptyOK, EndTask
    PROVE  Types' /\ HoldOK' /\ EmptyOK'
<1> DEFINE i == running.i
           s == running.s
<1>1. PICK left : left = IF running.kind = "delete" THEN Without(platform[i], {s}) ELSE platform[i]
    OBVIOUS
<1>2. /\ running # Idle /\ running' = Idle
      /\ UNCHANGED <<core, queue, handles, container, native, ets, known, heard, history>>
      /\ mapping' = IF running.kind = "delete" THEN Without(mapping, {s}) ELSE mapping
      /\ IF status[i] = "held"
         THEN status' = [status EXCEPT ![i] = "dead"] /\ platform' = [platform EXCEPT ![i] = Empty]
         ELSE platform' = [platform EXCEPT ![i] = left] /\ UNCHANGED status
    BY <1>1 DEF EndTask, Remaining, arkts
<1>3. i \in Instances /\ s \in Surfaces /\ status[i] \in {"live", "held"}
    BY <1>2, RunsOf DEF Types, HoldOK
<1> HIDE DEF i, s
<1>4. left \in Maps(Surfaces, Sheets) /\ Empty \in Maps(Surfaces, Sheets)
    BY <1>1, <1>3, WithoutMap, EmptyMap DEF Types, PlatOK
<1>5. PlatOK' /\ \A j \in Instances \ {i} : platform'[j] = platform[j] /\ status'[j] = status[j]
    BY <1>2, <1>3, <1>4, PlatformGets DEF Types, PlatOK, StatusOK
<1>6. StatusOK' /\ \/ status'[i] = "dead" /\ platform'[i] = Empty /\ status[i] # "live"
                   \/ status'[i] = "live" /\ status[i] = "live"
    BY <1>2, <1>3, <1>4, PlatformGets DEF Types, StatusOK, Statuses
<1>7. TableOK'
    BY <1>2, WithoutMap DEF Types, TableOK
<1>8. /\ CoreOK' /\ QueueOK' /\ RunOK' /\ HandlesOK' /\ BindOK' /\ ListsOK' /\ HeardOK' /\ HistoryOK'
    BY <1>2 DEF Types, CoreOK, QueueOK, RunOK, HandlesOK, BindOK, ListsOK, HeardOK, HistoryOK
<1>9. HoldOK'
    BY <1>2, <1>5, <1>6 DEF HoldOK, i
<1>10. EmptyOK'
    BY <1>2, <1>5, <1>6 DEF EmptyOK
<1> QED
    BY <1>5, <1>6, <1>7, <1>8, <1>9, <1>10 DEF Types

LEMMA TypesMake ==
    ASSUME Types, HoldOK, EmptyOK, NEW i \in Instances, CreateSurfaceManager(i)
    PROVE  Types' /\ HoldOK' /\ EmptyOK'
<1>1. /\ status[i] = "none" /\ status' = [status EXCEPT ![i] = "live"]
      /\ UNCHANGED <<core, queue, running, platform, handles, mapping, container, native, ets,
                     known, heard, history>>
    BY DEF CreateSurfaceManager, arkts
<1>2. StatusOK' /\ HoldOK' /\ EmptyOK'
    BY <1>1 DEF Types, StatusOK, Statuses, HoldOK, EmptyOK
<1>3. /\ CoreOK' /\ QueueOK' /\ RunOK' /\ PlatOK' /\ HandlesOK' /\ TableOK' /\ BindOK'
      /\ ListsOK' /\ HeardOK' /\ HistoryOK'
    BY <1>1 DEF Types, CoreOK, QueueOK, RunOK, PlatOK, HandlesOK, TableOK, BindOK, ListsOK, HeardOK,
                HistoryOK
<1> QED
    BY <1>2, <1>3 DEF Types

LEMMA TypesDestroy ==
    ASSUME Types, HoldOK, EmptyOK, NEW i \in Instances, DestroySurfaceManager(i)
    PROVE  Types' /\ HoldOK' /\ EmptyOK'
<1>1. /\ status[i] = "live"
      /\ native' = [native EXCEPT ![i] = <<>>] /\ ets' = [ets EXCEPT ![i] = <<>>]
      /\ known' = [known EXCEPT ![i] = {}] /\ heard' \subseteq heard
      /\ core' = [core EXCEPT ![i] = Empty] /\ handles' = [handles EXCEPT ![i] = Empty]
      /\ UNCHANGED <<queue, running, mapping, container, history>>
      /\ \/ running # Idle /\ running.i = i /\ status' = [status EXCEPT ![i] = "held"]
            /\ platform' = platform
         \/ ~(running # Idle /\ running.i = i) /\ status' = [status EXCEPT ![i] = "dead"]
            /\ platform' = [platform EXCEPT ![i] = Empty]
    BY DEF DestroySurfaceManager
<1>2. Empty \in Maps(Surfaces, Trees) /\ Empty \in Maps(Surfaces, Containers)
      /\ Empty \in Maps(Surfaces, Sheets)
    BY EmptyMap
<1>3. CoreOK' /\ HandlesOK' /\ PlatOK'
    BY <1>1, <1>2 DEF Types, CoreOK, HandlesOK, PlatOK
<1>4. ListsOK'
    BY <1>1 DEF Types, ListsOK
<1>5. HeardOK'
    BY <1>1 DEF Types, HeardOK
<1>6. StatusOK' /\ HoldOK'
    <2>1. running # Idle => running.i \in Instances
        BY RunsOf DEF Types
    <2>2. StatusOK'
        BY <1>1 DEF Types, StatusOK, Statuses
    <2>3. HoldOK'
        BY <1>1, <2>1 DEF Types, StatusOK, HoldOK
    <2> QED
        BY <2>2, <2>3
<1>7. /\ QueueOK' /\ RunOK' /\ TableOK' /\ BindOK' /\ HistoryOK'
    BY <1>1 DEF Types, QueueOK, RunOK, TableOK, BindOK, HistoryOK
<1>8. EmptyOK'
    BY <1>1 DEF EmptyOK, Types, CoreOK, PlatOK, StatusOK
<1> QED
    BY <1>3, <1>4, <1>5, <1>6, <1>7, <1>8 DEF Types

LEMMA NatMinimum ==
    ASSUME NEW S \in SUBSET Nat, S # {}
    PROVE  \E n \in S : \A m \in S : n <= m
<1> DEFINE R == OpToRel(<, Nat)
<1>1. \A n, m \in Nat : n < m => <<n, m>> \in R
    BY DEF OpToRel
<1>2. IsWellFoundedOn(R, Nat)
    BY NatLessThanWellFounded
<1> HIDE DEF R
<1>3. PICK n \in S : \A m \in S : ~(<<m, n>> \in R)
    BY <1>2, WFMin
<1>4. \A m \in S : ~(m < n)
    BY <1>1, <1>3
<1> QED
    BY <1>4

LEMMA FirstRemoved ==
    \A q \in Seq(Listeners) : \A l \in ToSet(q) :
        /\ RemoveFirst(q, l) \in Seq(Listeners) /\ Len(RemoveFirst(q, l)) = Len(q) - 1
        /\ \E k \in 1..Len(q) :
              /\ q[k] = l
              /\ \A n \in 1..Len(q) : /\ n < k => RemoveFirst(q, l)[n] = q[n]
                                      /\ n > k => RemoveFirst(q, l)[n - 1] = q[n]
<1> TAKE q \in Seq(Listeners)
<1> TAKE l \in ToSet(q)
<1> DEFINE I == {n \in 1..Len(q) : q[n] = l}
           k == CHOOSE n \in I : \A m \in I : n <= m
<1>1. I # {} /\ I \subseteq Nat
    BY DEF ToSet
<1>2. k \in I
    <2>1. \E n \in I : \A m \in I : n <= m
        BY <1>1, NatMinimum
    <2> QED
        BY <2>1
<1>3. RemoveFirst(q, l) = SubSeq(q, 1, k - 1) \o SubSeq(q, k + 1, Len(q))
    BY <1>1 DEF RemoveFirst, RemoveAt, SelectInSeq, Min
<1> HIDE DEF k
<1>4. k \in 1..Len(q) /\ Len(q) \in Nat /\ q[k] = l
    BY <1>2
<1>5. SubSeq(q, 1, k - 1) \in Seq(Listeners) /\ Len(SubSeq(q, 1, k - 1)) = k - 1
    BY <1>4
<1>6. SubSeq(q, k + 1, Len(q)) \in Seq(Listeners) /\ Len(SubSeq(q, k + 1, Len(q))) = Len(q) - k
    BY <1>4
<1> HIDE DEF I
<1>7. PICK a, b : a = SubSeq(q, 1, k - 1) /\ b = SubSeq(q, k + 1, Len(q))
    OBVIOUS
<1>8. /\ RemoveFirst(q, l) = a \o b /\ a \in Seq(Listeners) /\ b \in Seq(Listeners)
      /\ Len(a) = k - 1 /\ Len(b) = Len(q) - k
    BY <1>3, <1>5, <1>6, <1>7
<1>9. \A x, y \in Seq(Listeners) : x \o y \in Seq(Listeners) /\ Len(x \o y) = Len(x) + Len(y)
    OBVIOUS
<1>10. a \o b \in Seq(Listeners) /\ Len(a \o b) = (k - 1) + (Len(q) - k)
    BY <1>9, <1>8
<1>11. (k - 1) + (Len(q) - k) = Len(q) - 1
    BY <1>4
<1>12. \A n \in 1..Len(q) : /\ n < k => RemoveFirst(q, l)[n] = q[n]
                            /\ n > k => RemoveFirst(q, l)[n - 1] = q[n]
    <2> TAKE n \in 1..Len(q)
    <2>1. \A m \in 1..(k - 1) : a[m] = q[m]
        BY <1>4, <1>7
    <2>2. \A m \in 1..(Len(q) - k) : b[m] = q[k + m]
        BY <1>4, <1>7
    <2>3. \A m \in 1..Len(a \o b) : (a \o b)[m] = IF m <= Len(a) THEN a[m] ELSE b[m - Len(a)]
        BY <1>8
    <2>4. n < k => (a \o b)[n] = q[n]
        BY <1>4, <1>8, <1>10, <1>11, <2>1, <2>3
    <2>5. n > k => (a \o b)[n - 1] = q[n]
        <3>1. SUFFICES ASSUME n > k PROVE (a \o b)[n - 1] = q[n]
            OBVIOUS
        <3>2. n - 1 \in 1..Len(a \o b) /\ ~(n - 1 <= Len(a)) /\ (n - 1) - Len(a) = n - k
              /\ n - k \in 1..(Len(q) - k) /\ k + (n - k) = n
            BY <1>4, <1>8, <1>10, <1>11, <3>1
        <3>3. (a \o b)[n - 1] = b[n - k]
            BY <2>3, <3>2
        <3> QED
            BY <2>2, <3>2, <3>3
    <2> QED
        BY <1>8, <2>4, <2>5
<1> QED
    BY <1>4, <1>8, <1>10, <1>11, <1>12

LEMMA ListsKeep ==
    ASSUME Types, NEW i \in Instances, NEW l \in Listeners,
           AddListener(i, l) \/ RemoveListener(i, l)
    PROVE  /\ UNCHANGED <<status, core, queue, platform, handles, mapping, container, known>>
           /\ heard' \subseteq heard /\ SameTask
           /\ HistoryOK' /\ history'.aborted = history.aborted
<1>1. /\ UNCHANGED <<status, core, queue, platform, handles, mapping, container, known>>
      /\ heard' \subseteq heard
      /\ \/ running' = running
         \/ running # Idle /\ running' = [running EXCEPT !.moved = TRUE]
    BY DEF AddListener, RemoveListener
<1>2. SameTask
    <2>1. CASE running' = running
        BY <2>1 DEF SameTask, Types, RunOK
    <2>2. CASE running # Idle /\ running' = [running EXCEPT !.moved = TRUE]
        <3>1. running \in Runs
            BY <2>2, RunsOf DEF Types
        <3>2. running' \in Runs
              /\ running'.kind = running.kind /\ running'.i = running.i /\ running'.s = running.s
            BY <2>2, <3>1 DEF Runs
        <3> QED
            BY <2>2, <3>2, RunsOf DEF SameTask, RunOK
    <2> QED
        BY <1>1, <2>1, <2>2
<1>3. HistoryOK' /\ history'.aborted = history.aborted
    <2>1. PassesOver(i, l) \in BOOLEAN
        BY DEF PassesOver
    <2> QED
        BY <2>1 DEF AddListener, RemoveListener, Types, HistoryOK
<1> QED
    BY <1>1, <1>2, <1>3

LEMMA TypesLists ==
    ASSUME Types, HoldOK, EmptyOK, NEW i \in Instances, NEW l \in Listeners,
           AddListener(i, l) \/ RemoveListener(i, l)
    PROVE  Types' /\ HoldOK' /\ EmptyOK'
<1>1. /\ UNCHANGED <<status, core, queue, platform, handles, mapping, container, known>>
      /\ heard' \subseteq heard /\ SameTask /\ HistoryOK'
    BY ListsKeep
<1>2. ListsOK'
    <2>1. PICK q \in Seq(Listeners) : ets' = [ets EXCEPT ![i] = q] /\ native' = [native EXCEPT ![i] = q]
        <3>1. CASE AddListener(i, l)
            <4>1. Append(ets[i], l) \in Seq(Listeners) /\ native = ets
                BY DEF Types, ListsOK
            <4> QED
                BY <3>1, <4>1 DEF AddListener
        <3>2. CASE RemoveListener(i, l)
            <4>1. RemoveFirst(ets[i], l) \in Seq(Listeners) /\ native = ets
                BY <3>2, FirstRemoved DEF Types, ListsOK, RemoveListener
            <4> QED
                BY <3>2, <4>1 DEF RemoveListener
        <3> QED
            BY <3>1, <3>2
    <2> QED
        BY <2>1 DEF Types, ListsOK
<1>3. HeardOK'
    BY <1>1 DEF Types, HeardOK
<1>4. /\ StatusOK' /\ CoreOK' /\ QueueOK' /\ RunOK' /\ PlatOK' /\ HandlesOK' /\ TableOK' /\ BindOK'
      /\ EmptyOK'
    BY <1>1 DEF Types, StatusOK, CoreOK, QueueOK, SameTask, PlatOK, HandlesOK, TableOK, BindOK, EmptyOK
<1>5. HoldOK'
    BY <1>1 DEF HoldOK, SameTask
<1> QED
    BY <1>1, <1>2, <1>3, <1>4, <1>5 DEF Types

\* What the application does to the surfaces of a live instance leaves their
\* trees alone.
Kept(i) ==
    /\ platform' \in [Instances -> Maps(Surfaces, Sheets)]
    /\ \A j \in Instances : DOMAIN platform'[j] = DOMAIN platform[j]
    /\ \A j \in Instances \ {i} : platform'[j] = platform[j]
    /\ \A s \in DOMAIN platform[i] : platform'[i][s].tree = platform[i][s].tree

LEMMA KeptAll ==
    ASSUME PlatOK, NEW i \in Instances, platform' = platform
    PROVE  Kept(i)
BY DEF PlatOK, Kept

LEMMA KeptOne ==
    ASSUME PlatOK, NEW i \in Instances, NEW s \in DOMAIN platform[i], NEW x \in Sheets,
           x.tree = platform[i][s].tree, platform' = [platform EXCEPT ![i][s] = x]
    PROVE  Kept(i) /\ Becomes(i, s, x, platform')
<1>1. Becomes(i, s, x, platform')
    BY SheetBecomes
<1> QED
    BY <1>1 DEF Becomes, Kept

LEMMA KeptCleared ==
    ASSUME Types, NEW i \in Instances, ClearContainer(i)
    PROVE  /\ Kept(i) /\ UNCHANGED <<status, core, queue, running, handles, mapping, container,
                                     native, ets, known, heard, history>>
           /\ status[i] = "live"
           /\ \A s \in DOMAIN platform[i] :
                 platform'[i][s] = [Unmount(platform[i][s]) EXCEPT !.cleared = HasRoot(platform[i][s])]
<1> DEFINE Cleared(surface) == [Unmount(surface) EXCEPT !.cleared = HasRoot(surface)]
           m == [s \in DOMAIN platform[i] |-> Cleared(platform[i][s])]
<1>1. \A x \in Sheets : Cleared(x) \in Sheets /\ Cleared(x).tree = x.tree
    <2> TAKE x \in Sheets
    <2>1. Unmount(x) \in Sheets /\ Unmount(x).tree = x.tree
        BY Mounting
    <2>2. HasRoot(x) \in BOOLEAN
        BY DEF HasRoot
    <2> QED
        BY <2>1, <2>2 DEF Sheets
<1>2. platform[i] \in Maps(Surfaces, Sheets) /\ PlatOK
    BY DEF Types, PlatOK
<1>3. DOMAIN platform[i] \subseteq Surfaces /\ \A s \in DOMAIN platform[i] : platform[i][s] \in Sheets
    BY <1>2, MapOf
<1>4. /\ status[i] = "live" /\ platform' = [platform EXCEPT ![i] = m]
      /\ UNCHANGED <<status, core, queue, running, handles, mapping, container,
                     native, ets, known, heard, history>>
    BY DEF ClearContainer, arkts, Types, PlatOK
<1> HIDE DEF Cleared
<1>5. m \in [DOMAIN platform[i] -> Sheets]
    BY <1>1, <1>3
<1>6. m \in Maps(Surfaces, Sheets)
    BY <1>3, <1>5, IsMap
<1>7. /\ platform' \in [Instances -> Maps(Surfaces, Sheets)] /\ platform'[i] = m
      /\ \A j \in Instances \ {i} : platform'[j] = platform[j]
    BY <1>2, <1>4, <1>6, PlatformGets
<1>8. \A s \in DOMAIN platform[i] : platform'[i][s] = Cleared(platform[i][s])
    BY <1>7
<1>9. Kept(i)
    BY <1>1, <1>3, <1>7, <1>8 DEF Kept
<1> QED
    BY <1>4, <1>8, <1>9 DEF Cleared

\* The surfaces and their trees stay.
Retained ==
    /\ platform' \in [Instances -> Maps(Surfaces, Sheets)]
    /\ \A j \in Instances : DOMAIN platform'[j] = DOMAIN platform[j]
    /\ \A j \in Instances : \A s \in DOMAIN platform[j] : platform'[j][s].tree = platform[j][s].tree

LEMMA KeptRetained ==
    ASSUME NEW i \in Instances, Kept(i)
    PROVE  Retained
BY DEF Kept, Retained

\* A container appears: either it finds no SurfaceManager, or its surface has
\* its handle.
LEMMA AppearKeeps ==
    ASSUME Types, NEW k \in Containers, NEW s \in Surfaces, Appear(k, s)
    PROVE  /\ Retained
           /\ UNCHANGED <<status, core, queue, running, mapping, native, ets, known, heard, history>>
           /\ HandlesOK' /\ BindOK'
           /\ \/ UNCHANGED <<platform, handles>>
              \/ \E i \in Instances :
                    /\ status[i] = "live"
                    /\ handles' = [handles EXCEPT ![i] = With(handles[i], s, k)]
                    /\ \/ s \notin DOMAIN platform[i] /\ platform' = platform
                       \/ /\ s \in DOMAIN platform[i]
                          /\ LET y == [platform[i][s] EXCEPT !.handle = k, !.cleared = FALSE]
                             IN  y \in Sheets /\ y.handle = k /\ Becomes(i, s, Mount(y), platform')
<1>1. PICK i : i = Owner(s)
    OBVIOUS
<1>2. /\ container' = [container EXCEPT ![k] = [state |-> "shown", i |-> i, s |-> s]]
      /\ UNCHANGED <<status, core, queue, running, mapping, native, ets, known, heard, history>>
      /\ Found(i) => /\ handles' = [handles EXCEPT ![i] = With(handles[i], s, k)]
                     /\ s \in DOMAIN platform[i] => platform' = [platform EXCEPT ![i][s] =
                           Mount([platform[i][s] EXCEPT !.handle = k, !.cleared = FALSE])]
                     /\ s \notin DOMAIN platform[i] => platform' = platform
      /\ ~Found(i) => handles' = handles /\ platform' = platform
    BY <1>1 DEF Appear, arkts, Types, PlatOK, HandlesOK, Found
<1>3. i \in Instances \cup {0}
    BY <1>1, MapOf DEF Owner, Types, TableOK
<1>4. BindOK'
    BY <1>2, <1>3 DEF Types, BindOK, Bindings
<1>5. PlatOK /\ handles \in [Instances -> Maps(Surfaces, Containers)]
    BY DEF Types, HandlesOK
<1>6. CASE ~Found(i)
    <2>1. UNCHANGED <<platform, handles>>
        BY <1>2, <1>6
    <2>2. Retained /\ HandlesOK'
        BY <1>5, <2>1 DEF Retained, HandlesOK, PlatOK
    <2> QED
        BY <1>2, <1>4, <2>1, <2>2
<1>7. CASE Found(i)
    <2>1. i \in Instances /\ status[i] = "live"
        BY <1>7 DEF Found
    <2>2. With(handles[i], s, k) \in Maps(Surfaces, Containers)
        BY <1>5, <2>1, WithMap
    <2>3. handles' = [handles EXCEPT ![i] = With(handles[i], s, k)] /\ HandlesOK'
        BY <1>2, <1>5, <1>7, <2>1, <2>2 DEF HandlesOK
    <2>4. CASE s \notin DOMAIN platform[i]
        <3>1. platform' = platform
            BY <1>2, <1>7, <2>4
        <3>2. Retained
            BY <1>5, <3>1 DEF Retained, PlatOK
        <3> QED
            BY <1>2, <1>4, <2>1, <2>3, <2>4, <3>1, <3>2
    <2>5. CASE s \in DOMAIN platform[i]
        <3> DEFINE y == [platform[i][s] EXCEPT !.handle = k, !.cleared = FALSE]
        <3>1. platform[i][s] \in Sheets
            BY <1>5, <2>1, <2>5, SheetOf
        <3>2. y \in Sheets /\ y.handle = k /\ y.tree = platform[i][s].tree
            BY <3>1 DEF Sheets
        <3>3. platform' = [platform EXCEPT ![i][s] = Mount(y)]
            BY <1>2, <1>7, <2>5
        <3> HIDE DEF y
        <3>4. Mount(y) \in Sheets /\ Mount(y).tree = platform[i][s].tree
            BY <3>2, Mounting
        <3>5. Kept(i) /\ Becomes(i, s, Mount(y), platform')
            BY <1>5, <2>1, <2>5, <3>3, <3>4, KeptOne
        <3>6. Retained
            BY <2>1, <3>5, KeptRetained
        <3> QED
            BY <1>2, <1>4, <2>1, <2>3, <2>5, <3>2, <3>5, <3>6 DEF y
    <2> QED
        BY <2>4, <2>5
<1> QED
    BY <1>6, <1>7

\* A container disappears, and with it the handle of its surface.
LEMMA DisappearKeeps ==
    ASSUME Types, NEW k \in Containers, Disappear(k)
    PROVE  /\ Retained
           /\ UNCHANGED <<status, core, queue, running, mapping, native, ets, known, heard, history>>
           /\ HandlesOK' /\ BindOK'
           /\ \/ UNCHANGED <<platform, handles>>
              \/ \E i \in Instances, s \in Surfaces :
                    /\ status[i] = "live"
                    /\ handles' = [handles EXCEPT ![i] = Without(handles[i], {s})]
                    /\ \/ s \notin DOMAIN platform[i] /\ platform' = platform
                       \/ /\ s \in DOMAIN platform[i]
                          /\ Becomes(i, s, Unmount(platform[i][s]), platform')
<1>1. PICK i, s : i = container[k].i /\ s = container[k].s
    OBVIOUS
<1>2. /\ container' = [container EXCEPT ![k].state = "gone"]
      /\ UNCHANGED <<status, core, queue, running, mapping, native, ets, known, heard, history>>
      /\ Found(i) /\ s \in DOMAIN handles[i] =>
                     /\ handles' = [handles EXCEPT ![i] = Without(handles[i], {s})]
                     /\ s \in DOMAIN platform[i] =>
                           platform' = [platform EXCEPT ![i][s] = Unmount(platform[i][s])]
                     /\ s \notin DOMAIN platform[i] => platform' = platform
      /\ ~(Found(i) /\ s \in DOMAIN handles[i]) => handles' = handles /\ platform' = platform
    BY <1>1 DEF Disappear, arkts, Types, PlatOK, HandlesOK, Found
<1>3. BindOK'
    BY <1>2 DEF Types, BindOK, Bindings
<1>4. PlatOK /\ handles \in [Instances -> Maps(Surfaces, Containers)]
    BY DEF Types, HandlesOK
<1>5. CASE ~(Found(i) /\ s \in DOMAIN handles[i])
    <2>1. UNCHANGED <<platform, handles>>
        BY <1>2, <1>5
    <2>2. Retained /\ HandlesOK'
        BY <1>4, <2>1 DEF Retained, HandlesOK, PlatOK
    <2> QED
        BY <1>2, <1>3, <2>1, <2>2
<1>6. CASE Found(i) /\ s \in DOMAIN handles[i]
    <2>1. i \in Instances /\ status[i] = "live"
        BY <1>6 DEF Found
    <2>2. s \in Surfaces
        BY <1>4, <1>6, <2>1, MapOf
    <2>3. Without(handles[i], {s}) \in Maps(Surfaces, Containers)
        BY <1>4, <2>1, WithoutMap
    <2>4. handles' = [handles EXCEPT ![i] = Without(handles[i], {s})] /\ HandlesOK'
        BY <1>2, <1>4, <1>6, <2>1, <2>3 DEF HandlesOK
    <2>5. CASE s \notin DOMAIN platform[i]
        <3>1. platform' = platform
            BY <1>2, <1>6, <2>5
        <3>2. Retained
            BY <1>4, <3>1 DEF Retained, PlatOK
        <3> QED
            BY <1>2, <1>3, <2>1, <2>2, <2>4, <2>5, <3>1, <3>2
    <2>6. CASE s \in DOMAIN platform[i]
        <3>1. platform[i][s] \in Sheets
            BY <1>4, <2>1, <2>6, SheetOf
        <3>2. Unmount(platform[i][s]) \in Sheets /\ Unmount(platform[i][s]).tree = platform[i][s].tree
            BY <3>1, Mounting
        <3>3. platform' = [platform EXCEPT ![i][s] = Unmount(platform[i][s])]
            BY <1>2, <1>6, <2>6
        <3>4. Kept(i) /\ Becomes(i, s, Unmount(platform[i][s]), platform')
            BY <1>4, <2>1, <2>6, <3>2, <3>3, KeptOne
        <3>5. Retained
            BY <2>1, <3>4, KeptRetained
        <3> QED
            BY <1>2, <1>3, <2>1, <2>2, <2>4, <2>6, <3>4, <3>5
    <2> QED
        BY <2>5, <2>6
<1> QED
    BY <1>5, <1>6

\* What the containers do: they clear, appear and disappear.
Showing == \/ \E i \in Instances : ClearContainer(i)
           \/ \E k \in Containers : Disappear(k) \/ \E s \in Surfaces : Appear(k, s)

LEMMA ShowingKeeps ==
    ASSUME Types, Showing
    PROVE  /\ Retained /\ HandlesOK' /\ BindOK'
           /\ UNCHANGED <<status, core, queue, running, mapping, native, ets, known, heard, history>>
<1>1. ASSUME NEW i \in Instances, ClearContainer(i)
      PROVE  /\ Retained /\ HandlesOK' /\ BindOK'
             /\ UNCHANGED <<status, core, queue, running, mapping, native, ets, known, heard, history>>
    <2>1. Kept(i) /\ UNCHANGED <<status, core, queue, running, handles, mapping, container,
                                 native, ets, known, heard, history>>
        BY <1>1, KeptCleared
    <2>2. Retained
        BY <2>1, KeptRetained
    <2> QED
        BY <2>1, <2>2 DEF Types, HandlesOK, BindOK
<1>2. ASSUME NEW k \in Containers, Disappear(k)
      PROVE  /\ Retained /\ HandlesOK' /\ BindOK'
             /\ UNCHANGED <<status, core, queue, running, mapping, native, ets, known, heard, history>>
    BY <1>2, DisappearKeeps
<1>3. ASSUME NEW k \in Containers, NEW s \in Surfaces, Appear(k, s)
      PROVE  /\ Retained /\ HandlesOK' /\ BindOK'
             /\ UNCHANGED <<status, core, queue, running, mapping, native, ets, known, heard, history>>
    BY <1>3, AppearKeeps
<1> QED
    BY <1>1, <1>2, <1>3 DEF Showing

LEMMA NothingIsEmpty ==
    \A D, R : \A f \in Maps(D, R) : DOMAIN f = {} => f = Empty
BY MapOf DEF Empty

LEMMA TypesShowing ==
    ASSUME Types, HoldOK, EmptyOK, Showing
    PROVE  Types' /\ HoldOK' /\ EmptyOK'
<1>1. /\ Retained /\ HandlesOK' /\ BindOK'
      /\ UNCHANGED <<status, core, queue, running, mapping, native, ets, known, heard, history>>
    BY ShowingKeeps
<1>2. PlatOK'
    BY <1>1 DEF Retained, PlatOK
<1>3. StatusOK' /\ CoreOK' /\ QueueOK' /\ RunOK' /\ TableOK' /\ ListsOK' /\ HeardOK' /\ HistoryOK'
      /\ HoldOK'
    BY <1>1 DEF Types, StatusOK, CoreOK, QueueOK, RunOK, TableOK, ListsOK, HeardOK, HistoryOK, HoldOK
<1>4. \A j \in Instances : platform[j] = Empty => platform'[j] = Empty
    <2> TAKE j \in Instances
    <2>1. platform'[j] \in Maps(Surfaces, Sheets) /\ DOMAIN platform'[j] = DOMAIN platform[j]
        BY <1>1 DEF Retained
    <2> QED
        BY <2>1, EmptyMap, NothingIsEmpty
<1>5. EmptyOK'
    BY <1>1, <1>4 DEF EmptyOK
<1> QED
    BY <1>1, <1>2, <1>3, <1>5 DEF Types

\* The steps, in the groups the proofs distinguish.
LEMMA Cases ==
    ASSUME Types, [Next]_vars
    PROVE  \/ \E i \in Instances, s \in Surfaces, f \in Maps(Surfaces, Trees), tasks \in Seq(Reports) :
                 Reported(i, s, f, tasks)
           \/ RunTreeTask \/ RunCreate \/ RunDelete \/ CallListener \/ TellListener \/ EndTask
           \/ \E i \in Instances : CreateSurfaceManager(i) \/ DestroySurfaceManager(i)
           \/ \E i \in Instances, l \in Listeners : AddListener(i, l) \/ RemoveListener(i, l)
           \/ Showing
           \/ UNCHANGED vars
<1>1. CASE Worker
    BY <1>1, WorkerReports
<1>2. CASE Tasks
    BY <1>2 DEF Tasks
<1>3. CASE Application
    BY <1>3 DEF Application, Showing
<1> QED
    BY <1>1, <1>2, <1>3 DEF Next

LEMMA TypesStep ==
    ASSUME Types, HoldOK, EmptyOK, [Next]_vars
    PROVE  Types' /\ HoldOK' /\ EmptyOK'
<1>1. CASE UNCHANGED vars
    <2>1. UNCHANGED <<status, core, queue, running, platform, handles, mapping, container, native, ets,
                      known, heard, history>>
        BY <1>1 DEF vars
    <2>2. Types'
        BY <2>1 DEF Types, StatusOK, CoreOK, QueueOK, RunOK, PlatOK, HandlesOK, TableOK, BindOK, ListsOK,
                    HeardOK, HistoryOK
    <2>3. HoldOK' /\ EmptyOK'
        BY <2>1 DEF HoldOK, EmptyOK
    <2> QED
        BY <2>2, <2>3
<1> QED
    BY <1>1, Cases, TypesReport, TypesTree, TypesCreate, TypesDelete, TypesCall, TypesEnd, TypesMake,
       TypesDestroy, TypesLists, TypesShowing

LEMMA TypesGiven ==
    ASSUME Types, HoldOK
    PROVE  TypeOK
<1>1. \A i \in Instances : \A s \in DOMAIN core[i] : s \in Surfaces /\ core[i][s] \in Trees
    BY MapOf DEF Types, CoreOK
<1>2. \A i \in Instances : \A s \in DOMAIN platform[i] :
         /\ s \in Surfaces /\ platform[i][s].tree \in Trees
         /\ platform[i][s].handle \in Containers \cup {Nobody}
         /\ platform[i][s].mounted \subseteq Containers
    <2>1. \A i \in Instances : \A s \in DOMAIN platform[i] : s \in Surfaces /\ platform[i][s] \in Sheets
        BY SheetOf DEF Types
    <2> QED
        BY <2>1 DEF Sheets
<1>3. \A i \in Instances : \A s \in DOMAIN handles[i] : s \in Surfaces /\ handles[i][s] \in Containers
    BY MapOf DEF Types, HandlesOK
<1>4. \A i \in Instances : ToSet(native[i]) \subseteq Listeners /\ native[i] = ets[i]
    BY DEF Types, ListsOK, ToSet
<1>5. \A i \in Instances : known[i] \subseteq Surfaces
    BY DEF Types, HeardOK
<1>6. \A s \in DOMAIN mapping : s \in Surfaces /\ mapping[s] \in Instances
    BY MapOf DEF Types, TableOK
<1> QED
    BY <1>1, <1>2, <1>3, <1>4, <1>5, <1>6
    DEF TypeOK, Types, StatusOK, Statuses, HeardOK, HoldOK

Healthy == Types /\ HoldOK /\ EmptyOK

LEMMA HealthyHolds == Spec => []Healthy
<1>1. Init => Healthy
    BY TypesInit DEF Healthy
<1>2. Healthy /\ [Next]_vars => Healthy'
    BY TypesStep DEF Healthy
<1> QED
    BY <1>1, <1>2, PTL DEF Spec

\* Every variable keeps its type: the renderer holds surfaces and handles under
\* the ids they have, a task that runs holds its listener, and the two lists of
\* listeners, the native one and the one of ArkTS, agree.
THEOREM RendererTypes == Spec => []TypeOK
<1>1. Healthy => TypeOK
    BY TypesGiven DEF Healthy
<1> QED
    BY <1>1, HealthyHolds, PTL
-----------------------------------------------------------------------------
(* What the waiting tasks do to one surface of one instance. *)

Apart(t) == t.kind \in {"create", "delete"}

\* Task t takes surface s of instance i from x to y.  One of another instance
\* leaves it alone; it creates or deletes no surface that i has.
Moves(i, s, t, x, y) ==
    IF t.s # s THEN y = x
    ELSE IF t.i = i THEN y = StepOf(x, t) /\ MayRun(x, t)
    ELSE y = x /\ (Apart(t) => ~Has(x))

\* The tasks of q, one after the other, take it from x to y along U.
Along(i, s, q, x, y, U) ==
    /\ U \in [0..Len(q) -> Sights] /\ U[0] = x /\ U[Len(q)] = y
    /\ \A n \in 1..Len(q) : Moves(i, s, q[n], U[n - 1], U[n])

Path(i, s, q, x, y) == \E U : Along(i, s, q, x, y, U)

LEMMA PathFirst ==
    \A i \in Instances, s \in Surfaces, q \in Seq(Reports), x \in Sights, y \in Sights :
        q # <<>> /\ Path(i, s, q, x, y) =>
            \E z \in Sights : Moves(i, s, Head(q), x, z) /\ Path(i, s, Tail(q), z, y)
<1> TAKE i \in Instances, s \in Surfaces, q \in Seq(Reports), x \in Sights, y \in Sights
<1>1. SUFFICES ASSUME q # <<>>, Path(i, s, q, x, y)
               PROVE  \E z \in Sights : Moves(i, s, Head(q), x, z) /\ Path(i, s, Tail(q), z, y)
    OBVIOUS
<1>2. PICK U : Along(i, s, q, x, y, U)
    BY <1>1 DEF Path
<1>3. /\ U \in [0..Len(q) -> Sights] /\ U[0] = x /\ U[Len(q)] = y
      /\ \A n \in 1..Len(q) : Moves(i, s, q[n], U[n - 1], U[n])
    BY <1>2 DEF Along
<1>4. PICK r \in Seq(Reports) : r = Tail(q)
    <2>1. Tail(q) \in Seq(Reports)
        BY <1>1, HeadTailProperties
    <2> QED
        BY <2>1
<1>5. /\ Len(q) \in Nat /\ Len(q) >= 1 /\ Len(r) = Len(q) - 1 /\ Head(q) = q[1]
      /\ \A n \in 1..Len(r) : r[n] = q[n + 1]
    BY <1>1, <1>4
<1> DEFINE V == [n \in 0..Len(r) |-> U[n + 1]]
<1>6. /\ V \in [0..Len(r) -> Sights] /\ V[0] = U[1] /\ V[Len(r)] = y
      /\ \A n \in 0..Len(r) : V[n] = U[n + 1]
    BY <1>3, <1>5
<1> HIDE DEF V
<1>7. \A n \in 1..Len(r) : Moves(i, s, r[n], V[n - 1], V[n])
    <2> TAKE n \in 1..Len(r)
    <2>1. n + 1 \in 1..Len(q) /\ n - 1 \in 0..Len(r) /\ n \in 0..Len(r) /\ (n + 1) - 1 = n
          /\ (n - 1) + 1 = n
        BY <1>5
    <2>2. r[n] = q[n + 1] /\ V[n - 1] = U[n] /\ V[n] = U[n + 1]
        BY <1>5, <1>6, <2>1
    <2>3. Moves(i, s, q[n + 1], U[n], U[n + 1])
        BY <1>3, <2>1
    <2> QED
        BY <2>2, <2>3
<1>8. Path(i, s, r, U[1], y)
    BY <1>6, <1>7 DEF Path, Along
<1>9. U[1] \in Sights /\ Moves(i, s, Head(q), x, U[1])
    <2>1. 1 \in 1..Len(q) /\ 1 \in 0..Len(q) /\ 1 - 1 = 0
        BY <1>5
    <2>2. Moves(i, s, q[1], U[0], U[1])
        BY <1>3, <2>1
    <2> QED
        BY <1>3, <1>5, <2>1, <2>2
<1> QED
    BY <1>4, <1>8, <1>9

LEMMA PathJoins ==
    \A i \in Instances, s \in Surfaces, q \in Seq(Reports), r \in Seq(Reports),
       x \in Sights, y \in Sights, z \in Sights :
        Path(i, s, q, x, y) /\ Path(i, s, r, y, z) => Path(i, s, q \o r, x, z)
<1> TAKE i \in Instances, s \in Surfaces, q \in Seq(Reports), r \in Seq(Reports),
         x \in Sights, y \in Sights, z \in Sights
<1>1. SUFFICES ASSUME Path(i, s, q, x, y), Path(i, s, r, y, z)
               PROVE  Path(i, s, q \o r, x, z)
    OBVIOUS
<1>2. PICK U, V : Along(i, s, q, x, y, U) /\ Along(i, s, r, y, z, V)
    BY <1>1 DEF Path
<1>3. /\ U \in [0..Len(q) -> Sights] /\ U[0] = x /\ U[Len(q)] = y
      /\ V \in [0..Len(r) -> Sights] /\ V[0] = y /\ V[Len(r)] = z
      /\ \A n \in 1..Len(q) : Moves(i, s, q[n], U[n - 1], U[n])
      /\ \A n \in 1..Len(r) : Moves(i, s, r[n], V[n - 1], V[n])
    BY <1>2 DEF Along
<1>4. PICK a \in Nat, b \in Nat : a = Len(q) /\ b = Len(r)
    OBVIOUS
<1>5. PICK p : p = q \o r
    OBVIOUS
<1>6. /\ Len(p) = a + b /\ \A n \in 1..a : p[n] = q[n]
      /\ \A n \in 1..b : p[a + n] = r[n]
    BY <1>4, <1>5
<1> DEFINE W == [n \in 0..(a + b) |-> IF n <= a THEN U[n] ELSE V[n - a]]
<1>7. /\ \A n \in 0..a : W[n] = U[n] /\ W[n] \in Sights
      /\ \A n \in 1..b : W[a + n] = V[n] /\ W[a + n] \in Sights
    <2>1. \A n \in 0..a : n \in 0..(a + b) /\ n <= a
        BY <1>4
    <2>2. \A n \in 1..b : a + n \in 0..(a + b) /\ ~(a + n <= a) /\ (a + n) - a = n /\ n \in 0..b
        BY <1>4
    <2>3. \A n \in 0..a : W[n] = U[n]
        BY <2>1
    <2>4. \A n \in 1..b : W[a + n] = V[n]
        BY <2>2
    <2>5. \A n \in 0..a : U[n] \in Sights
        BY <1>3, <1>4
    <2>6. \A n \in 1..b : V[n] \in Sights
        BY <1>3, <1>4
    <2> HIDE DEF W
    <2> QED
        BY <2>3, <2>4, <2>5, <2>6
<1>8. \A n \in 0..(a + b) : n \in 0..a \/ \E m \in 1..b : n = a + m
    <2> TAKE n \in 0..(a + b)
    <2>1. CASE n <= a
        BY <2>1
    <2>2. CASE n > a
        <3>1. n - a \in 1..b /\ n = a + (n - a)
            BY <2>2
        <3> QED
            BY <3>1
    <2> QED
        BY <2>1, <2>2
<1>9. DOMAIN W = 0..(a + b) /\ W = [n \in 0..(a + b) |-> W[n]]
    OBVIOUS
<1> HIDE DEF W
<1>10. \A n \in 0..(a + b) : W[n] \in Sights
    BY <1>7, <1>8
<1>11. W \in [0..(a + b) -> Sights]
    BY <1>9, <1>10
<1>12. \A n \in 0..b : W[a + n] = V[n]
    <2> TAKE n \in 0..b
    <2>1. CASE n = 0
        BY <1>3, <1>4, <1>7, <2>1
    <2>2. CASE n # 0
        BY <1>7, <2>2
    <2> QED
        BY <2>1, <2>2
<1>13. W[0] = x /\ W[a + b] = z
    BY <1>3, <1>4, <1>7, <1>12
<1>14. \A n \in 1..a : Moves(i, s, p[n], W[n - 1], W[n])
    <2> TAKE n \in 1..a
    <2>1. n - 1 \in 0..a /\ n \in 0..a
        OBVIOUS
    <2>2. W[n - 1] = U[n - 1] /\ W[n] = U[n] /\ p[n] = q[n]
        BY <1>6, <1>7, <2>1
    <2> QED
        BY <1>3, <1>4, <2>2
<1>15. \A n \in 1..b : Moves(i, s, p[a + n], W[(a + n) - 1], W[a + n])
    <2> TAKE n \in 1..b
    <2>1. n - 1 \in 0..b /\ n \in 0..b /\ (a + n) - 1 = a + (n - 1)
        OBVIOUS
    <2>2. W[(a + n) - 1] = V[n - 1] /\ W[a + n] = V[n] /\ p[a + n] = r[n]
        BY <1>6, <1>12, <2>1
    <2> QED
        BY <1>3, <1>4, <2>2
<1>16. \A n \in 1..(a + b) : Moves(i, s, p[n], W[n - 1], W[n])
    <2> TAKE n \in 1..(a + b)
    <2>1. n \in 0..(a + b) /\ (n \in 0..a => n \in 1..a)
        OBVIOUS
    <2>2. CASE n \in 1..a
        BY <1>14, <2>2
    <2>3. ASSUME NEW m \in 1..b, n = a + m
          PROVE  Moves(i, s, p[n], W[n - 1], W[n])
        BY <1>15, <2>3
    <2> QED
        BY <1>8, <2>1, <2>2, <2>3
<1>17. Along(i, s, p, x, z, W)
    BY <1>6, <1>11, <1>13, <1>16 DEF Along
<1> QED
    BY <1>5, <1>17 DEF Path

\* Where no task has its effect the surface is what it was.
LEMMA PathStays ==
    \A i \in Instances, s \in Surfaces, q \in Seq(Reports), x \in Sights :
        (\A n \in 1..Len(q) : Moves(i, s, q[n], x, x)) => Path(i, s, q, x, x)
<1> TAKE i \in Instances, s \in Surfaces, q \in Seq(Reports), x \in Sights
<1>1. SUFFICES ASSUME \A n \in 1..Len(q) : Moves(i, s, q[n], x, x)
               PROVE  Path(i, s, q, x, x)
    OBVIOUS
<1>2. Len(q) \in Nat
    OBVIOUS
<1> DEFINE U == [n \in 0..Len(q) |-> x]
<1>3. \A n \in 1..Len(q) : U[n - 1] = x /\ U[n] = x
    BY <1>2
<1>4. U \in [0..Len(q) -> Sights] /\ U[0] = x /\ U[Len(q)] = x
    BY <1>2
<1> HIDE DEF U
<1>5. Along(i, s, q, x, x, U)
    BY <1>1, <1>3, <1>4 DEF Along
<1> QED
    BY <1>5 DEF Path

LEMMA PathOfNone ==
    \A i \in Instances, s \in Surfaces, q \in Seq(Reports), x \in Sights, y \in Sights :
        Path(i, s, q, x, y) /\ (\A n \in 1..Len(q) : q[n].i # i) => x = y
<1> TAKE i \in Instances, s \in Surfaces, q \in Seq(Reports), x \in Sights, y \in Sights
<1>1. SUFFICES ASSUME Path(i, s, q, x, y), \A n \in 1..Len(q) : q[n].i # i
               PROVE  x = y
    OBVIOUS
<1>2. PICK U : Along(i, s, q, x, y, U)
    BY <1>1 DEF Path
<1>3. /\ U \in [0..Len(q) -> Sights] /\ U[0] = x /\ U[Len(q)] = y
      /\ \A n \in 1..Len(q) : Moves(i, s, q[n], U[n - 1], U[n])
    BY <1>2 DEF Along
<1>4. \A n \in 1..Len(q) : U[n] = U[n - 1]
    BY <1>1, <1>3 DEF Moves
<1>5. PICK N \in Nat : N = Len(q)
    OBVIOUS
<1> DEFINE S == {n \in 0..N : U[n] # x}
<1>6. S = {}
    <2>1. SUFFICES ASSUME S # {}
                   PROVE  FALSE
        OBVIOUS
    <2>2. S \in SUBSET Nat
        OBVIOUS
    <2>3. PICK n \in S : \A m \in S : n <= m
        BY <2>1, <2>2, NatMinimum
    <2>4. n \in 1..N /\ n - 1 \in 0..N /\ ~(n <= n - 1)
        BY <1>3, <2>3
    <2>5. n - 1 \notin S
        BY <2>3, <2>4
    <2> QED
        BY <1>4, <1>5, <2>3, <2>4, <2>5
<1>7. N \in 0..N
    OBVIOUS
<1> QED
    BY <1>3, <1>5, <1>6, <1>7
-----------------------------------------------------------------------------
(* What the renderer shows and the waiting tasks make what the core has.     *)

\* A surface leaves the screen once its deletion runs.
Deleting(i, s) == running.kind = "delete" /\ running.i = i /\ running.s = s
OnScreen(i, s) == IF s \in DOMAIN platform[i] /\ ~Deleting(i, s)
                  THEN There(platform[i][s].tree) ELSE Absent

Matching == \A i \in Instances, s \in Surfaces :
               status[i] = "live" => Path(i, s, queue, OnScreen(i, s), Of(core[i], s))

Unbroken == history.aborted = FALSE

\* The table names the instance of a surface, and the end of a surface takes no
\* other instance's entry.
Mapped == \A i \in Instances : status[i] = "live" =>
             \A s \in DOMAIN platform[i] : s \in DOMAIN mapping /\ mapping[s] = i
Alone  == running.kind = "delete" =>
             \A j \in Instances \ {running.i} : status[j] = "live" => running.s \notin DOMAIN platform[j]

Faithful == Matching /\ Unbroken /\ Mapped /\ Alone

LEMMA OnScreenIs ==
    ASSUME Types
    PROVE  \A i \in Instances, s \in Surfaces :
              /\ OnScreen(i, s) \in Sights
              /\ s \in DOMAIN platform[i] /\ ~Deleting(i, s) =>
                    /\ Has(OnScreen(i, s)) /\ OnScreen(i, s).tree = platform[i][s].tree
                    /\ OnScreen(i, s) = There(platform[i][s].tree) /\ platform[i][s] \in Sheets
              /\ ~(s \in DOMAIN platform[i] /\ ~Deleting(i, s)) =>
                    ~Has(OnScreen(i, s)) /\ OnScreen(i, s) = Absent
<1> TAKE i \in Instances, s \in Surfaces
<1>1. s \in DOMAIN platform[i] => platform[i][s] \in Sheets /\ platform[i][s].tree \in Trees
    BY SheetOf DEF Types
<1> QED
    BY <1>1, SightsOf DEF OnScreen

LEMMA CoreIs ==
    ASSUME Types
    PROVE  \A i \in Instances, s \in Surfaces :
              /\ core[i] \in Maps(Surfaces, Trees) /\ Of(core[i], s) \in Sights
              /\ s \notin DOMAIN core[i] => Of(core[i], s) = Absent /\ ~Has(Of(core[i], s))
BY SightsOf DEF Types, CoreOK

LEMMA NothingDeleted ==
    ASSUME running.kind # "delete"
    PROVE  \A i \in Instances, s \in Surfaces : ~Deleting(i, s)
BY DEF Deleting

LEMMA TakesFirst ==
    ASSUME Types, Matching, queue # <<>>, running = Idle, NEW t, t = Head(queue)
    PROVE  \A j \in Instances, r \in Surfaces : status[j] = "live" =>
              /\ \E z \in Sights : /\ Moves(j, r, t, OnScreen(j, r), z)
                                   /\ Path(j, r, Tail(queue), z, Of(core[j], r))
              /\ Apart(t) /\ j # t.i /\ t.s = r => r \notin DOMAIN platform[j]
<1> TAKE j \in Instances, r \in Surfaces
<1>1. SUFFICES ASSUME status[j] = "live"
               PROVE  /\ \E z \in Sights : /\ Moves(j, r, t, OnScreen(j, r), z)
                                           /\ Path(j, r, Tail(queue), z, Of(core[j], r))
                      /\ Apart(t) /\ j # t.i /\ t.s = r => r \notin DOMAIN platform[j]
    OBVIOUS
<1>2. queue \in Seq(Reports) /\ OnScreen(j, r) \in Sights /\ Of(core[j], r) \in Sights
    BY OnScreenIs, CoreIs DEF Types, QueueOK
<1>3. Path(j, r, queue, OnScreen(j, r), Of(core[j], r))
    BY <1>1 DEF Matching
<1>4. PICK z \in Sights : /\ Moves(j, r, t, OnScreen(j, r), z)
                          /\ Path(j, r, Tail(queue), z, Of(core[j], r))
    BY <1>2, <1>3, PathFirst
<1>5. ASSUME Apart(t), j # t.i, t.s = r
      PROVE  r \notin DOMAIN platform[j]
    <2>1. ~Has(OnScreen(j, r))
        BY <1>4, <1>5 DEF Moves
    <2>2. ~Deleting(j, r)
        BY DEF Deleting, Idle
    <2> QED
        BY <2>1, <2>2, OnScreenIs
<1> QED
    BY <1>4, <1>5

LEMMA FaithfulInit ==
    ASSUME Init, Types
    PROVE  Faithful
<1>1. Unbroken /\ Mapped /\ Alone
    BY DEF Init, Unbroken, Mapped, Alone, Idle
<1>2. Matching
    BY DEF Init, Matching
<1> QED
    BY <1>1, <1>2 DEF Faithful

LEMMA FaithfulReport ==
    ASSUME Types, Faithful, NEW i \in Instances, NEW s \in Surfaces,
           NEW f \in Maps(Surfaces, Trees), NEW tasks \in Seq(Reports), Reported(i, s, f, tasks)
    PROVE  Faithful'
<1>1. /\ status[i] = "live" /\ core' = [core EXCEPT ![i] = f] /\ queue' = queue \o tasks
      /\ history' = [history EXCEPT !.reports = @ + 1]
      /\ UNCHANGED <<status, running, platform, handles, mapping, container, native, ets, known, heard>>
    BY DEF Reported, Report, arkts
<1>2. PICK U : Leads(i, s, f, tasks, U)
    BY DEF Reported
<1>3. /\ U \in [0..Len(tasks) -> Sights]
      /\ U[0] = Of(core[i], s) /\ U[Len(tasks)] = Of(f, s)
      /\ \A r \in Surfaces \ {s} : Of(f, r) = Of(core[i], r)
      /\ \A n \in 1..Len(tasks) :
            /\ tasks[n].i = i /\ tasks[n].s = s
            /\ U[n] = StepOf(U[n - 1], tasks[n]) /\ MayRun(U[n - 1], tasks[n])
            /\ tasks[n].kind \in {"create", "delete"} => MayUse(i, s)
    BY <1>2 DEF Leads
<1>4. core'[i] = f /\ \A j \in Instances \ {i} : core'[j] = core[j]
    BY <1>1 DEF Types, CoreOK
<1>5. \A j \in Instances, r \in Surfaces : OnScreen(j, r)' = OnScreen(j, r)
    BY <1>1 DEF OnScreen, Deleting
<1>6. \A j \in Instances, r \in Surfaces :
         /\ Of(core[j], r) \in Sights /\ Of(core'[j], r) \in Sights /\ OnScreen(j, r) \in Sights
    BY <1>4, CoreIs, SightsOf, OnScreenIs
<1>7. ASSUME NEW j \in Instances, NEW r \in Surfaces, status[j] = "live"
      PROVE  Path(j, r, tasks, Of(core[j], r), Of(core'[j], r))
    <2>1. CASE j = i /\ r = s
        <3>1. \A n \in 1..Len(tasks) : Moves(i, s, tasks[n], U[n - 1], U[n])
            BY <1>3 DEF Moves
        <3>2. Along(i, s, tasks, Of(core[i], s), Of(f, s), U)
            BY <1>3, <3>1 DEF Along
        <3> QED
            BY <1>4, <2>1, <3>2 DEF Path
    <2>2. CASE ~(j = i /\ r = s)
        <3>1. Of(core'[j], r) = Of(core[j], r)
            BY <1>3, <1>4, <2>2
        <3>2. ASSUME NEW n \in 1..Len(tasks)
              PROVE  Moves(j, r, tasks[n], Of(core[j], r), Of(core[j], r))
            <4>1. CASE r # s
                BY <1>3, <4>1 DEF Moves
            <4>2. CASE r = s
                <5>1. j # i /\ tasks[n].i # j
                    BY <1>3, <2>2, <4>2
                <5>2. ASSUME Apart(tasks[n])
                      PROVE  ~Has(Of(core[j], r))
                    <6>1. MayUse(i, s)
                        BY <1>3, <5>2 DEF Apart
                    <6>2. r \notin DOMAIN core[j]
                        BY <1>7, <4>2, <5>1, <6>1 DEF MayUse
                    <6> QED
                        BY <6>2, CoreIs
                <5> QED
                    BY <5>1, <5>2 DEF Moves
            <4> QED
                BY <4>1, <4>2
        <3>3. Path(j, r, tasks, Of(core[j], r), Of(core[j], r))
            BY <1>6, <3>2, PathStays
        <3> QED
            BY <3>1, <3>3
    <2> QED
        BY <2>1, <2>2
<1>8. ASSUME NEW j \in Instances, NEW r \in Surfaces, status'[j] = "live"
      PROVE  Path(j, r, queue', OnScreen(j, r)', Of(core'[j], r))
    <2>1. status[j] = "live" /\ queue \in Seq(Reports)
        BY <1>1, <1>8 DEF Types, QueueOK
    <2>2. Path(j, r, queue, OnScreen(j, r), Of(core[j], r))
        BY <2>1 DEF Faithful, Matching
    <2>3. Path(j, r, tasks, Of(core[j], r), Of(core'[j], r))
        BY <1>7, <2>1
    <2>4. Path(j, r, queue \o tasks, OnScreen(j, r), Of(core'[j], r))
        BY <1>6, <2>1, <2>2, <2>3, PathJoins
    <2> QED
        BY <1>1, <1>5, <2>4
<1>9. Matching'
    BY <1>8 DEF Matching
<1>10. Unbroken' /\ Mapped' /\ Alone'
    BY <1>1 DEF Faithful, Unbroken, Mapped, Alone, Types, HistoryOK
<1> QED
    BY <1>9, <1>10 DEF Faithful

LEMMA FaithfulTree ==
    ASSUME Types, Faithful, RunTreeTask
    PROVE  Faithful'
<1>1. PICK t : t = Head(queue)
    OBVIOUS
<1>2. /\ running = Idle /\ queue # <<>> /\ t.kind \in TreeKinds /\ queue' = Tail(queue)
      /\ UNCHANGED <<status, core, running, mapping>>
      /\ status[t.i] = "live" /\ t.s \in DOMAIN platform[t.i] =>
            /\ platform' = [platform EXCEPT ![t.i][t.s] = Applied(platform[t.i][t.s], t)]
            /\ Acceptable(platform[t.i][t.s], t) /\ history.aborted = FALSE => history'.aborted = FALSE
      /\ ~(status[t.i] = "live" /\ t.s \in DOMAIN platform[t.i]) =>
            platform' = platform /\ history' = history
    BY <1>1 DEF RunTreeTask, TreeKinds, Types, PlatOK, HistoryOK
<1>3. t \in Reports /\ t.i \in Instances /\ t.s \in Surfaces /\ PlatOK
    BY <1>1, <1>2, FirstTask, ReportOf DEF Types
<1>4. \A j \in Instances, r \in Surfaces : ~Deleting(j, r) /\ ~Deleting(j, r)'
    BY <1>2 DEF Deleting, Idle
<1>5. \A j \in Instances, r \in Surfaces : status[j] = "live" =>
          \E z \in Sights : /\ Moves(j, r, t, OnScreen(j, r), z)
                            /\ Path(j, r, Tail(queue), z, Of(core[j], r))
    BY <1>1, <1>2, TakesFirst DEF Faithful
<1>6. status[t.i] = "live" /\ t.s \in DOMAIN platform[t.i] =>
          /\ platform[t.i][t.s] \in Sheets
          /\ Applied(platform[t.i][t.s], t) \in Sheets
          /\ Applied(platform[t.i][t.s], t).tree = TreeAfter(platform[t.i][t.s].tree, t)
          /\ Becomes(t.i, t.s, Applied(platform[t.i][t.s], t), platform')
    BY <1>2, <1>3, SheetOf, Applying, SheetBecomes
<1>7. /\ \A j \in Instances : DOMAIN platform'[j] = DOMAIN platform[j]
      /\ \A j \in Instances : \A r \in DOMAIN platform[j] :
            platform'[j][r].tree = IF status[t.i] = "live" /\ j = t.i /\ r = t.s
                                   THEN TreeAfter(platform[j][r].tree, t) ELSE platform[j][r].tree
    <2>1. CASE status[t.i] = "live" /\ t.s \in DOMAIN platform[t.i]
        BY <1>6, <2>1 DEF Becomes
    <2>2. CASE ~(status[t.i] = "live" /\ t.s \in DOMAIN platform[t.i])
        BY <1>2, <2>2
    <2> QED
        BY <2>1, <2>2
<1>8. ASSUME NEW j \in Instances, NEW r \in Surfaces, status'[j] = "live"
      PROVE  Path(j, r, queue', OnScreen(j, r)', Of(core'[j], r))
    <2>1. PICK z \in Sights : /\ Moves(j, r, t, OnScreen(j, r), z)
                              /\ Path(j, r, Tail(queue), z, Of(core[j], r))
        BY <1>2, <1>5, <1>8
    <2>2. OnScreen(j, r)' = IF r \in DOMAIN platform[j] THEN There(platform'[j][r].tree) ELSE Absent
        BY <1>4, <1>7 DEF OnScreen
    <2>3. /\ r \in DOMAIN platform[j] => /\ OnScreen(j, r) = There(platform[j][r].tree)
                                         /\ Has(OnScreen(j, r)) /\ OnScreen(j, r).tree = platform[j][r].tree
          /\ r \notin DOMAIN platform[j] => OnScreen(j, r) = Absent /\ ~Has(OnScreen(j, r))
        BY <1>4, OnScreenIs
    <2>4. CASE j = t.i /\ r = t.s
        <3>1. z = StepOf(OnScreen(j, r), t)
            BY <2>1, <2>4 DEF Moves
        <3>2. z = IF r \in DOMAIN platform[j] THEN There(TreeAfter(platform[j][r].tree, t)) ELSE Absent
            BY <1>2, <2>3, <3>1 DEF StepOf, TreeKinds
        <3>3. OnScreen(j, r)' = z
            BY <1>2, <1>7, <1>8, <2>2, <2>4, <3>2
        <3> QED
            BY <1>2, <2>1, <3>3
    <2>5. CASE ~(j = t.i /\ r = t.s)
        <3>1. z = OnScreen(j, r)
            BY <2>1, <2>5 DEF Moves
        <3>2. OnScreen(j, r)' = OnScreen(j, r)
            BY <1>7, <2>2, <2>3, <2>5
        <3> QED
            BY <1>2, <2>1, <3>1, <3>2
    <2> QED
        BY <2>4, <2>5
<1>9. Matching'
    BY <1>8 DEF Matching
<1>10. Unbroken'
    <2>1. CASE status[t.i] = "live" /\ t.s \in DOMAIN platform[t.i]
        <3>1. PICK z \in Sights : Moves(t.i, t.s, t, OnScreen(t.i, t.s), z)
            BY <1>3, <1>5, <2>1
        <3>2. MayRun(OnScreen(t.i, t.s), t)
            BY <3>1 DEF Moves
        <3>3. OnScreen(t.i, t.s).tree = platform[t.i][t.s].tree
            BY <1>3, <1>4, <2>1, OnScreenIs
        <3>4. Acceptable(platform[t.i][t.s], t)
            BY <3>2, <3>3 DEF MayRun, Acceptable
        <3> QED
            BY <1>2, <2>1, <3>4 DEF Faithful, Unbroken
    <2>2. CASE ~(status[t.i] = "live" /\ t.s \in DOMAIN platform[t.i])
        BY <1>2, <2>2 DEF Faithful, Unbroken
    <2> QED
        BY <2>1, <2>2
<1>11. Mapped' /\ Alone'
    BY <1>2, <1>7 DEF Faithful, Mapped, Alone, Idle
<1> QED
    BY <1>9, <1>10, <1>11 DEF Faithful

LEMMA FaithfulCreate ==
    ASSUME Types, Faithful, RunCreate
    PROVE  Faithful'
<1>1. PICK t : t = Head(queue)
    OBVIOUS
<1>2. /\ running = Idle /\ queue # <<>> /\ t.kind = "create" /\ queue' = Tail(queue)
      /\ UNCHANGED <<status, core>>
      /\ status[t.i] = "live" =>
            /\ mapping' = With(mapping, t.s, t.i)
            /\ platform' = [platform EXCEPT ![t.i] = With(platform[t.i], t.s, NewSurface)]
            /\ t.s \notin DOMAIN platform[t.i] /\ history.aborted = FALSE => history'.aborted = FALSE
            /\ running' = Calling(t)
      /\ status[t.i] # "live" =>
            mapping' = mapping /\ platform' = platform /\ history' = history /\ running' = running
    BY <1>1 DEF RunCreate, Registered, Types, PlatOK, HistoryOK
<1>3. t \in Reports /\ t.i \in Instances /\ t.s \in Surfaces /\ PlatOK
    BY <1>1, <1>2, FirstTask, ReportOf DEF Types
<1>4. running'.kind # "delete" /\ \A j \in Instances, r \in Surfaces : ~Deleting(j, r) /\ ~Deleting(j, r)'
    <2>1. running'.kind # "delete"
        <3>1. CASE status[t.i] = "live"
            <4>1. Calling(t).kind = "create"
                BY <1>2, <1>3, CallingRuns
            <4> QED
                BY <1>2, <3>1, <4>1
        <3>2. CASE status[t.i] # "live"
            BY <1>2, <3>2 DEF Idle
        <3> QED
            BY <3>1, <3>2
    <2> QED
        BY <1>2, <2>1 DEF Deleting, Idle
<1>5. \A j \in Instances, r \in Surfaces : status[j] = "live" =>
          /\ \E z \in Sights : /\ Moves(j, r, t, OnScreen(j, r), z)
                               /\ Path(j, r, Tail(queue), z, Of(core[j], r))
          /\ j # t.i /\ t.s = r => r \notin DOMAIN platform[j]
    BY <1>1, <1>2, TakesFirst DEF Faithful, Apart
<1>6. status[t.i] = "live" =>
          /\ \A j \in Instances \ {t.i} : platform'[j] = platform[j]
          /\ DOMAIN platform'[t.i] = DOMAIN platform[t.i] \cup {t.s}
          /\ \A r \in DOMAIN platform[t.i] \cup {t.s} :
                platform'[t.i][r] = IF r = t.s THEN NewSurface ELSE platform[t.i][r]
          /\ DOMAIN mapping' = DOMAIN mapping \cup {t.s}
          /\ \A r \in DOMAIN mapping \cup {t.s} : mapping'[r] = IF r = t.s THEN t.i ELSE mapping[r]
    <2>1. SUFFICES ASSUME status[t.i] = "live"
                   PROVE  /\ \A j \in Instances \ {t.i} : platform'[j] = platform[j]
                          /\ DOMAIN platform'[t.i] = DOMAIN platform[t.i] \cup {t.s}
                          /\ \A r \in DOMAIN platform[t.i] \cup {t.s} :
                                platform'[t.i][r] = IF r = t.s THEN NewSurface ELSE platform[t.i][r]
                          /\ DOMAIN mapping' = DOMAIN mapping \cup {t.s}
                          /\ \A r \in DOMAIN mapping \cup {t.s} :
                                mapping'[r] = IF r = t.s THEN t.i ELSE mapping[r]
        OBVIOUS
    <2>2. platform'[t.i] = With(platform[t.i], t.s, NewSurface)
          /\ \A j \in Instances \ {t.i} : platform'[j] = platform[j]
        BY <1>2, <1>3, <2>1 DEF PlatOK
    <2>3. mapping' = With(mapping, t.s, t.i)
        BY <1>2, <2>1
    <2> QED
        BY <2>2, <2>3 DEF With
<1>7. ASSUME NEW j \in Instances, NEW r \in Surfaces, status'[j] = "live"
      PROVE  Path(j, r, queue', OnScreen(j, r)', Of(core'[j], r))
    <2>1. PICK z \in Sights : /\ Moves(j, r, t, OnScreen(j, r), z)
                              /\ Path(j, r, Tail(queue), z, Of(core[j], r))
        BY <1>2, <1>5, <1>7
    <2>2. OnScreen(j, r)' = IF r \in DOMAIN platform'[j] THEN There(platform'[j][r].tree) ELSE Absent
        BY <1>4 DEF OnScreen
    <2>3. OnScreen(j, r) = IF r \in DOMAIN platform[j] THEN There(platform[j][r].tree) ELSE Absent
        BY <1>4 DEF OnScreen
    <2>4. CASE j = t.i /\ r = t.s
        <3>1. z = There(Empty)
            BY <1>2, <2>1, <2>4 DEF Moves, StepOf
        <3>2. r \in DOMAIN platform'[j] /\ platform'[j][r] = NewSurface
            BY <1>2, <1>6, <1>7, <2>4
        <3>3. OnScreen(j, r)' = z
            BY <2>2, <3>1, <3>2 DEF NewSurface
        <3> QED
            BY <1>2, <2>1, <3>3
    <2>5. CASE ~(j = t.i /\ r = t.s)
        <3>1. z = OnScreen(j, r)
            BY <2>1, <2>5 DEF Moves
        <3>2. OnScreen(j, r)' = OnScreen(j, r)
            BY <1>2, <1>6, <2>2, <2>3, <2>5
        <3> QED
            BY <1>2, <2>1, <3>1, <3>2
    <2> QED
        BY <2>4, <2>5
<1>8. Matching'
    BY <1>7 DEF Matching
<1>9. Unbroken'
    <2>1. CASE status[t.i] = "live"
        <3>1. PICK z \in Sights : Moves(t.i, t.s, t, OnScreen(t.i, t.s), z)
            BY <1>3, <1>5, <2>1
        <3>2. ~Has(OnScreen(t.i, t.s))
            BY <1>2, <3>1 DEF Moves, MayRun
        <3>3. t.s \notin DOMAIN platform[t.i]
            BY <1>3, <1>4, <3>2, OnScreenIs
        <3> QED
            BY <1>2, <2>1, <3>3 DEF Faithful, Unbroken
    <2>2. CASE status[t.i] # "live"
        BY <1>2, <2>2 DEF Faithful, Unbroken
    <2> QED
        BY <2>1, <2>2
<1>10. Mapped'
    <2> SUFFICES ASSUME NEW j \in Instances, status'[j] = "live", NEW r \in DOMAIN platform'[j]
                 PROVE  r \in DOMAIN mapping' /\ mapping'[r] = j
        BY DEF Mapped
    <2>1. status[j] = "live" /\ \A e \in DOMAIN platform[j] : e \in Surfaces /\ e \in DOMAIN mapping /\ mapping[e] = j
        BY <1>2, <1>3, SheetOf DEF Faithful, Mapped
    <2>2. CASE status[t.i] # "live"
        BY <1>2, <2>1, <2>2
    <2>3. CASE status[t.i] = "live" /\ j = t.i
        BY <1>6, <2>1, <2>3
    <2>4. CASE status[t.i] = "live" /\ j # t.i
        <3>1. r \in DOMAIN platform[j] /\ r # t.s
            BY <1>3, <1>5, <1>6, <2>1, <2>4
        <3> QED
            BY <1>6, <2>1, <2>4, <3>1
    <2> QED
        BY <2>2, <2>3, <2>4
<1>11. Alone'
    BY <1>4 DEF Alone
<1> QED
    BY <1>8, <1>9, <1>10, <1>11 DEF Faithful

LEMMA FaithfulDelete ==
    ASSUME Types, Faithful, RunDelete
    PROVE  Faithful'
<1>1. PICK t : t = Head(queue)
    OBVIOUS
<1>2. /\ running = Idle /\ queue # <<>> /\ t.kind = "delete" /\ queue' = Tail(queue)
      /\ UNCHANGED <<status, core, platform, history>>
      /\ status[t.i] = "live" => running' = Calling(t) /\ mapping' = mapping
      /\ status[t.i] # "live" => mapping' = Without(mapping, {t.s}) /\ running' = running
    BY <1>1 DEF RunDelete
<1>3. t \in Reports /\ t.i \in Instances /\ t.s \in Surfaces
    BY <1>1, <1>2, FirstTask, ReportOf DEF Types
<1>4. \A j \in Instances, r \in Surfaces :
         ~Deleting(j, r) /\ (Deleting(j, r)' <=> status[t.i] = "live" /\ j = t.i /\ r = t.s)
    <2>1. CASE status[t.i] = "live"
        <3>1. running'.kind = "delete" /\ running'.i = t.i /\ running'.s = t.s
            BY <1>2, <1>3, <2>1, CallingRuns
        <3> QED
            BY <1>2, <2>1, <3>1 DEF Deleting, Idle
    <2>2. CASE status[t.i] # "live"
        BY <1>2, <2>2 DEF Deleting, Idle
    <2> QED
        BY <2>1, <2>2
<1>5. \A j \in Instances, r \in Surfaces : status[j] = "live" =>
          /\ \E z \in Sights : /\ Moves(j, r, t, OnScreen(j, r), z)
                               /\ Path(j, r, Tail(queue), z, Of(core[j], r))
          /\ j # t.i /\ t.s = r => r \notin DOMAIN platform[j]
    BY <1>1, <1>2, TakesFirst DEF Faithful, Apart
<1>6. ASSUME NEW j \in Instances, NEW r \in Surfaces, status'[j] = "live"
      PROVE  Path(j, r, queue', OnScreen(j, r)', Of(core'[j], r))
    <2>1. PICK z \in Sights : /\ Moves(j, r, t, OnScreen(j, r), z)
                              /\ Path(j, r, Tail(queue), z, Of(core[j], r))
        BY <1>2, <1>5, <1>6
    <2>2. OnScreen(j, r)' = IF j = t.i /\ r = t.s THEN Absent ELSE OnScreen(j, r)
        BY <1>2, <1>4, <1>6 DEF OnScreen
    <2>3. z = OnScreen(j, r)'
        BY <1>2, <2>1, <2>2 DEF Moves, StepOf
    <2> QED
        BY <1>2, <2>1, <2>3
<1>7. Matching'
    BY <1>6 DEF Matching
<1>8. Unbroken'
    BY <1>2 DEF Faithful, Unbroken
<1>9. Mapped'
    <2>1. CASE status[t.i] = "live"
        BY <1>2, <2>1 DEF Faithful, Mapped
    <2>2. CASE status[t.i] # "live"
        <3>1. \A j \in Instances : status[j] = "live" => t.s \notin DOMAIN platform[j]
            BY <1>3, <1>5, <2>2
        <3> QED
            BY <1>2, <2>2, <3>1 DEF Faithful, Mapped, Without
    <2> QED
        BY <2>1, <2>2
<1>10. Alone'
    <2>1. CASE status[t.i] = "live"
        <3>1. running'.kind = "delete" /\ running'.i = t.i /\ running'.s = t.s
            BY <1>2, <1>3, <2>1, CallingRuns
        <3> QED
            BY <1>2, <1>3, <1>5, <3>1 DEF Alone
    <2>2. CASE status[t.i] # "live"
        BY <1>2, <2>2 DEF Alone, Idle
    <2> QED
        BY <2>1, <2>2
<1> QED
    BY <1>7, <1>8, <1>9, <1>10 DEF Faithful

LEMMA FaithfulCall ==
    ASSUME Faithful, UNCHANGED <<status, core, queue, platform, mapping>>, SameTask,
           history'.aborted = history.aborted
    PROVE  Faithful'
<1>1. \A j \in Instances, r \in Surfaces : OnScreen(j, r)' = OnScreen(j, r)
    BY DEF OnScreen, Deleting, SameTask
<1>2. Matching'
    BY <1>1 DEF Faithful, Matching
<1>3. Unbroken' /\ Mapped' /\ Alone'
    BY DEF Faithful, Unbroken, Mapped, Alone, SameTask
<1> QED
    BY <1>2, <1>3 DEF Faithful

LEMMA FaithfulEnd ==
    ASSUME Types, HoldOK, Faithful, EndTask
    PROVE  Faithful'
<1>1. PICK i, s : i = running.i /\ s = running.s
    OBVIOUS
<1>2. PICK left : left = IF running.kind = "delete" THEN Without(platform[i], {s}) ELSE platform[i]
    OBVIOUS
<1>3. /\ running # Idle /\ running' = Idle
      /\ UNCHANGED <<core, queue, history>>
      /\ mapping' = IF running.kind = "delete" THEN Without(mapping, {s}) ELSE mapping
      /\ IF status[i] = "held"
         THEN status' = [status EXCEPT ![i] = "dead"] /\ platform' = [platform EXCEPT ![i] = Empty]
         ELSE platform' = [platform EXCEPT ![i] = left] /\ UNCHANGED status
    BY <1>1, <1>2 DEF EndTask, Remaining
<1>4. i \in Instances /\ s \in Surfaces /\ status[i] \in {"live", "held"}
    BY <1>1, <1>3, RunsOf DEF Types, HoldOK
<1>5. \A j \in Instances, r \in Surfaces :
         ~Deleting(j, r)' /\ (Deleting(j, r) <=> running.kind = "delete" /\ j = i /\ r = s)
    BY <1>1, <1>3 DEF Deleting, Idle
<1>6. \A j \in Instances : status'[j] = "live" =>
          /\ status[j] = "live"
          /\ platform'[j] = IF j = i THEN left ELSE platform[j]
    BY <1>3, <1>4 DEF Types, StatusOK, PlatOK
<1>7. /\ DOMAIN left = IF running.kind = "delete" THEN DOMAIN platform[i] \ {s} ELSE DOMAIN platform[i]
      /\ \A r \in DOMAIN left : left[r] = platform[i][r]
    BY <1>2 DEF Without
<1>8. ASSUME NEW j \in Instances, NEW r \in Surfaces, status'[j] = "live"
      PROVE  OnScreen(j, r)' = OnScreen(j, r)
    <2>1. OnScreen(j, r)' = IF r \in DOMAIN platform'[j] THEN There(platform'[j][r].tree) ELSE Absent
        BY <1>5 DEF OnScreen
    <2>2. CASE j = i
        BY <1>5, <1>6, <1>7, <1>8, <2>1, <2>2 DEF OnScreen
    <2>3. CASE j # i
        BY <1>5, <1>6, <1>8, <2>1, <2>3 DEF OnScreen
    <2> QED
        BY <2>2, <2>3
<1>9. Matching'
    BY <1>3, <1>6, <1>8 DEF Faithful, Matching
<1>10. Unbroken' /\ Alone'
    BY <1>3 DEF Faithful, Unbroken, Alone, Idle
<1>11. ASSUME NEW j \in Instances, status'[j] = "live", NEW r \in DOMAIN platform'[j]
       PROVE  r \in DOMAIN mapping' /\ mapping'[r] = j
    <2>1. status[j] = "live" /\ r \in DOMAIN platform[j]
        BY <1>6, <1>7, <1>11
    <2>2. r \in DOMAIN mapping /\ mapping[r] = j
        BY <2>1 DEF Faithful, Mapped
    <2>3. running.kind = "delete" => r # s
        <3>1. CASE j = i
            BY <1>6, <1>7, <1>11, <3>1
        <3>2. CASE j # i
            BY <1>1, <2>1, <3>2 DEF Faithful, Alone
        <3> QED
            BY <3>1, <3>2
    <2> QED
        BY <1>3, <2>2, <2>3 DEF Without
<1>12. Mapped'
    BY <1>11 DEF Mapped
<1> QED
    BY <1>9, <1>10, <1>12 DEF Faithful

LEMMA FaithfulMake ==
    ASSUME Types, EmptyOK, Faithful, NEW i \in Instances, CreateSurfaceManager(i)
    PROVE  Faithful'
<1>1. /\ status[i] = "none" /\ status' = [status EXCEPT ![i] = "live"]
      /\ UNCHANGED <<core, queue, running, platform, mapping, history>>
    BY DEF CreateSurfaceManager
<1>2. \A j \in Instances : status'[j] = "live" <=> status[j] = "live" \/ j = i
    BY <1>1 DEF Types, StatusOK
<1>3. platform[i] = Empty /\ core[i] = Empty /\ \A n \in 1..Len(queue) : queue[n].i # i
    BY <1>1 DEF EmptyOK
<1>4. \A j \in Instances, r \in Surfaces : OnScreen(j, r)' = OnScreen(j, r)
    BY <1>1 DEF OnScreen, Deleting
<1>5. ASSUME NEW r \in Surfaces
      PROVE  Path(i, r, queue, OnScreen(i, r), Of(core[i], r))
    <2>1. OnScreen(i, r) = Absent /\ Of(core[i], r) = Absent
        BY <1>3, EmptyMap DEF OnScreen, Of
    <2>2. \A n \in 1..Len(queue) : Moves(i, r, queue[n], Absent, Absent)
        BY <1>3, SightsOf DEF Moves
    <2>3. queue \in Seq(Reports) /\ Absent \in Sights
        BY SightsOf DEF Types, QueueOK
    <2>4. Path(i, r, queue, Absent, Absent)
        BY <2>2, <2>3, PathStays
    <2> QED
        BY <2>1, <2>4
<1>6. Matching'
    BY <1>1, <1>2, <1>4, <1>5 DEF Faithful, Matching
<1>7. Unbroken' /\ Mapped' /\ Alone'
    BY <1>1, <1>2, <1>3, EmptyMap DEF Faithful, Unbroken, Mapped, Alone
<1> QED
    BY <1>6, <1>7 DEF Faithful

LEMMA FaithfulDestroy ==
    ASSUME Types, Faithful, NEW i \in Instances, DestroySurfaceManager(i)
    PROVE  Faithful'
<1>1. /\ core' = [core EXCEPT ![i] = Empty]
      /\ UNCHANGED <<queue, running, mapping, history>>
      /\ \/ status' = [status EXCEPT ![i] = "held"] /\ platform' = platform
         \/ status' = [status EXCEPT ![i] = "dead"] /\ platform' = [platform EXCEPT ![i] = Empty]
    BY DEF DestroySurfaceManager
<1>2. \A j \in Instances : status'[j] = "live" =>
          j # i /\ status[j] = "live" /\ platform'[j] = platform[j] /\ core'[j] = core[j]
    BY <1>1 DEF Types, StatusOK, PlatOK, CoreOK
<1>3. \A j \in Instances, r \in Surfaces : status'[j] = "live" => OnScreen(j, r)' = OnScreen(j, r)
    BY <1>1, <1>2 DEF OnScreen, Deleting
<1>4. Matching'
    BY <1>1, <1>2, <1>3 DEF Faithful, Matching
<1>5. Unbroken' /\ Mapped' /\ Alone'
    BY <1>1, <1>2 DEF Faithful, Unbroken, Mapped, Alone
<1> QED
    BY <1>4, <1>5 DEF Faithful

LEMMA FaithfulShowing ==
    ASSUME Types, Faithful, Showing
    PROVE  Faithful'
<1>1. Retained /\ UNCHANGED <<status, core, queue, running, mapping, history>>
    BY ShowingKeeps
<1>2. \A j \in Instances, r \in Surfaces : OnScreen(j, r)' = OnScreen(j, r)
    BY <1>1 DEF Retained, OnScreen, Deleting
<1>3. Matching'
    BY <1>1, <1>2 DEF Faithful, Matching
<1>4. Unbroken' /\ Mapped' /\ Alone'
    BY <1>1 DEF Faithful, Unbroken, Mapped, Alone, Retained
<1> QED
    BY <1>3, <1>4 DEF Faithful

LEMMA FaithfulSame ==
    ASSUME Faithful, UNCHANGED <<status, core, queue, running, platform, mapping, history>>
    PROVE  Faithful'
<1>1. \A j \in Instances, r \in Surfaces : OnScreen(j, r)' = OnScreen(j, r)
    BY DEF OnScreen, Deleting
<1>2. Matching'
    BY <1>1 DEF Faithful, Matching
<1>3. Unbroken' /\ Mapped' /\ Alone'
    BY DEF Faithful, Unbroken, Mapped, Alone
<1> QED
    BY <1>2, <1>3 DEF Faithful

LEMMA FaithfulStep ==
    ASSUME Healthy, Faithful, [Next]_vars
    PROVE  Faithful'
<1>1. Types /\ HoldOK /\ EmptyOK
    BY DEF Healthy
<1>2. CASE UNCHANGED vars
    BY <1>2, FaithfulSame DEF vars
<1>3. ASSUME NEW i \in Instances, NEW l \in Listeners, AddListener(i, l) \/ RemoveListener(i, l)
      PROVE  Faithful'
    BY <1>1, <1>3, ListsKeep, FaithfulCall
<1>4. CASE CallListener \/ TellListener
    BY <1>1, <1>4, CallsKeep, FaithfulCall
<1> QED
    BY <1>1, <1>2, <1>3, <1>4, Cases, FaithfulReport, FaithfulTree, FaithfulCreate, FaithfulDelete,
       FaithfulEnd, FaithfulMake, FaithfulDestroy, FaithfulShowing

LEMMA FaithfulHolds == Spec => []Faithful
<1>1. Init => Faithful
    BY TypesInit, FaithfulInit
<1>2. Healthy /\ Faithful /\ [Next]_vars => Faithful'
    BY FaithfulStep
<1> QED
    BY <1>1, <1>2, HealthyHolds, PTL DEF Spec

\* Once no task of an instance is left, it shows what its core has.
LEMMA MirrorsThen ==
    ASSUME Healthy, Faithful
    PROVE  RendererMirrorsCore
<1>1. Types /\ HoldOK /\ EmptyOK /\ Matching /\ Unbroken /\ queue \in Seq(Reports)
    BY DEF Healthy, Faithful, Types, QueueOK
<1>2. TypeOK /\ ~history.aborted
    BY <1>1, TypesGiven DEF Unbroken
<1>3. ASSUME NEW i \in Instances, status[i] = "live", ~(running # Idle /\ running.i = i),
             ~(\E n \in DOMAIN queue : queue[n].i = i)
      PROVE  core[i] = [s \in DOMAIN platform[i] |-> platform[i][s].tree]
    <2>1. \A n \in 1..Len(queue) : queue[n].i # i
        BY <1>1, <1>3
    <2>2. \A s \in Surfaces : ~Deleting(i, s)
        BY <1>3 DEF Deleting, Idle
    <2>3. \A s \in Surfaces : OnScreen(i, s) = Of(core[i], s)
        <3> TAKE s \in Surfaces
        <3>1. Path(i, s, queue, OnScreen(i, s), Of(core[i], s))
            BY <1>1, <1>3 DEF Matching
        <3>2. OnScreen(i, s) \in Sights /\ Of(core[i], s) \in Sights
            BY <1>1, OnScreenIs, CoreIs
        <3> QED
            BY <1>1, <2>1, <3>1, <3>2, PathOfNone
    <2>4. /\ core[i] \in Maps(Surfaces, Trees)
          /\ platform[i] \in Maps(Surfaces, Sheets)
        BY <1>1 DEF Types, CoreOK, PlatOK
    <2>5. DOMAIN core[i] \subseteq Surfaces /\ DOMAIN platform[i] \subseteq Surfaces
          /\ core[i] = [s \in DOMAIN core[i] |-> core[i][s]]
        BY <2>4, MapOf
    <2>6. ASSUME NEW s \in Surfaces
          PROVE  /\ s \in DOMAIN core[i] <=> s \in DOMAIN platform[i]
                 /\ s \in DOMAIN core[i] => core[i][s] = platform[i][s].tree
        <3>1. /\ s \in DOMAIN core[i] => Has(Of(core[i], s)) /\ Of(core[i], s).tree = core[i][s]
              /\ s \notin DOMAIN core[i] => ~Has(Of(core[i], s))
            BY <2>4, SightsOf
        <3>2. /\ s \in DOMAIN platform[i] => Has(OnScreen(i, s)) /\ OnScreen(i, s).tree = platform[i][s].tree
              /\ s \notin DOMAIN platform[i] => ~Has(OnScreen(i, s))
            BY <1>1, <2>2, OnScreenIs
        <3> QED
            BY <2>3, <3>1, <3>2
    <2> QED
        BY <2>5, <2>6
<1>4. \A i \in Instances : status[i] = "dead" => DOMAIN platform[i] = {}
    BY <1>1, EmptyMap DEF EmptyOK
<1> QED
    BY <1>2, <1>3, <1>4 DEF RendererMirrorsCore

\* What the renderer shows and the tasks that wait always add up to what the
\* core has reported: no assertion of the renderer fails, whatever tasks of
\* other instances and calls of the application come in between, and when the
\* tasks of an instance have run its surfaces and trees are the core's.
THEOREM RendererMirrors == Spec => []RendererMirrorsCore
<1>1. Healthy /\ Faithful => RendererMirrorsCore
    BY MirrorsThen
<1> QED
    BY <1>1, HealthyHolds, FaithfulHolds, PTL

\* An action of the user reaches the instance whose surface was touched: the
\* table names it while the surface lives, since the end of a surface is
\* reported only while no other live instance has one of that id.
THEOREM ActionsReach == Spec => []ActionsReachOwnInstance
<1>1. Faithful => ActionsReachOwnInstance
    BY DEF Faithful, Mapped, ActionsReachOwnInstance, Owner
<1> QED
    BY <1>1, FaithfulHolds, PTL
-----------------------------------------------------------------------------
(* Containers and the surfaces they show. *)

\* A surface with handle h shows its root there, unless it was cleared.
Fits(x, h) == HasRoot(x) /\ x.handle = h /\ ~x.cleared => x.handle \in x.mounted

Fitting == \A i \in Instances : \A s \in DOMAIN platform[i] \cap DOMAIN handles[i] :
              Fits(platform[i][s], handles[i][s])

LEMMA FittingTree ==
    ASSUME Types, Fitting, RunTreeTask
    PROVE  Fitting'
<1>1. PICK t : t = Head(queue)
    OBVIOUS
<1>2. /\ queue # <<>> /\ t.kind \in TreeKinds /\ handles' = handles
      /\ status[t.i] = "live" /\ t.s \in DOMAIN platform[t.i] =>
            platform' = [platform EXCEPT ![t.i][t.s] = Applied(platform[t.i][t.s], t)]
      /\ ~(status[t.i] = "live" /\ t.s \in DOMAIN platform[t.i]) => platform' = platform
    BY <1>1 DEF RunTreeTask, TreeKinds, Types, PlatOK
<1>3. t \in Reports /\ t.i \in Instances /\ t.s \in Surfaces /\ PlatOK
    BY <1>1, <1>2, FirstTask, ReportOf DEF Types
<1>4. CASE ~(status[t.i] = "live" /\ t.s \in DOMAIN platform[t.i])
    BY <1>2, <1>4 DEF Fitting
<1>5. CASE status[t.i] = "live" /\ t.s \in DOMAIN platform[t.i]
    <2>1. PICK x \in Sheets, y \in Sheets : x = platform[t.i][t.s] /\ y = Applied(x, t)
        BY <1>2, <1>3, <1>5, SheetOf, Applying
    <2>2. Becomes(t.i, t.s, y, platform')
        BY <1>2, <1>3, <1>5, <2>1, SheetBecomes
    <2>3. /\ y.handle = x.handle /\ y.cleared = x.cleared /\ x.mounted \subseteq y.mounted
          /\ Root \in DOMAIN y.tree /\ Root \notin DOMAIN x.tree /\ x.handle # Nobody => x.handle \in y.mounted
        BY <1>2, <1>3, <2>1, Applying
    <2>4. \A h \in Containers : Fits(x, h) => Fits(y, h)
        BY <2>3, RendererAssumption DEF Fits, HasRoot
    <2>5. \A i \in Instances : \A s \in DOMAIN handles[i] : handles[i][s] \in Containers
        BY MapOf DEF Types, HandlesOK
    <2>6. ASSUME NEW i \in Instances, NEW s \in DOMAIN platform'[i] \cap DOMAIN handles'[i]
          PROVE  Fits(platform'[i][s], handles'[i][s])
        <3>1. s \in DOMAIN platform[i] \cap DOMAIN handles[i] /\ handles'[i][s] = handles[i][s]
            BY <1>2, <2>2, <2>6 DEF Becomes
        <3>2. Fits(platform[i][s], handles[i][s]) /\ handles[i][s] \in Containers
            BY <2>5, <3>1 DEF Fitting
        <3>3. CASE i = t.i /\ s = t.s
            BY <1>3, <1>5, <2>1, <2>2, <2>4, <3>1, <3>2, <3>3 DEF Becomes
        <3>4. CASE ~(i = t.i /\ s = t.s)
            BY <1>3, <2>2, <3>1, <3>2, <3>4 DEF Becomes
        <3> QED
            BY <3>3, <3>4
    <2> QED
        BY <2>6 DEF Fitting
<1> QED
    BY <1>4, <1>5

LEMMA FittingCreate ==
    ASSUME Types, Fitting, RunCreate
    PROVE  Fitting'
<1>1. PICK t : t = Head(queue)
    OBVIOUS
<1>2. /\ queue # <<>> /\ handles' = handles
      /\ \/ platform' = platform
         \/ platform' = [platform EXCEPT ![t.i] = With(platform[t.i], t.s, NewSurface)]
    BY <1>1 DEF RunCreate, Types, PlatOK
<1>3. \A h : Fits(NewSurface, h)
    BY EmptyMap DEF Fits, NewSurface, HasRoot
<1>4. ASSUME NEW i \in Instances, NEW s \in DOMAIN platform'[i] \cap DOMAIN handles'[i]
      PROVE  Fits(platform'[i][s], handles'[i][s])
    <2>1. \/ platform'[i][s] = NewSurface
          \/ s \in DOMAIN platform[i] /\ platform'[i][s] = platform[i][s]
        BY <1>2, <1>4 DEF Types, PlatOK, With
    <2> QED
        BY <1>2, <1>3, <1>4, <2>1 DEF Fitting
<1> QED
    BY <1>4 DEF Fitting

LEMMA FittingLess ==
    ASSUME Fitting,
           \A i \in Instances : \A s \in DOMAIN platform'[i] \cap DOMAIN handles'[i] :
              /\ s \in DOMAIN platform[i] \cap DOMAIN handles[i]
              /\ platform'[i][s] = platform[i][s] /\ handles'[i][s] = handles[i][s]
    PROVE  Fitting'
BY DEF Fitting

LEMMA FittingEnd ==
    ASSUME Types, Fitting, EndTask
    PROVE  Fitting'
<1>1. handles' = handles
      /\ \E m : platform' = [platform EXCEPT ![running.i] = m]
                /\ \/ m = Empty \/ m = platform[running.i] \/ m = Without(platform[running.i], {running.s})
    BY DEF EndTask, Remaining
<1>2. \A i \in Instances : \A s \in DOMAIN platform'[i] :
         s \in DOMAIN platform[i] /\ platform'[i][s] = platform[i][s]
    BY <1>1, EmptyMap DEF Types, PlatOK, Without
<1> QED
    BY <1>1, <1>2, FittingLess

LEMMA FittingDestroy ==
    ASSUME Types, Fitting, NEW i \in Instances, DestroySurfaceManager(i)
    PROVE  Fitting'
<1>1. handles' = [handles EXCEPT ![i] = Empty]
      /\ (platform' = platform \/ platform' = [platform EXCEPT ![i] = Empty])
    BY DEF DestroySurfaceManager
<1>2. \A j \in Instances : \A s \in DOMAIN platform'[j] \cap DOMAIN handles'[j] :
         /\ s \in DOMAIN platform[j] \cap DOMAIN handles[j]
         /\ platform'[j][s] = platform[j][s] /\ handles'[j][s] = handles[j][s]
    BY <1>1, EmptyMap DEF Types, PlatOK, HandlesOK
<1> QED
    BY <1>2, FittingLess

LEMMA FittingClear ==
    ASSUME Types, Fitting, NEW i \in Instances, ClearContainer(i)
    PROVE  Fitting'
<1>1. Kept(i) /\ handles' = handles
      /\ \A s \in DOMAIN platform[i] :
            platform'[i][s] = [Unmount(platform[i][s]) EXCEPT !.cleared = HasRoot(platform[i][s])]
    BY KeptCleared
<1>2. ASSUME NEW s \in DOMAIN platform[i], NEW h
      PROVE  Fits(platform'[i][s], h)
    <2>1. PICK x \in Sheets : x = platform[i][s]
        BY SheetOf DEF Types
    <2>2. Unmount(x) \in Sheets /\ Unmount(x).tree = x.tree /\ HasRoot(x) \in BOOLEAN
        BY Mounting DEF HasRoot
    <2>3. platform'[i][s].cleared = HasRoot(x) /\ platform'[i][s].tree = x.tree
        BY <1>1, <2>1, <2>2 DEF Sheets
    <2> QED
        BY <2>3 DEF Fits, HasRoot
<1>3. ASSUME NEW j \in Instances, NEW s \in DOMAIN platform'[j] \cap DOMAIN handles'[j]
      PROVE  Fits(platform'[j][s], handles'[j][s])
    <2>1. s \in DOMAIN platform[j]
        BY <1>1, <1>3 DEF Kept
    <2>2. CASE j = i
        BY <1>2, <2>1, <2>2
    <2>3. CASE j # i
        BY <1>1, <1>3, <2>3 DEF Kept, Fitting
    <2> QED
        BY <2>2, <2>3
<1> QED
    BY <1>3 DEF Fitting

LEMMA FittingAppear ==
    ASSUME Types, Fitting, NEW k \in Containers, NEW s \in Surfaces, Appear(k, s)
    PROVE  Fitting'
<1>1. CASE UNCHANGED <<platform, handles>>
    BY <1>1 DEF Fitting
<1>2. ASSUME NEW i \in Instances,
             handles' = [handles EXCEPT ![i] = With(handles[i], s, k)],
             \/ s \notin DOMAIN platform[i] /\ platform' = platform
             \/ /\ s \in DOMAIN platform[i]
                /\ LET y == [platform[i][s] EXCEPT !.handle = k, !.cleared = FALSE]
                   IN  y \in Sheets /\ y.handle = k /\ Becomes(i, s, Mount(y), platform')
      PROVE  Fitting'
    <2>1. /\ \A j \in Instances \ {i} : handles'[j] = handles[j]
          /\ DOMAIN handles'[i] = DOMAIN handles[i] \cup {s}
          /\ \A r \in DOMAIN handles[i] \cup {s} : handles'[i][r] = IF r = s THEN k ELSE handles[i][r]
        BY <1>2 DEF Types, HandlesOK, With
    <2>2. \/ s \notin DOMAIN platform[i] /\ platform' = platform
          \/ \E x : Fits(x, k) /\ Becomes(i, s, x, platform')
        <3>1. \A y \in Sheets : y.handle = k => Fits(Mount(y), k)
            BY Mounting, RendererAssumption DEF Fits, HasRoot
        <3> QED
            BY <1>2, <3>1
    <2>3. ASSUME NEW j \in Instances, NEW r \in DOMAIN platform'[j] \cap DOMAIN handles'[j]
          PROVE  Fits(platform'[j][r], handles'[j][r])
        <3>1. CASE j = i /\ r = s
            BY <2>1, <2>2, <2>3, <3>1 DEF Becomes
        <3>2. CASE ~(j = i /\ r = s)
            <4>1. r \in DOMAIN platform[j] /\ platform'[j][r] = platform[j][r]
                BY <2>2, <2>3, <3>2 DEF Becomes
            <4>2. r \in DOMAIN handles[j] /\ handles'[j][r] = handles[j][r]
                BY <2>1, <2>3, <3>2
            <4> QED
                BY <4>1, <4>2 DEF Fitting
        <3> QED
            BY <3>1, <3>2
    <2> QED
        BY <2>3 DEF Fitting
<1>3. \/ UNCHANGED <<platform, handles>>
      \/ \E i \in Instances :
            /\ status[i] = "live"
            /\ handles' = [handles EXCEPT ![i] = With(handles[i], s, k)]
            /\ \/ s \notin DOMAIN platform[i] /\ platform' = platform
               \/ /\ s \in DOMAIN platform[i]
                  /\ LET y == [platform[i][s] EXCEPT !.handle = k, !.cleared = FALSE]
                     IN  y \in Sheets /\ y.handle = k /\ Becomes(i, s, Mount(y), platform')
    BY AppearKeeps
<1>4. CASE ~UNCHANGED <<platform, handles>>
    <2>1. PICK i \in Instances :
            /\ handles' = [handles EXCEPT ![i] = With(handles[i], s, k)]
            /\ \/ s \notin DOMAIN platform[i] /\ platform' = platform
               \/ /\ s \in DOMAIN platform[i]
                  /\ LET y == [platform[i][s] EXCEPT !.handle = k, !.cleared = FALSE]
                     IN  y \in Sheets /\ y.handle = k /\ Becomes(i, s, Mount(y), platform')
        BY <1>3, <1>4
    <2> QED
        BY <1>2, <2>1
<1> QED
    BY <1>1, <1>4

LEMMA FittingDisappear ==
    ASSUME Types, Fitting, NEW k \in Containers, Disappear(k)
    PROVE  Fitting'
<1>1. CASE UNCHANGED <<platform, handles>>
    BY <1>1 DEF Fitting
<1>2. ASSUME NEW i \in Instances, NEW s \in Surfaces,
             handles' = [handles EXCEPT ![i] = Without(handles[i], {s})],
             platform' = platform \/ Becomes(i, s, Unmount(platform[i][s]), platform')
      PROVE  Fitting'
    <2>1. /\ \A j \in Instances \ {i} : handles'[j] = handles[j]
          /\ DOMAIN handles'[i] = DOMAIN handles[i] \ {s}
          /\ \A r \in DOMAIN handles'[i] : handles'[i][r] = handles[i][r]
        BY <1>2 DEF Types, HandlesOK, Without
    <2>2. \A j \in Instances : \A r \in DOMAIN platform'[j] :
             r \in DOMAIN platform[j] /\ (~(j = i /\ r = s) => platform'[j][r] = platform[j][r])
        BY <1>2 DEF Becomes
    <2>3. \A j \in Instances : \A r \in DOMAIN platform'[j] \cap DOMAIN handles'[j] :
             /\ r \in DOMAIN platform[j] \cap DOMAIN handles[j]
             /\ platform'[j][r] = platform[j][r] /\ handles'[j][r] = handles[j][r]
        BY <2>1, <2>2
    <2> QED
        BY <2>3, FittingLess
<1> QED
    BY <1>1, <1>2, DisappearKeeps

LEMMA FittingStep ==
    ASSUME Types, Fitting, [Next]_vars
    PROVE  Fitting'
<1>1. ASSUME platform' = platform, handles' = handles
      PROVE  Fitting'
    BY <1>1 DEF Fitting
<1>2. ASSUME NEW i \in Instances, NEW s \in Surfaces, NEW f, NEW tasks, Reported(i, s, f, tasks)
      PROVE  platform' = platform /\ handles' = handles
    BY <1>2 DEF Reported, Report
<1>3. UNCHANGED vars \/ RunDelete \/ CallListener \/ TellListener => platform' = platform /\ handles' = handles
    BY DEF vars, RunDelete, CallListener, TellListener
<1>4. ASSUME NEW i \in Instances, NEW l \in Listeners,
             CreateSurfaceManager(i) \/ AddListener(i, l) \/ RemoveListener(i, l)
      PROVE  platform' = platform /\ handles' = handles
    BY <1>4 DEF CreateSurfaceManager, AddListener, RemoveListener
<1>5. ASSUME NEW i \in Instances, CreateSurfaceManager(i)
      PROVE  platform' = platform /\ handles' = handles
    BY <1>5 DEF CreateSurfaceManager
<1>6. CASE Showing
    BY <1>6, FittingClear, FittingAppear, FittingDisappear DEF Showing
<1> QED
    BY <1>1, <1>2, <1>3, <1>4, <1>5, <1>6, Cases, FittingTree, FittingCreate, FittingEnd, FittingDestroy

\* A container that is bound to a surface shows its root, whether the root was
\* added before the binding or after it, until the application clears the
\* containers.
THEOREM ContainersShow == Spec => []ContainerShowsItsSurface
<1>1. Init => Fitting
    BY EmptyMap DEF Init, Fitting
<1>2. Healthy /\ Fitting /\ [Next]_vars => Fitting'
    BY FittingStep DEF Healthy
<1>3. Fitting => ContainerShowsItsSurface
    BY DEF Fitting, Fits, ContainerShowsItsSurface
<1> QED
    BY <1>1, <1>2, <1>3, HealthyHolds, PTL DEF Spec
-----------------------------------------------------------------------------
(* What the listeners of the application are told. *)

\* An instance that is not live has no listeners.
Lists == \A i \in Instances : status[i] # "live" => ets[i] = <<>>

\* A task that has called nobody counts the listeners there are; the end of a
\* surface is the end of its entry, and a new surface is there before anyone
\* hears of it.
Calls == running # Idle =>
            LET i == running.i
                s == running.s
            IN  /\ running.at = 0 => /\ running.to = 1 /\ running.upto = 0 /\ running.moved = FALSE
                                     /\ running.last = Len(ets[i])
                /\ running.kind = "delete" /\ running.at > 0 => s \notin known[i]
                /\ running.kind = "create" /\ status[i] = "live" =>
                      /\ s \in DOMAIN platform[i]
                      /\ running.at > 0 => s \in known[i]

\* A listener that heard of a surface is registered, and the surface is known
\* and there; or its end is being told, and this listener is still to come.
ToCome(h) == /\ running # Idle /\ running.kind = "delete" /\ running.i = h[1] /\ running.s = h[3]
             /\ \E n \in running.to..running.upto : n <= Len(ets[h[1]]) /\ ets[h[1]][n] = h[2]
Told      == \A h \in heard :
                /\ status[h[1]] = "live" /\ h[2] \in ToSet(ets[h[1]])
                /\ h[3] \in DOMAIN platform[h[1]]
                /\ h[3] \in known[h[1]] \/ ToCome(h)

Hears == Lists /\ Calls /\ (history.skipped \/ Told)

\* A listener in a list is at a position of it.
LEMMA AtPosition ==
    \A q \in Seq(Listeners) : \A l :
        l \in ToSet(q) <=> \E n \in 1..Len(q) : q[n] = l
BY DEF ToSet

LEMMA HeardOf ==
    ASSUME Types
    PROVE  \A h \in heard : /\ h[1] \in Instances /\ h[2] \in Listeners /\ h[3] \in Surfaces
                            /\ h = <<h[1], h[2], h[3]>>
BY DEF Types, HeardOK

\* Nothing of it changes but, at most, who has which surface.
LEMMA HearsSame ==
    ASSUME Types, Hears, UNCHANGED <<status, running, ets, known, heard>>,
           \A i \in Instances : DOMAIN platform'[i] = DOMAIN platform[i],
           history'.skipped = history.skipped
    PROVE  Hears'
<1>1. Lists'
    BY DEF Hears, Lists
<1>2. Told => Told'
    BY HeardOf DEF Told, ToCome
<1>3. Calls'
    BY RunsOf DEF Hears, Calls, Types
<1> QED
    BY <1>1, <1>2, <1>3 DEF Hears

LEMMA HearsInit ==
    ASSUME Init
    PROVE  Hears
BY DEF Init, Hears, Lists, Told, Calls

LEMMA HearsReport ==
    ASSUME Types, Hears, NEW i \in Instances, NEW s \in Surfaces, NEW f, NEW tasks,
           Reported(i, s, f, tasks)
    PROVE  Hears'
<1>1. /\ history' = [history EXCEPT !.reports = @ + 1]
      /\ UNCHANGED <<status, running, platform, ets, known, heard>>
    BY DEF Reported, Report, arkts
<1>2. history'.skipped = history.skipped
    BY <1>1 DEF Types, HistoryOK
<1> QED
    BY <1>1, <1>2, HearsSame

LEMMA HearsTree ==
    ASSUME Types, Hears, RunTreeTask
    PROVE  Hears'
<1>1. PICK t : t = Head(queue)
    OBVIOUS
<1>2. /\ queue # <<>> /\ UNCHANGED <<status, running, ets, known, heard>>
      /\ \/ /\ t.s \in DOMAIN platform[t.i]
            /\ platform' = [platform EXCEPT ![t.i][t.s] = Applied(platform[t.i][t.s], t)]
         \/ platform' = platform
      /\ history'.skipped = history.skipped
    BY <1>1 DEF RunTreeTask, Types, PlatOK, HistoryOK, arkts
<1>3. \A i \in Instances : DOMAIN platform'[i] = DOMAIN platform[i]
    BY <1>2 DEF Types, PlatOK
<1> QED
    BY <1>2, <1>3, HearsSame

\* A task begins its calls; at most the surface it is about has been created.
LEMMA HearsBegin ==
    ASSUME Types, Hears, running = Idle, UNCHANGED <<status, ets, known, heard>>,
           NEW t \in Reports, t.kind \in {"create", "delete"}, running' = Calling(t),
           \A i \in Instances : DOMAIN platform[i] \subseteq DOMAIN platform'[i],
           t.kind = "create" => t.s \in DOMAIN platform'[t.i],
           history'.skipped = history.skipped
    PROVE  Hears'
<1>1. /\ running'.kind = t.kind /\ running'.i = t.i /\ running'.s = t.s /\ running'.at = 0
      /\ running'.last = Len(ets[t.i]) /\ running'.to = 1 /\ running'.upto = 0
      /\ running'.moved = FALSE
    BY CallingRuns DEF Types, ListsOK
<1>2. Lists'
    BY DEF Hears, Lists
<1>3. Told => Told'
    <2>1. \A h : ~ToCome(h)
        BY DEF ToCome
    <2> QED
        BY <2>1, HeardOf DEF Told
<1>4. Calls'
    BY <1>1 DEF Calls
<1> QED
    BY <1>2, <1>3, <1>4 DEF Hears

LEMMA HearsCreate ==
    ASSUME Types, Hears, RunCreate
    PROVE  Hears'
<1>1. PICK t : t = Head(queue)
    OBVIOUS
<1>2. /\ running = Idle /\ queue # <<>> /\ t.kind = "create"
      /\ UNCHANGED <<status, ets, native, known, heard>>
      /\ history'.skipped = history.skipped
      /\ status[t.i] = "live" =>
            /\ platform' = [platform EXCEPT ![t.i] = With(platform[t.i], t.s, NewSurface)]
            /\ running' = Calling(t)
      /\ status[t.i] # "live" => platform' = platform /\ running' = running
    BY <1>1 DEF RunCreate, Types, PlatOK, HistoryOK, arkts
<1>3. t \in Reports /\ t.i \in Instances /\ t.s \in Surfaces
    BY <1>1, <1>2, FirstTask, ReportOf DEF Types
<1>4. CASE status[t.i] # "live"
    BY <1>2, <1>4, HearsSame
<1>5. CASE status[t.i] = "live"
    <2>1. /\ DOMAIN platform'[t.i] = DOMAIN platform[t.i] \cup {t.s}
          /\ \A i \in Instances \ {t.i} : platform'[i] = platform[i]
        BY <1>2, <1>3, <1>5 DEF Types, PlatOK, With
    <2>2. \A i \in Instances : DOMAIN platform[i] \subseteq DOMAIN platform'[i]
        BY <2>1
    <2> QED
        BY <1>2, <1>3, <1>5, <2>1, <2>2, HearsBegin
<1> QED
    BY <1>4, <1>5

LEMMA HearsDelete ==
    ASSUME Types, Hears, RunDelete
    PROVE  Hears'
<1>1. PICK t : t = Head(queue)
    OBVIOUS
<1>2. /\ running = Idle /\ queue # <<>> /\ t.kind = "delete"
      /\ UNCHANGED <<status, platform, ets, native, known, heard, history>>
      /\ status[t.i] = "live" => running' = Calling(t)
      /\ status[t.i] # "live" => running' = running
    BY <1>1 DEF RunDelete, arkts
<1>3. t \in Reports
    BY <1>1, <1>2, FirstTask DEF Types
<1>4. CASE status[t.i] # "live"
    BY <1>2, <1>4, HearsSame
<1>5. CASE status[t.i] = "live"
    BY <1>2, <1>3, <1>5, HearsBegin
<1> QED
    BY <1>4, <1>5

\* Outside the deletion that runs nobody is still to come.
LEMMA ToComeOf ==
    ASSUME Types, NEW h, ToCome(h)
    PROVE  /\ running # Idle /\ running.kind = "delete" /\ running.i = h[1] /\ running.s = h[3]
           /\ running.to <= running.upto /\ running.to <= Len(ets[h[1]])
<1>1. running # Idle /\ running.kind = "delete" /\ running.i = h[1] /\ running.s = h[3]
    BY DEF ToCome
<1>2. running.to \in Nat /\ running.upto \in Nat /\ h[1] \in Instances
    BY <1>1, RunsOf DEF Types
<1>3. Len(ets[h[1]]) \in Nat
    BY <1>2 DEF Types, ListsOK
<1>4. PICK n \in running.to..running.upto : n <= Len(ets[h[1]])
    BY DEF ToCome
<1> QED
    BY <1>1, <1>2, <1>3, <1>4

LEMMA HearsCall ==
    ASSUME Types, Hears, CallListener
    PROVE  Hears'
<1>1. PICK i, s : i = running.i /\ s = running.s
    OBVIOUS
<1>2. /\ SameTask /\ running # Idle /\ history'.skipped = history.skipped
      /\ UNCHANGED <<status, platform, ets, native>>
    BY CallsKeep
<1>3. /\ running \in Runs /\ i \in Instances /\ s \in Surfaces /\ native = ets
      /\ running.kind \in {"create", "delete"} /\ running.at \in Nat /\ running.last \in Nat
      /\ running.to \in Nat /\ running.upto \in Nat /\ Len(ets[i]) \in Nat
    BY <1>1, <1>2, RunsOf DEF Types, ListsOK
<1>4. running.to > running.upto /\ running.at < running.last /\ heard' = heard
    BY DEF CallListener
<1>5. running' # Idle /\ running'.kind = running.kind /\ running'.i = i /\ running'.s = s
    BY <1>1, <1>2 DEF SameTask
<1>6. \A h : ~ToCome(h)
    BY <1>3, <1>4, ToComeOf
<1>7. Lists'
    BY <1>2 DEF Hears, Lists
<1>8. Calls
    BY DEF Hears
<1>9. CASE /\ ~Within /\ running' = [running EXCEPT !.at = running.at + 1] /\ known' = known
    <2>1. running.at > 0
        BY <1>1, <1>2, <1>3, <1>4, <1>8, <1>9 DEF Calls, Within
    <2>2. running'.at = running.at + 1 /\ running'.at > 0 /\ running'.at # 0
        BY <1>3, <1>9 DEF Runs
    <2>3. Calls'
        BY <1>1, <1>2, <1>5, <1>8, <1>9, <2>1, <2>2 DEF Calls
    <2>4. Told => Told'
        BY <1>2, <1>4, <1>6, <1>9, HeardOf DEF Told
    <2> QED
        BY <1>2, <1>7, <2>3, <2>4 DEF Hears
<1>10. ASSUME NEW n, running' = [running EXCEPT !.at = running.at + 1, !.to = 1, !.upto = n],
              n = IF running.kind = "create" \/ s \in known[i] THEN Len(ets[i]) ELSE 0,
              known' = [known EXCEPT ![i] = IF running.kind = "create" THEN known[i] \cup {s}
                                            ELSE known[i] \ {s}]
       PROVE  Hears'
    <2>1. running'.at = running.at + 1 /\ running'.at > 0 /\ running'.at # 0
          /\ running'.to = 1 /\ running'.upto = n
        BY <1>3, <1>10 DEF Runs
    <2>2. /\ \A j \in Instances \ {i} : known'[j] = known[j]
          /\ running.kind = "create" => known'[i] = known[i] \cup {s}
          /\ running.kind = "delete" => known'[i] = known[i] \ {s}
        BY <1>3, <1>10 DEF Types, HeardOK
    <2>3. Calls'
        BY <1>1, <1>2, <1>3, <1>5, <1>8, <2>1, <2>2 DEF Calls
    <2>4. ASSUME Told, NEW h \in heard, running.kind = "delete", h[1] = i, h[3] = s
          PROVE  ToCome(h)'
        <3>1. s \in known[i] /\ h[2] \in ToSet(ets[i])
            BY <1>6, <2>4 DEF Told
        <3>2. n = Len(ets[i])
            BY <1>10, <3>1
        <3>3. PICK m \in 1..Len(ets[i]) : ets[i][m] = h[2]
            <4>1. ets[i] \in Seq(Listeners)
                BY <1>3 DEF Types, ListsOK
            <4> QED
                BY <3>1, <4>1, AtPosition
        <3> QED
            BY <1>2, <1>3, <1>5, <2>1, <2>4, <3>2, <3>3 DEF ToCome
    <2>5. Told => Told'
        <3>1. ASSUME Told, NEW h \in heard
              PROVE  /\ status[h[1]] = "live" /\ h[2] \in ToSet(ets[h[1]])
                     /\ h[3] \in DOMAIN platform[h[1]]
                     /\ h[3] \in known'[h[1]] \/ ToCome(h)'
            <4>1. /\ status[h[1]] = "live" /\ h[2] \in ToSet(ets[h[1]])
                  /\ h[3] \in DOMAIN platform[h[1]] /\ h[3] \in known[h[1]] /\ h[1] \in Instances
                BY <1>6, <3>1, HeardOf DEF Told
            <4>2. h[3] \in known'[h[1]] \/ (running.kind = "delete" /\ h[1] = i /\ h[3] = s)
                BY <1>3, <2>2, <4>1
            <4> QED
                BY <2>4, <3>1, <4>1, <4>2
        <3> QED
            BY <1>2, <1>4, <3>1 DEF Told
    <2> QED
        BY <1>2, <1>7, <2>3, <2>5 DEF Hears
<1>11. \/ /\ ~Within /\ running' = [running EXCEPT !.at = running.at + 1] /\ known' = known
       \/ \E n : /\ running' = [running EXCEPT !.at = running.at + 1, !.to = 1, !.upto = n]
                 /\ n = IF running.kind = "create" \/ s \in known[i] THEN Len(ets[i]) ELSE 0
                 /\ known' = [known EXCEPT ![i] = IF running.kind = "create" THEN known[i] \cup {s}
                                                  ELSE known[i] \ {s}]
    BY <1>1 DEF CallListener
<1> QED
    BY <1>9, <1>10, <1>11

LEMMA HearsTell ==
    ASSUME Types, Hears, TellListener
    PROVE  Hears'
<1>1. PICK i, s, p : i = running.i /\ s = running.s /\ p = running.to
    OBVIOUS
<1>2. /\ SameTask /\ running # Idle /\ history'.skipped = history.skipped
      /\ UNCHANGED <<status, platform, ets, native>>
    BY CallsKeep
<1>3. /\ running \in Runs /\ i \in Instances /\ s \in Surfaces /\ ets[i] \in Seq(Listeners)
      /\ running.kind \in {"create", "delete"} /\ running.at \in Nat
      /\ p \in Nat \ {0} /\ running.upto \in Nat /\ Len(ets[i]) \in Nat
    BY <1>1, <1>2, RunsOf DEF Types, ListsOK, Runs
<1>4. /\ p <= running.upto /\ known' = known /\ running' = [running EXCEPT !.to = p + 1]
      /\ p > Len(ets[i]) => heard' = heard
      /\ p <= Len(ets[i]) /\ running.kind = "create" => heard' = heard \cup {<<i, ets[i][p], s>>}
      /\ p <= Len(ets[i]) /\ running.kind = "delete" => heard' = heard \ {<<i, ets[i][p], s>>}
    BY <1>1, <1>3 DEF TellListener, Receiver
<1>5. /\ running' # Idle /\ running'.kind = running.kind /\ running'.i = i /\ running'.s = s
      /\ running'.at = running.at /\ running'.to = p + 1 /\ running'.upto = running.upto
      /\ running'.last = running.last /\ running'.moved = running.moved
    BY <1>1, <1>2, <1>3, <1>4 DEF SameTask, Runs
<1>6. running.at # 0 /\ running.at > 0
    <2>1. running.at = 0 => running.upto = 0
        BY <1>2 DEF Hears, Calls
    <2> QED
        BY <1>3, <1>4, <2>1
<1>7. Lists' /\ Calls'
    BY <1>1, <1>2, <1>4, <1>5, <1>6 DEF Hears, Lists, Calls
<1>8. ASSUME Told, NEW h \in heard', h \in heard
      PROVE  h[3] \in known[h[1]] \/ ToCome(h)'
    <2>1. SUFFICES ASSUME ToCome(h)
                   PROVE  ToCome(h)'
        BY <1>8 DEF Told
    <2>2. running.kind = "delete" /\ i = h[1] /\ s = h[3]
        BY <1>1, <2>1 DEF ToCome
    <2>3. PICK n \in p..running.upto : n <= Len(ets[i]) /\ ets[i][n] = h[2]
        BY <1>1, <2>1, <2>2 DEF ToCome
    <2>4. n # p
        <3>1. SUFFICES ASSUME n = p PROVE FALSE
            OBVIOUS
        <3>2. h = <<i, ets[i][p], s>>
            BY <1>8, <2>2, <2>3, <3>1, HeardOf
        <3>3. heard' = heard \ {<<i, ets[i][p], s>>}
            BY <1>4, <2>2, <2>3, <3>1
        <3> QED
            BY <1>8, <3>2, <3>3
    <2>5. n \in (p + 1)..running.upto
        BY <1>3, <2>3, <2>4
    <2> QED
        BY <1>2, <1>5, <2>2, <2>3, <2>5 DEF ToCome
<1>9. ASSUME Told, NEW h \in heard', h \notin heard
      PROVE  /\ status[h[1]] = "live" /\ h[2] \in ToSet(ets[h[1]])
             /\ h[3] \in DOMAIN platform[h[1]] /\ h[3] \in known[h[1]]
    <2>1. p <= Len(ets[i]) /\ running.kind = "create" /\ h = <<i, ets[i][p], s>>
        BY <1>3, <1>4, <1>9
    <2>2. p \in 1..Len(ets[i]) /\ ets[i] # <<>>
        BY <1>3, <2>1
    <2>3. status[i] = "live"
        BY <1>3, <2>2 DEF Hears, Lists
    <2>4. s \in DOMAIN platform[i] /\ s \in known[i]
        BY <1>1, <1>2, <1>6, <2>1, <2>3 DEF Hears, Calls
    <2> QED
        BY <2>1, <2>2, <2>3, <2>4 DEF ToSet
<1>10. Told => Told'
    BY <1>2, <1>4, <1>8, <1>9 DEF Told
<1> QED
    BY <1>2, <1>7, <1>10 DEF Hears

LEMMA HearsEnd ==
    ASSUME Types, HoldOK, Hears, EndTask
    PROVE  Hears'
<1>1. PICK i, s : i = running.i /\ s = running.s
    OBVIOUS
<1>2. PICK m : /\ platform' = [platform EXCEPT ![i] = m]
               /\ status[i] # "live" \/ m = platform[i]
                  \/ (running.kind = "delete" /\ m = Without(platform[i], {s}))
    <2>1. CASE status[i] = "held"
        BY <1>1, <2>1 DEF EndTask
    <2>2. CASE status[i] # "held" /\ running.kind = "delete"
        BY <1>1, <2>2 DEF EndTask, Remaining
    <2>3. CASE status[i] # "held" /\ running.kind # "delete"
        BY <1>1, <2>3 DEF EndTask
    <2> QED
        BY <2>1, <2>2, <2>3
<1>3. /\ running # Idle /\ running' = Idle /\ running.to > running.upto /\ running.at >= running.last
      /\ UNCHANGED <<ets, known, heard, history>>
      /\ status' = status \/ (status[i] = "held" /\ status' = [status EXCEPT ![i] = "dead"])
    BY <1>1 DEF EndTask, arkts
<1>4. /\ i \in Instances /\ running \in Runs /\ running.at \in Nat /\ running.last \in Nat
      /\ running.to \in Nat /\ running.upto \in Nat
    BY <1>1, <1>3, RunsOf DEF Types
<1>5. Lists' /\ Calls'
    BY <1>3, <1>4 DEF Hears, Lists, Calls, Types, StatusOK
<1>6. \A h : ~ToCome(h)
    BY <1>3, <1>4, ToComeOf
<1>7. ASSUME Told, NEW h \in heard
      PROVE  /\ status'[h[1]] = "live" /\ h[2] \in ToSet(ets'[h[1]])
             /\ h[3] \in known'[h[1]] /\ h[3] \in DOMAIN platform'[h[1]]
    <2>1. /\ status[h[1]] = "live" /\ h[2] \in ToSet(ets[h[1]])
          /\ h[3] \in known[h[1]] /\ h[3] \in DOMAIN platform[h[1]] /\ h[1] \in Instances
        BY <1>6, <1>7, HeardOf DEF Told
    <2>2. status'[h[1]] = "live"
        BY <1>3, <1>4, <2>1 DEF Types, StatusOK
    <2>3. CASE h[1] # i
        BY <1>2, <1>3, <2>1, <2>2, <2>3 DEF Types, PlatOK
    <2>4. CASE h[1] = i
        <3>1. platform'[i] = m
            BY <1>2, <1>4 DEF Types, PlatOK
        <3>2. running.kind = "delete" => h[3] # s
            <4>1. SUFFICES ASSUME running.kind = "delete", h[3] = s
                           PROVE  FALSE
                OBVIOUS
            <4>2. running.at = 0
                BY <1>1, <1>3, <1>4, <2>1, <2>4, <4>1 DEF Hears, Calls
            <4>3. running.last = Len(ets[i])
                BY <1>1, <1>3, <4>2 DEF Hears, Calls
            <4>4. Len(ets[i]) >= 1
                BY <1>4, <2>1, <2>4 DEF Types, ListsOK, ToSet
            <4>5. Len(ets[i]) \in Nat
                BY <1>4 DEF Types, ListsOK
            <4> QED
                BY <1>3, <4>2, <4>3, <4>4, <4>5
        <3> QED
            BY <1>2, <1>3, <2>1, <2>2, <2>4, <3>1, <3>2 DEF Without
    <2> QED
        BY <2>3, <2>4
<1>8. Told => Told'
    BY <1>3, <1>7 DEF Told
<1> QED
    BY <1>3, <1>5, <1>8 DEF Hears

LEMMA HearsMake ==
    ASSUME Types, HoldOK, Hears, NEW i \in Instances, CreateSurfaceManager(i)
    PROVE  Hears'
<1>1. /\ status[i] = "none" /\ status' = [status EXCEPT ![i] = "live"]
      /\ UNCHANGED <<running, platform, ets, known, heard, history>>
    BY DEF CreateSurfaceManager, arkts
<1>2. \A j \in Instances : j # i => status'[j] = status[j]
    BY <1>1 DEF Types, StatusOK
<1>3. status'[i] = "live" /\ (running # Idle => running.i \in Instances /\ running.i # i)
    BY <1>1, RunsOf DEF Types, StatusOK, HoldOK
<1>4. Lists'
    BY <1>1, <1>2, <1>3 DEF Hears, Lists
<1>5. Calls'
    BY <1>1, <1>2, <1>3 DEF Hears, Calls
<1>6. Told => Told'
    BY <1>1, <1>2, <1>3, HeardOf DEF Told, ToCome
<1> QED
    BY <1>1, <1>4, <1>5, <1>6 DEF Hears

\* While the application may call, a task has called somebody.
LEMMA CallsBegun ==
    ASSUME Types, Hears, InJS
    PROVE  running # Idle => running.at # 0 /\ running.at \in Nat /\ running.at > 0
<1>1. SUFFICES ASSUME running # Idle
               PROVE  running.at # 0 /\ running.at \in Nat /\ running.at > 0
    OBVIOUS
<1>2. running.at \in Nat /\ running.to \in Nat /\ running.to > 1
    BY <1>1, RunsOf DEF Types, InJS
<1>3. running.at = 0 => running.to = 1
    BY <1>1 DEF Hears, Calls
<1> QED
    BY <1>2, <1>3

LEMMA HearsDestroy ==
    ASSUME Types, HoldOK, Hears, NEW i \in Instances, DestroySurfaceManager(i)
    PROVE  Hears'
<1>1. /\ InJS /\ status[i] = "live" /\ ets' = [ets EXCEPT ![i] = <<>>]
      /\ known' = [known EXCEPT ![i] = {}] /\ heard' = {h \in heard : h[1] # i}
      /\ UNCHANGED <<running, history>>
      /\ \/ status' = [status EXCEPT ![i] = "held"] /\ platform' = platform
         \/ status' = [status EXCEPT ![i] = "dead"] /\ platform' = [platform EXCEPT ![i] = Empty]
    BY DEF DestroySurfaceManager
<1>2. \A j \in Instances \ {i} : /\ status'[j] = status[j] /\ platform'[j] = platform[j]
                                 /\ ets'[j] = ets[j] /\ known'[j] = known[j]
    BY <1>1 DEF Types, StatusOK, PlatOK, ListsOK, HeardOK
<1>3. ets'[i] = <<>> /\ status'[i] # "live" /\ known'[i] = {}
    BY <1>1 DEF Types, StatusOK, ListsOK, HeardOK
<1>4. Lists'
    BY <1>2, <1>3 DEF Hears, Lists
<1>5. Told => Told'
    BY <1>1, <1>2, HeardOf DEF Told, ToCome
<1>6. Calls'
    <2>1. SUFFICES ASSUME running # Idle
                   PROVE  Calls'
        BY <1>1 DEF Calls
    <2>2. running.at # 0 /\ running.i \in Instances
        BY <1>1, <2>1, CallsBegun, RunsOf DEF Types
    <2>3. CASE running.i = i
        BY <1>1, <1>3, <2>1, <2>2, <2>3 DEF Calls
    <2>4. CASE running.i # i
        BY <1>1, <1>2, <2>1, <2>2, <2>4 DEF Hears, Calls
    <2> QED
        BY <2>3, <2>4
<1> QED
    BY <1>1, <1>4, <1>5, <1>6 DEF Hears

LEMMA HearsAdd ==
    ASSUME Types, Hears, NEW i \in Instances, NEW l \in Listeners, AddListener(i, l)
    PROVE  Hears'
<1>1. /\ InJS /\ status[i] = "live" /\ ets' = [ets EXCEPT ![i] = Append(ets[i], l)]
      /\ UNCHANGED <<status, platform, known, heard, history>>
      /\ running' = running \/ (running # Idle /\ running' = [running EXCEPT !.moved = TRUE])
    BY DEF AddListener, Types, ListsOK
<1>2. ets \in [Instances -> Seq(Listeners)]
    BY DEF Types, ListsOK
<1>3. \A j \in Instances : ets'[j] = IF j = i THEN Append(ets[i], l) ELSE ets[j]
    BY <1>1, <1>2
<1>4. /\ SameTask
      /\ running # Idle =>
            running'.at = running.at /\ running'.to = running.to /\ running'.upto = running.upto
    <2>1. running # Idle => running \in Runs
        BY RunsOf DEF Types
    <2> QED
        BY <1>1, <2>1, ListsKeep DEF Runs
<1>5. \A j \in Instances : \A n \in 1..Len(ets[j]) :
         n \in 1..Len(ets'[j]) /\ ets'[j][n] = ets[j][n] /\ Len(ets[j]) \in Nat /\ Len(ets'[j]) \in Nat
    <2> TAKE j \in Instances
    <2>1. Len(Append(ets[i], l)) = Len(ets[i]) + 1 /\ Len(ets[i]) \in Nat /\ Len(ets[j]) \in Nat
        BY <1>2
    <2>2. \A n \in 1..Len(ets[i]) : Append(ets[i], l)[n] = ets[i][n]
        BY <1>2
    <2>3. CASE j = i
        <3>1. PICK q, r : q = ets[i] /\ r = Append(ets[i], l)
            OBVIOUS
        <3>2. Len(r) = Len(q) + 1 /\ Len(q) \in Nat /\ \A n \in 1..Len(q) : r[n] = q[n]
            BY <2>1, <2>2, <3>1
        <3>3. \A n \in 1..Len(q) : n \in 1..Len(r) /\ r[n] = q[n]
            BY <3>2
        <3>4. Len(r) \in Nat
            BY <3>2
        <3> QED
            BY <1>3, <2>3, <3>1, <3>2, <3>3, <3>4
    <2>4. CASE j # i
        BY <1>3, <2>1, <2>4
    <2> QED
        BY <2>3, <2>4
<1>6. Lists'
    BY <1>1, <1>3 DEF Hears, Lists
<1>7. Calls'
    <2>1. SUFFICES ASSUME running # Idle
                   PROVE  Calls'
        BY <1>4 DEF Calls, SameTask
    <2>2. running.at # 0
        BY <1>1, <2>1, CallsBegun
    <2> QED
        BY <1>1, <1>4, <2>1, <2>2 DEF Hears, Calls, SameTask
<1>8. ASSUME NEW h \in heard, ToCome(h)
      PROVE  ToCome(h)'
    <2>1. /\ running # Idle /\ running.kind = "delete" /\ running.i = h[1] /\ running.s = h[3]
          /\ running.to \in Nat \ {0} /\ running.upto \in Nat /\ h[1] \in Instances
        BY <1>8, RunsOf, HeardOf DEF ToCome, Types, Runs
    <2>2. PICK n \in running.to..running.upto : n <= Len(ets[h[1]]) /\ ets[h[1]][n] = h[2]
        BY <1>8 DEF ToCome
    <2>3. n \in 1..Len(ets[h[1]])
        BY <1>2, <2>1, <2>2
    <2>4. n <= Len(ets'[h[1]]) /\ ets'[h[1]][n] = h[2]
        BY <1>5, <2>1, <2>2, <2>3
    <2> QED
        BY <1>4, <2>1, <2>2, <2>4 DEF ToCome, SameTask
<1>9. Told => Told'
    <2>1. \A j \in Instances : ToSet(ets[j]) \subseteq ToSet(ets'[j])
        BY <1>5 DEF ToSet
    <2> QED
        BY <1>1, <1>8, <2>1, HeardOf DEF Told
<1> QED
    BY <1>1, <1>6, <1>7, <1>9 DEF Hears

LEMMA HearsRemove ==
    ASSUME Types, Hears, NEW i \in Instances, NEW l \in Listeners, RemoveListener(i, l)
    PROVE  Hears'
<1>1. /\ InJS /\ status[i] = "live" /\ l \in ToSet(ets[i])
      /\ ets' = [ets EXCEPT ![i] = RemoveFirst(ets[i], l)]
      /\ heard' = {h \in heard : h[1] # i \/ h[2] # l}
      /\ history' = [history EXCEPT !.skipped = history.skipped \/ PassesOver(i, l)]
      /\ UNCHANGED <<status, running, platform, known>>
    BY DEF RemoveListener, Types, ListsOK, HistoryOK
<1>2. ets \in [Instances -> Seq(Listeners)]
    BY DEF Types, ListsOK
<1>3. ets'[i] = RemoveFirst(ets[i], l) /\ \A j \in Instances \ {i} : ets'[j] = ets[j]
    BY <1>1, <1>2
<1>4. history'.skipped = (history.skipped \/ PassesOver(i, l))
    BY <1>1 DEF Types, HistoryOK
<1>5. Lists'
    BY <1>1, <1>3 DEF Hears, Lists
<1>6. Calls'
    BY <1>1, CallsBegun DEF Hears, Calls
<1>7. PICK k \in 1..Len(ets[i]) :
         /\ ets[i][k] = l
         /\ \A n \in 1..Len(ets[i]) : /\ n < k => ets'[i][n] = ets[i][n]
                                      /\ n > k => ets'[i][n - 1] = ets[i][n]
    <2>1. ets[i] \in Seq(Listeners)
        BY <1>2
    <2> QED
        BY <1>1, <1>3, <2>1, FirstRemoved
<1>8. Len(ets[i]) \in Nat /\ Len(ets'[i]) = Len(ets[i]) - 1
    BY <1>1, <1>2, <1>3, FirstRemoved
<1>9. ASSUME NEW h \in heard', h[1] = i, h[2] \in ToSet(ets[i])
      PROVE  h[2] \in ToSet(ets'[i])
    <2> ets[i] \in Seq(Listeners) /\ ets'[i] \in Seq(Listeners)
        <3>1. ets[i] \in Seq(Listeners)
            BY <1>2
        <3> QED
            BY <1>1, <1>3, <3>1, FirstRemoved
    <2>1. PICK n \in 1..Len(ets[i]) : ets[i][n] = h[2]
        BY <1>9, AtPosition
    <2>2. n # k
        BY <1>1, <1>7, <1>9, <2>1
    <2>3. CASE n < k
        <3>1. n \in 1..Len(ets'[i]) /\ ets'[i][n] = h[2]
            BY <1>7, <1>8, <2>1, <2>3
        <3> QED
            BY <3>1, AtPosition
    <2>4. CASE n > k
        <3>1. n - 1 \in 1..Len(ets'[i]) /\ ets'[i][n - 1] = h[2]
            BY <1>7, <1>8, <2>1, <2>4
        <3> QED
            BY <3>1, AtPosition
    <2> QED
        BY <2>2, <2>3, <2>4
<1>10. ASSUME NEW h \in heard', ToCome(h), ~PassesOver(i, l)
       PROVE  ToCome(h)'
    <2>1. /\ running # Idle /\ running.kind = "delete" /\ running.i = h[1] /\ running.s = h[3]
          /\ running.to \in Nat \ {0} /\ running.upto \in Nat
        BY <1>10, RunsOf DEF ToCome, Types, Runs
    <2>2. PICK n \in running.to..running.upto : n <= Len(ets[h[1]]) /\ ets[h[1]][n] = h[2]
        BY <1>10 DEF ToCome
    <2>3. CASE h[1] # i
        <3>1. h[1] \in Instances
            BY <2>1, RunsOf DEF Types
        <3> QED
            BY <1>1, <1>3, <2>1, <2>2, <2>3, <3>1 DEF ToCome
    <2>4. CASE h[1] = i
        <3>1. n \in 1..Len(ets[i])
            BY <1>8, <2>1, <2>2, <2>4
        <3>2. n # k
            BY <1>1, <1>7, <2>2, <2>4
        <3>3. CASE n < k
            <4>1. n <= Len(ets'[i]) /\ ets'[i][n] = h[2]
                BY <1>7, <1>8, <2>2, <2>4, <3>1, <3>3
            <4> QED
                BY <1>1, <2>1, <2>2, <2>4, <4>1 DEF ToCome
        <3>4. CASE n > k
            <4>1. n - 1 <= Len(ets'[i]) /\ ets'[i][n - 1] = h[2]
                BY <1>7, <1>8, <2>2, <2>4, <3>1, <3>4
            <4>2. k >= running.to
                <5>1. ToCome(h) => running.to <= running.upto /\ running.to <= Len(ets[i])
                    BY <2>4, ToComeOf
                <5>2. ~\E m \in 1..(running.to - 1) : ets[i][m] = l
                    BY <1>10, <2>1, <2>4, <5>1 DEF PassesOver
                <5> QED
                    BY <1>7, <2>1, <5>2
            <4>3. n - 1 \in running.to..running.upto
                BY <2>1, <2>2, <3>1, <3>4, <4>2
            <4> QED
                BY <1>1, <2>1, <2>4, <4>1, <4>3 DEF ToCome
        <3> QED
            BY <3>1, <3>2, <3>3, <3>4
    <2> QED
        BY <2>3, <2>4
<1>11. Told /\ ~PassesOver(i, l) => Told'
    <2>1. SUFFICES ASSUME Told, ~PassesOver(i, l), NEW h \in heard'
                   PROVE  /\ status'[h[1]] = "live" /\ h[2] \in ToSet(ets'[h[1]])
                          /\ h[3] \in DOMAIN platform'[h[1]]
                          /\ h[3] \in known'[h[1]] \/ ToCome(h)'
        BY DEF Told
    <2>2. h \in heard /\ h[1] \in Instances
        BY <1>1, HeardOf
    <2>3. h[2] \in ToSet(ets'[h[1]])
        BY <1>3, <1>9, <2>1, <2>2 DEF Told
    <2> QED
        BY <1>1, <1>10, <2>1, <2>2, <2>3 DEF Told
<1> QED
    BY <1>4, <1>5, <1>6, <1>11 DEF Hears

LEMMA HearsStep ==
    ASSUME Healthy, Hears, [Next]_vars
    PROVE  Hears'
<1>1. Types /\ HoldOK
    BY DEF Healthy
<1>2. CASE UNCHANGED vars
    BY <1>1, <1>2, HearsSame DEF vars
<1>3. CASE Showing
    <2>1. Retained /\ UNCHANGED <<status, running, ets, known, heard, history>>
        BY <1>1, <1>3, ShowingKeeps
    <2> QED
        BY <1>1, <2>1, HearsSame DEF Retained
<1> QED
    BY <1>1, <1>2, <1>3, Cases, HearsReport, HearsTree, HearsCreate, HearsDelete, HearsCall, HearsTell,
       HearsEnd, HearsMake, HearsDestroy, HearsAdd, HearsRemove

\* Whoever was told of a surface is told of its end before the renderer drops
\* it, for any number of listeners and whatever they add, remove and destroy in
\* their calls; only a listener that leaves while a deletion is told can make
\* the forEach pass over the one behind it.
THEOREM ListenersHearTheEnd == Spec => []EndIsTold
<1>1. Init => Hears
    BY HearsInit
<1>2. Healthy /\ Hears /\ [Next]_vars => Hears'
    BY HearsStep
<1>3. Hears => EndIsTold
    BY DEF Hears, Told, EndIsTold
<1> QED
    BY <1>1, <1>2, <1>3, HealthyHolds, PTL DEF Spec
=============================================================================
