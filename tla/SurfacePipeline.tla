--------------------------- MODULE SurfacePipeline ---------------------------
(***************************************************************************)
(* One surface on the worker thread, from a component change to the        *)
(* messages the platform gets: ComponentManager's dirty queue, VirtualDOM's *)
(* layout pass and Surface's dispatch queue, batched by three cascading     *)
(* BatchGuards (core/src/agenui_batch_guard.h, surface/agenui_surface.cpp, *)
(* component_manager/agenui_component_manager.cpp,                          *)
(* virtual_dom/agenui_virtual_dom*.cpp).                                    *)
(*                                                                         *)
(* Everything happens in one thread; what makes it hard is that a flush     *)
(* asks for other flushes while batches are open.  `stack` is the call      *)
(* stack, innermost call first; an action executes the next step of its     *)
(* head.                                                                    *)
(*                                                                         *)
(* Abstractions: the content of a component is a version number, the part   *)
(* of it that only the layout reads is the variable `stripped`; the tree    *)
(* has the root and its children, each listed once; every snapshot may be   *)
(* displayed (DisplayRule::Always, no missing data); a layout pass may move *)
(* any set of nodes.  The children of a child are not here: what is said of *)
(* a child that moves is said of the child alone.  In the code the nodes    *)
(* below it go with its old node, and the new one, built from one stashed   *)
(* snapshot, has empty nodes below it until these components change.        *)
(***************************************************************************)
EXTENDS Integers, Sequences, FiniteSets, SequencesExt

CONSTANTS
    Root,        \* the component with id "root"
    Children,    \* ids that updateComponents defines and lists
    Items,       \* ids generated from the list template
    MaxPasses,   \* kMaxFlushPasses (8 in the code)
    MaxChanges,  \* bound: changes that alter the content of a component
    Echo         \* components whose rebuild may mark another component dirty

Ids    == {Root} \cup Children \cup Items
Guards == {"dispatch", "layout", "components"}

ASSUME PipelineAssumption ==
    /\ Root \notin Children \cup Items
    /\ Children \cap Items = {}
    /\ IsFiniteSet(Ids)
    /\ MaxPasses \in Nat \ {0} /\ MaxChanges \in Nat
    /\ Echo \subseteq Ids

VARIABLES
    components,  \* keys of ComponentManager::_components
    version,     \* content of each component, 0 before it was first defined
    listed,      \* children of the root component, in their order
    bound,       \* the root's children come from a list template
    dirty,       \* components whose _isDirty is set
    dirtyOrder, dirtyIndex, \* _dirtyOrder, _dirtyIndex
    nodes,       \* _children of the root node of the VirtualDOM
    snap,        \* version in the snapshot of each node, 0 for none
    orphan,      \* version in _directOrphanSnapshots, 0 for none
    newLayout,   \* nodes with hasNewLayout
    shown,       \* nodes with _snapshotWithLayout: an add was emitted
    pendingDispatches, \* Surface::_pendingDispatches
    depth, pending, flushing, \* _batchDepth, _pendingFlush, _flushing per guard
    stack,       \* the call stack
    gone,        \* the surface was destroyed
    platform,    \* version the platform shows, 0 for none
    changes,     \* changes so far
    capped,      \* history: a flush of this operation ended at MaxPasses
    overdue,     \* history: ... or one of the operation before did
    layouts, bursts, \* history: layout passes and dispatch flushes of this operation
    lost,        \* history: ids whose node went with its snapshot, not rebuilt since
    stripped     \* history: ids whose node was made of a snapshot without its layout styles

model    == <<components, version, listed, bound, dirty, changes>>
queue    == <<dirtyOrder, dirtyIndex>>
dom      == <<nodes, snap, orphan, newLayout, shown, lost, stripped>>
guards   == <<depth, pending, flushing>>
history  == <<capped, overdue, layouts, bursts>>
vars     == <<model, queue, dom, pendingDispatches, guards, stack, gone, platform, history>>

None == [c \in Ids |-> 0]

Listed == ToSet(listed)
Nodes  == ToSet(nodes)

\* The members of S in the order they have in s.
InOrder(S, s) ==
    {t \in SetToSeqs(S) : \A i, j \in DOMAIN t :
        i < j => \E k, l \in DOMAIN s : k < l /\ s[k] = t[i] /\ s[l] = t[j]}

Init ==
    /\ components = {} /\ version = None /\ listed = <<>> /\ bound = FALSE
    /\ dirty = {} /\ dirtyOrder = <<>> /\ dirtyIndex = {}
    /\ nodes = <<>> /\ snap = None /\ orphan = None /\ newLayout = {} /\ shown = {}
    /\ pendingDispatches = <<>>
    /\ depth = [g \in Guards |-> 0]
    /\ pending = [g \in Guards |-> FALSE]
    /\ flushing = [g \in Guards |-> FALSE]
    /\ stack = <<>>
    /\ gone = FALSE
    /\ platform = None
    /\ changes = 0 /\ capped = FALSE /\ overdue = FALSE /\ layouts = 0 /\ bursts = 0 /\ lost = {}
    /\ stripped = {}
-----------------------------------------------------------------------------
(* The call stack. *)

Call(at, g)      == [at |-> at, guard |-> g, pass |-> 0, todo |-> <<>>]
CallOn(at, todo) == [at |-> at, guard |-> "dispatch", pass |-> 0, todo |-> todo]

At(at)  == stack # <<>> /\ Head(stack).at = at
Caller  == Tail(stack)
Message(kind, c, v) == [kind |-> kind, id |-> c, ver |-> v]
Removals(s)         == [i \in DOMAIN s |-> Message("remove", s[i], 0)]

\* setInnerGuards: dispatch -> layout -> components, which has none.
HasInner(g) == g # "components"
Inner(g)    == IF g = "dispatch" THEN "layout" ELSE "components"

\* BatchGuard::requestFlush(); `rest` is what the caller goes on with.
RequestFlush(g, rest) ==
    /\ \/ /\ depth[g] > 0 \/ flushing[g]
          /\ pending' = [pending EXCEPT ![g] = TRUE]
          /\ stack' = rest
       \/ /\ depth[g] = 0 /\ ~flushing[g]
          /\ stack' = Cons(Call("flush", g), rest)
          /\ UNCHANGED pending
    /\ UNCHANGED <<depth, flushing>>

\* BatchGuard::beginBatch() of g when the depths are d.
Cascades(d, g, h) ==
    CASE g = h -> TRUE
      [] HasInner(g) /\ h = Inner(g) -> d[g] = 0
      [] g = "dispatch" /\ h = "components" -> d[g] = 0 /\ d["layout"] = 0
      [] OTHER -> FALSE

Begin(d, g) == [h \in Guards |-> IF Cascades(d, g, h) THEN d[h] + 1 ELSE d[h]]
-----------------------------------------------------------------------------
(* Operations of the SurfaceCoordinator; each is wrapped in a BatchScope on *)
(* the dispatch guard.                                                      *)

StartOperation(d, calls) ==
    /\ stack = <<>> /\ ~gone
    /\ depth' = d
    /\ stack' = calls
    /\ overdue' = capped /\ capped' = FALSE /\ layouts' = 0 /\ bursts' = 0
    /\ UNCHANGED <<model, queue, dom, pendingDispatches, pending, flushing, gone, platform>>

\* Mutant: the coordinator opens no batch of its own.
BeginUpdate_NoOuterScope ==
    StartOperation(Begin(depth, "layout"), <<Call("body", "layout"), Call("end", "layout")>>)

\* updateComponents, updateDataModel, appendDataModel, syncUIToData and
\* invalidateFunctionCallValues: Surface opens the layout guard as well.
BeginUpdate ==
    StartOperation(Begin(Begin(depth, "dispatch"), "layout"),
                   <<Call("body", "layout"), Call("end", "layout"), Call("end", "dispatch")>>)

\* handleAction, and an updateComponents that Surface rejects.
BeginNoUpdate == StartOperation(Begin(depth, "dispatch"), <<Call("end", "dispatch")>>)

\* updateComponentSize, updateTabsSelectedIndex and notifySurfaceSizeChanged
\* lay out at once, not through the guard.
BeginLayoutNow ==
    StartOperation(Begin(Begin(depth, "dispatch"), "layout"),
                   <<Call("layout", "layout"), Call("end", "layout"), Call("end", "dispatch")>>)
-----------------------------------------------------------------------------
(* The body of an update: ComponentManager. *)

\* Append to _dirtyOrder what _dirtyIndex does not hold of the items K, in some
\* order, and of c.
Enqueue(K, c) ==
    /\ \E items \in SetToSeqs(K \ dirtyIndex) :
          dirtyOrder' = (dirtyOrder \o items) \o (IF c \in dirtyIndex THEN <<>> ELSE <<c>>)
    /\ dirtyIndex' = dirtyIndex \cup K \cup {c}

Changing ==
    /\ At("body")
    /\ changes < MaxChanges /\ changes' = changes + 1
    /\ UNCHANGED <<dom, pendingDispatches, gone, platform, history>>

\* The items K and then c get new content and are marked dirty.
MarkDirty(K, c) ==
    /\ version' = [d \in Ids |-> IF d \in K \cup {c} THEN version[d] + 1 ELSE version[d]]
    /\ dirty' = dirty \cup K \cup {c}
    /\ Enqueue(K, c)
    /\ RequestFlush("components", stack)

\* addComponent() of a component other than the root.
Define(c) ==
    /\ Changing
    /\ components' = components \cup {c}
    /\ MarkDirty({}, c)
    /\ UNCHANGED <<listed, bound>>

\* A root with explicit children, whether they are defined yet or not.
DefineRoot(K) ==
    /\ Changing
    /\ components' = components \cup {Root}
    /\ listed' \in SetToSeqs(K) /\ bound' = FALSE
    /\ MarkDirty({}, Root)

\* A root with a list template: generateListChildren() adds the items first.
DefineListRoot(K) ==
    /\ Changing
    /\ components' = components \cup {Root} \cup K
    /\ listed' \in SetToSeqs(K) /\ bound' = TRUE
    /\ MarkDirty(K, Root)

\* The data behind an attribute changes: onComponentChanged().
Touch(c) ==
    /\ Changing
    /\ c \in components
    /\ MarkDirty({}, c)
    /\ UNCHANGED <<components, listed, bound>>

\* The list data grows: generateListChildren() adds the new items.
Grow(K) ==
    /\ Changing
    /\ bound
    /\ K # {} /\ K \cap Listed = {}
    /\ components' = components \cup K
    /\ \E items \in SetToSeqs(K) : listed' = listed \o items
    /\ MarkDirty(K, Root)
    /\ UNCHANGED bound

\* The list data shrinks: onComponentDeleted() for the items that go, whose
\* ids stay in _dirtyOrder.
Shrink(K) ==
    /\ Changing
    /\ bound
    /\ K # {} /\ K \subseteq Listed
    /\ components' = components \ K
    /\ listed' \in InOrder(Listed \ K, listed)
    /\ version' = [version EXCEPT ![Root] = @ + 1]
    /\ dirty' = (dirty \ K) \cup {Root}
    /\ dirtyOrder' = IF Root \in dirtyIndex THEN dirtyOrder ELSE Append(dirtyOrder, Root)
    /\ dirtyIndex' = (dirtyIndex \ K) \cup {Root}
    /\ RequestFlush("components", stack)
    /\ UNCHANGED bound

BodyEnd ==
    /\ At("body")
    /\ stack' = Caller
    /\ UNCHANGED <<model, queue, dom, pendingDispatches, guards, gone, platform, history>>
-----------------------------------------------------------------------------
(* BatchGuard. *)

\* What the outermost endBatch() of g has still to do.
Closing(g) ==
    IF HasInner(g) THEN Cons(Call("end", Inner(g)), Cons(Call("close", g), Caller))
                   ELSE Cons(Call("close", g), Caller)

\* Mutant: the depth goes down before the inner guards are closed.
EndBatch_DepthFirst ==
    /\ At("end")
    /\ LET g == Head(stack).guard
       IN  /\ depth' = [depth EXCEPT ![g] = IF @ = 0 THEN 0 ELSE @ - 1]
           /\ stack' = IF depth[g] = 1 THEN Closing(g) ELSE Caller
    /\ UNCHANGED <<model, queue, dom, pendingDispatches, pending, flushing, gone, platform, history>>

\* endBatch(): the outermost one closes the inner guards first, at depth 1.
EndBatch ==
    /\ At("end")
    /\ LET g == Head(stack).guard
       IN  \/ /\ depth[g] = 1
              /\ stack' = Closing(g)
              /\ UNCHANGED depth
           \/ /\ depth[g] # 1
              /\ depth' = [depth EXCEPT ![g] = IF @ = 0 THEN 0 ELSE @ - 1]
              /\ stack' = Caller
    /\ UNCHANGED <<model, queue, dom, pendingDispatches, pending, flushing, gone, platform, history>>

CloseBatch ==
    /\ At("close")
    /\ LET g == Head(stack).guard
       IN  /\ depth' = [depth EXCEPT ![g] = IF @ = 0 THEN 0 ELSE @ - 1]
           /\ stack' = IF pending[g] THEN Cons(Call("flush", g), Caller) ELSE Caller
    /\ UNCHANGED <<model, queue, dom, pendingDispatches, pending, flushing, gone, platform, history>>

Callback(g) == CASE g = "components" -> "collect"
                 [] g = "layout"     -> "layout"
                 [] g = "dispatch"   -> "take"

\* One pass of flush(): _pendingFlush is reset, then the callback is called.
Flush ==
    /\ At("flush")
    /\ LET g == Head(stack).guard
       IN  /\ pending' = [pending EXCEPT ![g] = FALSE]
           /\ flushing' = [flushing EXCEPT ![g] = TRUE]
           /\ stack' = Cons(Call(Callback(g), g), Cons([Head(stack) EXCEPT !.at = "flushed"], Caller))
    /\ UNCHANGED <<model, queue, dom, pendingDispatches, depth, gone, platform, history>>

\* Mutant: one pass only.
Flushed_NoLoop ==
    /\ At("flushed")
    /\ flushing' = [flushing EXCEPT ![Head(stack).guard] = FALSE]
    /\ stack' = Caller
    /\ UNCHANGED <<model, queue, dom, pendingDispatches, depth, pending, gone, platform, history>>

\* Mutant: as many passes as are asked for.
Flushed_NoCap ==
    /\ At("flushed")
    /\ LET g == Head(stack).guard
       IN  \/ /\ pending[g]
              /\ stack' = Cons([Head(stack) EXCEPT !.at = "flush"], Caller)
              /\ UNCHANGED flushing
           \/ /\ ~pending[g]
              /\ stack' = Caller
              /\ flushing' = [flushing EXCEPT ![g] = FALSE]
    /\ UNCHANGED <<model, queue, dom, pendingDispatches, depth, pending, gone, platform, history>>

\* The end of a pass: again if a flush was requested meanwhile, up to the cap.
Flushed ==
    /\ At("flushed")
    /\ LET g == Head(stack).guard
           n == Head(stack).pass + 1
       IN  \/ /\ pending[g] /\ n < MaxPasses
              /\ stack' = Cons([Call("flush", g) EXCEPT !.pass = n], Caller)
              /\ UNCHANGED <<flushing, capped>>
           \/ /\ ~pending[g] \/ n >= MaxPasses
              /\ stack' = Caller
              /\ flushing' = [flushing EXCEPT ![g] = FALSE]
              /\ capped' = (capped \/ pending[g])
    /\ UNCHANGED <<model, queue, dom, pendingDispatches, depth, pending, gone, platform,
                   overdue, layouts, bursts>>
-----------------------------------------------------------------------------
(* ComponentManager::flushDirtyComponents() and VirtualDOM::updateNode(). *)

CollectDirty ==
    /\ At("collect")
    /\ stack' = Cons(CallOn("components", dirtyOrder), Caller)
    /\ dirtyOrder' = <<>> /\ dirtyIndex' = {}
    /\ UNCHANGED <<model, dom, pendingDispatches, guards, gone, platform, history>>

NextTodo == Cons([Head(stack) EXCEPT !.todo = Tail(@)], Caller)

\* Deleted since, or not dirty any more.
SkipComponent ==
    /\ At("components")
    /\ Head(stack).todo # <<>>
    /\ Head(Head(stack).todo) \notin components \cap dirty
    /\ stack' = NextTodo
    /\ UNCHANGED <<model, queue, dom, pendingDispatches, guards, gone, platform, history>>

\* flushDirty() rebuilds the snapshot of c, which may change other components.
Rebuild(c) ==
    \/ /\ dirty' = dirty \ {c}
       /\ UNCHANGED <<queue, pending, version, changes>>
    \/ /\ c \in Echo
       /\ \E e \in components \ {c} :
             /\ dirty' = (dirty \ {c}) \cup {e}
             /\ Enqueue({}, e)
             /\ \/ /\ changes < MaxChanges /\ changes' = changes + 1
                   /\ version' = [version EXCEPT ![e] = @ + 1]
                \/ UNCHANGED <<changes, version>>
       /\ pending' = [pending EXCEPT !["components"] = TRUE]

\* Of updateChildren(): going along the list, every node in front of the listed
\* one is destroyed; so a node stays only if no node listed before it is new or
\* stood behind it.
Stay ==
    {listed[n] : n \in {n \in DOMAIN listed :
        /\ \A i \in 1..n : listed[i] \in Nodes
        /\ \A i, j \in 1..n : i < j =>
               \E k, l \in DOMAIN nodes : k < l /\ nodes[k] = listed[i] /\ nodes[l] = listed[j]}}

Destroyed == Nodes \ Stay

\* Mutant: what is destroyed is not stashed.
Restored_NoStash == {}

\* A child that is listed but did not stay gets a new node, from its stashed
\* snapshot, whose layout styles setSnapshot() had cleared.
Restored == {k \in Listed \cap Destroyed : snap[k] # 0}

\* A node without a snapshot looks for an orphan.
Taken == {k \in Listed : orphan[k] # 0 /\ (k \notin Nodes \/ snap[k] = 0)}

\* updateNode() of the root: setSnapshot() and updateChildren().  A child that
\* is not listed takes its snapshot with it.
UpdateRootNode ==
    /\ nodes' = listed
    /\ snap' = [c \in Ids |-> IF c = Root THEN version[Root]
                              ELSE IF c \in Taken THEN orphan[c]
                              ELSE IF c \in Stay \cup Restored THEN snap[c] ELSE 0]
    /\ orphan' = [c \in Ids |-> IF c \in Taken THEN 0 ELSE orphan[c]]
    /\ newLayout' = (newLayout \ Destroyed) \cup {Root} \cup Taken \cup Restored
    /\ shown' = shown \ Destroyed
    /\ lost' = lost \cup (Nodes \ Listed)
    /\ stripped' = (stripped \ Taken) \cup Restored

\* updateNode() of any other component.
UpdateChildNode(c) ==
    /\ \/ /\ c \in Nodes
          /\ snap' = [snap EXCEPT ![c] = version[c]]
          /\ newLayout' = newLayout \cup {c}
          /\ UNCHANGED orphan
       \/ /\ c \notin Nodes
          /\ orphan' = [orphan EXCEPT ![c] = version[c]]
          /\ UNCHANGED <<snap, newLayout>>
    /\ lost' = lost \ {c} /\ stripped' = stripped \ {c}
    /\ UNCHANGED <<nodes, shown>>

\* Mutant: a node that was never shown reports its removal as well.
UpdateNode_RemovesUnshown(c) ==
    /\ IF c = Root THEN UpdateRootNode ELSE UpdateChildNode(c)
    /\ \E removed \in InOrder(IF c = Root THEN Destroyed ELSE {}, nodes) :
          stack' = Cons(CallOn("emit", Removals(removed)), Cons(Call("request", "layout"), NextTodo))

\* Nodes destroyed by updateNode() report their removal, then updateNode()
\* requests a layout pass.
UpdateNode(c) ==
    /\ IF c = Root THEN UpdateRootNode ELSE UpdateChildNode(c)
    /\ \E removed \in InOrder(IF c = Root THEN shown \cap Destroyed ELSE {}, nodes) :
          stack' = Cons(CallOn("emit", Removals(removed)), Cons(Call("request", "layout"), NextTodo))

FlushComponent ==
    /\ At("components")
    /\ Head(stack).todo # <<>>
    /\ LET c == Head(Head(stack).todo)
       IN  /\ c \in components \cap dirty
           /\ Rebuild(c)
           /\ UpdateNode(c)
    /\ UNCHANGED <<components, listed, bound, pendingDispatches, depth, flushing, gone, platform,
                   history>>

RequestLayout ==
    /\ At("request")
    /\ RequestFlush(Head(stack).guard, Caller)
    /\ UNCHANGED <<model, queue, dom, pendingDispatches, gone, platform, history>>
-----------------------------------------------------------------------------
(* VirtualDOM: calculateLayoutWithAdjust() and checkAndNotifyLayoutChanges(). *)

\* The walk stops at a node without a snapshot.
Visited == IF snap[Root] = 0 THEN {} ELSE {Root} \cup {c \in Nodes : snap[c] # 0}

Changes(s) ==
    [i \in DOMAIN s |-> Message(IF s[i] \in shown THEN "update" ELSE "add", s[i], snap[s[i]])]

\* The walk takes the root first and the children in their order; of the nodes
\* in `moved` the layout changes although their content did not.
Layout ==
    /\ At("layout")
    /\ \E moved \in SUBSET (Visited \cap shown) :
          \E s \in InOrder((newLayout \cap Visited) \cup (Visited \ shown) \cup moved,
                           Cons(Root, nodes)) :
             stack' = Cons(CallOn("emit", Changes(s)), Caller)
    /\ shown' = shown \cup Visited
    /\ newLayout' = newLayout \ Visited
    /\ layouts' = layouts + 1
    /\ UNCHANGED <<model, queue, nodes, snap, orphan, lost, stripped, pendingDispatches, guards, gone,
                   platform, capped, overdue, bursts>>
-----------------------------------------------------------------------------
(* Surface: onNodeAdded(), onNodeUpdate(), onNodeRemoved() and              *)
(* flushPendingDispatches().                                                *)

Emit ==
    /\ At("emit")
    /\ Head(stack).todo # <<>>
    /\ pendingDispatches' = Append(pendingDispatches, Head(Head(stack).todo))
    /\ RequestFlush("dispatch", NextTodo)
    /\ UNCHANGED <<model, queue, dom, gone, platform, history>>

TakeDispatches ==
    /\ At("take")
    /\ stack' = Cons(CallOn("dispatch", pendingDispatches), Caller)
    /\ pendingDispatches' = <<>>
    /\ bursts' = IF pendingDispatches = <<>> THEN bursts ELSE bursts + 1
    /\ UNCHANGED <<model, queue, dom, guards, gone, platform, capped, overdue,
                   layouts>>

\* The platform applies messages of one kind.
Applied(p, run) ==
    [c \in Ids |-> LET about == {i \in DOMAIN run : run[i].id = c}
                   IN  IF about = {} THEN p[c] ELSE run[Max(about)].ver]

\* One listener call per maximal run of the same kind.
DispatchRun ==
    /\ At("dispatch")
    /\ LET todo == Head(stack).todo
       IN  \E n \in 1..Len(todo) :
              /\ \A i \in 1..n : todo[i].kind = todo[1].kind
              /\ n < Len(todo) => todo[n + 1].kind # todo[1].kind
              /\ platform' = Applied(platform, SubSeq(todo, 1, n))
              /\ stack' = Cons([Head(stack) EXCEPT !.todo = SubSeq(todo, n + 1, Len(todo))], Caller)
    /\ UNCHANGED <<model, queue, dom, pendingDispatches, guards, gone, history>>

Return ==
    /\ At("components") \/ At("emit") \/ At("dispatch")
    /\ Head(stack).todo = <<>>
    /\ stack' = Caller
    /\ UNCHANGED <<model, queue, dom, pendingDispatches, guards, gone, platform, history>>
-----------------------------------------------------------------------------
\* The orders in which the nodes of S may be destroyed.
RootFirst(S) == {s \in SetToSeqs(S) : Root \in S => s[1] = Root}

\* ~Surface(): the guards are detached, the components go without a word and
\* every node that was shown reports its removal, the root first, in no batch.
DestroySurface ==
    /\ stack = <<>> /\ ~gone
    /\ gone' = TRUE
    /\ \E s \in RootFirst(shown) : stack' = <<CallOn("emit", Removals(s))>>
    /\ components' = {} /\ listed' = <<>> /\ dirty' = {} /\ dirtyOrder' = <<>> /\ dirtyIndex' = {}
    /\ nodes' = <<>> /\ snap' = None /\ orphan' = None /\ newLayout' = {} /\ shown' = {}
    /\ UNCHANGED <<version, bound, changes, lost, stripped, pendingDispatches, guards, platform, history>>

Change == \/ \E c \in Children : Define(c)
          \/ \E K \in SUBSET Children : DefineRoot(K)
          \/ \E K \in SUBSET Items : DefineListRoot(K) \/ Grow(K) \/ Shrink(K)
          \/ \E c \in Ids : Touch(c)

Run == \/ BodyEnd \/ EndBatch \/ CloseBatch \/ Flush \/ Flushed
       \/ CollectDirty \/ SkipComponent \/ FlushComponent \/ RequestLayout \/ Layout
       \/ Emit \/ TakeDispatches \/ DispatchRun \/ Return

Next == BeginUpdate \/ BeginNoUpdate \/ BeginLayoutNow \/ DestroySurface \/ Change \/ Run

Spec == Init /\ [][Next]_vars

\* The thread goes on executing the call it is in.
FairSpec == Spec /\ WF_vars(Run)
-----------------------------------------------------------------------------
(* Safety. *)

Idle == stack = <<>>

\* When an operation has returned no batch is open and nothing waits for a
\* flush: no dirty component, no layout, no message; only an operation whose
\* flush hit the cap leaves work behind, and the next one does it.  Batches
\* never nest deeper than Surface and its coordinator make them.
Settled ==
    /\ \A g \in Guards : depth[g] \in 0..2 /\ (g = "components" => depth[g] <= 1)
    /\ Idle =>
            /\ \A g \in Guards : depth[g] = 0 /\ ~flushing[g]
            /\ capped \/ /\ \A g \in Guards : ~pending[g]
                         /\ dirty = {} /\ dirtyOrder = <<>> /\ dirtyIndex = {}
                         /\ newLayout \cap Visited = {}
                         /\ pendingDispatches = <<>>

\* What the platform should show of c when nothing is pending.
Expected(c) ==
    IF Root \in components /\ (c = Root \/ c \in Listed \cap components) THEN version[c] ELSE 0

\* When an operation has returned the platform shows the latest content of the
\* root and of every defined child it lists, and nothing else, whatever was
\* defined, listed, reordered, changed, removed and added again in the batches
\* before.  A child whose node went with its snapshot, because a root left it
\* out, may be missing until it is rebuilt.  Content is what the component
\* shows; the place and size it gets are LayoutStylesAreKept's.
MirrorsModel ==
    Idle /\ ~capped =>
        \A c \in Ids : platform[c] = Expected(c) \/ (platform[c] = 0 /\ c \in lost)

\* updateChildren(): a child that moves is "restored from stash": a component
\* that is shown is laid out by the styles of its latest snapshot.
LayoutStylesAreKept ==
    Idle /\ ~capped => \A c \in Ids : platform[c] # 0 => c \notin stripped

\* What the innermost call of the kind has yet to do.
TodoOf(at) ==
    LET calls == {i \in DOMAIN stack : stack[i].at = at}
    IN  IF calls = {} THEN <<>> ELSE stack[Min(calls)].todo

\* The messages the platform has yet to see, in the order it will see them.
InFlight == (TodoOf("dispatch") \o pendingDispatches) \o TodoOf("emit")

\* Is c shown by a platform that has applied the first n of them?
ShownAfter(n, c) == Applied(platform, SubSeq(InFlight, 1, n))[c] # 0

\* Every message makes sense to the platform that gets it: an add is of a
\* component not shown whose parent is, an update or a removal is of one that
\* is shown, although emission and dispatch are batched apart.
MessagesMakeSense ==
    \A i \in DOMAIN InFlight :
        LET m == InFlight[i]
        IN  IF m.kind = "add"
            THEN /\ ~ShownAfter(i - 1, m.id)
                 /\ m.id = Root \/ ShownAfter(i - 1, Root)
            ELSE ShownAfter(i - 1, m.id)

\* IVirtualDOM: a batch "emits a single consolidated notification when the
\* outermost batch closes": one operation lays out at most once and sends its
\* messages in one burst, however many components it changes.
OneLayoutOneBurst == ~gone => (layouts <= 1 \/ overdue) /\ bursts <= 1

\* The platform is told nothing before every dirty component was flushed and
\* laid out (unless the cap was hit).
DispatchComesLast ==
    [][platform' # platform /\ ~gone =>
          /\ \A g \in Guards : depth[g] = 0
          /\ capped \/ (dirty = {} /\ ~pending["components"] /\ ~pending["layout"])]_vars

(* Liveness. *)

\* An operation ends, even if rebuilding one component always dirties another.
OperationEnds == stack # <<>> ~> stack = <<>>
=============================================================================
