----------------------------- MODULE DataBinding -----------------------------
(***************************************************************************)
(* From a change of the data to the content of the nodes: DataModel with    *)
(* its binding table, ComponentManager with the list a template is          *)
(* repeated for, the snapshots of ComponentModel and the rules by which     *)
(* VirtualDOM takes a snapshot over                                         *)
(* (surface/datamodel/agenui_data_model.cpp, component_manager/,            *)
(* virtual_dom/agenui_virtual_dom.cpp).                                     *)
(*                                                                         *)
(* A call notifies the observers one after the other, each of which may     *)
(* create and destroy others; what it marked dirty is flushed when the call *)
(* ends (SurfacePipeline has the batches that see to it).                   *)
(*                                                                         *)
(* The surface: the root has a list, bound to the array "/items", and a     *)
(* card, expanded from a template, with a text bound to "/title".  The      *)
(* list repeats the component Tmpl for every element.  A value is a         *)
(* sequence of pieces, so that a string can be streamed into it.            *)
(***************************************************************************)
EXTENDS Integers, SequencesExt, FiniteSetsExt

CONSTANTS
    Items,     \* ids of the list's children, by index
    Cells,     \* the paths of the elements of "/items", by index
    Extra,     \* the absolute paths Tmpl is bound to besides its element
    Pieces,
    MaxChanges \* bound: definitions of components and changes of data

Fixed  == {"root", "list", "card", "text", "tmpl"}
Ids    == Fixed \cup ToSet(Items)
InOrder == <<"card">> \o Items \o <<"list", "root", "text", "tmpl">>   \* that of a std::map
Paths  == <<"/items">> \o Cells \o <<"/title">>     \* in the order of a std::map
AllPaths == ToSet(Paths)
Index(i) == CHOOSE n \in DOMAIN Items : Items[n] = i
IsItem(c) == c \in ToSet(Items)

ASSUME BindingAssumption ==
    /\ Items \in Seq(ToSet(Items)) /\ Cells \in Seq(ToSet(Cells)) /\ Len(Items) = Len(Cells)
    /\ IsInjective(Items) /\ ToSet(Items) \cap Fixed = {}
    /\ IsInjective(Cells) /\ ToSet(Cells) \cap {"all", "children", "/", "/items", "/title"} = {}
    /\ Extra \subseteq {"/items", "/title"}
    /\ MaxChanges \in Nat

VARIABLES
    data,      \* DataModel::_impl->root
    m,         \* the components: see Init
    current,   \* _currentSnapshot of each component
    dom,       \* VirtualDOM: the snapshots of the nodes and the orphans
    pc,        \* "idle", "notify", "flush"
    changed, appending, \* the path of the notification, and its appendMode
    at,        \* index in Paths of the entry being notified
    todo,      \* uniqueObservers: the observers of it still to be called
    platform,  \* the text the platform shows
    dangling,  \* history: an observer was called after its destruction
    surplus,   \* history: the list shrank by more than one at a time
    changes

notification == <<changed, appending, at, todo>>
history == <<surplus, changes>>
vars == <<data, m, current, dom, pc, notification, platform, dangling, history>>

NoSnapshot == [ver |-> 0, vals |-> <<>>, kids |-> <<>>, status |-> "None", append |-> FALSE]

Init ==
    /\ data = [has |-> {}, title |-> <<>>, items |-> <<>>]
    /\ m = [alive  |-> {},                               \* keys of _components
            table  |-> [p \in AllPaths |-> {}],          \* _bindingTable
            made   |-> [c \in Ids |-> 0],                \* the definition a component has its attributes from
            kids   |-> <<>>,                             \* _children of the list
            dirty  |-> [c \in Ids |-> {}],               \* _dirtyAttributes; "all" is the empty name
            append |-> {},                               \* with _dirtyAppendMode
            order  |-> <<>>, index |-> {}]               \* _dirtyOrder, _dirtyIndex
    /\ current = [c \in Ids |-> NoSnapshot]
    /\ dom = [snap |-> [c \in Ids |-> NoSnapshot], orphan |-> [c \in Ids |-> NoSnapshot]]
    /\ pc = "idle"
    /\ changed = "none" /\ appending = FALSE /\ at = 0 /\ todo = {}
    /\ platform = <<>>
    /\ dangling = FALSE /\ surplus = FALSE /\ changes = 0
-----------------------------------------------------------------------------
(* DataModel. *)

\* getValue(), as a sequence of at most one value.
GetValue(p) ==
    CASE p = "/items" -> IF p \in data.has THEN <<data.items>> ELSE <<>>
      [] p = "/title" -> IF p \in data.has THEN <<data.title>> ELSE <<>>
      [] OTHER -> LET i == CHOOSE n \in DOMAIN Cells : Cells[n] = p
                  IN  IF i \in DOMAIN data.items THEN <<data.items[i]>> ELSE <<>>

IsSubPathOrEqual(path, parent) ==
    path = parent \/ parent = "/" \/ (parent = "/items" /\ path \in ToSet(Cells))

Affected(p) == IsSubPathOrEqual(p, changed) \/ IsSubPathOrEqual(changed, p)

Bind(t, p, c)   == [t EXCEPT ![p] = @ \cup {c}]
Unbind(t, p, c) == [t EXCEPT ![p] = @ \ {c}]
-----------------------------------------------------------------------------
(* ComponentManager and ComponentModel, as operators on the value of m. *)

\* The paths the observers of c are bound to.
BoundPaths(c) == CASE c = "text" -> {"/title"}
                   [] c = "list" -> {"/items"}
                   [] c = "tmpl" -> Extra
                   [] IsItem(c)  -> {Cells[Index(c)]} \cup Extra
                   [] OTHER      -> {}

\* The members of S in seq, in their order.
Among(seq, S) ==
    LET places  == {n \in DOMAIN seq : seq[n] \in S}
        Rank(n) == Cardinality({k \in places : k <= n})
    IN  [r \in 1..Cardinality(places) |-> seq[CHOOSE n \in places : Rank(n) = r]]

\* onComponentChanged() of one component after the other, after markDirty().
Enqueue(x, cs) ==
    LET new == Among(cs, x.alive \ x.index)
    IN  [x EXCEPT !.order = @ \o new, !.index = @ \cup ToSet(new)]

\* Mutant: the attribute takes the place of "all".
MarkDirtyAttribute(x, c, attribute, append) ==
    [x EXCEPT !.dirty[c] = {attribute}, !.append = IF append THEN @ \cup {c} ELSE @]

\* markDirty(): "all" absorbs every attribute.
MarkDirty(x, c, attribute, append) ==
    [x EXCEPT !.dirty[c] = IF attribute = "all" THEN {"all"} ELSE IF @ = {"all"} THEN @ ELSE @ \cup {attribute},
              !.append = IF append THEN @ \cup {c} ELSE @]

NotifyComponentChange(x, c, attribute, append) == Enqueue(MarkDirty(x, c, attribute, append), <<c>>)

\* addComponent() of one component after the other: a new model is dirty as a
\* whole; one it replaces is destroyed and unbinds, so that the table holds the
\* new one's observers.
AddComponents(x, cs) ==
    Enqueue([x EXCEPT !.alive = @ \cup ToSet(cs), !.append = @ \ ToSet(cs),
                      !.dirty = [c \in Ids |-> IF c \in ToSet(cs) THEN {"all"} ELSE @[c]],
                      !.table = [p \in AllPaths |-> (@[p] \ ToSet(cs)) \cup {c \in ToSet(cs) : p \in BoundPaths(c)}]],
            cs)
AddComponent(x, c) == AddComponents(x, <<c>>)

\* Mutant: the bindings of a component outlive it.
OnComponentDeletedBound(x, C) ==
    [x EXCEPT !.alive = @ \ C, !.index = @ \ C, !.append = @ \ C,
              !.dirty = [c \in Ids |-> IF c \in C THEN {} ELSE @[c]]]

\* onComponentDeleted() of the components C: a model goes, with its bindings.
OnComponentDeleted(x, C) ==
    [x EXCEPT !.alive = @ \ C, !.index = @ \ C, !.append = @ \ C,
              !.dirty = [c \in Ids |-> IF c \in C THEN {} ELSE @[c]],
              !.table = [p \in AllPaths |-> @[p] \ C]]

\* generateComponentWithTemplate() of one clone after the other.  A clone has the
\* attributes the template has at the time.  It is first bound to the observer of
\* the original, then to its own, which takes the original's out of the table where
\* both have the same path.
GenerateComponentWithTemplate(x, cs) ==
    IF cs = <<>> THEN x
    ELSE AddComponents([x EXCEPT !.table = [p \in AllPaths |-> IF p \in Extra THEN @[p] \ {"tmpl"} ELSE @[p]],
                                 !.made  = [c \in Ids |-> IF c \in ToSet(cs) THEN @["tmpl"] ELSE @[c]]], cs)

\* The elements that have no child yet get one, if there is a template.
Grow(x) ==
    LET new == IF "tmpl" \in x.alive THEN SubSeq(Items, Len(x.kids) + 1, Len(data.items)) ELSE <<>>
    IN  [GenerateComponentWithTemplate(x, new) EXCEPT !.kids = @ \o new]

\* The children behind the last element are erased from the front; the child
\* behind one that was erased takes its place and is not looked at.
Shrink(x) ==
    LET n    == Len(data.items)
        last == Len(x.kids)
    IN  IF last <= n THEN x
        ELSE [OnComponentDeleted(x, {x.kids[k] : k \in {k \in (n + 1)..last : (k - n) % 2 = 1}})
                 EXCEPT !.kids = [k \in 1..(n + (last - n) \div 2) |-> x.kids[IF k <= n THEN k ELSE 2 * k - n]]]

\* Mutant: nothing is done for a list that only grew shorter.
GenerateListChildrenGrows(x) ==
    IF Len(x.kids) >= Len(data.items) THEN x
    ELSE NotifyComponentChange(Grow(x), "list", "children", FALSE)

\* generateListChildren().
GenerateListChildren(x) ==
    IF "/items" \notin data.has \/ Len(x.kids) = Len(data.items) THEN x
    ELSE NotifyComponentChange(Shrink(Grow(x)), "list", "children", FALSE)

\* parseComponent() and addComponent() of c, tryUpdateTemplate(): the elements
\* that have a child keep it as it was cloned.
ReplaceComponent(x, c) ==
    CASE c = "list" -> AddComponent(GenerateListChildren([x EXCEPT !.kids = <<>>]), c)
      [] c = "tmpl" -> IF "list" \in x.alive THEN GenerateListChildren(AddComponent(x, c))
                       ELSE AddComponent(x, c)
      [] OTHER      -> AddComponent(x, c)

\* updateComponents() with c: it has the attributes of its new definition.
DefineComponent(x, c) == ReplaceComponent([x EXCEPT !.made[c] = @ + 1], c)

\* The shrink loop leaves some of two or more.
LeavesSurplus(x, d) == Len(x.kids) > Len(d) + 1
-----------------------------------------------------------------------------
(* ComponentModel::flushDirty() and VirtualDOM::updateNode(). *)

AggregateBindingStatus(c) ==
    LET ready == {GetValue(p) # <<>> : p \in BoundPaths(c)}
    IN  CASE ready = {}      -> "NotDependent"
          [] ready = {TRUE}  -> "FullyReady"
          [] ready = {FALSE} -> "NotReady"
          [] OTHER           -> "PartiallyReady"

Children(c) == CASE c = "root" -> <<"card", "list">>
                 [] c = "card" -> <<"text">>
                 [] c = "list" -> m.kids
                 [] OTHER      -> <<>>

Attributes(c) == IF c = "list" THEN {} ELSE BoundPaths(c)

\* updateSnapshot() of every attribute.
FullSnapshot(c) ==
    [ver |-> m.made[c], vals |-> [p \in Attributes(c) |-> GetValue(p)],
     kids |-> Children(c), status |-> AggregateBindingStatus(c), append |-> FALSE]

\* Only the dirty attributes are read again, but the status always is.
\* clearDirty() resets appendMode before the snapshot is handed over.
Snapshot(c) ==
    LET full == FullSnapshot(c)
        old  == current[c]
    IN  IF m.dirty[c] = {"all"} THEN full
        ELSE [old EXCEPT !.vals = [p \in DOMAIN @ |-> IF p \in m.dirty[c] THEN full.vals[p] ELSE @[p]],
                         !.kids = IF "children" \in m.dirty[c] THEN full.kids ELSE @,
                         !.status = full.status, !.append = FALSE]

DisplayRule(c) == IF c = "card" THEN "AnyDataReady" ELSE "Always"

\* Looks for the children among the orphans only.
AnyChildReady(d, s) ==
    \E k \in ToSet(s.kids) : d.orphan[k].status \in {"FullyReady", "PartiallyReady"}
NoChildDepends(d, s) == \A k \in ToSet(s.kids) : d.orphan[k].status = "NotDependent"

\* checkCanDisplay(), for a tree in which only leaves are below the card.
CheckCanDisplay(d, c, s) ==
    /\ s.status \in {"FullyReady", "NotDependent"}
    /\ DisplayRule(c) = "AnyDataReady" =>
          s.status = "FullyReady" \/ AnyChildReady(d, s) \/ NoChildDepends(d, s)

\* The nodes of the tree: a node with a snapshot has a node for every child.
\* No child has grandchildren.
Kids(d, c)   == ToSet(d.snap[c].kids)
Below(d, c)  == {c} \cup Kids(d, c) \cup UNION {Kids(d, k) : k \in Kids(d, c)}
InTree(d, c) == c \in Below(d, "root")

\* Those of C that have no snapshot and take their orphan, if it may be shown.
Adopting(d, C) ==
    {k \in C : d.snap[k] = NoSnapshot /\ d.orphan[k] # NoSnapshot /\ CheckCanDisplay(d, k, d.orphan[k])}

\* setSnapshot() and updateChildren(): what is not listed any more goes with
\* its snapshot, the children adopt, and so do the children of those that did.
SetSnapshot(d, c, s) ==
    LET gone  == UNION {Below(d, k) : k \in Kids(d, c) \ ToSet(s.kids)}
        kept  == [d EXCEPT !.snap = [k \in Ids |-> IF k = c THEN s ELSE IF k \in gone THEN NoSnapshot ELSE @[k]]]
        first == Adopting(kept, ToSet(s.kids))
        taken == first \cup Adopting(kept, UNION {ToSet(kept.orphan[k].kids) : k \in first})
    IN  [snap   |-> [k \in Ids |-> IF k \in taken THEN kept.orphan[k] ELSE kept.snap[k]],
         orphan |-> [k \in Ids |-> IF k \in taken THEN NoSnapshot ELSE kept.orphan[k]]]

\* tryAttachReadyOrphans(): of the orphans with a rule of their own.
TryAttachReadyOrphans(d) ==
    LET s == d.orphan["card"]
    IN  IF s # NoSnapshot /\ CheckCanDisplay(d, "card", s) /\ InTree(d, "card")
        THEN [SetSnapshot(d, "card", s) EXCEPT !.orphan["card"] = NoSnapshot]
        ELSE d

UpdateNode(d, c, s) ==
    IF c = "root" THEN SetSnapshot(d, c, s)
    ELSE IF InTree(d, c) /\ CheckCanDisplay(d, c, s) THEN SetSnapshot(d, c, s)
    ELSE TryAttachReadyOrphans([d EXCEPT !.orphan[c] = s])
-----------------------------------------------------------------------------
(* The calls of the coordinator. *)

Change == pc = "idle" /\ changes < MaxChanges /\ changes' = changes + 1

\* updateComponents() with one component, or with the expanded card.
UpdateComponents(c) ==
    /\ Change
    /\ m' = IF c = "card" THEN DefineComponent(DefineComponent(m, "card"), "text") ELSE DefineComponent(m, c)
    /\ pc' = "flush"
    /\ UNCHANGED <<data, current, dom, notification, platform, dangling, surplus>>

Notify(path, append) ==
    /\ changed' = path /\ appending' = append /\ at' = 0 /\ todo' = {}
    /\ pc' = "notify"
    /\ UNCHANGED <<m, current, dom, platform, dangling>>

SetItems(path, items) ==
    /\ Change
    /\ data' = [data EXCEPT !.items = items, !.has = @ \cup {"/items"}]
    /\ surplus' = (surplus \/ LeavesSurplus(m, items))
    /\ Notify(path, FALSE)

SetTitle(path, value) ==
    /\ data' = [data EXCEPT !.title = value, !.has = @ \cup {"/title"}]
    /\ UNCHANGED surplus
    /\ Notify(path, FALSE)

\* updateData() of the array, of one of its elements, and of the root, in
\* which an array takes the place of the one that was there; syncUIToData() of
\* the text comes to UpdateTitle.
UpdateItems(path, items) ==
    /\ path \in {"/", "/items"}
    /\ SetItems(path, items)
UpdateCell(i, value) ==
    /\ i \in DOMAIN data.items
    /\ SetItems(Cells[i], [data.items EXCEPT ![i] = value])
UpdateTitle(path, piece) ==
    /\ Change
    /\ path \in {"/", "/title"}
    /\ SetTitle(path, <<piece>>)

\* appendData(): recursiveMergeAppend() puts the piece in the place of the
\* string.
AppendData(piece) ==
    /\ Change
    /\ "/title" \in data.has
    /\ data' = [data EXCEPT !.title = <<piece>>]
    /\ UNCHANGED surplus
    /\ Notify("/title", TRUE)

\* invalidateFunctionCallValues(): every component is rebuilt.
InvalidateFunctionCallValues ==
    /\ Change
    /\ m' = Enqueue([m EXCEPT !.dirty = [c \in Ids |-> IF c \in m.alive THEN {"all"} ELSE @[c]]], InOrder)
    /\ pc' = "flush"
    /\ UNCHANGED <<data, current, dom, notification, platform, dangling, surplus>>
-----------------------------------------------------------------------------
(* notifyAffectedObservers(). *)

\* The next entry of the table, as it is now; its observers are copied.
NextEntry ==
    LET next == {i \in (at + 1)..Len(Paths) : Affected(Paths[i]) /\ m.table[Paths[i]] # {}}
    IN  /\ pc = "notify" /\ todo = {} /\ next # {}
        /\ at' = Min(next)
        /\ todo' = m.table[Paths[Min(next)]]
        /\ UNCHANGED <<data, m, current, dom, pc, changed, appending, platform, dangling, history>>

\* onDataChanged() of the observers of one entry, in the order of their
\* addresses.  One that was destroyed meanwhile is called all the same: unless
\* that ends the program, its component is not found and nothing is marked.
OnDataChanged(c) ==
    /\ pc = "notify" /\ c \in todo
    /\ todo' = todo \ {c}
    /\ dangling' = (dangling \/ c \notin m.alive)
    /\ m' = IF c \notin m.alive THEN m
            ELSE IF c = "list" THEN GenerateListChildren(m)
            ELSE NotifyComponentChange(m, c, Paths[at], appending)
    /\ UNCHANGED <<data, current, dom, pc, changed, appending, at, platform, history>>

NotifyDone ==
    /\ pc = "notify" /\ todo = {}
    /\ \A i \in (at + 1)..Len(Paths) : ~(Affected(Paths[i]) /\ m.table[Paths[i]] # {})
    /\ pc' = "flush"
    /\ UNCHANGED <<data, m, current, dom, notification, platform, dangling, history>>

\* flushDirtyComponents(), one component: an id that is gone is skipped.
FlushDirtyComponent ==
    /\ pc = "flush" /\ m.order # <<>>
    /\ LET c == Head(m.order)
           s == Snapshot(c)
           rest == [m EXCEPT !.order = Tail(@), !.index = @ \ {c}]
       IN  IF c \notin m.alive \/ m.dirty[c] = {}
           THEN m' = rest /\ UNCHANGED <<current, dom, platform>>
           ELSE /\ m' = [rest EXCEPT !.dirty[c] = {}, !.append = @ \ {c}]
                /\ current' = [current EXCEPT ![c] = s]
                /\ dom' = UpdateNode(dom, c, s)
                /\ platform' = IF dom'.snap["text"].vals = dom.snap["text"].vals
                                  \/ dom'.snap["text"] = NoSnapshot THEN platform
                               ELSE LET text == dom'.snap["text"].vals["/title"][1]
                                    IN  IF dom'.snap["text"].append THEN platform \o text ELSE text
    /\ UNCHANGED <<data, pc, notification, dangling, history>>

FlushDone ==
    /\ pc = "flush" /\ m.order = <<>>
    /\ pc' = "idle"
    /\ UNCHANGED <<data, m, current, dom, notification, platform, dangling, history>>
-----------------------------------------------------------------------------
Arrays == UNION {[1..n -> {<<p>> : p \in Pieces}] : n \in 0..Len(Items)}

Next ==
    \/ \E c \in Fixed \ {"text"} : UpdateComponents(c)
    \/ \E path \in {"/", "/items"}, items \in Arrays : UpdateItems(path, items)
    \/ \E i \in DOMAIN Cells, p \in Pieces : UpdateCell(i, <<p>>)
    \/ \E path \in {"/", "/title"}, p \in Pieces : UpdateTitle(path, p)
    \/ \E p \in Pieces : AppendData(p)
    \/ InvalidateFunctionCallValues
    \/ NextEntry
    \/ \E c \in Ids : OnDataChanged(c)
    \/ NotifyDone \/ FlushDirtyComponent \/ FlushDone

Spec == Init /\ [][Next]_vars
-----------------------------------------------------------------------------
(* Properties. *)

Quiet == pc = "idle"

\* The dirty queue and the dirty marks of the components agree, at any time;
\* between two calls both are empty.
TypeOK ==
    /\ m.alive \subseteq Ids /\ m.made \in [Ids -> Nat] /\ m.index \subseteq ToSet(m.order) \cap m.alive
    /\ \A p \in AllPaths : m.table[p] \subseteq Ids
    /\ \A c \in m.alive : m.dirty[c] # {} => c \in m.index
    /\ m.append \subseteq {c \in m.alive : m.dirty[c] # {}}
    /\ Quiet => m.order = <<>>

\* Between two calls the binding table holds exactly the observers of the live
\* components, whatever a notification created and destroyed on its way (that a
\* clone took the template's away is the one exception).  The type invariant is
\* part of it.
BindingsMatchComponents ==
    /\ TypeOK
    /\ Quiet => \A p \in AllPaths :
          /\ m.table[p] \subseteq {c \in m.alive : p \in BoundPaths(c)}
          /\ {c \in m.alive \ {"tmpl"} : p \in BoundPaths(c)} \subseteq m.table[p]

\* Unless the list ever shrank by two or more at once it has exactly one child
\* for every element, in order, whichever of list, template and data came first.
ListFollowsData ==
    Quiet /\ ~surplus /\ {"list", "tmpl"} \subseteq m.alive /\ "/items" \in data.has =>
        /\ m.kids = SubSeq(Items, 1, Len(data.items))
        /\ ToSet(m.kids) \subseteq m.alive

\* What a component would show if it were built from the data as they are now,
\* with the attributes it has: those of its last definition or, a child of the
\* list, those the template had when the child was cloned.
Fresh(c) == FullSnapshot(c)
Ready(c) == AggregateBindingStatus(c) \in {"FullyReady", "NotDependent"}
OwnRule(c) == DisplayRule(c) # "Always"

\* generateListChildren() marks nothing for an array that arrives empty: the
\* list stays the orphan it was for want of data.
EmptyFromTheStart(c) == c = "list" /\ data.items = <<>> /\ dom.snap[c] = NoSnapshot

\* Between two calls every component that has the data it needs is shown, as it
\* would be built from its attributes and the data now, if its parent is (the
\* card, whose rule looks for its children among the orphans, aside): a change of
\* the data, of the tree or of its own definition is missed in no order of these.
\* What the children of the list miss is below (TemplateReachesChildren).
ScreenFollowsData ==
    Quiet => \A c \in m.alive :
        InTree(dom, c) /\ ~OwnRule(c) /\ Ready(c) /\ ~EmptyFromTheStart(c) =>
            dom.snap[c] = Fresh(c)
-----------------------------------------------------------------------------
(* What comments of the repository say. *)

\* agenui_component_manager.h, tryUpdateTemplate(): "Attempt to update a template",
\* which updateComponents() makes after every definition: between two calls the
\* children of the list are clones of the template as it is defined now.
TemplateReachesChildren ==
    Quiet => \A i \in ToSet(m.kids) \cap m.alive : m.made[i] = m.made["tmpl"]

\* agenui_idata_model.h, unbind(): "Unbind an observer from the given path", which
\* the values of a component do when it is destroyed: no observer is called after
\* that.  (The observers of one entry are copied before the first is called.)
NoDestroyedObserverIsCalled == ~dangling

\* agenui_component_model.h, flushDirty(): "appendMode is set on the snapshot
\* only when at least one dirty mark was recorded with appendMode = true; it is
\* reset on the component right after the call": a piece that is appended to the
\* text on screen, and differs from what it had, is added to what the platform shows.
AppendedPieceIsAdded ==
    [][("text" \in m.append \ m'.append /\ dom'.snap["text"].vals # dom.snap["text"].vals
            /\ dom.snap["text"] # NoSnapshot /\ dom'.snap["text"] # NoSnapshot)
        => platform' = platform \o dom'.snap["text"].vals["/title"][1]]_vars
=============================================================================
