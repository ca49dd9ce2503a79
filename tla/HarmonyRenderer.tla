--------------------------- MODULE HarmonyRenderer ---------------------------
(***************************************************************************)
(* The HarmonyOS renderer beside the core: the worker thread reports        *)
(* surfaces and components to an A2UIMessageListener, which posts each      *)
(* report to the main thread through one thread-safe function, first in     *)
(* first out.  A task holds a weak pointer to its listener, looks it up     *)
(* when it runs, applies the report to the A2UISurfaceManager and calls the *)
(* ArkTS listeners, which may call back into the API while the task still   *)
(* runs.  AGenUIContainers bind to surfaces by id, and events of the user   *)
(* find their SurfaceManager through one table of ids for all instances.    *)
(*                                                                          *)
(* The core is what the worker decides to report: SurfacePipeline says how  *)
(* it arrives at these reports.  Node contents are abstract; a component    *)
(* is its parent and the version of its properties.                         *)
(***************************************************************************)
EXTENDS Integers, Sequences, FiniteSets, SequencesExt, Functions

CONSTANTS MaxInstances,  \* bound: SurfaceManagers the application creates
          Surfaces,      \* surface ids
          Children,      \* component ids beside Root
          Containers,    \* AGenUIContainers, each built and disposed once
          Listeners,     \* ISurfaceManagerListeners, added to every SurfaceManager
          MaxReports,    \* bound: reports of the worker
          MaxQueue       \* bound: tasks waiting before the worker reports again

Root == "root"
Nobody == "nobody"
Instances == 1..MaxInstances
Components == {Root} \cup Children

ASSUME RendererAssumption ==
    /\ MaxInstances \in Nat \ {0} /\ MaxReports \in Nat /\ MaxQueue \in Nat \ {0}
    /\ IsFiniteSet(Children) /\ Root \notin Children
    /\ Nobody \notin Components \cup Containers

VARIABLES status,    \* g_messageListeners: "none", "live", "held" (by the task that runs), "dead"
          core,      \* the worker's surfaces: id |-> component |-> [parent, ver]
          queue,     \* tasks of the thread-safe function
          running,   \* the task in its calls to ArkTS, if any
          platform,  \* surfaces_ of each A2UISurfaceManager
          handles,   \* surfaceContentHandles_: surface id |-> container
          mapping,   \* s_surfaceIdToInstanceId_
          container, \* what each AGenUIContainer resolved
          native,    \* listeners_ of each A2UIMessageListener
          ets,       \* _listeners of each ArkTS SurfaceManager
          known,     \* _surfaces of each ArkTS SurfaceManager
          heard,     \* history: surfaces each listener was told of and not told the end of
          history    \* history: see below

vars == <<status, core, queue, running, platform, handles, mapping, container, native, ets, known,
          heard, history>>
arkts == <<native, ets, known, heard>>
\* history.reports    reports made
\* history.aborted    a RELEASE_ASSERT of the renderer failed
\* history.repeated   a listener was told twice that a surface was created
\* history.astray     a loop over listeners_ went on where the vector was no more
\* history.skipped    a listener left while a deletion was told, and the next was passed over

\* A task in its calls: the range loop over listeners_ has made `at' of its
\* `last' calls, both counted when it began, and the vector may have moved
\* since; the forEach of the wrapper called is at the position `to' of `upto'.
Idle == [kind |-> "none", i |-> 0, s |-> Nobody, at |-> 0, last |-> 0, to |-> 1, upto |-> 0,
         moved |-> FALSE]

\* Maps from some members of D to R, and what is done to one.
Maps(D, R)    == UNION {[S -> R] : S \in SUBSET D}
Empty         == [x \in {} |-> x]
With(f, d, x) == [e \in DOMAIN f \cup {d} |-> IF e = d THEN x ELSE f[e]]
Without(f, S) == [e \in DOMAIN f \ S |-> f[e]]

Nodes == [parent : Components \cup {Nobody}, ver : {0, 1}]
Trees == {t \in Maps(Components, Nodes) : \A c \in DOMAIN t : c = Root <=> t[c].parent = Nobody}

\* Every report of the worker is a task. The messages of a report about a tree
\* are the components it names; a component that is added comes with its parent.
Task(kind, i, s, ids, parent) == [kind |-> kind, i |-> i, s |-> s, ids |-> ids, parent |-> parent]

Owner(s) == IF s \in DOMAIN mapping THEN mapping[s] ELSE 0
Found(i) == i \in Instances /\ status[i] = "live"
HasRoot(surface) == Root \in DOMAIN surface.tree

\* The components of a tree that are in C or below one of C.
Closed(tree, S)  == \A d \in DOMAIN tree : tree[d].parent \in S => d \in S
Subtrees(tree, C) ==
    {d \in DOMAIN tree : \A S \in SUBSET DOMAIN tree :
        C \cap DOMAIN tree \subseteq S /\ Closed(tree, S) => d \in S}

Init ==
    /\ status = [i \in Instances |-> "none"]
    /\ core = [i \in Instances |-> Empty]
    /\ queue = <<>> /\ running = Idle
    /\ platform = [i \in Instances |-> Empty]
    /\ handles = [i \in Instances |-> Empty]
    /\ mapping = Empty
    /\ container = [k \in Containers |-> [state |-> "new", i |-> 0, s |-> Nobody]]
    /\ native = [i \in Instances |-> <<>>] /\ ets = [i \in Instances |-> <<>>]
    /\ known = [i \in Instances |-> {}] /\ heard = {}
    /\ history = [reports |-> 0, aborted |-> FALSE, repeated |-> FALSE, astray |-> FALSE,
                  skipped |-> FALSE]
-----------------------------------------------------------------------------
(* The worker.  The dispatcher calls a listener only while it is registered. *)

Report(tasks) ==
    /\ history.reports < MaxReports /\ Len(queue) < MaxQueue
    /\ history' = [history EXCEPT !.reports = @ + 1]
    /\ queue' = queue \o tasks
    /\ UNCHANGED <<status, running, platform, handles, mapping, container, arkts>>

\* Two live instances do not use the same id at a time: in the table of ids one
\* would take the other's entry.
MayUse(i, s) == \A j \in Instances \ {i} : status[j] = "live" => s \notin DOMAIN core[j]

CreateSurface(i, s) ==
    /\ status[i] = "live" /\ s \notin DOMAIN core[i] /\ MayUse(i, s)
    /\ core' = [core EXCEPT ![i] = With(@, s, Empty)]
    /\ Report(<<Task("create", i, s, {}, Nobody)>>)

AddComponent(i, s, c, parent) ==
    /\ status[i] = "live" /\ s \in DOMAIN core[i] /\ c \notin DOMAIN core[i][s]
    /\ IF c = Root THEN parent = Nobody ELSE parent \in DOMAIN core[i][s]
    /\ core' = [core EXCEPT ![i][s] = With(@, c, [parent |-> parent, ver |-> 0])]
    /\ Report(<<Task("add", i, s, {c}, parent)>>)

UpdateComponent(i, s, c) ==
    /\ status[i] = "live" /\ s \in DOMAIN core[i] /\ c \in DOMAIN core[i][s]
    /\ core[i][s][c].ver = 0
    /\ core' = [core EXCEPT ![i][s][c].ver = 1]
    /\ Report(<<Task("update", i, s, {c}, Nobody)>>)

\* A node that goes reports itself, and its children as they go with it.
RemoveComponent(i, s, c) ==
    /\ status[i] = "live" /\ s \in DOMAIN core[i] /\ c \in DOMAIN core[i][s] \ {Root}
    /\ LET gone == Subtrees(core[i][s], {c})
       IN  /\ core' = [core EXCEPT ![i][s] = Without(@, gone)]
           /\ Report(<<Task("remove", i, s, gone, Nobody)>>)

\* The nodes of a tree, a parent before its children.
ParentsFirst(tree) ==
    {order \in SetToSeqs(DOMAIN tree) :
        \A m, n \in DOMAIN order : tree[order[n]].parent = order[m] => m < n}

\* Every node reports its end, in no batch; then the surface is gone.  The end
\* of a surface the instance does not have is reported as well.
DeleteSurface(i, s) ==
    /\ status[i] = "live" /\ MayUse(i, s)
    /\ core' = [core EXCEPT ![i] = Without(@, {s})]
    /\ \E nodes \in ParentsFirst(IF s \in DOMAIN core[i] THEN core[i][s] ELSE Empty) :
          Report(Append([n \in DOMAIN nodes |-> Task("remove", i, s, {nodes[n]}, Nobody)],
                        Task("delete", i, s, {}, Nobody)))
-----------------------------------------------------------------------------
(* A2UISurface. *)

\* mountRootNode() and unmountRootNode(): nothing without a handle and a root.
Mount(surface) ==
    IF surface.handle # Nobody /\ HasRoot(surface)
    THEN [surface EXCEPT !.mounted = @ \cup {surface.handle}] ELSE surface
Unmount(surface) ==
    IF surface.handle # Nobody /\ HasRoot(surface)
    THEN [surface EXCEPT !.mounted = @ \ {surface.handle}] ELSE surface

\* A tree that gets the components C, one whose components C change, and one
\* that loses those of C with all below them, but never its root.
Grown(tree, C, parent) ==
    [c \in DOMAIN tree \cup C |-> IF c \in C THEN [parent |-> parent, ver |-> 0] ELSE tree[c]]
Touched(tree, C) ==
    [c \in DOMAIN tree |-> IF c \in C THEN [tree[c] EXCEPT !.ver = 1] ELSE tree[c]]
Pruned(tree, C) == Without(tree, Subtrees(tree, C \ {Root}))

\* Mutant: the root waits for the next bindSurface().
Added_NoMount(surface, t) == [surface EXCEPT !.tree = Grown(@, t.ids, t.parent)]

\* handleComponentAdd(); the root is mounted as soon as it is there.
Added(surface, t) ==
    LET with == [surface EXCEPT !.tree = Grown(@, t.ids, t.parent)]
    IN  IF Root \in t.ids THEN Mount(with) ELSE with

\* handleComponentsUpdate(): the components that are there.
Updated(surface, t) == [surface EXCEPT !.tree = Touched(@, t.ids)]

\* handleComponentsRemove(): a component goes with all below it, so that the
\* order of the messages does not matter.
Removed(surface, t) == [surface EXCEPT !.tree = Pruned(@, t.ids)]

Applied(surface, t) ==
    CASE t.kind = "add" -> Added(surface, t)
      [] t.kind = "update" -> Updated(surface, t)
      [] t.kind = "remove" -> Removed(surface, t)

\* An added component must be new.
Acceptable(surface, t) == t.kind = "add" => t.ids \cap DOMAIN surface.tree = {}
-----------------------------------------------------------------------------
(* The tasks on the main thread. *)

NewSurface == [tree |-> Empty, handle |-> Nobody, mounted |-> {}, cleared |-> FALSE]

Calling(task) ==
    [kind |-> task.kind, i |-> task.i, s |-> task.s, at |-> 0, last |-> Len(native[task.i]),
     to |-> 1, upto |-> 0, moved |-> FALSE]

\* onComponentsAdd(), onComponentsUpdate(), onComponentsRemove().
RunTreeTask ==
    /\ running = Idle /\ queue # <<>>
    /\ LET t == Head(queue)
       IN  /\ t.kind \in {"add", "update", "remove"}
           /\ IF status[t.i] = "live" /\ t.s \in DOMAIN platform[t.i]
              THEN /\ platform' = [platform EXCEPT ![t.i][t.s] = Applied(@, t)]
                   /\ history' = [history EXCEPT
                         !.aborted = @ \/ ~Acceptable(platform[t.i][t.s], t)]
              ELSE UNCHANGED <<platform, history>>
    /\ queue' = Tail(queue)
    /\ UNCHANGED <<status, core, running, handles, mapping, container, arkts>>

\* Mutant: the mapping of an id that already has one is kept.
Registered_First(s, i) == IF s \in DOMAIN mapping THEN mapping ELSE With(mapping, s, i)

Registered(s, i) == With(mapping, s, i)

\* onCreateSurface(): the table first, then the surface, then the listeners.
RunCreate ==
    /\ running = Idle /\ queue # <<>> /\ Head(queue).kind = "create"
    /\ LET t == Head(queue)
       IN  IF status[t.i] = "live"
           THEN /\ mapping' = Registered(t.s, t.i)
                /\ platform' = [platform EXCEPT ![t.i] = With(@, t.s, NewSurface)]
                /\ history' = [history EXCEPT !.aborted = @ \/ t.s \in DOMAIN platform[t.i]]
                /\ running' = Calling(t)
           ELSE UNCHANGED <<mapping, platform, history, running>>
    /\ queue' = Tail(queue)
    /\ UNCHANGED <<status, core, handles, container, arkts>>

\* onDeleteSurface(): the listeners first; without its own listener only the table.
RunDelete ==
    /\ running = Idle /\ queue # <<>> /\ Head(queue).kind = "delete"
    /\ LET t == Head(queue)
       IN  IF status[t.i] = "live"
           THEN running' = Calling(t) /\ UNCHANGED mapping
           ELSE mapping' = Without(mapping, {t.s}) /\ UNCHANGED running
    /\ queue' = Tail(queue)
    /\ UNCHANGED <<status, core, platform, handles, container, arkts, history>>

\* The iterators of the loop were fixed when it began. A push_back that moves
\* the vector leaves them dangling, and an erase leaves the end behind the
\* elements: the read may still find a listener there, or nothing to call.
Within == ~running.moved /\ running.at < Len(native[running.i])

\* The next call of the loop. The wrapper of a listener enters the surface in,
\* or takes it out of, the table of its SurfaceManager, and begins to tell the
\* listeners of the SurfaceManager; the end of a surface only if it was known.
CallListener ==
    /\ running # Idle /\ running.to > running.upto /\ running.at < running.last
    /\ LET i == running.i
           s == running.s
           tells == running.kind = "create" \/ s \in known[i]
       IN  \/ /\ running' = [running EXCEPT !.at = @ + 1, !.to = 1,
                                            !.upto = IF tells THEN Len(ets[i]) ELSE 0]
              /\ known' = [known EXCEPT
                    ![i] = IF running.kind = "create" THEN @ \cup {s} ELSE @ \ {s}]
           \/ /\ ~Within
              /\ running' = [running EXCEPT !.at = @ + 1] /\ UNCHANGED known
    /\ history' = [history EXCEPT !.astray = @ \/ ~Within]
    /\ UNCHANGED <<status, core, queue, platform, handles, mapping, container, native, ets, heard>>

\* Mutant: a wrapper tells its own listener.
Receiver_Own(i) == native[i][IF running.at \in DOMAIN native[i] THEN running.at ELSE 1]

Receiver(i) == ets[i][running.to]

\* forEach() visits the positions that were there when it began, and finds at
\* each what is there now. (That a listener which is not registered any more
\* may still hear of a surface is not recorded.)
TellListener ==
    /\ running # Idle /\ running.to <= running.upto
    /\ IF running.to > Len(ets[running.i])
       THEN UNCHANGED <<heard, history>>
       ELSE LET h == <<running.i, Receiver(running.i), running.s>>
            IN  IF running.kind = "create"
                THEN /\ heard' = heard \cup {h}
                     /\ history' = [history EXCEPT !.repeated = @ \/ h \in heard]
                ELSE heard' = heard \ {h} /\ UNCHANGED history
    /\ running' = [running EXCEPT !.to = @ + 1]
    /\ UNCHANGED <<status, core, queue, platform, handles, mapping, container, native, ets, known>>

\* Mutant: destroySurface() returns early when there is no root.
Remaining_NeedsRoot(i, s) ==
    IF s \in DOMAIN platform[i] /\ HasRoot(platform[i][s]) THEN Without(platform[i], {s}) ELSE platform[i]

\* destroySurface(): unmounted, its components destroyed, forgotten.
Remaining(i, s) == Without(platform[i], {s})

\* The end of a task drops its hold on the listener, whose destructor clears
\* the surfaces of an instance that was destroyed meanwhile.
EndTask ==
    /\ running # Idle /\ running.to > running.upto /\ running.at >= running.last
    /\ LET i == running.i
           left == IF running.kind = "delete" THEN Remaining(i, running.s) ELSE platform[i]
       IN  /\ mapping' = IF running.kind = "delete" THEN Without(mapping, {running.s}) ELSE mapping
           /\ IF status[i] = "held"
              THEN status' = [status EXCEPT ![i] = "dead"] /\ platform' = [platform EXCEPT ![i] = Empty]
              ELSE platform' = [platform EXCEPT ![i] = left] /\ UNCHANGED status
    /\ running' = Idle
    /\ UNCHANGED <<core, queue, handles, container, arkts, history>>
-----------------------------------------------------------------------------
(* The application on the main thread: between tasks, or in a listener that  *)
(* a task calls.                                                             *)

InJS == (running # Idle) => running.to > 1

CreateSurfaceManager(i) ==
    /\ InJS /\ status[i] = "none" /\ \A j \in 1..(i - 1) : status[j] # "none"
    /\ status' = [status EXCEPT ![i] = "live"]
    /\ UNCHANGED <<core, queue, running, platform, handles, mapping, container, arkts, history>>

\* destroy() removes the listeners, forgets the surfaces and tears down the
\* native instance; the worker reports nothing of it any more.
DestroySurfaceManager(i) ==
    /\ InJS /\ status[i] = "live"
    /\ native' = [native EXCEPT ![i] = <<>>] /\ ets' = [ets EXCEPT ![i] = <<>>]
    /\ known' = [known EXCEPT ![i] = {}]
    /\ heard' = {h \in heard : h[1] # i}
    /\ core' = [core EXCEPT ![i] = Empty]
    /\ handles' = [handles EXCEPT ![i] = Empty]
    /\ IF running # Idle /\ running.i = i
       THEN status' = [status EXCEPT ![i] = "held"] /\ UNCHANGED platform
       ELSE status' = [status EXCEPT ![i] = "dead"] /\ platform' = [platform EXCEPT ![i] = Empty]
    /\ UNCHANGED <<queue, running, mapping, container, history>>

\* The push_back moves the elements of the vector when it is full.
AddListener(i, l) ==
    /\ InJS /\ status[i] = "live" /\ l \notin ToSet(ets[i])
    /\ ets' = [ets EXCEPT ![i] = Append(@, l)]
    /\ native' = [native EXCEPT ![i] = Append(@, l)]
    /\ \/ UNCHANGED running
       \/ running # Idle /\ running.i = i /\ running' = [running EXCEPT !.moved = TRUE]
    /\ UNCHANGED <<status, core, queue, platform, handles, mapping, container, known,
                   heard, history>>

\* A listener that leaves moves those behind it forward, and the forEach of a
\* deletion that has passed it does not come to the next.
PassesOver(i, l) ==
    /\ running # Idle /\ running.i = i /\ running.kind = "delete"
    /\ running.to <= running.upto /\ running.to <= Len(ets[i])
    /\ \E n \in 1..(running.to - 1) : ets[i][n] = l

RemoveListener(i, l) ==
    /\ InJS /\ status[i] = "live" /\ l \in ToSet(ets[i])
    /\ ets' = [ets EXCEPT ![i] = RemoveFirst(@, l)]
    /\ native' = [native EXCEPT ![i] = RemoveFirst(@, l)]
    /\ heard' = {h \in heard : h[1] # i \/ h[2] # l}
    /\ history' = [history EXCEPT !.skipped = @ \/ PassesOver(i, l)]
    /\ UNCHANGED <<status, core, queue, running, platform, handles, mapping, container, known>>

\* clearA2UiContainer(): unmountAllRootNodes().
ClearContainer(i) ==
    /\ InJS /\ status[i] = "live" /\ \E s \in DOMAIN platform[i] : platform[i][s].mounted # {}
    /\ LET Cleared(surface) == [Unmount(surface) EXCEPT !.cleared = HasRoot(surface)]
       IN  platform' = [platform EXCEPT ![i] = [s \in DOMAIN @ |-> Cleared(@[s])]]
    /\ UNCHANGED <<status, core, queue, running, handles, mapping, container, arkts, history>>

\* onDidBuild(): the table names the instance, bindSurface() does the rest.
Appear(k, s) ==
    /\ running = Idle /\ container[k].state = "new"
    /\ LET i == Owner(s)
       IN  /\ container' = [container EXCEPT ![k] = [state |-> "shown", i |-> i, s |-> s]]
           /\ IF Found(i)
              THEN /\ handles' = [handles EXCEPT ![i] = With(@, s, k)]
                   /\ platform' = IF s \in DOMAIN platform[i]
                        THEN [platform EXCEPT ![i][s] = Mount([@ EXCEPT !.handle = k, !.cleared = FALSE])]
                        ELSE platform
              ELSE UNCHANGED <<handles, platform>>
    /\ UNCHANGED <<status, core, queue, running, mapping, arkts, history>>

\* aboutToDisappear(): unbindSurface() names the surface, not the container,
\* and leaves the handle with the surface.
Disappear(k) ==
    /\ running = Idle /\ container[k].state = "shown"
    /\ container' = [container EXCEPT ![k].state = "gone"]
    /\ LET i == container[k].i
           s == container[k].s
       IN  IF Found(i) /\ s \in DOMAIN handles[i]
           THEN /\ handles' = [handles EXCEPT ![i] = Without(@, {s})]
                /\ platform' = IF s \in DOMAIN platform[i]
                     THEN [platform EXCEPT ![i][s] = Unmount(@)] ELSE platform
           ELSE UNCHANGED <<handles, platform>>
    /\ UNCHANGED <<status, core, queue, running, mapping, arkts, history>>
-----------------------------------------------------------------------------
Worker == \E i \in Instances, s \in Surfaces :
             \/ CreateSurface(i, s) \/ DeleteSurface(i, s)
             \/ \E c \in Components :
                   \/ UpdateComponent(i, s, c) \/ RemoveComponent(i, s, c)
                   \/ \E p \in Components \cup {Nobody} : AddComponent(i, s, c, p)

Tasks == RunTreeTask \/ RunCreate \/ RunDelete \/ CallListener \/ TellListener \/ EndTask

Application == \/ \E i \in Instances :
                     \/ CreateSurfaceManager(i) \/ DestroySurfaceManager(i) \/ ClearContainer(i)
                     \/ \E l \in Listeners : AddListener(i, l) \/ RemoveListener(i, l)
               \/ \E k \in Containers : Disappear(k) \/ \E s \in Surfaces : Appear(k, s)

Next == Worker \/ Tasks \/ Application

Spec == Init /\ [][Next]_vars
-----------------------------------------------------------------------------
TypeOK ==
    /\ status \in [Instances -> {"none", "live", "held", "dead"}]
    /\ \A i \in Instances :
          /\ \A s \in DOMAIN core[i] : s \in Surfaces /\ core[i][s] \in Trees
          /\ \A s \in DOMAIN platform[i] :
                /\ s \in Surfaces /\ platform[i][s].tree \in Trees
                /\ platform[i][s].handle \in Containers \cup {Nobody}
                /\ platform[i][s].mounted \subseteq Containers
          /\ \A s \in DOMAIN handles[i] : s \in Surfaces /\ handles[i][s] \in Containers
          /\ ToSet(native[i]) \subseteq Listeners /\ native[i] = ets[i]
          /\ known[i] \subseteq Surfaces
    /\ \A s \in DOMAIN mapping : s \in Surfaces /\ mapping[s] \in Instances
    /\ heard \subseteq Instances \X Listeners \X Surfaces
    /\ (running # Idle) => status[running.i] \in {"live", "held"}

\* Once the tasks of a live instance have run, the renderer shows exactly the
\* surfaces and the trees the worker reported, and no assertion of the renderer
\* fails on the way, whatever the application does in between; an instance that
\* was destroyed keeps nothing. The type invariant is part of it.
RendererMirrorsCore ==
    /\ TypeOK
    /\ ~history.aborted
    /\ \A i \in Instances :
          /\ status[i] = "dead" => DOMAIN platform[i] = {}
          /\ \/ status[i] # "live"
             \/ running # Idle /\ running.i = i
             \/ \E n \in DOMAIN queue : queue[n].i = i
             \/ core[i] = [s \in DOMAIN platform[i] |-> platform[i][s].tree]

\* An event of a surface on screen goes to the SurfaceManager that made it: the
\* table names it for as long as the surface lives, although instances come and
\* go, ids are used again and tasks of dead instances still erase entries.
ActionsReachOwnInstance ==
    \A i \in Instances : status[i] = "live" =>
        \A s \in DOMAIN platform[i] : Owner(s) = i

\* A container that is bound to a surface shows its root, whichever of the two
\* came first, until the application clears it.
ContainerShowsItsSurface ==
    \A i \in Instances : \A s \in DOMAIN platform[i] \cap DOMAIN handles[i] :
        LET surface == platform[i][s]
        IN  (HasRoot(surface) /\ surface.handle = handles[i][s] /\ ~surface.cleared)
                => surface.handle \in surface.mounted

\* A listener that was told of a surface and is still registered is told of its
\* end before the renderer drops the surface, however many listeners there are
\* and whatever they add, remove and destroy in their calls; except one that a
\* listener leaving in the middle of a deletion made the forEach pass over.
EndIsTold == history.skipped \/ \A h \in heard : h[3] \in DOMAIN platform[h[1]]

\* docs/API.md 177: "All platforms support registering multiple listeners
\* simultaneously."  Each of them is told once that a surface was created.
HeardOnce == ~history.repeated

\* docs/API.md 177 again: listeners may be added and removed, with others
\* registered at the time; the loop that calls them stays within their vector.
LoopStaysInList == ~history.astray
==============================================================================
