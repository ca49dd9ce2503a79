---------------------------- MODULE SurfaceSize ----------------------------
(***************************************************************************)
(* The width of one surface and the view that shows it, on Android: the     *)
(* worker thread lays the surface out (core/src/surface/agenui_surface.cpp, *)
(* module/agenui_surface_manager.cpp), the main thread owns the view        *)
(* (platforms/android/.../render/surface).  The width reaches the worker in *)
(* two ways: it is pulled once from the provider, whose bridge the main     *)
(* thread may detach and delete at any time (jni_agenui_surfacemanager.cpp), *)
(* and it is pushed whenever the container of the view is laid out at       *)
(* another width.                                                           *)
(*                                                                         *)
(* Two threads, two queues: taskQueue holds what the main thread posted to  *)
(* the worker, mainQueue what the worker posted to the main looper.         *)
(*                                                                         *)
(* Abstractions: one surface id; the height is left out, layout depends on  *)
(* the width; pxToA2ui() multiplies a width by a constant, so it is left in *)
(* the unit of the pushes; an update is any operation that ends in a layout *)
(* pass.                                                                    *)
(***************************************************************************)
EXTENDS Integers, Sequences

CONSTANTS
    Widths,      \* widths the container of the view may have
    MaxCalls,    \* bound: protocol messages fed by the application
    MaxLayouts,  \* bound: layouts of the view's container
    MaxBridges   \* bound: setSurfaceSizeProvider calls

ASSUME SizeAssumption ==
    /\ Widths \subseteq Nat \ {0} /\ Widths # {}
    /\ MaxCalls \in Nat /\ MaxLayouts \in Nat /\ MaxBridges \in Nat

VARIABLES
    mpc,        \* what the main thread does: a provider call or destroy()
    provider,   \* SurfaceManager::_surfaceSizeProvider, 0 for null
    mapped,     \* entry of sSurfaceSizeProviderBridgeMap, 0 for none
    bridges,    \* JNISurfaceSizeProviderBridge objects alive
    created,    \* bridges created so far
    listening,  \* NativeEventBridge is registered and the manager is running
    view,       \* the Java Surface and its SurfaceLayoutDispatcher
    mainQueue,  \* runnables posted to the main looper
    taskQueue,  \* tasks of the worker thread
    wpc,        \* what the worker does
    asked,      \* the provider pointer the worker has read
    surface,    \* the C++ Surface: its cached width and the last layout
    calls, relayouts \* so far

main   == <<mpc, provider, mapped, bridges, created, listening>>
worker == <<wpc, asked, surface>>
counts == <<calls, relayouts>>
vars   == <<main, view, mainQueue, taskQueue, worker, counts>>

NoView     == [exists |-> FALSE, reported |-> 0]
NewView    == [exists |-> TRUE, reported |-> 0]
NotLaid    == -1
NoSurface  == [exists |-> FALSE, width |-> 0, fetched |-> FALSE, laid |-> NotLaid]
NewSurface == [NoSurface EXCEPT !.exists = TRUE]

Task(op, w) == [op |-> op, width |-> w]

Init ==
    /\ mpc = "idle" /\ provider = 0 /\ mapped = 0 /\ bridges = {} /\ created = 0
    /\ listening = TRUE
    /\ view = NoView
    /\ mainQueue = <<>> /\ taskQueue = <<>>
    /\ wpc = "idle" /\ asked = 0 /\ surface = NoSurface
    /\ calls = 0 /\ relayouts = 0
-----------------------------------------------------------------------------
(* Main thread: the application feeds messages, views are laid out. *)

\* receiveTextChunk(): the worker will decode a message of kind op.
Feed(op) ==
    /\ mpc = "idle" /\ listening
    /\ calls < MaxCalls /\ calls' = calls + 1
    /\ taskQueue' = Append(taskQueue, Task(op, 0))
    /\ UNCHANGED <<main, view, mainQueue, worker, relayouts>>

\* Mutant: the width last reported outlives the view.
RunPosted_KeepsReported ==
    /\ mpc \in {"idle", "gone"}
    /\ mainQueue # <<>> /\ mainQueue' = Tail(mainQueue)
    /\ view' = [view EXCEPT !.exists = (Head(mainQueue) = "create")]
    /\ UNCHANGED <<main, taskQueue, worker, counts>>

\* The main looper runs a runnable that NativeEventBridge posted.  A create
\* makes a view and a SurfaceLayoutDispatcher that has reported nothing.
RunPosted ==
    /\ mpc \in {"idle", "gone"}
    /\ mainQueue # <<>> /\ mainQueue' = Tail(mainQueue)
    /\ view' = IF Head(mainQueue) = "create" THEN NewView ELSE NoView
    /\ UNCHANGED <<main, taskQueue, worker, counts>>

\* Mutant: a container without a width is reported too.
LayoutContainer_AnyWidth(w) ==
    /\ mpc = "idle"
    /\ view.exists /\ w # view.reported
    /\ relayouts < MaxLayouts /\ relayouts' = relayouts + 1
    /\ view' = [view EXCEPT !.reported = w]
    /\ taskQueue' = Append(taskQueue, Task("size", w))
    /\ UNCHANGED <<main, mainQueue, worker, calls>>

\* The container is laid out: reportSurfaceSize() pushes a positive width that
\* it has not just reported.
LayoutContainer(w) ==
    /\ mpc = "idle"
    /\ view.exists /\ w > 0 /\ w # view.reported
    /\ relayouts < MaxLayouts /\ relayouts' = relayouts + 1
    /\ view' = [view EXCEPT !.reported = w]
    /\ taskQueue' = Append(taskQueue, Task("size", w))
    /\ UNCHANGED <<main, mainQueue, worker, calls>>

\* jni_setSurfaceSizeProvider(): the new bridge is published first ...
SetProvider ==
    /\ mpc = "idle" /\ listening
    /\ created < MaxBridges /\ created' = created + 1
    /\ bridges' = bridges \cup {created'}
    /\ provider' = created'
    /\ mpc' = "replace"
    /\ UNCHANGED <<mapped, listening, view, mainQueue, taskQueue, worker, counts>>

\* ... then the one it replaces is deleted.
ReplaceBridge ==
    /\ mpc = "replace"
    /\ bridges' = bridges \ {mapped}
    /\ mapped' = provider
    /\ mpc' = "idle"
    /\ UNCHANGED <<provider, created, listening, view, mainQueue, taskQueue, worker, counts>>

\* SurfaceManager.destroy(): the views go, then the listener ...
Destroy ==
    /\ mpc = "idle" /\ listening
    /\ view' = NoView
    /\ listening' = FALSE
    /\ mpc' = "detach"
    /\ UNCHANGED <<provider, mapped, bridges, created, mainQueue, taskQueue, worker, counts>>

\* Mutant: the bridge is deleted before it is detached.
DetachProvider_DeletesFirst ==
    /\ mpc = "detach"
    /\ bridges' = bridges \ {mapped}
    /\ mapped' = 0
    /\ mpc' = "erase"
    /\ UNCHANGED <<provider, created, listening, view, mainQueue, taskQueue, worker, counts>>

\* ... then jni_clearSurfaceSizeProvider() detaches the provider ...
DetachProvider ==
    /\ mpc = "detach"
    /\ provider' = 0
    /\ mpc' = "erase"
    /\ UNCHANGED <<mapped, bridges, created, listening, view, mainQueue, taskQueue, worker, counts>>

\* ... and deletes its bridge ...
EraseBridge ==
    /\ mpc = "erase"
    /\ bridges' = bridges \ {mapped}
    /\ mapped' = 0
    /\ mpc' = "release"
    /\ UNCHANGED <<provider, created, listening, view, mainQueue, taskQueue, worker, counts>>

\* ... and destroySurfaceManager() posts uninit().
ReleaseManager ==
    /\ mpc = "release"
    /\ taskQueue' = Append(taskQueue, Task("uninit", 0))
    /\ mpc' = "gone"
    /\ UNCHANGED <<provider, mapped, bridges, created, listening, view, mainQueue, worker, counts>>
-----------------------------------------------------------------------------
(* Worker thread. *)

Begins(op) ==
    /\ wpc = "idle"
    /\ taskQueue # <<>> /\ Head(taskQueue).op = op
    /\ taskQueue' = Tail(taskQueue)

\* What a listener call of the worker posts to the main looper.
Dispatch(event) ==
    mainQueue' = IF listening THEN Append(mainQueue, event) ELSE mainQueue

\* SurfaceCoordinator::createSurface(); a duplicate id is an error.
CreateSurface ==
    /\ Begins("create")
    /\ \/ /\ surface.exists
          /\ UNCHANGED <<surface, mainQueue>>
       \/ /\ ~surface.exists
          /\ surface' = NewSurface
          /\ Dispatch("create")
    /\ UNCHANGED <<main, view, wpc, asked, counts>>

\* SurfaceCoordinator::deleteSurface(): dispatched even if there is none.
DeleteSurface ==
    /\ Begins("delete")
    /\ surface' = NoSurface
    /\ Dispatch("delete")
    /\ UNCHANGED <<main, view, wpc, asked, counts>>

\* An operation ends in a layout pass: getSurfaceWidth() is called.
UpdateSurface ==
    /\ Begins("update")
    /\ \/ /\ ~surface.exists
          /\ UNCHANGED wpc
       \/ /\ surface.exists
          /\ wpc' = IF surface.fetched THEN "layout" ELSE "fetch"
    /\ UNCHANGED <<main, view, mainQueue, asked, surface, counts>>

\* ensureSurfaceSizeFetched() reads the pointer under the mutex; without a
\* provider the pass goes on and a later one will ask again ...
ReadProvider ==
    /\ wpc = "fetch"
    /\ asked' = provider
    /\ wpc' = IF provider = 0 THEN "layout" ELSE "query"
    /\ UNCHANGED <<main, view, mainQueue, taskQueue, surface, counts>>

\* ... and calls the provider outside it.  The application answers what it
\* likes, 0 if it cannot measure; a deleted bridge may return anything.
QueryProvider ==
    /\ wpc = "query"
    /\ \E w \in Widths \cup {0} :
          surface' = [surface EXCEPT !.width = w, !.fetched = TRUE]
    /\ asked' = 0
    /\ wpc' = "layout"
    /\ UNCHANGED <<main, view, mainQueue, taskQueue, counts>>

\* handleSurfaceSizeChanged() and Surface::updateSurfaceSize(): a width that
\* is new, or the first one, is laid out at once.
UpdateSurfaceSize ==
    /\ Begins("size")
    /\ \/ /\ ~surface.exists
          /\ UNCHANGED <<surface, wpc>>
       \/ /\ surface.exists
          /\ LET w == Head(taskQueue).width
             IN  /\ surface' = [surface EXCEPT !.width = w, !.fetched = TRUE]
                 /\ wpc' = IF ~surface.fetched \/ surface.width # w THEN "layout" ELSE "idle"
    /\ UNCHANGED <<main, view, mainQueue, asked, counts>>

\* calculateLayoutWithAdjust() with the cached width.
Layout ==
    /\ wpc = "layout"
    /\ surface' = [surface EXCEPT !.laid = surface.width]
    /\ wpc' = "idle"
    /\ UNCHANGED <<main, view, mainQueue, taskQueue, asked, counts>>

\* SurfaceManager::uninit().
Uninit ==
    /\ Begins("uninit")
    /\ surface' = NoSurface
    /\ UNCHANGED <<main, view, mainQueue, wpc, asked, counts>>

MainStep == \/ \E op \in {"create", "delete", "update"} : Feed(op)
            \/ \E w \in Widths \cup {0} : LayoutContainer(w)
            \/ RunPosted \/ SetProvider \/ ReplaceBridge
            \/ Destroy \/ DetachProvider \/ EraseBridge \/ ReleaseManager

WorkerStep == \/ CreateSurface \/ DeleteSurface \/ UpdateSurface \/ ReadProvider
              \/ QueryProvider \/ UpdateSurfaceSize \/ Layout \/ Uninit

Next == MainStep \/ WorkerStep

Spec == Init /\ [][Next]_vars
-----------------------------------------------------------------------------
Bridges == 1..MaxBridges
Tasks   == [op : {"create", "delete", "update", "uninit"}, width : {0}]
               \cup [op : {"size"}, width : Widths]

\* Every variable has its type; only positive widths are pushed.
TypeOK ==
    /\ mpc \in {"idle", "replace", "detach", "erase", "release", "gone"}
    /\ provider \in Bridges \cup {0} /\ mapped \in Bridges \cup {0}
    /\ bridges \subseteq Bridges /\ created \in 0..MaxBridges
    /\ listening \in BOOLEAN
    /\ view \in [exists : BOOLEAN, reported : Widths \cup {0}]
    /\ mainQueue \in Seq({"create", "delete"})
    /\ taskQueue \in Seq(Tasks)
    /\ wpc \in {"idle", "fetch", "query", "layout"}
    /\ asked \in Bridges \cup {0}
    /\ surface \in [exists : BOOLEAN, width : Widths \cup {0}, fetched : BOOLEAN,
                    laid : Widths \cup {0, NotLaid}]
    /\ calls \in 0..MaxCalls /\ relayouts \in 0..MaxLayouts

Quiet == mpc = "idle" /\ wpc = "idle" /\ mainQueue = <<>> /\ taskQueue = <<>>

\* When both queues are empty there is a view if and only if there is a
\* surface, and a surface whose view reported a width is laid out at that
\* width: whatever the provider answered before or after the push, and even if
\* the surface was deleted and created again while the push of an old view was
\* on its way.
SurfaceFollowsView ==
    Quiet /\ listening =>
        /\ view.exists = surface.exists
        /\ view.exists /\ view.reported # 0 =>
              surface.width = view.reported /\ surface.laid = view.reported

\* jni_agenui_surfacemanager.cpp: "the engine never sees a dangling pointer":
\* the pointer the engine can read is a live bridge at every step of a
\* replacement and of destroy(), and no other bridge outlives the call.
PublishedBridgeIsAlive ==
    /\ provider # 0 => provider \in bridges
    /\ mpc \in {"idle", "release", "gone"} => bridges = {provider} \ {0}

\* jni_clearSurfaceSizeProvider: "Detach from the engine first so no in-flight
\* Yoga pass can see the bridge while we delete it".
QueriedBridgeIsAlive == wpc = "query" => asked \in bridges
=============================================================================
