--------------------------- MODULE EngineLifecycle ---------------------------
(***************************************************************************)
(* The engine, its SurfaceManagers and the shared worker thread:           *)
(* core/src/module/agenui_engine_impl.cpp, agenui_surface_manager.cpp and  *)
(* agenui_event_dispatcher.cpp.                                            *)
(*                                                                         *)
(* The main thread calls every public interface (the documented thread     *)
(* convention); the worker runs the posted tasks and, from a listener      *)
(* callback, calls back into the SurfaceManager that dispatched.  The      *)
(* thread is the serial executor of TaskExecutor, which MessageThread is   *)
(* shown to implement; only stop() is in steps here, since destroying a    *)
(* queued task may destroy a SurfaceManager.                               *)
(*                                                                         *)
(* A SurfaceManager is kept alive by the engine's map and by every task    *)
(* that captured it (std::shared_ptr); whoever drops the last reference    *)
(* runs its destructor.                                                    *)
(***************************************************************************)
EXTENDS Integers, Sequences, FiniteSets, SequencesExt

CONSTANTS
    Listeners,        \* IAGenUIMessageListener objects of the host
    NoTask,           \* the worker runs no task
    MaxSM,            \* bound: SurfaceManagers created
    MaxUses,          \* bound: API calls that post a task to the coordinator
    MaxAdds,          \* bound: addSurfaceEventListener calls
    ListenersChange   \* may a callback add a listener to its dispatcher?

SMs  == 1..MaxSM
Task == [op : {"init", "uninit", "use"}, sm : SMs, by : {"main", "worker"}]

ASSUME LifecycleAssumption ==
    /\ MaxSM \in Nat /\ MaxUses \in Nat /\ MaxAdds \in Nat
    /\ ListenersChange \in BOOLEAN
    /\ NoTask \notin Task

VARIABLES
    isRunning,    \* AGenUIEngine::_isRunning
    modules,      \* the single-instance modules and the engine context exist
    phase,        \* the worker thread: "none", "running", "stopping"
    late,         \* the worker began a task after stop() was requested
    queue,        \* its task queue
    map,          \* keys of _surfaceManagers
    nextId,       \* _nextInstanceId
    status,       \* SurfaceManager objects: "unborn", "alive", "dead"
    smRunning,    \* SurfaceManager::_isRunning
    dispatcher,   \* _dispatcher is not null
    coordinator,  \* _surfaceCoordinator and _streamingContentParser exist
    cached,       \* _cachedListeners
    listeners,    \* the dispatcher's _listeners
    mpc,          \* where the main thread is
    destroying,   \* the SurfaceManager destroySurfaceManager works on
    wpc,          \* where the worker is in its task
    current,      \* the task the worker runs
    idx,          \* the dispatch loop: index of the next listener
    uses, adds,   \* calls made so far
    registered    \* history: adds not yet undone by a remove, per SM and listener

thread == <<phase, late, queue>>
engine == <<isRunning, modules, map, nextId>>
object == <<status, smRunning, dispatcher, coordinator, cached, listeners>>
main   == <<mpc, destroying, uses, adds, registered>>
worker == <<wpc, current, idx>>
vars   == <<thread, engine, object, main, worker>>

Init ==
    /\ isRunning = FALSE /\ modules = FALSE
    /\ phase = "none" /\ late = FALSE /\ queue = <<>>
    /\ map = {} /\ nextId = 1
    /\ status = [s \in SMs |-> "unborn"]
    /\ smRunning = [s \in SMs |-> FALSE]
    /\ dispatcher = [s \in SMs |-> FALSE]
    /\ coordinator = [s \in SMs |-> FALSE]
    /\ cached = [s \in SMs |-> <<>>]
    /\ listeners = [s \in SMs |-> <<>>]
    /\ mpc = "uninitialised" /\ destroying = 0
    /\ wpc = "exited" /\ current = NoTask /\ idx = 1
    /\ uses = 0 /\ adds = 0
    /\ registered = [s \in SMs |-> [l \in Listeners |-> 0]]
-----------------------------------------------------------------------------
(* Objects and references. *)

Holds(q, s) == \E i \in DOMAIN q : q[i].sm = s

\* References to s, given what the map, the queue and the worker hold.
Referenced(s, m, q, c) == s \in m \/ Holds(q, s) \/ (c # NoTask /\ c.sm = s)

\* SurfaceManager::uninit() of every object in S: listeners, parser,
\* coordinator and dispatcher go; running it again changes nothing.
Uninit(S) ==
    /\ cached' = [s \in SMs |-> IF s \in S THEN <<>> ELSE cached[s]]
    /\ listeners' = [s \in SMs |-> IF s \in S THEN <<>> ELSE listeners[s]]
    /\ coordinator' = [s \in SMs |-> coordinator[s] /\ s \notin S]
    /\ dispatcher' = [s \in SMs |-> dispatcher[s] /\ s \notin S]

\* The destructor of whatever is referenced no more, which runs uninit().
DropUnreferenced(m, q, c) ==
    LET S == {s \in SMs : status[s] = "alive" /\ ~Referenced(s, m, q, c)}
    IN  /\ Uninit(S)
        /\ status' = [s \in SMs |-> IF s \in S THEN "dead" ELSE status[s]]
        /\ UNCHANGED smRunning

\* The mutex of a dispatcher is held while it calls its listeners.
Dispatching(s) == /\ wpc \in {"dispatch", "callback", "reenter", "stuck"}
                  /\ current.sm = s

\* The members of a set of naturals from the least to the greatest.
InOrder(S) == {order \in [1..Cardinality(S) -> S] : \A i, j \in DOMAIN order : i < j => order[i] < order[j]}

\* The worker thread accepts a task from the thread that may stop it.
Post(t) == queue' = Append(queue, t) /\ UNCHANGED <<phase, late>>
-----------------------------------------------------------------------------
(* Main thread: the engine. *)

\* initAGenUIEngine() and AGenUIEngine::start(); std::call_once.
EngineStart ==
    /\ mpc = "uninitialised"
    /\ modules' = TRUE
    /\ phase' = "running" /\ wpc' = "idle"
    /\ isRunning' = TRUE
    /\ mpc' = "ready"
    /\ UNCHANGED <<late, queue, map, nextId, object, destroying, uses, adds, registered,
                   current, idx>>

CreateSurfaceManager ==
    /\ mpc = "ready" /\ isRunning
    /\ nextId \in SMs
    /\ nextId' = nextId + 1
    /\ status' = [status EXCEPT ![nextId] = "alive"]
    /\ smRunning' = [smRunning EXCEPT ![nextId] = TRUE]
    /\ map' = map \cup {nextId}
    /\ Post([op |-> "init", sm |-> nextId, by |-> "main"])
    /\ UNCHANGED <<isRunning, modules, dispatcher, coordinator, cached, listeners, main, worker>>

\* Mutant: exitRunning() is not called.
DestroyExitRunning_Skipped(s) ==
    /\ mpc = "ready" /\ isRunning
    /\ s \in map
    /\ mpc' = "destroy" /\ destroying' = s
    /\ UNCHANGED <<thread, engine, object, uses, adds, registered, worker>>

\* destroySurfaceManager(): exitRunning() first ...
DestroyExitRunning(s) ==
    /\ mpc = "ready" /\ isRunning
    /\ s \in map
    /\ smRunning' = [smRunning EXCEPT ![s] = FALSE]
    /\ mpc' = "destroy" /\ destroying' = s
    /\ UNCHANGED <<thread, engine, status, dispatcher, coordinator, cached, listeners,
                   uses, adds, registered, worker>>

\* ... then out of the map and a task for uninit().
DestroyPost ==
    /\ mpc = "destroy"
    /\ map' = map \ {destroying}
    /\ Post([op |-> "uninit", sm |-> destroying, by |-> "main"])
    /\ mpc' = "ready"
    /\ UNCHANGED <<isRunning, modules, nextId, object, destroying, uses, adds, registered, worker>>

\* setDayNightMode(): one task per SurfaceManager, in map order.
SetDayNightMode ==
    /\ mpc = "ready" /\ isRunning
    /\ uses < MaxUses /\ uses' = uses + 1
    /\ \E order \in InOrder({s \in map : smRunning[s]}) :
          queue' = queue \o [i \in DOMAIN order |-> [op |-> "use", sm |-> order[i], by |-> "main"]]
    /\ UNCHANGED <<phase, late, engine, object, mpc, destroying, adds, registered, worker>>
-----------------------------------------------------------------------------
(* Main thread: a SurfaceManager.  The pointer may be one that was already *)
(* given to destroySurfaceManager, while its uninit task is pending.       *)

\* beginTextStream, receiveTextChunk, endTextStream, submitUIAction,
\* submitUIDataModel, onRenderFinish, onSurfaceSizeChanged.
Submit(s) ==
    /\ mpc = "ready"
    /\ status[s] = "alive"
    /\ uses < MaxUses /\ uses' = uses + 1
    /\ smRunning[s]
    /\ phase = "running"
    /\ Post([op |-> "use", sm |-> s, by |-> "main"])
    /\ UNCHANGED <<engine, object, mpc, destroying, adds, registered, worker>>

\* Mutant: a listener goes to the dispatcher and to the cache.
AddListener_Both(s, l) ==
    /\ mpc = "ready"
    /\ status[s] = "alive"
    /\ adds < MaxAdds /\ adds' = adds + 1
    /\ smRunning[s]
    /\ ~Dispatching(s)
    /\ listeners' = [listeners EXCEPT ![s] = IF dispatcher[s] THEN Append(@, l) ELSE @]
    /\ cached' = [cached EXCEPT ![s] = Append(@, l)]
    /\ registered' = [registered EXCEPT ![s][l] = @ + 1]
    /\ UNCHANGED <<thread, engine, status, smRunning, dispatcher, coordinator, mpc, destroying,
                   uses, worker>>

AddListener(s, l) ==
    /\ mpc = "ready"
    /\ status[s] = "alive"
    /\ adds < MaxAdds /\ adds' = adds + 1
    /\ smRunning[s]
    /\ IF dispatcher[s]
       THEN /\ ~Dispatching(s)
            /\ listeners' = [listeners EXCEPT ![s] = Append(@, l)]
            /\ UNCHANGED cached
       ELSE /\ cached' = [cached EXCEPT ![s] = Append(@, l)]
            /\ UNCHANGED listeners
    /\ registered' = [registered EXCEPT ![s][l] = @ + 1]
    /\ UNCHANGED <<thread, engine, status, smRunning, dispatcher, coordinator, mpc, destroying,
                   uses, worker>>

\* EventDispatcher::removeEventListener erases the first match; the cache of
\* a SurfaceManager whose init() has not run loses every match.
RemoveListener(s, l) ==
    /\ mpc = "ready"
    /\ status[s] = "alive"
    /\ registered[s][l] > 0
    /\ smRunning[s]
    /\ IF dispatcher[s]
       THEN /\ ~Dispatching(s)
            /\ listeners' = [listeners EXCEPT ![s] = RemoveFirst(@, l)]
            /\ UNCHANGED cached
       ELSE /\ \E kept \in InOrder({i \in DOMAIN cached[s] : cached[s][i] # l}) :
                  cached' = [cached EXCEPT ![s] = [i \in DOMAIN kept |-> cached[s][kept[i]]]]
            /\ UNCHANGED listeners
    /\ registered' = [registered EXCEPT ![s][l] = @ - 1]
    /\ UNCHANGED <<thread, engine, status, smRunning, dispatcher, coordinator, mpc, destroying,
                   uses, adds, worker>>
-----------------------------------------------------------------------------
(* Main thread: AGenUIEngine::stop() and ThreadManager::destroyThread(). *)

StopBegin ==
    /\ mpc = "ready" /\ isRunning
    /\ isRunning' = FALSE
    /\ phase' = "stopping"
    /\ mpc' = "stop_lock"
    /\ UNCHANGED <<late, queue, modules, map, nextId, object, destroying, uses, adds, registered,
                   worker>>

\* MessageThread::stop() empties the queue, holding the queue mutex ...
StopLock ==
    /\ mpc = "stop_lock"
    /\ mpc' = "stop_drain"
    /\ UNCHANGED <<thread, engine, object, destroying, uses, adds, registered, worker>>

\* ... and every task popped may drop the last reference to its SurfaceManager.
StopDrainOne ==
    /\ mpc = "stop_drain"
    /\ queue # <<>>
    /\ queue' = Tail(queue)
    /\ DropUnreferenced(map, Tail(queue), current)
    /\ UNCHANGED <<phase, late, engine, main, worker>>

StopDrained ==
    /\ mpc = "stop_drain"
    /\ queue = <<>>
    /\ mpc' = "stop_join"
    /\ UNCHANGED <<thread, engine, object, destroying, uses, adds, registered, worker>>

\* Mutant: the modules may be deleted before the worker is joined.
StopJoin_Early ==
    /\ mpc = "stop_join"
    /\ phase' = "none" /\ queue' = <<>>
    /\ DropUnreferenced(map, <<>>, current)
    /\ mpc' = "stop_uninit"
    /\ UNCHANGED <<late, engine, destroying, uses, adds, registered, worker>>

\* Mutant: the thread object is leaked, with the tasks pushed after the drain.
StopJoin_Leak ==
    /\ mpc = "stop_join"
    /\ wpc = "exited"
    /\ phase' = "none"
    /\ mpc' = "stop_uninit"
    /\ UNCHANGED <<queue, object, late, engine, destroying, uses, adds, registered, worker>>

\* After the join the thread object is deleted with what is left in its queue.
StopJoin ==
    /\ mpc = "stop_join"
    /\ wpc = "exited"
    /\ phase' = "none" /\ queue' = <<>>
    /\ DropUnreferenced(map, <<>>, NoTask)
    /\ mpc' = "stop_uninit"
    /\ UNCHANGED <<late, engine, destroying, uses, adds, registered, worker>>

StopUninitAll ==
    /\ mpc = "stop_uninit"
    /\ Uninit(map)
    /\ mpc' = "stop_clear"
    /\ UNCHANGED <<thread, engine, status, smRunning, destroying, uses, adds, registered, worker>>

StopClearMap ==
    /\ mpc = "stop_clear"
    /\ map' = {}
    /\ DropUnreferenced({}, queue, current)
    /\ mpc' = "stop_modules"
    /\ UNCHANGED <<thread, isRunning, modules, nextId, destroying, uses, adds, registered, worker>>

StopDeleteModules ==
    /\ mpc = "stop_modules"
    /\ modules' = FALSE
    /\ mpc' = "stopped"
    /\ UNCHANGED <<thread, isRunning, map, nextId, object, destroying, uses, adds, registered,
                   worker>>
-----------------------------------------------------------------------------
(* Worker: the task at the head of the queue. *)

WorkerTake ==
    /\ wpc = "idle"
    /\ mpc # "stop_drain"
    /\ phase = "running" \/ (phase = "stopping" /\ ~late)
    /\ queue # <<>>
    /\ current' = Head(queue)
    /\ queue' = Tail(queue)
    /\ late' = (phase = "stopping")
    /\ wpc' = Head(queue).op
    /\ UNCHANGED <<phase, idx, engine, object, main>>

WorkerExit ==
    /\ wpc = "idle"
    /\ phase = "stopping"
    /\ wpc' = "exited"
    /\ UNCHANGED <<thread, engine, object, main, current, idx>>

\* SurfaceManager::init(), the part under _cachedListenersMutex ...
InitDispatcher ==
    /\ wpc = "init"
    /\ LET s == current.sm
       IN  /\ dispatcher' = [dispatcher EXCEPT ![s] = TRUE]
           /\ listeners' = [listeners EXCEPT ![s] = cached[s]]
           /\ cached' = [cached EXCEPT ![s] = <<>>]
    /\ wpc' = "init_modules"
    /\ UNCHANGED <<thread, engine, status, smRunning, coordinator, main, current, idx>>

\* Mutant: init() stops when it has handed over the cached listeners.
InitModules_Skipped ==
    /\ wpc = "init_modules"
    /\ wpc' = "release"
    /\ UNCHANGED <<thread, engine, object, main, current, idx>>

\* ... and the part that creates the coordinator and the parser.
InitModules ==
    /\ wpc = "init_modules"
    /\ coordinator' = [coordinator EXCEPT ![current.sm] = TRUE]
    /\ wpc' = "release"
    /\ UNCHANGED <<thread, engine, status, smRunning, dispatcher, cached, listeners, main,
                   current, idx>>

RunUninit ==
    /\ wpc = "uninit"
    /\ Uninit({current.sm})
    /\ wpc' = "release"
    /\ UNCHANGED <<thread, engine, status, smRunning, main, current, idx>>

\* The body of a posted API call: nothing when the coordinator is gone,
\* otherwise it handles the call and dispatches its outcome to the listeners.
RunUse ==
    /\ wpc = "use"
    /\ \/ coordinator[current.sm] /\ wpc' = "dispatch" /\ idx' = 1
       \/ ~coordinator[current.sm] /\ wpc' = "release" /\ UNCHANGED idx
    /\ UNCHANGED <<thread, engine, object, main, current>>

DispatchNext ==
    /\ wpc = "dispatch"
    /\ wpc' = IF idx <= Len(listeners[current.sm]) THEN "callback" ELSE "release"
    /\ UNCHANGED <<thread, engine, object, main, current, idx>>

CallbackReturn ==
    /\ wpc = "callback"
    /\ idx' = idx + 1
    /\ wpc' = "dispatch"
    /\ UNCHANGED <<thread, engine, object, main, current>>

\* A listener calls submitUIAction: the checks of _isRunning ...
ReenterCheck ==
    /\ wpc = "callback"
    /\ uses < MaxUses /\ uses' = uses + 1
    /\ smRunning[current.sm] /\ phase = "running"
    /\ wpc' = "reenter"
    /\ UNCHANGED <<thread, engine, object, mpc, destroying, adds, registered, current, idx>>

\* Mutant: stop() still holds the queue mutex when it joins the worker.
ReenterPush_LockedOut ==
    /\ wpc = "reenter"
    /\ mpc \notin {"stop_drain", "stop_join"}
    /\ Post([op |-> "use", sm |-> current.sm, by |-> "worker"])
    /\ wpc' = "callback"
    /\ UNCHANGED <<engine, object, main, current, idx>>

\* ... and, whatever the main thread did meanwhile, the push.
ReenterPush ==
    /\ wpc = "reenter"
    /\ mpc # "stop_drain"
    /\ Post([op |-> "use", sm |-> current.sm, by |-> "worker"])
    /\ wpc' = "callback"
    /\ UNCHANGED <<engine, object, main, current, idx>>

\* A listener adds a listener to the dispatcher that is calling it: the
\* mutex is not recursive and the worker already holds it.
ReenterAddListener ==
    /\ ListenersChange
    /\ wpc = "callback"
    /\ adds < MaxAdds /\ adds' = adds + 1
    /\ smRunning[current.sm]
    /\ wpc' = "stuck"
    /\ UNCHANGED <<thread, engine, object, mpc, destroying, uses, registered, current, idx>>

\* The task is destroyed and with it its reference.
Release ==
    /\ wpc = "release"
    /\ current' = NoTask
    /\ DropUnreferenced(map, queue, NoTask)
    /\ wpc' = "idle"
    /\ UNCHANGED <<thread, engine, main, idx>>
-----------------------------------------------------------------------------
StopStep == \/ StopLock \/ StopDrainOne \/ StopDrained \/ StopJoin \/ StopUninitAll \/ StopClearMap
            \/ StopDeleteModules

MainStep == \/ EngineStart \/ CreateSurfaceManager \/ DestroyPost \/ SetDayNightMode
            \/ StopBegin \/ StopStep
            \/ \E s \in SMs : DestroyExitRunning(s) \/ Submit(s)
            \/ \E s \in SMs, l \in Listeners : AddListener(s, l) \/ RemoveListener(s, l)

WorkerStep == \/ WorkerTake \/ WorkerExit \/ InitDispatcher \/ InitModules \/ RunUninit
              \/ RunUse \/ DispatchNext \/ CallbackReturn \/ ReenterPush \/ Release

Next == MainStep \/ WorkerStep \/ ReenterCheck \/ ReenterAddListener

Spec == Init /\ [][Next]_vars

\* The worker is scheduled, and an engine call that began goes on; nobody is
\* obliged to call anything.
Fairness == WF_vars(WorkerStep) /\ WF_vars(StopStep) /\ WF_vars(DestroyPost)

FairSpec == Spec /\ Fairness
-----------------------------------------------------------------------------
(* Type and safety. *)

MainPcs   == {"uninitialised", "ready", "destroy", "stop_lock", "stop_drain", "stop_join",
              "stop_uninit", "stop_clear", "stop_modules", "stopped"}
WorkerPcs == {"exited", "idle", "init", "init_modules", "uninit", "use", "dispatch", "callback",
              "reenter", "stuck", "release"}
InCallback == {"callback", "reenter", "stuck"}

\* Every variable has its type; the worker calls listeners that exist.
TypeOK ==
    /\ isRunning \in BOOLEAN /\ modules \in BOOLEAN /\ late \in BOOLEAN
    /\ phase \in {"none", "running", "stopping"}
    /\ queue \in Seq(Task)
    /\ map \subseteq SMs /\ nextId \in 1..(MaxSM + 1)
    /\ status \in [SMs -> {"unborn", "alive", "dead"}]
    /\ smRunning \in [SMs -> BOOLEAN]
    /\ dispatcher \in [SMs -> BOOLEAN] /\ coordinator \in [SMs -> BOOLEAN]
    /\ cached \in [SMs -> Seq(Listeners)] /\ listeners \in [SMs -> Seq(Listeners)]
    /\ mpc \in MainPcs /\ destroying \in 0..MaxSM
    /\ wpc \in WorkerPcs /\ current \in Task \cup {NoTask}
    /\ idx \in Nat \ {0}
    /\ wpc \in InCallback => idx <= Len(listeners[current.sm])
    /\ uses \in Nat /\ adds \in Nat
    /\ registered \in [SMs -> [Listeners -> Nat]]

\* While the worker runs a task the single-instance modules and the engine
\* context exist, and so does the SurfaceManager it runs on: stop() joins the
\* worker before it deletes them, and a task holds a reference.  A task of a
\* SurfaceManager that was not given to destroySurfaceManager finds its
\* coordinator: init() ran before, although createSurfaceManager returned
\* without waiting for it and callers may submit at once.
TaskFindsItsWorld ==
    /\ wpc \notin {"exited", "idle"} => modules /\ status[current.sm] = "alive"
    /\ wpc = "use" /\ current.sm \in map => coordinator[current.sm]

\* What the main thread submits never lands behind the uninit() of its
\* SurfaceManager: exitRunning() comes before the post.  (Only a listener
\* that re-entered before exitRunning() can; its task finds no coordinator.)
NothingBehindUninit ==
    \A i, j \in 1..Len(queue) :
        i < j /\ queue[i].op = "uninit" /\ queue[j].sm = queue[i].sm
            => queue[j].by = "worker"

CountOf(q, l) == Cardinality({i \in DOMAIN q : q[i] = l})

\* Once a listener was removed as often as it was added it is in no list, in
\* whatever order init() and the calls ran, and it is not being called: a
\* remove waits for a dispatch in progress.
RemovedIsGone ==
    /\ \A s \in SMs, l \in Listeners :
          CountOf(cached[s], l) + CountOf(listeners[s], l) <= registered[s][l]
    /\ wpc \in InCallback =>
          /\ idx \in DOMAIN listeners[current.sm]
          /\ registered[current.sm][listeners[current.sm][idx]] > 0

\* When stop() has returned every SurfaceManager was destroyed, with its
\* coordinator, dispatcher and listeners, and none of them outlives the
\* modules, not even through a task pushed after the queue was drained.
AllReleased ==
    ~modules => \A s \in SMs : /\ status[s] # "alive"
                               /\ ~coordinator[s] /\ ~dispatcher[s]
                               /\ ~Holds(queue, s)

(* Liveness. *)

\* A listener that added a listener from its callback holds the worker for ever.
Frozen == wpc = "stuck"

\* AGenUIEngine::stop() returns: the worker always gets to the end of its
\* loop, although it may be blocked on a mutex that the drain holds.  A listener
\* that adds a listener to its own dispatcher is the only thing that can keep
\* the worker, and with it stop(), for ever.
StopReturns == mpc = "stop_lock" ~> (mpc = "stopped" \/ Frozen)

\* A SurfaceManager that was created is initialised unless the engine stops
\* (or the worker is frozen in the callback of another).
InitCompletes ==
    \A s \in SMs :
        (\E i \in DOMAIN queue : queue[i].sm = s /\ queue[i].op = "init") ~>
            (coordinator[s] \/ phase # "running" \/ Frozen)
-----------------------------------------------------------------------------
(* What the comments and the tests of the repository say. *)

\* listener_boundary_test.cpp, LB002: "add twice + remove once -> still fires
\* once", whether or not init() has run.
RegisteredStillFires ==
    \A s \in SMs, l \in Listeners :
        s \in map /\ registered[s][l] > 0 =>
            CountOf(cached[s], l) + CountOf(listeners[s], l) > 0
=============================================================================
