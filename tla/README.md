# FlexUI / AGenUI: TLA+ models and proofs

This directory specifies the C++ engine under `core/`, the part of its Android
binding that shares state with it, and the renderer of HarmonyOS, which is C++
as well. Each module is written from the code it names; every definition that
stands for code is listed with its file and lines in `PROJECT.json` ("map").

Run a check with `tlc -workers 2 -config <cfg> <module>`, a proof with
`tlapm <module>Proofs.tla`.

## 1. The system

An application feeds protocol text (create a surface, define components, change
data) to the engine, usually as an agent writes it: in chunks cut anywhere. The
engine keeps one component tree per surface, lays it out with Yoga and tells the
platform which views to add, update and remove. There are two threads that
matter: the *main* (business, UI) thread, which calls every public interface, and
one *worker* thread shared by all SurfaceManagers. The interfaces post tasks to
the worker; the listeners of the platform are called on the worker, and post to
the main looper in their turn. What the user does takes the same way: the view
changes what it shows, posts the change to the worker, and is told later what the
data says.

| Component (source) | State | Operations | Interacts with | What is hard | What makes it correct |
|---|---|---|---|---|---|
| MessageThread (`module/agenui_message_thread.*`) | two queues, two atomics, mutex, condition variable | start, stop, post, postDelayed, worker loop | every poster; ThreadManager | flags read outside the mutex, lost wake-ups, drain against post, delayed tasks | serial, in order, at most once; quiet after stop; stop returns |
| ThreadManager (`module/agenui_thread_manager.*`) | map of threads | destroyThread, getMessageThread | engine | raw pointers used after the lock | a thread is not used after its deletion |
| AGenUIEngine (`module/agenui_engine_impl.*`, `..._entry.cpp`) | running flag, SurfaceManagers, single-instance modules | start, stop, create/destroySurfaceManager, setters | MessageThread, SurfaceManager | order of stop, shared_ptr released by whoever is last | objects outlive their users, all are released |
| SurfaceManager (`module/agenui_surface_manager.*`) | running flag, dispatcher, parser, coordinator, cached listeners, size provider | init, uninit, listener calls, posted calls | worker tasks, dispatcher | init races with the calls made meanwhile | a call finds its coordinator, a listener is in one list |
| EventDispatcher (`module/agenui_event_dispatcher.*`) | listener vector and mutex | add, remove, dispatch | callbacks into the platform | callbacks under the mutex, re-entrance | no callback after the last remove |
| StreamingContentParser, ProtocolStreamExtractor, stream plugins (`stream/`) | buffer, parser state, streamed components and values | begin, chunk, end | SurfaceCoordinator | chunk boundaries anywhere, buffer limit, two kinds of plugin | the surfaces do not depend on the cuts |
| BatchGuard (`agenui_batch_guard.h`) | depth, pending, flushing | begin, end, requestFlush | Surface, VirtualDOM, ComponentManager | cascades, re-entrant flushes, the cap of 8 passes | flushed once, in the right order, nothing forgotten |
| DataModel and bindings (`surface/datamodel`, `component_manager/data_value`) | JSON tree, binding table | update, append, bind, unbind | ComponentModel | observers come and go while they are notified | every affected binding is told, of the latest value |
| ComponentManager, ComponentModel (`surface/component_manager`) | components, dirty queue, per-attribute marks | define, change, delete, flush | DataModel, VirtualDOM | a flush dirties or deletes others, list items come and go | every change reaches the tree once |
| VirtualDOM (`surface/virtual_dom`) | node tree, snapshots, orphans, display rules | updateNode, layout pass, notifications | Surface, Yoga | children before parents, moved, removed and added again, waiting for data | the tree mirrors the components |
| Surface, SurfaceCoordinator (`surface/agenui_surface*`) | surfaces, dispatch queue, size cache | create, delete, update, size push and pull | all of the above; host provider | order of the messages, size from two sources | the platform shows the model |
| Android binding (`jni/`, `platforms/android/.../render/surface`) | provider bridges, views, main looper | set and clear the provider, create and destroy views, report sizes | SurfaceManager, Surface | two queues in opposite directions, use after unlock | view and surface agree |
| HarmonyOS renderer (`platforms/harmony/.../a2ui`, ArkTS wrappers) | instances, surfaces, trees, containers, listeners, table of ids | tasks of every report, bind and unbind, listener calls | worker, ArkTS | weak pointers in queued tasks, ids used again, listeners that change in a call | renderer and core agree, events find their instance |
| Images, players, inputs of HarmonyOS (`render/components`, `bridge`) | url, request, player state, edited value | load, cancel, answer, retry; prepare, play, reset; edit, send | main looper, the application's loader, AVPlayer, worker | late answers, state that is already left, echoes | what is shown belongs to the present url or value |
| FunctionCallManager (`function_call/`) | registered functions | register, unregister, call | platform | raw pointer used after the unlock | a call in progress has its function |
| MeasurementManager, Yoga, style and token parsers, MessageParser, TemplateRegistry | tables | pure look-ups and conversions | layout | - | - |
| Go agent SDK, Android and iOS views, playground | - | - | - | separate programs | - |

`PROJECT.json` lists every component with its status and, under "hazards", the
places where this code can go wrong in a way a test would hardly reach.

## 2. Modules

    TaskExecutor              what IThread promises (abstract)
      ^ implemented by: MessageThreadProofs (steps, proved), TLC (fairness too)
    MessageThread             the worker thread, step by step   <- MessageThreadProofs
    EngineLifecycle           engine, SurfaceManagers, listeners on a serial executor
                                                                <- EngineLifecycleProofs
    ProtocolText              a text, and what it says of the surfaces (reference)
      ^ extended by
    StreamExtractor           chunks to messages               <- StreamExtractorProofs
    DataBinding               data, bindings, list template, display rules
                                                                <- DataBindingProofs
    SurfacePipeline           one surface: components -> virtual DOM -> messages
                                                                <- SurfacePipelineProofs
    SurfaceSize               one surface and its Android view: pull and push of the width
                                                                <- SurfaceSizeProofs
    HarmonyRenderer           instances, surfaces, containers, listeners of HarmonyOS
                                                                <- HarmonyRendererProofs
    HarmonyPage               a page of one class of components:
                                                                <- HarmonyPageProofs
      ImageLoading            requests, cancellations, answers, retries, animation
      MediaPlayer             video and audio
      InputBinding            text field and choice picker
    MC*.tla, MC*.cfg          instances for TLC

The modules compose by contract. MessageThread implements TaskExecutor;
EngineLifecycle, SurfaceSize, InputBinding and (for one task) SurfacePipeline,
DataBinding and StreamExtractor assume of their worker only what TaskExecutor
says: one task at a time in submission order, at most one task begun after stop
was requested, and none after it returned. StreamExtractor ends where the
messages reach the coordinator, DataBinding begins with a message and ends with
the nodes' contents, SurfacePipeline begins with dirty components and ends with
the messages to the platform, HarmonyRenderer begins with these.

### MessageThread

`taskQueue`, `delayedTaskQueue`, `isRunning`, `shouldStop` and the mutex are the
members of the class; `wpc`, `task`, `timedOut` are the worker's place and
locals; `pc`, `arg` are the same for each caller. `due` says how many delayed
tasks have expired (time is abstracted to the action `Expire`). An access to an
atomic outside the mutex is a step of its own: `PostCheck` (the unlocked test of
`_isRunning`) is apart from `PostEnqueue`, and `stop()` is `StopSignal`,
`StopClearRunning`, `StopNotify`, `StopDrain`, `StopJoin`. The worker's critical
section is cut where another thread can change what it reads (`_shouldStop`) and
where it sleeps. `WorkerSpuriousWake` is the wake-up the standard allows.
`started`, `lateRuns` and `early` are history variables.

### EngineLifecycle

The main thread (`mpc`) calls the engine and SurfaceManagers; the worker (`wpc`)
runs `init`, `uninit` and `use` tasks, the last being any posted API call, which
dispatches to the listeners. `DropUnreferenced` is the shared_ptr: an object dies
in the step in which the map, the queue and the running task all let go of it,
on the thread that took that step. `stop()` is nine steps, from `StopBegin` to
`StopDeleteModules`; the drain pops task by task because popping one may run a
destructor. A callback may call back into its SurfaceManager (`ReenterCheck`,
`ReenterPush`) or add a listener (`ReenterAddListener`), which blocks for ever on
the dispatcher mutex its own thread holds. That deadlock is known (the disabled
test LB004 names it), so the model has it and `StopReturns` is for hosts that
do not do it.

### ProtocolText and StreamExtractor

A document is a sequence of tokens, each of which stands for the characters of
one lexical element and carries its position, so that a lost, doubled or
misplaced piece of text is told from any other. `Expected` (ProtocolText) is the
reference: what the surfaces hold after every event of the uncut document.
StreamExtractor is the code: `Receive(n)` takes any number of tokens as a chunk,
and every later action is one round of the loop `pc` names, over `buffer`
(`_dataBuffer`), `mode` (`_streamState`), `pos`, `rest`, the `_dm*` members and
the state of the two plugins. A chunk that does not fit the buffer is dropped as
a whole, as in the code. `harm` is history: which of six kinds of cut, known to
change the result, were made (`HarmOf`).

- *tail*: between the end of a streamed array or value and the end of its event,
  white space next: the rest of the event is not skipped.
- *attributes*: the rest of an inline text comes in one chunk with the end of its
  component: the attributes behind the text are lost.
- *merge*: a value cut inside becomes one message for each leaf, which merges
  where the whole value replaces.
- *suffix*: a string whose path ends like a bound path is streamed as that one.
- *escape*: between the `u` and the digits of a unicode escape.
- *raw*: an escaped character in a streamed value arrives escaped twice.

Taking any one of the six out of the premise makes TLC find a document and a cut.

### DataBinding

`data` is the model, `m` the components (alive, dirty marks, children of the list,
binding table), `current` their snapshots, `dom` the virtual DOM with its orphans,
`platform` the streamed text. A change walks over the live binding table and, for
each path, over a copy of its observers (`Notify`), while a notified list creates
and deletes the items (`Grow`, `Shrink`), which bind and unbind. These two are the
loops of the code in closed form, by what they leave: `Grow` appends the items
from the old size to the new one, `Shrink` is the loop over a vector it shortens
and so keeps every child it jumps over. `made` says for each component from which
definition its attributes come: its own last one or, for a child of the list, the
template's at the time it was cloned; `ReplaceComponent` is what a definition does
to the list and to its children, which is nothing while their number is that of
the elements. The end of a call flushes what is dirty in the order of
`_dirtyOrder` (`AddComponents` over a sequence of components: `Kids`, `Below` and
`Adopting` say who is hung under whom, and which orphans are taken in) and hands
the snapshots to `SetSnapshot`, with the display rules. The attribute "all" stands
for the empty attribute name of a binding, with which a whole list is notified.
Two things the code does are history: `surplus` (the shrink loop skipped a child)
and `dangling` (an observer of the copy was gone when its turn came).

### SurfacePipeline

One worker, but a deep call chain: an operation opens three nested batches, and
closing them flushes components, then the layout, then the messages, while each
flush may ask for others. `stack` is the call stack and each action executes the
next step of its head, so every point where the code can be re-entered is a
state. The three guards share the BatchGuard actions. `dirty`, `dirtyOrder`,
`dirtyIndex` are ComponentManager's queue; `nodes`, `snap`, `orphan`,
`newLayout`, `shown` the virtual DOM; `pendingDispatches` the queue of Surface;
`platform` is what a renderer shows after the messages it has been given.
`listed` and `nodes` are sequences, the root's list and the vector of its nodes.
`UpdateRootNode` is `updateChildren()` by what its loop leaves: a node stays
(`Stay`) unless it stood in front of one the loop was looking for; what does not
stay is destroyed, and reports its removal in the order of the vector
(`Destroyed`, `InOrder`); a destroyed child that is still listed gets a new node
from the stash (`Restored`), one without a snapshot looks for an orphan (`Taken`),
and both are added by the next layout. So a child in front of which another is
listed is removed and added again in one burst. The order in which items are
generated is any order, the layout walks the tree in its own.

Content is a version number, and the tree is the root with its children. Two
variables are history. `lost`: a child whose node went with its snapshot, because
a root left it out, and was not rebuilt since. `stripped`: a child whose node was
made from the stash, where `setSnapshot()` had taken the styles it converts for
the layout out of the snapshot. What is below a child is not modelled. In the
code the nodes below a moved child go with its old node; the stash keeps one
snapshot, the child's own, so they come back empty until their components change.

### SurfaceSize

The two threads and the two queues between them. `surface` is the C++ size cache
with the width of the last layout, `view` the Java view and the width it last
reported. The pull is three steps (`ReadProvider` under the mutex,
`QueryProvider` outside it, `Layout`); the JNI calls that replace or remove the
provider are two steps each, pointer first, object second. The application may
answer the pull with any width, 0 included, and containers are laid out at any
time.

### HarmonyRenderer

`core` is what the worker reports, `queue` the one thread-safe function all
reports go through, `running` the task in the middle of its calls to ArkTS, where
the application may call anything. `platform` is each A2UISurfaceManager,
`handles` and `container` the two ends of a binding between a container and a
surface, `mapping` the process-wide table by which an event finds its instance,
`native` and `ets` the two lists of listeners. A task locks its weak pointer when
it runs, so that a listener may be held ("held") by the task that destroys it.
Two loops call listeners. The native one goes over `listeners_` with the iterators
it began with (`CallListener`): `running` has its place and the number of calls it
set out to make, and whether a `push_back` moved the vector since; outside the
vector (`Within`) the call is one that finds a listener there or nothing, as the
memory has it. Each call is of a wrapper, which tells all listeners of the ArkTS
SurfaceManager (`TellListener`, `Receiver`), whose `forEach` visits the positions
there were when it began. A call that removes listeners (`removeAllListeners()`
and `destroy()` do nothing else to the lists) or adds them acts on both.
The loops for action events and errors have the same shape as these and are left out.
A report about a tree names the components it is about (`ids`); what goes with a
component is the least set that is closed under children (`Subtrees`), which is
what the recursive `destroy()` visits. The end of a surface reports each node by
itself, a parent before its children, in any such order (`ParentsFirst`).

### ImageLoading, MediaPlayer, InputBinding, HarmonyPage

ImageLoading has the bridge's two tables and two thread-safe functions, between
which there is no order, the application's loader and the ArkUI node (external):
a cancellation may overtake its request, an answer may come after it or after the
component is gone. MediaPlayer has the component's idea of the player's state,
the player itself (external: which call it takes in which state, as the code
relies on) and the reports in the main looper between them. Its `Prepare` stands
for `SetURLSource`, `SetVideoSurface` and `Prepare` of the player: whichever of
the three fails, the component gets one report of an error. InputBinding is the
round trip of a value: edit, task for the worker, change of the data, report,
property update, with the agent's own changes and with validation. HarmonyPage
puts them on one page, one class of component at a time: they share only the main
looper, so products of their states would show nothing more.

## 3. Runs

All runs have CHECK_DEADLOCK FALSE: nobody is obliged to call the engine, and
the bounds on calls end every behaviour.

| Run | Instance | Shows |
|---|---|---|
| `message_thread` | a business thread (2 posts), the owner (none), posts from a task body (1), delayed and not, 2 starts; 115 thousand states | `TypeOK`; `QuietAfterStop`; `SubmissionOrder`; `AtMostOneLateRun`; `NothingEarlyIsLeft`; `StopTerminates`, although the wake-up may be lost; `AcceptedTaskBegins`; `ImplementsExecutor` (the refinement, fairness included) |
| `engine` | 2 SurfaceManagers, 1 listener, 2 uses, 2 adds; 253 thousand states | `TaskFindsItsWorld`; `NothingBehindUninit`; `RemovedIsGone`; `AllReleased`; `StopReturns`; `InitCompletes` |
| `stream` | five documents (inline, bound and streamed text, escapes, arrays, two surfaces), then a second stream; buffer of 22 tokens; 29 thousand states | `InDocumentOrder`; `ShowsPrefix`; `OnlyKnownCutsMatter`; `ChunkIsProcessed` |
| `binding` | list with up to 2 items whose template is bound to its element, the array and the text, a card with a bound text, 6 changes; 1.03 million states | `BindingsMatchComponents`; `ListFollowsData`; `ScreenFollowsData` |
| `pipeline` | root, 2 children in any order, 1 list item, 4 changes, cap of 2 passes, rebuilds of the root and one child that dirty others; 601 thousand states | `Settled`; `MirrorsModel`; `MessagesMakeSense`; `OneLayoutOneBurst`; `DispatchComesLast`; `OperationEnds` |
| `surface_size` | 5 messages, 3 container layouts, 2 bridges, 2 widths; 1.5 million states | `TypeOK`; `SurfaceFollowsView`; `PublishedBridgeIsAlive` |
| `renderer` | 2 instances, 1 surface id, 2 children, 2 containers, 1 listener, 5 reports, 2 of them waiting; 812 thousand states | `RendererMirrorsCore`; `ActionsReachOwnInstance`; `ContainerShowsItsSurface` |
| `listeners` | 2 instances with 2 listeners each, 1 surface id, 4 reports; 550 thousand states | `EndIsTold` |
| `components` | an image (2 urls, 4 requests, 3 updates), a player (3 sources, one refused; 3 updates, 1 click, 2 windows), an input (2 items, 2 patterns, 3 edits, 1 message); 448 thousand states | `RequestsAreOwned`; `ShownIsCurrent`; `EverythingSettles`; `PlaysItsUrl`; `LastUrlIsTakenUp`; `InputsAgree` |
| `size_query`, `stream_cuts`, `append_mode` | the instances above, smaller | violations, see findings: `QueriedBridgeIsAlive`; `CutsDoNotMatter`; `AppendedPieceIsAdded` |

Each property of a passing run has a mutant in `PROJECT.json`: an alternative of
a mapped definition, kept next to it in the module with a comment that starts
"Mutant:", under which the run finds the property violated. Where the module's
type invariant is not a property of its own, the first invariant of its run has
it as a conjunct, or a proof has it (EngineLifecycle).

**Bounds.** MessageThread: two posts of one client are what an ordering needs,
the posts of a task body add the other position from which a post can race with
`stop()`, and a second start shows tasks left over from the first.
EngineLifecycle: two SurfaceManagers make the map, the drain and the release of
one object while the worker runs the other's task meet; two adds of one listener
distinguish "first match" from "every match". StreamExtractor: the documents hold
every kind of event and each way of streaming once, every cut of them is tried,
and 22 tokens are less than the longest event, so that chunks are dropped.
DataBinding: two items are a list that shrinks by one and by two at once; six
changes define list, template, card and data in any order and then grow and
shrink the list or define the template again. SurfacePipeline: two children
change places, get one another in front, are defined before and after they are
listed, left out and listed again; the item of a list takes turns with the
explicit children and is created again under the id of a deleted one; the cap is
2 where the code has 8 so that it is reached with few changes (the code after the
loop does not depend on its value). `Echo` is the root and one child, so that
a parent dirties a child, a child its parent, and either one that is alike but
dirties nobody: enough to reach the cap from both sides. SurfaceSize: five
messages allow create, update, delete, create, update; three layouts allow two
widths of one view and the report of a second.
HarmonyRenderer: two instances make one table of ids be shared, two containers
make a handle be taken over, and a queue of two lets a report wait behind the task
that makes it void; two listeners, in a run without containers and components,
are what one needs to find another registered, removed or added in its call, and
four reports create and delete the surface twice. The components: two urls and
four requests let a request be overtaken by the next one and retried; three updates
are url, other url, first url again; two edits cross one echo.

**Fairness.** MessageThread: weak fairness of the worker loop (the operating
system schedules it and a task body returns), of the steps inside a call that
has begun (`StopStep`, the posts of the owner and of the worker) and of the
clock; strong fairness of the timeout, because `wait_for` with a predicate keeps
one absolute deadline over all wake-ups. No client is obliged to call anything
and no lock is strongly fair. EngineLifecycle: weak fairness of the worker, of
the steps of `stop()` and of the second half of `destroySurfaceManager`.
SurfacePipeline and StreamExtractor: weak fairness of the thread that is in the
call. ImageLoading: weak fairness of the main looper, of the nodes' reports, and
of the loader's answers; `ImageLoader.ets` asks for the last: "The loader must
always invoke onComplete, including cancellation and failure cases, so the SDK
can clean up state." MediaPlayer: weak fairness of the main looper and of the
player's reset and prepare. No user and no agent is obliged to do anything. The
other modules have safety properties only.

## 4. Findings

Disagreements between a comment, a test or documentation and what the code does.
Each states what the text says as a property, which TLC finds violated. The first
three are runs of `PROJECT.json` with `expect: violation`, the others have a
configuration beside them, to be run by hand with the module it is for.

1. `size_query`: the worker queries the size provider after the mutex is
   released, so the "detach first" in `jni_clearSurfaceSizeProvider` does not
   exclude a query in flight when the bridge is deleted.
2. `stream_cuts`: where the tests say that the events do not depend on how the
   text is split, attributes behind a streamed inline text are lost when the
   closing quote and the end of the component come in one chunk (the other five
   kinds of cut are in section 2).
3. `append_mode`: `flushDirty()` resets `appendMode` before it returns the
   snapshot that carries it, so an appended piece replaces the text on screen.
4. `MCListenerCache.cfg`, `RegisteredStillFires` (MCEngineLifecycle): one remove
   undoes two adds before `init()` has run, and one add after it; test LB002
   expects the latter.
5. `MCMovedChild.cfg`, `LayoutStylesAreKept` (MCSurfacePipeline): where the comment
   in `updateChildren()` says "Restore from stash if available" (line 462), the
   stash holds a snapshot from which `setSnapshot()` took the layout styles
   (156-166); a child that moves is laid out without them until it is sent again.
6. `MCDestroyedObserver.cfg`, `NoDestroyedObserverIsCalled` (MCDataBinding):
   `notifyAffectedObservers()` (`agenui_data_model.cpp`, 201-211) calls observers
   from a copy after an earlier one of the same entry destroyed and unbound them;
   it takes a template that is bound to the array of its own list, which nothing
   excludes.
7. `MCTemplateUpdate.cfg`, `TemplateReachesChildren` (MCDataBinding):
   `tryUpdateTemplate()` does not reach the children cloned from the template,
   unless the number of elements changes at the same time, and then only the new
   ones (`agenui_component_model.cpp`, 146).
8. `MCListenersTwice.cfg`, `HeardOnce` (MCHarmonyRenderer): with two listeners, which
   all platforms support according to `docs/API.md` (177), each hears on HarmonyOS
   twice that a surface was created: every wrapper tells all of them
   (`AGenEngineUI.ets`, 260).
9. `MCListenerLoop.cfg`, `LoopStaysInList` (MCHarmonyRenderer): a listener that
   leaves, or one that is added, in a call takes the native loop over the listeners
   out of the vector (`a2ui_message_listener.cpp`, 156).

Read in the code on the way, without a run of their own:

- `MessageThread::stop()` discards what is queued, where
  `engine_destroy_chain_test.cpp` (88-90) says that it processes all pending
  tasks; emptying the queue may destroy a SurfaceManager on the main thread while
  the worker still runs, where the comment in `AGenUIEngine::stop()` says no
  thread is running then (`TaskFindsItsWorld`: never the one in use).
- A create event waiting in the Android main looper when
  `SurfaceManager.destroy()` runs makes a view that nobody destroys
  (`SurfaceManager.java`, 204-206).
- `agenui_surface_size_provider.h` promises that a layout is skipped while the
  provider answers 0; the code lays out at width 0.
- The shrink loop of `generateListChildren` skips every second surplus child
  (`ListFollowsData` names it); an array that arrives empty never marks its list
  (`ScreenFollowsData` names it).
- A child that moves in its parent's list loses the nodes below it, which come back
  without content until their components change (the stash is of one level).
- Display rules: `AllDataReady` is never assigned, `AnyDataReady` looks for ready
  children among the orphans only, and "Always" waits for the first snapshot
  (`snapshot.h`, 55-57, against `virtual_dom.cpp`, 107-195).
- HarmonyOS surfaces: two live instances that use one surface id take the table
  entry from each other (excluded by `MayUse`: an assumption about the
  application, for which the repository has no more than the words "a Surface's
  unique ID" in the questions of `docs/API.md`, 871); a listener that is removed
  in the middle of a deletion makes the `forEach` pass over the next one
  (`EndIsTold` names it); the deletion of an unknown surface erases
  the entry of another instance; a container that was bound before its surface
  was created is refused, and one whose surface is created again is not bound
  again.
- Images: the ArkTS wrapper passes the engine's id to `loader.cancel` where the
  loader knows its own, so that a cancellation never matches; a reveal animator
  outlives its component; a component whose url becomes empty keeps the old
  picture.
- Players: a url that comes while the component takes a busy player for idle is
  not taken up (`media.late`); a new window is not given to a playing player; an
  audio component whose url is refused stays in "preparing" when clicked.
- Inputs: a picker whose check is about its own value is disabled for ever once
  the check fails; the echo of an older edit may take back a character until both
  sides agree; a rejected text stays in the field unsent even if the pattern
  changes. Check box, slider and date input of HarmonyOS never send their value.

## 5. Theorems

Proved by TLAPS for all values of the constants under the assumptions named in
the modules (`ThreadsAssumption`: the owner, the worker and the posters are
different threads; `TaskAssumption`, `IdAssumption`: the null task is no task and
no id; the others: bounds are naturals, a pattern matches sets of items). The
bounds of the TLC runs are gone: any number of posters, posts, restarts,
SurfaceManagers, messages, bridges, items, edits, images, requests, players' urls,
instances, surfaces, components, containers, reports waiting.

*MessageThreadProofs.* Two invariants carry the five theorems.
`ControlInv` is inductive by itself: who holds the mutex (`LockInv`), when the
worker has a task (`TaskInv`), that a client about to push has a well-formed task
and the worker posts only from a body (`PostInv`), how the two atomics follow the
place of `stop()` (`StopInv`), and why a late task is the last one (`LateInv`:
after it the worker can only reach the test at the head of its loop). It gives
`TypeCorrect`, `StopIsQuiet` and `OneLateRun`. `QuietAfterStop` is not inductive:
it needs `StopInv` to know that `start()` cannot intervene before the join, and
`AtMostOneLateRun` needs the mutex and `shouldStop`.
`OrderInv` is inductive relative to `ControlInv`: a task moves from the delayed
queue through the task queue into the history and never overtakes
(`AllBefore` between each two of them), and what a client is about to push is
younger than all that it has pushed (`AllPushed`). It gives `PostOrderKept` and,
with the clause on `early`, `DrainIsComplete`.

`WorkerImplementsExecutor`: MessageThread implements `TaskExecutor!Spec`. Step
simulation under `ControlInv`, `OrderInv` and the bound on posts: a post that
arrives is `Submit`, one that is ignored is `Refuse`, `WorkerPromote` is `Mature`
(this is where `OrderInv` is needed: distinct tasks have distinct ids),
`WorkerTake` is `Begin` (where `LateInv` is needed: the executor begins one task
at most once it is stopping), `StopJoin` is `Stopped`, and every other step is
invisible. The fairness of the executor stays with TLC.

*EngineLifecycleProofs.* `LifecycleInv` is inductive. `PhaseInv` says how far
`stop()` has come; `RefInv` that an object is alive exactly while the map, a
queued task or the running one refers to it; `UninitInv` that a SurfaceManager
whose uninit() waits is out of the map and refuses calls; `ServedInv` that a
SurfaceManager in the map has its coordinator or has its init() before every
other task (not during the drain, which takes tasks from the front). From the
first two follows `AllReleased`, from the third `NothingBehindUninit`, from all of
them `TaskFindsItsWorld`. `RemovedIsGone` needs more: `ListenInv` says that a
SurfaceManager has listeners in its cache or in its dispatcher, never in both,
that no listener is there more often than it is registered, and that the worker is
inside the list it calls. The counting is cardinalities: a list that keeps some
places of another has each listener at most as often (`CountPicked`), and strictly
less often when a place of that listener is left out.

*SurfaceSizeProofs.* `BridgeInv` says for each step of a provider call which
bridges are alive; with `TypeOK` it is inductive and gives `SizeTypeCorrect` and
`PublishedBridgeLives`. For `SurfaceAlwaysFollowsView` the two queues have to be
brought into the invariant: the last event on its way to the view, or the view,
agrees with the surface (`ExistsInv`); a view with nothing on its way to it has
its last width last in the task queue, or the surface has it for good
(`WidthInv`); and the worker pulls a width only while it has none (`LaidInv`).

*HarmonyPageProofs.* First the images (`ImageInvariant`,
`PendingRequestsAreOwned`, `PicturesAreCurrent`). A callback hands a world from
operator to operator, and half way through it a component may have a url it has
not asked for yet, or wait for a request that is answered already.
`Good(w, limit, loader, excused)` therefore excuses a set of images from `Waits`
and `Shows`: each lemma says which image an operator excuses and which it excuses
no longer, and `ImageInv`, where the set is empty, holds between two callbacks.
The rest of `Good` says what belongs together: a node is alive exactly while its
component is live and has it, a request is for a node of its image, and a pending
one is the component's current one and in the loader's hands or on its way there.

`InputsAlwaysAgree`: `InputInv` says that the reports in
the main looper, read in order, end at the worker's snapshot (`LastTells`), that
what no report speaks of agrees already, and that a value shown but not yet in
the data is either on its way in the worker's queue (`Sent`) or was rejected.
`PlayerPlaysItsUrl`: a report says what the player was, not what it is, so
`MediaInv` reads the whole looper: the last report tells where the player is
(`LastTells`), and when none is left the component knows it (`Heard`); the source
is the url or came too late (`Sourced`). For a video it also needs the order of
the reports (`Ordered`: "initialized" after "idle", "prepared" after
"initialized"), since these two leave the button as it is.
`PageKeepsItsPromises` is about the composition HarmonyPage: the invariants of the
images, the players and the inputs hold together of every page, because no step
of one class disturbs what the invariant of another reads.

*DataBindingProofs.* All three invariants are false in the middle of a call, so
each is strengthened by what the call still owes: `ToBeTold`, the observers the
running notification has yet to call (on this path and on those it has not come
to), and the dirty marks with their order. `BoundInv` says when a binding is in the table: at any time, also
inside a notification, the table holds exactly the bindings of the components
that are alive (`TableIsExact`), which with the children's names gives
`BindingsMatchComponents`. `ListInv` is about the children: as long as the list
was not made to skip one (`surplus`), they are the first items, too few or too
many only while the list is still to be told or was not begun; it gives
`ListFollowsData`. `ScreenInv` follows a value from the data to the snapshot of
its component (`CurrentOK`: the snapshot is the data's or its component is still
to be told), from there to the virtual DOM (`Tree`, `ListShown`: a node that
differs is dirty) and to the place of the node (`PlacedAs`); it gives
`ScreenFollowsData`. The number of items, of the bindings and of the changes is not
bounded. `BindingsAreMatched` has no hypothesis about the bindings of the template:
an observer that is called after its destruction (finding 6) finds no component
and leaves the table as it is. In `ScreenIsFollowed` a child of the list is
compared with the template it was cloned from, which `made` remembers; that it may
be an old one is finding 7.

*StreamExtractorProofs.* `MessagesKeepTheOrder` is for any documents (each token
knows its place, `DocAssumption`), any cuts, any number of streams and any size of
the buffer, dropped chunks included. `OrderInv` says where the last message came
from (`Told`) and that nothing before that place is left in the part of the buffer
that is still to be read. Which part that is depends on who reads next
(`AheadInv`, `CarriedInv`): the loop `pc` names; with a text open, the plugin that
streams it, from where it began; with a string of a data event open, the plugin
from the opening quote, or the parser from the value. Three facts about braces
carry the hard steps, all three by least counterexample: inside a whole object
every object is whole (`InnerIsWhole`), so that no plugin takes over while a whole
event is read in a buffer of its own and what follows it is set aside
(`FrameInv`); an object cut out of the buffer ends where it is cut (`CutOut`); and
text that comes later does not end an object earlier (`EndsNoEarlier`), so that the
event a plugin streams from cannot turn out to end before the string it is in
(`Unended`), and cutting it off loses nothing behind the string.

*SurfacePipelineProofs.* The program counter of this module is a call stack, and
what holds depends on all of it. `Control` lists the possible stacks, one formula
per kind of call on top (`AtBody` ... `AtDispatch`, `AtRest`), each with the calls
below it, the depths of the three guards, the flushes that run and what may be
waiting for one (`Collected`, `LaidOut`, `Sent`, `Noticed`); with the types it is
inductive, and `Settled`, `OneLayoutOneBurst` and `DispatchComesLast` follow. The
mirror needs three more parts. `Known`: what exists in the virtual DOM belongs to
components that are defined. `Kept`: a component that is not dirty has its latest
content in its node, also in one that was rebuilt from the stash, or set aside for
the node it is to get, or has lost both. `Told`: the messages in flight (those being
dispatched, those pending, those being emitted) are sensible to the platform one
after the other, the removals of children that move and the additions that follow
them included, and the platform, once it has applied them, shows what the last
layout reported. The lemmas are about these messages: the last one about a
component decides (`Applying`), two batches compose (`ApplyingBoth`), a list is
sensible when its parts are (`SensibleBoth`), and what is in flight as a function
of the stack (`WhatIsInFlight`). The one induction over the naturals is a least
counterexample (`WFMin`), which the prover can do for a first-order statement.

*HarmonyRendererProofs.* What holds of the main thread depends on all the reports
it has not run yet. For one instance and one surface a *sight* is that the surface
is absent, or there with a tree. `Matching`, the heart of the invariant, says that
the waiting tasks are a `Path`, a sequence of sights one task apart, from what is
on screen (`OnScreen`: nothing once the deletion of the surface runs) to what the
core has. A task that runs takes the first sight off the path (`PathFirst`), a
report appends to it (`PathJoins`; `WorkerReports` has one case for each operation
of the worker), and what concerns another instance leaves it alone (`PathStays`).
With an empty queue both ends agree: `RendererMirrors`, which also says that no
assertion of the renderer fails, because a path asks it of each of its steps
(`MayRun`: what is created is absent, what is added is new). The steps say besides
that no other instance creates or deletes a surface this one has, from which the
table follows (`Mapped`, `Alone`) and `ActionsReach`. This rests on the guard
`MayUse`: live instances use different surface ids (see the findings). About trees two
lemmas are needed: removing a set of components, and removing them one after the other,
parents first, leave the same tree (`PrunedBoth`, from the closure `Subtrees`), and
removing what the core removed leaves the core's tree (`PrunedSubtree`).
`ContainersShow`: `Fitting` ties the handle a surface holds to the one its instance
keeps for it. `ListenersHearTheEnd` is for any number of listeners. `Told` says that a listener
that heard of a surface is registered and the surface is there, and that it is known
to the ArkTS SurfaceManager still, or its end is being told and the `forEach` has yet
to come to this listener (`ToCome`); `Calls` says what a task that has called nobody
leaves to be called. A listener that was passed over (`skipped`) ends the claim.

Only model-checked: `ShowsPrefix` and `OnlyKnownCutsMatter` of StreamExtractor, and
everything temporal beyond invariants, action properties and step simulation. The
two say what the text as a whole means, that is, they compare the loop with a fold
over the whole document; that is an induction over data, which the provers cannot
do. Out of their reach and left to TLC on purpose as well: liveness under fairness
(`ChunkIsProcessed` and the other leads-to properties, the fairness in
`ImplementsExecutor`) and ENABLED. No module declares a RECURSIVE operator, so
nothing is kept from the provers by its form.

## 6. What is not modelled

Geometry (Yoga), style, colour and token conversion, the decoding of messages and
templates, and the drawing of effects are computations without interacting state;
they are most of the source lines. Of 54 thousand lines the map covers the part
that decides *when* and *in which order* things happen. Logging and performance
counters are left out. Of Android only the table of views, the main looper and
the size reports are there; iOS follows the same calls. Of the views of
HarmonyOS, Tabs (the selected index when a tab is removed), Modal (raw pointers to
trigger and content), Carousel and the dialogs of the date input were read and
left out: each keeps little state. FunctionCallManager is a locked map whose
danger is a raw pointer that the platform layer owns; nothing in `core/` decides
when it goes away. The Go agent SDK is a separate library. In the modelled parts:
trees deeper than three levels, platform-measured sizes, several surfaces in one
pipeline, seeking and progress of players, themes and action routing.

## 7. Plan

Done: the worker thread with its abstraction and the refinement, the engine, the
stream, the data, the pipeline, the size, and the HarmonyOS renderer with the
three classes of component that work behind the main thread's back; proofs for
each of them. Next, most important first:

1. *SurfacePipeline* with a tree of depth two, in which a child that moves loses
   what is below it, and with re-parenting.
2. *Tabs*, *Modal*, *Carousel* and the date dialogs as further classes of
   HarmonyPage.
3. *FunctionCall* and *ThreadManager* with the platform layer that owns the
   functions: pointers used after the unlock.
4. Of the stream, a mirror that only keeps the order and the pieces of one string,
   to prove `ShowsPrefix` for one string as a step simulation.
