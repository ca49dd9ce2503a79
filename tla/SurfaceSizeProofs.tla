-------------------------- MODULE SurfaceSizeProofs --------------------------
(***************************************************************************)
(* Theorems about SurfaceSize, for every set of widths and every number of *)
(* messages, layouts and bridges.                                          *)
(***************************************************************************)
EXTENDS SurfaceSize, TLAPS

(* Which bridges are alive, at every step of a provider call: the call     *)
(* itself has one bridge too many in the middle of a replacement, and one  *)
(* that nobody can read between the detach and the deletion.               *)
BridgeInv ==
    /\ \A b \in bridges : b <= created
    /\ mpc \in {"idle", "detach"} => mapped = provider /\ bridges = {provider} \ {0}
    /\ mpc = "replace" => /\ provider # 0 /\ mapped # provider
                          /\ bridges = {mapped, provider} \ {0}
    /\ mpc = "erase" => provider = 0 /\ bridges = {mapped} \ {0}
    /\ mpc \in {"release", "gone"} => provider = 0 /\ mapped = 0 /\ bridges = {}

Inv == TypeOK /\ BridgeInv
-----------------------------------------------------------------------------
\* The manager starts without a provider.
LEMMA InvInit == Init => Inv
  BY SizeAssumption DEF Init, Inv, TypeOK, BridgeInv, NoView, NoSurface, NotLaid, Bridges, Tasks

\* A step of the main thread.
LEMMA MainKeeps == Inv /\ MainStep => Inv'
<1> SUFFICES ASSUME Inv, MainStep PROVE Inv'
  OBVIOUS
<1> USE SizeAssumption DEF Inv
<1>1. ASSUME NEW op \in {"create", "delete", "update"}, Feed(op) PROVE Inv'
  <2>1. Task(op, 0) \in Tasks
    BY DEF Task, Tasks
  <2> QED
    BY <1>1, <2>1 DEF Feed, TypeOK, BridgeInv, main, worker
<1>2. ASSUME NEW w \in Widths \cup {0}, LayoutContainer(w) PROVE Inv'
  <2>1. Task("size", w) \in Tasks
    BY <1>2 DEF LayoutContainer, Task, Tasks
  <2>2. [view EXCEPT !.reported = w] \in [exists : BOOLEAN, reported : Widths \cup {0}]
    BY DEF TypeOK
  <2> QED
    BY <1>2, <2>1, <2>2 DEF LayoutContainer, TypeOK, BridgeInv, main, worker
<1>3. CASE RunPosted
  BY <1>3 DEF RunPosted, TypeOK, BridgeInv, main, worker, counts, NewView, NoView
<1>4. CASE SetProvider
  <2>1. created' \in Bridges /\ created' = created + 1
    BY <1>4 DEF SetProvider, TypeOK, Bridges
  <2>2. TypeOK'
    BY <1>4, <2>1 DEF SetProvider, TypeOK, Bridges, worker, counts
  <2>3. BridgeInv'
    BY <1>4, <2>1 DEF SetProvider, TypeOK, BridgeInv, Bridges
  <2> QED
    BY <2>2, <2>3
<1>5. CASE ReplaceBridge
  <2>1. TypeOK'
    BY <1>5 DEF ReplaceBridge, TypeOK, worker, counts
  <2>2. BridgeInv'
    BY <1>5 DEF ReplaceBridge, TypeOK, BridgeInv, Bridges
  <2> QED
    BY <2>1, <2>2
<1>6. CASE Destroy
  BY <1>6 DEF Destroy, TypeOK, BridgeInv, worker, counts, NoView
<1>7. CASE DetachProvider
  BY <1>7 DEF DetachProvider, TypeOK, BridgeInv, worker, counts
<1>8. CASE EraseBridge
  BY <1>8 DEF EraseBridge, TypeOK, BridgeInv, worker, counts
<1>9. CASE ReleaseManager
  <2>1. Task("uninit", 0) \in Tasks
    BY DEF Task, Tasks
  <2> QED
    BY <1>9, <2>1 DEF ReleaseManager, TypeOK, BridgeInv, worker, counts
<1> QED
  BY <1>1, <1>2, <1>3, <1>4, <1>5, <1>6, <1>7, <1>8, <1>9 DEF MainStep

\* A step of the worker leaves the bridges alone.
LEMMA WorkerKeeps == Inv /\ WorkerStep => Inv'
<1> SUFFICES ASSUME Inv, WorkerStep PROVE Inv'
  OBVIOUS
<1> USE SizeAssumption DEF Inv
<1>1. UNCHANGED <<main, view, counts>>
  BY DEF WorkerStep, CreateSurface, DeleteSurface, UpdateSurface, ReadProvider, QueryProvider,
         UpdateSurfaceSize, Layout, Uninit
<1>2. BridgeInv'
  BY <1>1 DEF BridgeInv, main
<1> DEFINE SurfaceType == [exists : BOOLEAN, width : Widths \cup {0}, fetched : BOOLEAN,
                            laid : Widths \cup {0, NotLaid}]
<1>3. ASSUME NEW op, Begins(op)
      PROVE  taskQueue' \in Seq(Tasks) /\ Head(taskQueue) \in Tasks
  BY <1>3 DEF Begins, TypeOK
<1>4. ASSUME NEW event \in {"create", "delete"}, Dispatch(event)
      PROVE  mainQueue' \in Seq({"create", "delete"})
  BY <1>4 DEF Dispatch, TypeOK
<1>5. /\ NoSurface \in SurfaceType /\ NewSurface \in SurfaceType
      /\ surface \in SurfaceType /\ mainQueue \in Seq({"create", "delete"})
      /\ taskQueue \in Seq(Tasks)
      /\ asked \in Bridges \cup {0} /\ provider \in Bridges \cup {0}
  BY DEF NoSurface, NewSurface, TypeOK
<1>6. SUFFICES /\ surface' \in SurfaceType
               /\ wpc' \in {"idle", "fetch", "query", "layout"}
               /\ asked' \in Bridges \cup {0}
               /\ taskQueue' \in Seq(Tasks)
               /\ mainQueue' \in Seq({"create", "delete"})
  <2>1. TypeOK' <=> /\ surface' \in SurfaceType
                    /\ wpc' \in {"idle", "fetch", "query", "layout"}
                    /\ asked' \in Bridges \cup {0}
                    /\ taskQueue' \in Seq(Tasks)
                    /\ mainQueue' \in Seq({"create", "delete"})
    BY <1>1 DEF TypeOK, main, counts
  <2> QED
    BY <1>2, <1>6, <2>1
<1> HIDE DEF SurfaceType, Inv
<1>7. CASE CreateSurface
  BY <1>3, <1>4, <1>5, <1>7 DEF CreateSurface, Begins
<1>8. CASE DeleteSurface
  BY <1>3, <1>4, <1>5, <1>8 DEF DeleteSurface, Begins
<1>9. CASE UpdateSurface
  BY <1>3, <1>5, <1>9 DEF UpdateSurface, Begins
<1>10. CASE ReadProvider
  BY <1>5, <1>10 DEF ReadProvider
<1>11. CASE QueryProvider
  <2>1. ASSUME NEW v \in Widths \cup {0}
        PROVE  [surface EXCEPT !.width = v, !.fetched = TRUE] \in SurfaceType
    BY <1>5 DEF SurfaceType
  <2> QED
    BY <1>5, <1>11, <2>1 DEF QueryProvider
<1>12. CASE UpdateSurfaceSize
  <2>1. Head(taskQueue).width \in Widths \cup {0}
    BY <1>3, <1>12 DEF UpdateSurfaceSize, Tasks
  <2>2. [surface EXCEPT !.width = Head(taskQueue).width, !.fetched = TRUE] \in SurfaceType
    BY <1>5, <2>1 DEF SurfaceType
  <2> QED
    BY <1>3, <1>5, <1>12, <2>2 DEF UpdateSurfaceSize, Begins
<1>13. CASE Layout
  <2>1. [surface EXCEPT !.laid = surface.width] \in SurfaceType
    BY <1>5 DEF SurfaceType
  <2> QED
    BY <1>5, <1>13, <2>1 DEF Layout
<1>14. CASE Uninit
  BY <1>3, <1>5, <1>14 DEF Uninit, Begins
<1> QED
  BY <1>7, <1>8, <1>9, <1>10, <1>11, <1>12, <1>13, <1>14 DEF WorkerStep

\* The invariant of every behaviour.
LEMMA InvAlways == Spec => []Inv
<1>1. Inv /\ UNCHANGED vars => Inv'
  BY DEF Inv, TypeOK, BridgeInv, vars, main, worker, counts
<1>2. Inv /\ [Next]_vars => Inv'
  BY <1>1, MainKeeps, WorkerKeeps DEF Next
<1> QED
  BY InvInit, <1>2, PTL DEF Spec
-----------------------------------------------------------------------------
\* Every variable keeps its type, and the size pushes carry positive widths
\* only (SurfaceLayoutDispatcher.reportSurfaceSize).
THEOREM SizeTypeCorrect == Spec => []TypeOK
<1>1. Inv => TypeOK
  BY DEF Inv
<1> QED
  BY InvAlways, <1>1, PTL

\* The provider pointer that Surface::ensureSurfaceSizeFetched can read is a
\* live bridge at every step of jni_setSurfaceSizeProvider and of the release
\* in SurfaceManager.destroy, and those calls leave no other bridge behind.
THEOREM PublishedBridgeLives == Spec => []PublishedBridgeIsAlive
<1>1. Inv => PublishedBridgeIsAlive
  BY DEF Inv, TypeOK, BridgeInv, PublishedBridgeIsAlive
<1> QED
  BY InvAlways, <1>1, PTL
-----------------------------------------------------------------------------
(* The view and the surface.  No width in the task queue, or w the last. *)

NoSize(q)      == \A i \in 1..Len(q) : q[i].op # "size"
LastSize(q, w) == \E i \in 1..Len(q) : /\ q[i] = Task("size", w)
                                       /\ \A j \in (i + 1)..Len(q) : q[j].op # "size"

\* Who calls: uninit() is posted when the view has stopped listening.
CallInv == listening => /\ mpc \in {"idle", "replace"}
                        /\ \A i \in 1..Len(taskQueue) : taskQueue[i].op # "uninit"

\* The worker lays out a surface that exists; it asks for a width only until
\* it has one, and what it laid out is what it has.
LaidInv ==
    /\ wpc # "idle" => surface.exists
    /\ wpc \in {"fetch", "query"} => ~surface.fetched
    /\ surface.fetched /\ wpc # "layout" => surface.laid = surface.width

\* The last event on its way to the view, or the view, agrees with the surface.
ExistsInv ==
    listening => surface.exists = IF mainQueue = <<>> THEN view.exists
                                  ELSE mainQueue[Len(mainQueue)] = "create"

\* A view that is not about to change: what it reported last is the last width
\* on its way to the surface, or what the surface has for good.
WidthInv ==
    listening /\ mainQueue = <<>> /\ view.exists /\ view.reported # 0 =>
        \/ LastSize(taskQueue, view.reported)
        \/ NoSize(taskQueue) /\ surface.fetched /\ surface.width = view.reported

FollowInv == CallInv /\ LaidInv /\ ExistsInv /\ WidthInv

\* A queue of tasks that gets one more.
LEMMA QueueGrows ==
    ASSUME NEW q \in Seq(Tasks), NEW t \in Tasks
    PROVE  /\ t.op # "size" /\ NoSize(q) => NoSize(Append(q, t))
           /\ \A w \in Widths : t.op # "size" /\ LastSize(q, w) => LastSize(Append(q, t), w)
           /\ \A w \in Widths : t = Task("size", w) => LastSize(Append(q, t), w)
           /\ t.op # "uninit" /\ (\A i \in 1..Len(q) : q[i].op # "uninit") =>
                 \A i \in 1..Len(Append(q, t)) : Append(q, t)[i].op # "uninit"
<1>1. /\ Len(Append(q, t)) = Len(q) + 1 /\ Len(q) \in Nat
      /\ Append(q, t)[Len(q) + 1] = t
      /\ \A i \in 1..Len(q) : Append(q, t)[i] = q[i]
  OBVIOUS
<1> DEFINE r == Append(q, t)
<1> HIDE DEF r
<1>2. /\ Len(r) = Len(q) + 1 /\ Len(q) \in Nat /\ r[Len(q) + 1] = t
      /\ \A i \in 1..Len(q) : r[i] = q[i]
  BY <1>1 DEF r
<1>3. t.op # "size" /\ NoSize(q) => NoSize(r)
  BY <1>2 DEF NoSize
<1>4. ASSUME NEW w \in Widths, t.op # "size", LastSize(q, w)
      PROVE  LastSize(r, w)
  <2>1. PICK i \in 1..Len(q) : q[i] = Task("size", w) /\ \A j \in (i + 1)..Len(q) : q[j].op # "size"
    BY <1>4 DEF LastSize
  <2>2. i \in 1..Len(r) /\ r[i] = Task("size", w)
    BY <1>2, <2>1
  <2>3. \A j \in (i + 1)..Len(r) : r[j].op # "size"
    BY <1>2, <1>4, <2>1
  <2> QED
    BY <2>2, <2>3 DEF LastSize
<1>5. ASSUME NEW w \in Widths, t = Task("size", w)
      PROVE  LastSize(r, w)
  <2>1. Len(q) + 1 \in 1..Len(r) /\ (Len(q) + 1 + 1)..Len(r) = {}
    BY <1>2
  <2> QED
    BY <1>2, <1>5, <2>1 DEF LastSize
<1> QED
  BY <1>2, <1>3, <1>4, <1>5 DEF r

\* A queue of tasks that loses its first.
LEMMA QueueShrinks ==
    ASSUME NEW q \in Seq(Tasks), q # <<>>
    PROVE  /\ NoSize(q) => Head(q).op # "size" /\ NoSize(Tail(q))
           /\ \A w \in Widths : LastSize(q, w) =>
                 \/ LastSize(Tail(q), w)
                 \/ NoSize(Tail(q)) /\ Head(q) = Task("size", w)
           /\ (\A i \in 1..Len(q) : q[i].op # "uninit") =>
                 /\ Head(q).op # "uninit"
                 /\ \A i \in 1..Len(Tail(q)) : Tail(q)[i].op # "uninit"
<1>1. /\ Len(q) \in Nat \ {0} /\ Len(Tail(q)) = Len(q) - 1 /\ Head(q) = q[1]
      /\ \A i \in 1..Len(Tail(q)) : Tail(q)[i] = q[i + 1]
  OBVIOUS
<1> DEFINE r == Tail(q)
<1> HIDE DEF r
<1>2. /\ Len(q) \in Nat \ {0} /\ Len(r) = Len(q) - 1 /\ Head(q) = q[1]
      /\ \A i \in 1..Len(r) : r[i] = q[i + 1]
  BY <1>1 DEF r
<1>3. NoSize(q) => Head(q).op # "size" /\ NoSize(r)
  BY <1>2 DEF NoSize
<1>4. ASSUME NEW w \in Widths, LastSize(q, w)
      PROVE  LastSize(r, w) \/ (NoSize(r) /\ Head(q) = Task("size", w))
  <2>1. PICK i \in 1..Len(q) : q[i] = Task("size", w) /\ \A j \in (i + 1)..Len(q) : q[j].op # "size"
    BY <1>4 DEF LastSize
  <2>2. CASE i = 1
    BY <1>2, <2>1, <2>2 DEF NoSize
  <2>3. CASE i # 1
    <3>1. i - 1 \in 1..Len(r) /\ r[i - 1] = Task("size", w)
      BY <1>2, <2>1, <2>3
    <3>2. \A j \in (i - 1 + 1)..Len(r) : r[j].op # "size"
      BY <1>2, <2>1, <2>3
    <3> QED
      BY <3>1, <3>2 DEF LastSize
  <2> QED
    BY <2>2, <2>3
<1>5. (\A i \in 1..Len(q) : q[i].op # "uninit") =>
          Head(q).op # "uninit" /\ \A i \in 1..Len(r) : r[i].op # "uninit"
  BY <1>2
<1> QED
  BY <1>3, <1>4, <1>5 DEF r

LEMMA FollowInit == Init => FollowInv
  BY DEF Init, FollowInv, CallInv, LaidInv, ExistsInv, WidthInv, NoView, NoSurface

\* A step of the main thread.
LEMMA MainFollows == Inv /\ FollowInv /\ MainStep => FollowInv'
<1> SUFFICES ASSUME Inv, FollowInv, MainStep PROVE FollowInv'
  OBVIOUS
<1>1. /\ taskQueue \in Seq(Tasks) /\ mainQueue \in Seq({"create", "delete"})
      /\ view.reported \in Widths \cup {0}
      /\ \A w \in Widths : w \in Nat \ {0}
  BY SizeAssumption DEF Inv, TypeOK
<1>2. ASSUME NEW op \in {"create", "delete", "update"}, Feed(op)
      PROVE  FollowInv'
  <2>1. Task(op, 0) \in Tasks /\ Task(op, 0).op # "size" /\ Task(op, 0).op # "uninit"
    BY DEF Task, Tasks
  <2>2. taskQueue' = Append(taskQueue, Task(op, 0))
    BY <1>2 DEF Feed
  <2>3. UNCHANGED <<mpc, listening, view, mainQueue, wpc, surface>>
    BY <1>2 DEF Feed, main, worker
  <2>4. CallInv'
    BY <1>1, <2>1, <2>2, <2>3, QueueGrows DEF FollowInv, CallInv
  <2>5. WidthInv'
    BY <1>1, <2>1, <2>2, <2>3, QueueGrows DEF FollowInv, WidthInv
  <2> QED
    BY <2>3, <2>4, <2>5 DEF FollowInv, LaidInv, ExistsInv
<1>3. ASSUME NEW w \in Widths \cup {0}, LayoutContainer(w)
      PROVE  FollowInv'
  <2>1. w \in Widths /\ Task("size", w) \in Tasks /\ Task("size", w).op = "size"
    BY <1>3 DEF LayoutContainer, Task, Tasks
  <2>2. taskQueue' = Append(taskQueue, Task("size", w))
    BY <1>3 DEF LayoutContainer
  <2>3. UNCHANGED <<mpc, listening, mainQueue, wpc, surface>>
    BY <1>3 DEF LayoutContainer, main, worker
  <2>4. view'.reported = w /\ view'.exists = view.exists
    BY <1>3 DEF LayoutContainer, Inv, TypeOK
  <2>5. CallInv'
    BY <1>1, <2>1, <2>2, <2>3, QueueGrows DEF FollowInv, CallInv
  <2>6. WidthInv'
    BY <1>1, <2>1, <2>2, <2>4, QueueGrows DEF WidthInv
  <2> QED
    BY <2>3, <2>4, <2>5, <2>6 DEF FollowInv, LaidInv, ExistsInv
<1>4. CASE RunPosted
  <2>1. UNCHANGED <<mpc, listening, taskQueue, wpc, surface>> /\ view'.reported = 0
    BY <1>4 DEF RunPosted, main, worker, NewView, NoView
  <2>2. ExistsInv'
    <3>1. mainQueue # <<>> /\ mainQueue' = Tail(mainQueue)
      BY <1>4 DEF RunPosted
    <3>2. /\ Head(mainQueue) = mainQueue[1]
          /\ Len(mainQueue) \in Nat \ {0} /\ Len(mainQueue') = Len(mainQueue) - 1
          /\ \A i \in 1..Len(mainQueue') : mainQueue'[i] = mainQueue[i + 1]
      BY <1>1, <3>1
    <3>3. view'.exists = (mainQueue[1] = "create")
      BY <1>4, <3>2 DEF RunPosted, NewView, NoView
    <3>4. mainQueue' = <<>> <=> Len(mainQueue') = 0
      <4>1. mainQueue' \in Seq({"create", "delete"})
        BY <1>1, <3>1
      <4> QED
        BY <4>1
    <3>5. mainQueue' # <<>> => mainQueue'[Len(mainQueue')] = mainQueue[Len(mainQueue)]
      BY <3>2, <3>4
    <3> QED
      BY <2>1, <3>1, <3>2, <3>3, <3>4, <3>5 DEF FollowInv, ExistsInv
  <2> QED
    BY <2>1, <2>2 DEF FollowInv, CallInv, LaidInv, WidthInv
<1>5. CASE SetProvider \/ ReplaceBridge
  <2>1. UNCHANGED <<listening, view, mainQueue, taskQueue, wpc, surface>> /\ mpc' \in {"idle", "replace"}
    BY <1>5 DEF SetProvider, ReplaceBridge, worker, counts
  <2> QED
    BY <2>1 DEF FollowInv, CallInv, LaidInv, ExistsInv, WidthInv
<1>6. CASE Destroy
  BY <1>6 DEF Destroy, worker, FollowInv, CallInv, LaidInv, ExistsInv, WidthInv
<1>7. CASE DetachProvider \/ EraseBridge \/ ReleaseManager
  <2>1. ~listening /\ UNCHANGED <<listening, wpc, surface>>
    BY <1>7 DEF DetachProvider, EraseBridge, ReleaseManager, worker, FollowInv, CallInv
  <2> QED
    BY <2>1 DEF FollowInv, CallInv, LaidInv, ExistsInv, WidthInv
<1> QED
  BY <1>2, <1>3, <1>4, <1>5, <1>6, <1>7 DEF MainStep

\* A step of the worker.
LEMMA WorkerFollows == Inv /\ FollowInv /\ WorkerStep => FollowInv'
<1> SUFFICES ASSUME Inv, FollowInv, WorkerStep PROVE FollowInv'
  OBVIOUS
<1>1. /\ taskQueue \in Seq(Tasks) /\ mainQueue \in Seq({"create", "delete"})
      /\ view.exists => view.reported \in Widths \cup {0}
      /\ surface \in [exists : BOOLEAN, width : Widths \cup {0}, fetched : BOOLEAN,
                      laid : Widths \cup {0, NotLaid}]
      /\ wpc \in {"idle", "fetch", "query", "layout"}
  BY DEF Inv, TypeOK
<1>2. UNCHANGED <<mpc, listening, view>>
  BY DEF WorkerStep, CreateSurface, DeleteSurface, UpdateSurface, ReadProvider, QueryProvider,
         UpdateSurfaceSize, Layout, Uninit, main
<1>3. ASSUME NEW op, Begins(op)
      PROVE  /\ wpc = "idle" /\ taskQueue # <<>> /\ Head(taskQueue).op = op
             /\ CallInv' /\ (listening => op # "uninit")
             /\ NoSize(taskQueue) => op # "size" /\ NoSize(taskQueue')
             /\ \A w \in Widths : LastSize(taskQueue, w) =>
                   \/ LastSize(taskQueue', w)
                   \/ NoSize(taskQueue') /\ Head(taskQueue) = Task("size", w)
  <2>1. taskQueue # <<>> /\ taskQueue' = Tail(taskQueue) /\ Head(taskQueue).op = op /\ wpc = "idle"
    BY <1>3 DEF Begins
  <2> QED
    BY <1>1, <1>2, <2>1, QueueShrinks DEF FollowInv, CallInv
<1>4. ASSUME NEW op, Begins(op), op # "size", mainQueue' = mainQueue,
             surface'.width = surface.width, surface'.fetched = surface.fetched
      PROVE  WidthInv'
  <2>1. \A w : Task("size", w).op = "size"
    BY DEF Task
  <2> QED
    BY <1>1, <1>2, <1>3, <1>4, <2>1 DEF FollowInv, WidthInv
<1>5. ASSUME NEW event \in {"create", "delete"}, Dispatch(event), surface'.exists = (event = "create")
      PROVE  ExistsInv' /\ WidthInv'
  <2>1. CASE listening
    <3>1. mainQueue' = Append(mainQueue, event)
      BY <1>5, <2>1 DEF Dispatch
    <3>2. mainQueue' # <<>> /\ mainQueue'[Len(mainQueue')] = event
      BY <1>1, <3>1
    <3> QED
      BY <1>5, <3>2 DEF ExistsInv, WidthInv
  <2>2. CASE ~listening
    BY <1>2, <2>2 DEF ExistsInv, WidthInv
  <2> QED
    BY <2>1, <2>2
<1>6. CASE CreateSurface
  <2>1. Begins("create") /\ wpc' = wpc
    BY <1>6 DEF CreateSurface
  <2>2. CASE surface.exists
    <3>1. UNCHANGED <<surface, mainQueue>>
      BY <1>6, <2>2 DEF CreateSurface
    <3> QED
      BY <1>2, <1>3, <1>4, <2>1, <3>1 DEF FollowInv, LaidInv, ExistsInv
  <2>3. CASE ~surface.exists
    <3>1. surface' = NewSurface /\ Dispatch("create")
      BY <1>6, <2>3 DEF CreateSurface
    <3>2. ExistsInv' /\ WidthInv'
      BY <1>5, <3>1 DEF NewSurface, NoSurface
    <3> QED
      BY <1>3, <2>1, <3>1, <3>2 DEF FollowInv, LaidInv, NewSurface, NoSurface
  <2> QED
    BY <2>2, <2>3
<1>7. CASE DeleteSurface
  <2>1. Begins("delete") /\ wpc' = wpc /\ surface' = NoSurface /\ Dispatch("delete")
    BY <1>7 DEF DeleteSurface
  <2>2. ExistsInv' /\ WidthInv'
    BY <1>5, <2>1 DEF NoSurface
  <2> QED
    BY <1>3, <2>1, <2>2 DEF FollowInv, LaidInv, NoSurface
<1>8. CASE UpdateSurface
  <2>1. Begins("update") /\ UNCHANGED <<surface, mainQueue>>
    BY <1>8 DEF UpdateSurface
  <2>2. LaidInv'
    BY <1>3, <1>8, <2>1 DEF UpdateSurface, FollowInv, LaidInv
  <2>3. WidthInv' /\ CallInv'
    BY <1>3, <1>4, <2>1
  <2> QED
    BY <1>2, <2>1, <2>2, <2>3 DEF FollowInv, ExistsInv
<1>9. CASE ReadProvider
  BY <1>2, <1>9 DEF ReadProvider, FollowInv, CallInv, LaidInv, ExistsInv, WidthInv
<1>10. CASE QueryProvider
  <2>1. /\ wpc = "query" /\ wpc' = "layout" /\ UNCHANGED <<mainQueue, taskQueue>>
        /\ surface'.exists = surface.exists
    BY <1>1, <1>10 DEF QueryProvider
  <2>2. ~surface.fetched /\ surface.exists
    BY <2>1 DEF FollowInv, LaidInv
  <2> QED
    BY <1>2, <2>1, <2>2 DEF FollowInv, CallInv, LaidInv, ExistsInv, WidthInv
<1>11. CASE UpdateSurfaceSize
  <2> DEFINE w == Head(taskQueue).width
  <2>1. Begins("size") /\ mainQueue' = mainQueue
    BY <1>11 DEF UpdateSurfaceSize
  <2>2. CASE ~surface.exists
    <3>1. UNCHANGED <<surface, wpc>>
      BY <1>11, <2>2 DEF UpdateSurfaceSize
    <3>2. WidthInv'
      BY <1>2, <2>1, <2>2, <3>1 DEF FollowInv, ExistsInv, WidthInv
    <3> QED
      BY <1>2, <1>3, <2>1, <3>1, <3>2 DEF FollowInv, LaidInv, ExistsInv
  <2>3. CASE surface.exists
    <3>1. /\ surface' = [surface EXCEPT !.width = w, !.fetched = TRUE]
          /\ wpc' = IF ~surface.fetched \/ surface.width # w THEN "layout" ELSE "idle"
      BY <1>11, <2>3 DEF UpdateSurfaceSize
    <3>2. /\ surface'.exists /\ surface'.fetched /\ surface'.width = w
          /\ surface'.laid = surface.laid
      BY <1>1, <2>3, <3>1
    <3>3. LaidInv'
      BY <1>3, <2>1, <3>1, <3>2 DEF FollowInv, LaidInv
    <3>4. WidthInv'
      <4>1. \A v : Task("size", v).width = v
        BY DEF Task
      <4> QED
        BY <1>1, <1>2, <1>3, <2>1, <3>2, <4>1 DEF FollowInv, WidthInv
    <3> QED
      BY <1>2, <1>3, <2>1, <2>3, <3>2, <3>3, <3>4 DEF FollowInv, ExistsInv
  <2> QED
    BY <2>2, <2>3
<1>12. CASE Layout
  <2>1. /\ wpc' = "idle" /\ UNCHANGED <<mainQueue, taskQueue>>
        /\ surface'.exists = surface.exists /\ surface'.width = surface.width
        /\ surface'.fetched = surface.fetched /\ surface'.laid = surface'.width
    BY <1>1, <1>12 DEF Layout
  <2> QED
    BY <1>2, <2>1 DEF FollowInv, CallInv, LaidInv, ExistsInv, WidthInv
<1>13. CASE Uninit
  <2>1. Begins("uninit") /\ surface' = NoSurface /\ wpc' = wpc
    BY <1>13 DEF Uninit
  <2> QED
    BY <1>2, <1>3, <2>1 DEF FollowInv, LaidInv, ExistsInv, WidthInv, NoSurface
<1> QED
  BY <1>6, <1>7, <1>8, <1>9, <1>10, <1>11, <1>12, <1>13 DEF WorkerStep

\* When nothing is on its way between the two threads the view shows the
\* surface, laid out at the width that view reported last: neither the width
\* the provider answered nor a push of an earlier view of the same surface
\* (SurfaceLayoutDispatcher, Surface::updateSurfaceSize) stays in its place.
THEOREM SurfaceAlwaysFollowsView == Spec => []SurfaceFollowsView
<1>1. Inv /\ FollowInv => SurfaceFollowsView
  <2> SUFFICES ASSUME Inv, FollowInv, Quiet, listening PROVE
         /\ view.exists = surface.exists
         /\ view.exists /\ view.reported # 0 =>
               surface.width = view.reported /\ surface.laid = view.reported
    BY DEF SurfaceFollowsView
  <2>1. \A w : ~LastSize(<<>>, w)
    BY DEF LastSize
  <2> QED
    BY <2>1 DEF Quiet, FollowInv, LaidInv, ExistsInv, WidthInv
<1>2. Inv /\ FollowInv /\ UNCHANGED vars => FollowInv'
  BY DEF FollowInv, CallInv, LaidInv, ExistsInv, WidthInv, vars, main, worker, counts
<1>3. Inv /\ FollowInv /\ [Next]_vars => FollowInv'
  BY <1>2, MainFollows, WorkerFollows DEF Next
<1> QED
  BY InvAlways, FollowInit, <1>1, <1>3, PTL DEF Spec
=============================================================================
