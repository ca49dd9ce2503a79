------------------------ MODULE EngineLifecycleProofs ------------------------
(***************************************************************************)
(* Theorems about EngineLifecycle, for every number of SurfaceManagers,    *)
(* calls and listeners.                                                    *)
(***************************************************************************)
EXTENDS EngineLifecycle, FiniteSetTheorems, WellFoundedInduction, TLAPS

Working == wpc \notin {"exited", "idle"}

\* What the argument needs of the types.
Types ==
    /\ queue \in Seq(Task) /\ current \in Task \cup {NoTask}
    /\ map \subseteq SMs /\ nextId \in Nat \ {0} /\ destroying \in Int
    /\ status \in [SMs -> {"unborn", "alive", "dead"}]
    /\ smRunning \in [SMs -> BOOLEAN]
    /\ dispatcher \in [SMs -> BOOLEAN] /\ coordinator \in [SMs -> BOOLEAN]
    /\ mpc \in MainPcs /\ wpc \in WorkerPcs

\* How far stop() has come, and what is gone by then.
PhaseInv ==
    /\ isRunning <=> mpc \in {"ready", "destroy"}
    /\ modules <=> mpc \notin {"uninitialised", "stopped"}
    /\ mpc \in {"uninitialised", "stop_uninit", "stop_clear", "stop_modules", "stopped"} =>
          wpc = "exited" /\ queue = <<>>
    /\ mpc \in {"uninitialised", "stop_modules", "stopped"} => map = {}
    /\ Working <=> current # NoTask

\* An object is alive if and only if the map, a queued task or the task of the
\* worker refers to it; one that is not alive has neither coordinator nor
\* dispatcher.
RefInv ==
    /\ \A s \in SMs : status[s] = "alive" <=> Referenced(s, map, queue, current)
    /\ \A s \in SMs : status[s] # "alive" => ~coordinator[s] /\ ~dispatcher[s]
    /\ \A s \in SMs : s >= nextId => status[s] = "unborn"

\* Whoever has an uninit() waiting is out of the map and takes no more calls
\* from the main thread.
UninitInv ==
    /\ mpc = "destroy" => destroying \in map /\ ~smRunning[destroying]
    /\ \A i \in 1..Len(queue) :
          queue[i].op = "uninit" => queue[i].sm \notin map /\ ~smRunning[queue[i].sm]
    /\ wpc = "uninit" => current.sm \notin map
    /\ NothingBehindUninit

Initialising(s) == wpc \in {"init", "init_modules"} /\ current.sm = s
InitBefore(s, i) == \E j \in 1..(i - 1) : queue[j].op = "init" /\ queue[j].sm = s
InitWaits(s) == \E j \in 1..Len(queue) : queue[j].op = "init" /\ queue[j].sm = s

\* A SurfaceManager in the map has its coordinator, or its init() comes before
\* every other task it has.
ServedInv ==
    /\ mpc \in {"ready", "destroy"} =>
          \A s \in map : coordinator[s] \/ Initialising(s) \/ InitWaits(s)
    /\ mpc # "stop_drain" =>
          \A s \in map, i \in 1..Len(queue) : queue[i].op = "use" /\ queue[i].sm = s =>
              coordinator[s] \/ Initialising(s) \/ InitBefore(s, i)
    /\ wpc = "use" /\ current.sm \in map => coordinator[current.sm]
    /\ wpc \in {"dispatch", "callback", "reenter", "stuck"} => coordinator[current.sm]

LifecycleInv == Types /\ PhaseInv /\ RefInv /\ UninitInv /\ ServedInv
-----------------------------------------------------------------------------
(* Queues and references. *)

\* A queue with one more task, and with one less.
LEMMA QueueGrows ==
    ASSUME NEW q \in Seq(Task), NEW t \in Task
    PROVE  /\ Append(q, t) \in Seq(Task)
           /\ Len(q) \in Nat /\ Len(Append(q, t)) = Len(q) + 1
           /\ Append(q, t)[Len(q) + 1] = t
           /\ \A i \in 1..Len(q) : Append(q, t)[i] = q[i]
           /\ \A s : Holds(Append(q, t), s) <=> Holds(q, s) \/ t.sm = s
<1> DEFINE r == Append(q, t)
<1>1. /\ r \in Seq(Task) /\ Len(q) \in Nat /\ Len(r) = Len(q) + 1 /\ r[Len(q) + 1] = t
      /\ \A i \in 1..Len(q) : r[i] = q[i]
      /\ DOMAIN q = 1..Len(q) /\ DOMAIN r = 1..Len(r)
  OBVIOUS
<1> HIDE DEF r
<1>2. \A s : Holds(r, s) <=> Holds(q, s) \/ t.sm = s
  BY <1>1 DEF Holds
<1> QED
  BY <1>1, <1>2 DEF r

LEMMA QueueShrinks ==
    ASSUME NEW q \in Seq(Task), q # <<>>
    PROVE  /\ Tail(q) \in Seq(Task) /\ Head(q) \in Task /\ Head(q) = q[1]
           /\ Len(q) \in Nat \ {0} /\ Len(Tail(q)) = Len(q) - 1
           /\ \A i \in 1..Len(Tail(q)) : Tail(q)[i] = q[i + 1]
           /\ \A s : Holds(q, s) <=> Holds(Tail(q), s) \/ Head(q).sm = s
<1> DEFINE r == Tail(q)
<1>1. /\ r \in Seq(Task) /\ Len(q) \in Nat \ {0} /\ Len(r) = Len(q) - 1
      /\ Head(q) = q[1] /\ Head(q) \in Task
      /\ \A i \in 1..Len(r) : r[i] = q[i + 1]
      /\ DOMAIN q = 1..Len(q) /\ DOMAIN r = 1..Len(r)
  OBVIOUS
<1> HIDE DEF r
<1>2. ASSUME NEW s PROVE Holds(q, s) <=> Holds(r, s) \/ Head(q).sm = s
  <2>1. ASSUME NEW i \in DOMAIN q, q[i].sm = s PROVE Holds(r, s) \/ Head(q).sm = s
    <3>1. CASE i = 1
      BY <1>1, <2>1, <3>1
    <3>2. CASE i # 1
      <4>1. i - 1 \in DOMAIN r /\ r[i - 1] = q[i]
        BY <1>1, <3>2
      <4> QED
        BY <2>1, <4>1 DEF Holds
    <3> QED
      BY <3>1, <3>2
  <2>2. ASSUME NEW i \in DOMAIN r, r[i].sm = s PROVE Holds(q, s)
    <3>1. i + 1 \in DOMAIN q /\ q[i + 1].sm = s
      BY <1>1, <2>2
    <3> QED
      BY <3>1 DEF Holds
  <2>3. 1 \in DOMAIN q
    BY <1>1
  <2> QED
    BY <1>1, <2>1, <2>2, <2>3 DEF Holds
<1> QED
  BY <1>1, <1>2 DEF r

LEMMA EmptyHoldsNone == \A s : ~Holds(<<>>, s)
  BY DEF Holds

\* What a destructor run by the last reference changes.
LEMMA DropFacts ==
    ASSUME Types, NEW m, NEW q, NEW c, DropUnreferenced(m, q, c)
    PROVE  /\ status' \in [SMs -> {"unborn", "alive", "dead"}]
           /\ smRunning' = smRunning
           /\ dispatcher' \in [SMs -> BOOLEAN] /\ coordinator' \in [SMs -> BOOLEAN]
           /\ \A s \in SMs : status'[s] = "alive" <=> status[s] = "alive" /\ Referenced(s, m, q, c)
           /\ \A s \in SMs : status'[s] = "unborn" <=> status[s] = "unborn"
           /\ \A s \in SMs : coordinator'[s] =>
                 coordinator[s] /\ (status[s] = "alive" => Referenced(s, m, q, c))
           /\ \A s \in SMs : dispatcher'[s] =>
                 dispatcher[s] /\ (status[s] = "alive" => Referenced(s, m, q, c))
           /\ \A s \in SMs : Referenced(s, m, q, c) => coordinator'[s] = coordinator[s]
<1> DEFINE S == {s \in SMs : status[s] = "alive" /\ ~Referenced(s, m, q, c)}
<1>1. /\ status' = [s \in SMs |-> IF s \in S THEN "dead" ELSE status[s]]
      /\ coordinator' = [s \in SMs |-> coordinator[s] /\ s \notin S]
      /\ dispatcher' = [s \in SMs |-> dispatcher[s] /\ s \notin S]
      /\ smRunning' = smRunning
  BY DEF DropUnreferenced, Uninit
<1>2. \A s \in SMs : s \in S <=> status[s] = "alive" /\ ~Referenced(s, m, q, c)
  OBVIOUS
<1> HIDE DEF S
<1>3. \A s \in SMs : (coordinator[s] /\ s \notin S) \in BOOLEAN /\ (dispatcher[s] /\ s \notin S) \in BOOLEAN
  OBVIOUS
<1>4. coordinator' \in [SMs -> BOOLEAN] /\ dispatcher' \in [SMs -> BOOLEAN]
  BY <1>1, <1>3, Zenon
<1>5. status' \in [SMs -> {"unborn", "alive", "dead"}]
  BY <1>1 DEF Types
<1>6. \A s \in SMs : /\ coordinator'[s] = (coordinator[s] /\ s \notin S)
                     /\ dispatcher'[s] = (dispatcher[s] /\ s \notin S)
                     /\ status'[s] = IF s \in S THEN "dead" ELSE status[s]
  BY <1>1, Zenon
<1>7. \A s \in SMs : coordinator[s] \in BOOLEAN
  BY DEF Types
<1> HIDE DEF Types
<1>8. \A s \in SMs : /\ coordinator'[s] <=> (coordinator[s] /\ s \notin S)
                     /\ dispatcher'[s] <=> (dispatcher[s] /\ s \notin S)
  BY <1>6
<1>9. \A s \in SMs : s \notin S => coordinator'[s] = coordinator[s]
  BY <1>6, <1>7, Zenon
<1> QED
  BY <1>1, <1>2, <1>4, <1>5, <1>6, <1>8, <1>9

LEMMA LifecycleInit == Init => LifecycleInv
<1> SUFFICES ASSUME Init PROVE LifecycleInv
  OBVIOUS
<1>1. Types
  BY LifecycleAssumption DEF Init, Types, MainPcs, WorkerPcs
<1>2. PhaseInv
  BY DEF Init, PhaseInv, Working
<1>3. RefInv
  BY EmptyHoldsNone DEF Init, RefInv, Referenced, Holds
<1>4. UninitInv /\ ServedInv
  BY DEF Init, UninitInv, ServedInv, NothingBehindUninit
<1> QED
  BY <1>1, <1>2, <1>3, <1>4 DEF LifecycleInv
-----------------------------------------------------------------------------
(* What the actions do. *)

\* A step of a listener call, of the worker or of the main thread that is not
\* about tasks, objects or stop().
Aside == /\ UNCHANGED <<thread, engine, status, smRunning, dispatcher, coordinator, mpc, destroying,
                        current>>
         /\ \/ wpc' = wpc
            \/ wpc = "dispatch" /\ wpc' \in {"callback", "release"}
            \/ wpc = "callback" /\ wpc' \in {"dispatch", "reenter", "stuck"}

LEMMA AsideSteps ==
    ASSUME \/ \E s \in SMs, l \in Listeners : AddListener(s, l) \/ RemoveListener(s, l)
           \/ DispatchNext \/ CallbackReturn \/ ReenterCheck \/ ReenterAddListener
    PROVE  Aside
<1>1. ASSUME NEW s \in SMs, NEW l \in Listeners, AddListener(s, l) \/ RemoveListener(s, l)
      PROVE  Aside
  BY <1>1 DEF AddListener, RemoveListener, Aside, worker
<1>2. CASE DispatchNext \/ CallbackReturn
  BY <1>2 DEF DispatchNext, CallbackReturn, Aside, object, main
<1>3. CASE ReenterCheck \/ ReenterAddListener
  BY <1>3 DEF ReenterCheck, ReenterAddListener, Aside, object
<1> QED
  BY <1>1, <1>2, <1>3

LEMMA QueueJoins ==
    ASSUME NEW q \in Seq(Task), NEW p \in Seq(Task)
    PROVE  /\ q \o p \in Seq(Task)
           /\ Len(q) \in Nat /\ Len(p) \in Nat /\ Len(q \o p) = Len(q) + Len(p)
           /\ \A i \in 1..Len(q) : (q \o p)[i] = q[i]
           /\ \A i \in (Len(q) + 1)..Len(q \o p) : (q \o p)[i] = p[i - Len(q)]
           /\ \A s : Holds(q \o p, s) <=> Holds(q, s) \/ Holds(p, s)
<1> DEFINE r == q \o p
<1>1. /\ r \in Seq(Task) /\ Len(q) \in Nat /\ Len(p) \in Nat /\ Len(r) = Len(q) + Len(p)
      /\ \A i \in 1..Len(q) : r[i] = q[i]
      /\ \A i \in (Len(q) + 1)..Len(r) : r[i] = p[i - Len(q)]
      /\ DOMAIN q = 1..Len(q) /\ DOMAIN p = 1..Len(p) /\ DOMAIN r = 1..Len(r)
  OBVIOUS
<1> HIDE DEF r
<1>2. ASSUME NEW s, NEW i \in DOMAIN r, r[i].sm = s PROVE Holds(q, s) \/ Holds(p, s)
  <2>1. CASE i \in DOMAIN q
    BY <1>1, <1>2, <2>1 DEF Holds
  <2>2. CASE i \notin DOMAIN q
    <3>1. i - Len(q) \in DOMAIN p /\ r[i] = p[i - Len(q)]
      BY <1>1, <2>2
    <3> QED
      BY <1>2, <3>1 DEF Holds
  <2> QED
    BY <2>1, <2>2
<1>3. ASSUME NEW s, NEW i \in DOMAIN q, q[i].sm = s PROVE Holds(r, s)
  BY <1>1, <1>3 DEF Holds
<1>4. ASSUME NEW s, NEW i \in DOMAIN p, p[i].sm = s PROVE Holds(r, s)
  <2>1. i + Len(q) \in DOMAIN r /\ i + Len(q) \in (Len(q) + 1)..Len(r) /\ i + Len(q) - Len(q) = i
    BY <1>1
  <2>2. r[i + Len(q)].sm = s
    BY <1>1, <1>4, <2>1
  <2> QED
    BY <2>1, <2>2 DEF Holds
<1>5. \A s : Holds(r, s) <=> Holds(q, s) \/ Holds(p, s)
  BY <1>2, <1>3, <1>4 DEF Holds
<1> QED
  BY <1>1, <1>5 DEF r

\* setDayNightMode() queues uses of SurfaceManagers that are in the map and run.
LEMMA DayNightFacts ==
    ASSUME Types, SetDayNightMode
    PROVE  \E p \in Seq(Task) :
              /\ queue' = queue \o p
              /\ \A i \in 1..Len(p) : /\ p[i].op = "use" /\ p[i].by = "main"
                                      /\ p[i].sm \in map /\ smRunning[p[i].sm]
<1> DEFINE open == {s \in map : smRunning[s]}
<1>1. open \subseteq SMs /\ \A s \in open : s \in map /\ smRunning[s]
  BY DEF Types
<1>2. Cardinality(open) \in Nat
  <2>1. IsFiniteSet(SMs)
    BY LifecycleAssumption, FS_Interval DEF SMs
  <2> QED
    BY <1>1, <2>1, FS_Subset, FS_CardinalityType
<1>3. PICK order \in [1..Cardinality(open) -> open] :
         queue' = queue \o [i \in DOMAIN order |-> [op |-> "use", sm |-> order[i], by |-> "main"]]
  <2>1. PICK order \in InOrder(open) :
           queue' = queue \o [i \in DOMAIN order |-> [op |-> "use", sm |-> order[i], by |-> "main"]]
    BY DEF SetDayNightMode
  <2>2. order \in [1..Cardinality(open) -> open]
    BY <2>1 DEF InOrder
  <2> QED
    BY <2>1, <2>2
<1> HIDE DEF open
<1> DEFINE n == Cardinality(open)
           p == [i \in 1..n |-> [op |-> "use", sm |-> order[i], by |-> "main"]]
<1>4. /\ DOMAIN order = 1..n
      /\ \A i \in 1..n : order[i] \in open
  OBVIOUS
<1> HIDE DEF n
<1>5. \A i \in 1..n : [op |-> "use", sm |-> order[i], by |-> "main"] \in Task
  BY <1>1, <1>4 DEF Task
<1>6. p \in Seq(Task) /\ Len(p) = n
  BY <1>2, <1>5 DEF n
<1>7. \A i \in 1..n : /\ p[i].op = "use" /\ p[i].by = "main" /\ p[i].sm = order[i]
  OBVIOUS
<1>8. queue' = queue \o p
  BY <1>3, <1>4
<1> HIDE DEF p
<1> QED
  BY <1>1, <1>4, <1>6, <1>7, <1>8

-----------------------------------------------------------------------------
(* Types and phases. *)

LEMMA MainControl == LifecycleInv /\ MainStep => Types' /\ PhaseInv'
<1> SUFFICES ASSUME LifecycleInv, Types, PhaseInv, MainStep PROVE Types' /\ PhaseInv'
  BY DEF LifecycleInv
<1>1. CASE EngineStart
  BY <1>1 DEF EngineStart, Types, PhaseInv, Working, MainPcs, WorkerPcs, object
<1>2. CASE CreateSurfaceManager
  <2> DEFINE t == [op |-> "init", sm |-> nextId, by |-> "main"]
  <2>1. nextId \in SMs /\ t \in Task /\ queue' = Append(queue, t)
    BY <1>2 DEF CreateSurfaceManager, Post, Task
  <2>2. queue' \in Seq(Task)
    BY <2>1, QueueGrows DEF Types
  <2>3. Types'
    BY <1>2, <2>1, <2>2 DEF CreateSurfaceManager, Types, main, worker
  <2> QED
    BY <1>2, <2>3 DEF CreateSurfaceManager, PhaseInv, Working, main, worker
<1>3. CASE DestroyPost
  <2> DEFINE t == [op |-> "uninit", sm |-> destroying, by |-> "main"]
  <2>1. destroying \in SMs
    BY <1>3 DEF DestroyPost, LifecycleInv, UninitInv, Types
  <2>2. t \in Task /\ queue' = Append(queue, t)
    BY <1>3, <2>1 DEF DestroyPost, Post, Task
  <2>3. queue' \in Seq(Task)
    BY <2>2, QueueGrows DEF Types
  <2> QED
    BY <1>3, <2>3 DEF DestroyPost, Types, PhaseInv, Working, MainPcs, object, worker
<1>4. CASE SetDayNightMode
  <2>1. PICK p \in Seq(Task) : queue' = queue \o p
    BY <1>4, DayNightFacts
  <2>2. queue' \in Seq(Task)
    BY <2>1, QueueJoins DEF Types
  <2> QED
    BY <1>4, <2>2 DEF SetDayNightMode, Types, PhaseInv, Working, engine, object, worker
<1>5. ASSUME NEW s \in SMs, Submit(s) PROVE Types' /\ PhaseInv'
  <2> DEFINE t == [op |-> "use", sm |-> s, by |-> "main"]
  <2>1. t \in Task /\ queue' = Append(queue, t)
    BY <1>5 DEF Submit, Post, Task
  <2>2. queue' \in Seq(Task)
    BY <2>1, QueueGrows DEF Types
  <2> QED
    BY <1>5, <2>2 DEF Submit, Types, PhaseInv, Working, engine, object, worker
<1>6. ASSUME NEW s \in SMs, DestroyExitRunning(s) PROVE Types' /\ PhaseInv'
  BY <1>6 DEF DestroyExitRunning, Types, PhaseInv, Working, MainPcs, SMs, thread, engine, worker
<1>7. CASE StopBegin \/ StopLock \/ StopDrained
  BY <1>7 DEF StopBegin, StopLock, StopDrained, Types, PhaseInv, Working, MainPcs, thread, engine,
              object, worker
<1>8. CASE StopDrainOne
  <2>1. queue' \in Seq(Task)
    BY <1>8, QueueShrinks DEF StopDrainOne, Types
  <2>2. /\ status' \in [SMs -> {"unborn", "alive", "dead"}] /\ smRunning' = smRunning
        /\ dispatcher' \in [SMs -> BOOLEAN] /\ coordinator' \in [SMs -> BOOLEAN]
    BY <1>8, DropFacts DEF StopDrainOne
  <2> QED
    BY <1>8, <2>1, <2>2 DEF StopDrainOne, Types, PhaseInv, Working, engine, main, worker
<1>9. CASE StopJoin
  <2>1. /\ status' \in [SMs -> {"unborn", "alive", "dead"}] /\ smRunning' = smRunning
        /\ dispatcher' \in [SMs -> BOOLEAN] /\ coordinator' \in [SMs -> BOOLEAN]
    BY <1>9, DropFacts DEF StopJoin
  <2> QED
    BY <1>9, <2>1 DEF StopJoin, Types, PhaseInv, Working, MainPcs, engine, worker
<1>10. CASE StopUninitAll
  <2>1. dispatcher' \in [SMs -> BOOLEAN] /\ coordinator' \in [SMs -> BOOLEAN]
    <3>1. \A s \in SMs : (coordinator[s] /\ s \notin map) \in BOOLEAN /\ (dispatcher[s] /\ s \notin map) \in BOOLEAN
      OBVIOUS
    <3> QED
      BY <1>10, <3>1, Zenon DEF StopUninitAll, Uninit
  <2> QED
    BY <1>10, <2>1 DEF StopUninitAll, Types, PhaseInv, Working, MainPcs, thread, engine, worker
<1>11. CASE StopClearMap
  <2>1. /\ status' \in [SMs -> {"unborn", "alive", "dead"}] /\ smRunning' = smRunning
        /\ dispatcher' \in [SMs -> BOOLEAN] /\ coordinator' \in [SMs -> BOOLEAN]
    BY <1>11, DropFacts DEF StopClearMap
  <2> QED
    BY <1>11, <2>1 DEF StopClearMap, Types, PhaseInv, Working, MainPcs, thread, worker
<1>12. CASE StopDeleteModules
  BY <1>12 DEF StopDeleteModules, Types, PhaseInv, Working, MainPcs, thread, object, worker
<1>13. CASE Aside
  BY <1>13 DEF Aside, Types, PhaseInv, Working, WorkerPcs, thread, engine
<1> QED
  BY <1>1, <1>2, <1>3, <1>4, <1>5, <1>6, <1>7, <1>8, <1>9, <1>10, <1>11, <1>12, <1>13, AsideSteps
  DEF MainStep, StopStep

LEMMA WorkerControl ==
    LifecycleInv /\ (WorkerStep \/ ReenterCheck \/ ReenterAddListener) => Types' /\ PhaseInv'
<1> SUFFICES ASSUME LifecycleInv, Types, PhaseInv, WorkerStep \/ ReenterCheck \/ ReenterAddListener
             PROVE  Types' /\ PhaseInv'
  BY DEF LifecycleInv
<1>1. CASE WorkerTake
  <2>1. queue' \in Seq(Task) /\ current' \in Task /\ current' = Head(queue)
    BY <1>1, QueueShrinks DEF WorkerTake, Types
  <2>2. wpc' \in {"init", "uninit", "use"}
    BY <1>1, <2>1 DEF WorkerTake, Task
  <2>3. Types'
    BY <1>1, <2>1, <2>2 DEF WorkerTake, Types, WorkerPcs, engine, object, main
  <2> QED
    BY <1>1, <2>1, <2>2, <2>3, LifecycleAssumption DEF WorkerTake, PhaseInv, Working, engine, main
<1>2. CASE WorkerExit
  BY <1>2 DEF WorkerExit, Types, PhaseInv, Working, WorkerPcs, thread, engine, object, main
<1>3. CASE InitDispatcher
  BY <1>3 DEF InitDispatcher, Types, PhaseInv, Working, WorkerPcs, thread, engine, main
<1>4. CASE InitModules
  BY <1>4 DEF InitModules, Types, PhaseInv, Working, WorkerPcs, thread, engine, main
<1>5. CASE RunUninit
  <2> DEFINE u == current.sm
  <2>1. dispatcher' \in [SMs -> BOOLEAN] /\ coordinator' \in [SMs -> BOOLEAN]
    <3>1. \A s \in SMs : (coordinator[s] /\ s \notin {u}) \in BOOLEAN /\ (dispatcher[s] /\ s \notin {u}) \in BOOLEAN
      OBVIOUS
    <3> QED
      BY <1>5, <3>1, Zenon DEF RunUninit, Uninit
  <2> QED
    BY <1>5, <2>1 DEF RunUninit, Types, PhaseInv, Working, WorkerPcs, thread, engine, main
<1>6. CASE RunUse
  BY <1>6 DEF RunUse, Types, PhaseInv, Working, WorkerPcs, thread, engine, object, main
<1>7. CASE ReenterPush
  <2> DEFINE t == [op |-> "use", sm |-> current.sm, by |-> "worker"]
  <2>1. current \in Task
    BY <1>7 DEF ReenterPush, Types, PhaseInv, Working
  <2>2. t \in Task /\ queue' = Append(queue, t)
    BY <1>7, <2>1 DEF ReenterPush, Post, Task
  <2>3. queue' \in Seq(Task)
    BY <2>2, QueueGrows DEF Types
  <2> QED
    BY <1>7, <2>3 DEF ReenterPush, Types, PhaseInv, Working, WorkerPcs, engine, object, main
<1>8. CASE Release
  <2>1. /\ status' \in [SMs -> {"unborn", "alive", "dead"}] /\ smRunning' = smRunning
        /\ dispatcher' \in [SMs -> BOOLEAN] /\ coordinator' \in [SMs -> BOOLEAN]
    BY <1>8, DropFacts DEF Release
  <2> QED
    BY <1>8, <2>1 DEF Release, Types, PhaseInv, Working, WorkerPcs, thread, engine, main
<1>9. CASE Aside
  BY <1>9 DEF Aside, Types, PhaseInv, Working, WorkerPcs, thread, engine
<1> QED
  BY <1>1, <1>2, <1>3, <1>4, <1>5, <1>6, <1>7, <1>8, <1>9, AsideSteps DEF WorkerStep
-----------------------------------------------------------------------------
(* References. *)

LEMMA MainReferences == LifecycleInv /\ MainStep => RefInv'
<1> SUFFICES ASSUME LifecycleInv, Types, PhaseInv, RefInv, Types', MainStep PROVE RefInv'
  BY MainControl DEF LifecycleInv
<1>1. CASE EngineStart
  BY <1>1 DEF EngineStart, RefInv, Referenced, object
<1>2. CASE CreateSurfaceManager
  <2> DEFINE t == [op |-> "init", sm |-> nextId, by |-> "main"]
  <2>1. /\ nextId \in SMs /\ t \in Task /\ queue' = Append(queue, t) /\ t.sm = nextId
        /\ map' = map \cup {nextId} /\ nextId' = nextId + 1
        /\ UNCHANGED <<current, coordinator, dispatcher>>
    BY <1>2 DEF CreateSurfaceManager, Post, Task, worker
  <2>2. \A s \in SMs : status'[s] = IF s = nextId THEN "alive" ELSE status[s]
    BY <1>2, <2>1 DEF CreateSurfaceManager, Types
  <2>3. \A s : Holds(queue', s) <=> Holds(queue, s) \/ s = nextId
    BY <2>1, QueueGrows DEF Types
  <2>4. \A s \in SMs : Referenced(s, map', queue', current') <=>
                        Referenced(s, map, queue, current) \/ s = nextId
    BY <2>1, <2>3 DEF Referenced
  <2>5. \A s \in SMs : status'[s] = "alive" <=> Referenced(s, map', queue', current')
    BY <2>2, <2>4 DEF RefInv
  <2>6. \A s \in SMs : status'[s] # "alive" => ~coordinator'[s] /\ ~dispatcher'[s]
    BY <2>1, <2>2 DEF RefInv
  <2>7. \A s \in SMs : s >= nextId' => s >= nextId /\ s # nextId
    BY <2>1 DEF SMs, Types
  <2>8. \A s \in SMs : s >= nextId' => status'[s] = "unborn"
    BY <2>2, <2>7 DEF RefInv
  <2> QED
    BY <2>5, <2>6, <2>8 DEF RefInv
<1>3. CASE DestroyPost
  <2> DEFINE t == [op |-> "uninit", sm |-> destroying, by |-> "main"]
  <2>1. destroying \in map /\ destroying \in SMs
    BY <1>3 DEF DestroyPost, LifecycleInv, UninitInv, Types
  <2>2. /\ t \in Task /\ queue' = Append(queue, t) /\ t.sm = destroying
        /\ map' = map \ {destroying}
        /\ UNCHANGED <<current, coordinator, dispatcher, status, nextId>>
    BY <1>3, <2>1 DEF DestroyPost, Post, Task, object, worker
  <2>3. \A s : Holds(queue', s) <=> Holds(queue, s) \/ s = destroying
    BY <2>2, QueueGrows DEF Types
  <2>4. \A s \in SMs : Referenced(s, map', queue', current') <=> Referenced(s, map, queue, current)
    BY <2>1, <2>2, <2>3 DEF Referenced
  <2> QED
    BY <2>2, <2>4 DEF RefInv
<1>4. CASE SetDayNightMode
  <2>1. PICK p \in Seq(Task) :
           queue' = queue \o p /\ \A i \in 1..Len(p) : p[i].sm \in map
    BY <1>4, DayNightFacts
  <2>2. \A s : Holds(p, s) => s \in map
    <3>1. DOMAIN p = 1..Len(p)
      OBVIOUS
    <3> QED
      BY <2>1, <3>1 DEF Holds
  <2>3. \A s : Holds(queue', s) <=> Holds(queue, s) \/ Holds(p, s)
    BY <2>1, QueueJoins DEF Types
  <2>4. UNCHANGED <<map, current, coordinator, dispatcher, status, nextId>>
    BY <1>4 DEF SetDayNightMode, engine, object, worker
  <2>5. \A s \in SMs : Referenced(s, map', queue', current') <=> Referenced(s, map, queue, current)
    BY <2>2, <2>3, <2>4 DEF Referenced
  <2> QED
    BY <2>4, <2>5 DEF RefInv
<1>5. ASSUME NEW s \in SMs, Submit(s) PROVE RefInv'
  <2> DEFINE t == [op |-> "use", sm |-> s, by |-> "main"]
  <2>1. /\ t \in Task /\ queue' = Append(queue, t) /\ t.sm = s /\ status[s] = "alive"
        /\ UNCHANGED <<map, current, coordinator, dispatcher, status, nextId>>
    BY <1>5 DEF Submit, Post, Task, engine, object, worker
  <2>2. \A r : Holds(queue', r) <=> Holds(queue, r) \/ r = s
    BY <2>1, QueueGrows DEF Types
  <2>3. \A r \in SMs : Referenced(r, map', queue', current') <=> Referenced(r, map, queue, current)
    BY <2>1, <2>2 DEF Referenced, RefInv
  <2> QED
    BY <2>1, <2>3 DEF RefInv
<1>6. ASSUME NEW s \in SMs, DestroyExitRunning(s) PROVE RefInv'
  BY <1>6 DEF DestroyExitRunning, RefInv, Referenced, thread, engine, worker
<1>7. CASE StopBegin \/ StopLock \/ StopDrained \/ StopDeleteModules
  BY <1>7 DEF StopBegin, StopLock, StopDrained, StopDeleteModules, RefInv, Referenced, thread, engine,
              object, worker
<1>8. CASE StopDrainOne
  <2>1. /\ queue # <<>> /\ queue' = Tail(queue) /\ DropUnreferenced(map, queue', current)
        /\ UNCHANGED <<map, current, nextId>>
    BY <1>8 DEF StopDrainOne, engine, worker
  <2>2. \A s : Holds(queue', s) => Holds(queue, s)
    BY <2>1, QueueShrinks DEF Types
  <2>3. \A s \in SMs : Referenced(s, map', queue', current') => Referenced(s, map, queue, current)
    BY <2>1, <2>2 DEF Referenced
  <2> QED
    BY <2>1, <2>3, DropFacts DEF RefInv
<1>9. CASE StopJoin
  <2>1. /\ queue' = <<>> /\ DropUnreferenced(map, queue', NoTask)
        /\ UNCHANGED <<map, current, nextId>> /\ wpc = "exited"
    BY <1>9 DEF StopJoin, engine, worker
  <2>2. current = NoTask
    BY <2>1 DEF PhaseInv, Working
  <2>3. \A s \in SMs : Referenced(s, map', queue', NoTask) => Referenced(s, map, queue, current)
    BY <2>1, EmptyHoldsNone DEF Referenced
  <2> QED
    BY <2>1, <2>2, <2>3, DropFacts DEF RefInv
<1>10. CASE StopUninitAll
  <2>1. UNCHANGED <<map, queue, current, status, nextId>>
    BY <1>10 DEF StopUninitAll, thread, engine, worker
  <2>2. \A s \in SMs : (coordinator'[s] => coordinator[s]) /\ (dispatcher'[s] => dispatcher[s])
    <3>1. /\ coordinator' = [s \in SMs |-> coordinator[s] /\ s \notin map]
          /\ dispatcher' = [s \in SMs |-> dispatcher[s] /\ s \notin map]
      BY <1>10 DEF StopUninitAll, Uninit
    <3> QED
      BY <3>1, Zenon
  <2> QED
    BY <2>1, <2>2 DEF RefInv
<1>11. CASE StopClearMap
  <2>1. /\ map' = {} /\ DropUnreferenced(map', queue, current)
        /\ UNCHANGED <<queue, current, nextId>>
    BY <1>11 DEF StopClearMap, thread, worker
  <2>2. \A s \in SMs : Referenced(s, map', queue, current) => Referenced(s, map, queue, current)
    BY <2>1 DEF Referenced
  <2> QED
    BY <2>1, <2>2, DropFacts DEF RefInv
<1>12. CASE Aside
  BY <1>12 DEF Aside, RefInv, Referenced, thread, engine
<1> QED
  BY <1>1, <1>2, <1>3, <1>4, <1>5, <1>6, <1>7, <1>8, <1>9, <1>10, <1>11, <1>12, AsideSteps
  DEF MainStep, StopStep

LEMMA WorkerReferences ==
    LifecycleInv /\ (WorkerStep \/ ReenterCheck \/ ReenterAddListener) => RefInv'
<1> SUFFICES ASSUME LifecycleInv, Types, PhaseInv, RefInv, Types',
                    WorkerStep \/ ReenterCheck \/ ReenterAddListener
             PROVE  RefInv'
  BY WorkerControl DEF LifecycleInv
<1>1. CASE WorkerTake
  <2>1. /\ queue # <<>> /\ queue' = Tail(queue) /\ current' = Head(queue) /\ current = NoTask
        /\ UNCHANGED <<map, coordinator, dispatcher, status, nextId>>
    BY <1>1 DEF WorkerTake, PhaseInv, Working, engine, object
  <2>2. current' \in Task /\ \A s : Holds(queue, s) <=> Holds(queue', s) \/ current'.sm = s
    BY <2>1, QueueShrinks DEF Types
  <2>3. \A s \in SMs : Referenced(s, map', queue', current') <=> Referenced(s, map, queue, current)
    BY <2>1, <2>2, LifecycleAssumption DEF Referenced
  <2> QED
    BY <2>1, <2>3 DEF RefInv
<1>2. CASE WorkerExit \/ RunUse
  BY <1>2 DEF WorkerExit, RunUse, RefInv, Referenced, thread, engine, object
<1>3. CASE InitDispatcher
  <2>1. current \in Task /\ current # NoTask
    BY <1>3 DEF InitDispatcher, Types, PhaseInv, Working
  <2>2. /\ UNCHANGED <<map, queue, current, coordinator, status, nextId>>
        /\ \A s \in SMs : s # current.sm => dispatcher'[s] = dispatcher[s]
    BY <1>3 DEF InitDispatcher, Types, thread, engine
  <2>3. status[current.sm] = "alive"
    BY <2>1 DEF RefInv, Referenced, Task
  <2> QED
    BY <2>2, <2>3 DEF RefInv
<1>4. CASE InitModules
  <2>1. current \in Task /\ current # NoTask
    BY <1>4 DEF InitModules, Types, PhaseInv, Working
  <2>2. /\ UNCHANGED <<map, queue, current, dispatcher, status, nextId>>
        /\ \A s \in SMs : s # current.sm => coordinator'[s] = coordinator[s]
    BY <1>4 DEF InitModules, Types, thread, engine
  <2>3. status[current.sm] = "alive"
    BY <2>1 DEF RefInv, Referenced, Task
  <2> QED
    BY <2>2, <2>3 DEF RefInv
<1>5. CASE RunUninit
  <2>1. UNCHANGED <<map, queue, current, status, nextId>>
    BY <1>5 DEF RunUninit, thread, engine
  <2> DEFINE u == current.sm
  <2>2. \A s \in SMs : (coordinator'[s] => coordinator[s]) /\ (dispatcher'[s] => dispatcher[s])
    <3>1. /\ coordinator' = [s \in SMs |-> coordinator[s] /\ s \notin {u}]
          /\ dispatcher' = [s \in SMs |-> dispatcher[s] /\ s \notin {u}]
      BY <1>5 DEF RunUninit, Uninit
    <3> QED
      BY <3>1, Zenon
  <2> QED
    BY <2>1, <2>2 DEF RefInv
<1>6. CASE ReenterPush
  <2> DEFINE t == [op |-> "use", sm |-> current.sm, by |-> "worker"]
  <2>1. current \in Task /\ current # NoTask
    BY <1>6 DEF ReenterPush, Types, PhaseInv, Working
  <2>2. /\ t \in Task /\ queue' = Append(queue, t) /\ t.sm = current.sm
        /\ UNCHANGED <<map, current, coordinator, dispatcher, status, nextId>>
    BY <1>6, <2>1 DEF ReenterPush, Post, Task, engine, object
  <2>3. \A s : Holds(queue', s) <=> Holds(queue, s) \/ s = current.sm
    BY <2>2, QueueGrows DEF Types
  <2>4. \A s \in SMs : Referenced(s, map', queue', current') <=> Referenced(s, map, queue, current)
    BY <2>1, <2>2, <2>3 DEF Referenced
  <2> QED
    BY <2>2, <2>4 DEF RefInv
<1>7. CASE Release
  <2>1. /\ current' = NoTask /\ DropUnreferenced(map, queue, current')
        /\ UNCHANGED <<map, queue, nextId>>
    BY <1>7 DEF Release, thread, engine
  <2>2. \A s \in SMs : Referenced(s, map', queue', current') => Referenced(s, map, queue, current)
    BY <2>1 DEF Referenced
  <2> QED
    BY <2>1, <2>2, DropFacts DEF RefInv
<1>8. CASE Aside
  BY <1>8 DEF Aside, RefInv, Referenced, thread, engine
<1> QED
  BY <1>1, <1>2, <1>3, <1>4, <1>5, <1>6, <1>7, <1>8, AsideSteps DEF WorkerStep
-----------------------------------------------------------------------------
(* Nothing behind an uninit(). *)

\* What the next SurfaceManager is not: in a queue, or at work.
LEMMA NextIsNew ==
    ASSUME Types, RefInv, nextId \in SMs
    PROVE  /\ nextId \notin map
           /\ \A i \in 1..Len(queue) : queue[i].sm # nextId
           /\ current # NoTask => current.sm # nextId
<1>1. ~Referenced(nextId, map, queue, current)
  <2>1. nextId >= nextId
    BY DEF Types
  <2>2. status[nextId] = "unborn"
    BY <2>1 DEF RefInv
  <2> QED
    BY <2>2 DEF RefInv
<1>2. DOMAIN queue = 1..Len(queue)
  BY DEF Types
<1> QED
  BY <1>1, <1>2 DEF Referenced, Holds

LEMMA QueuedAreTasks == Types => \A i \in 1..Len(queue) : queue[i] \in Task /\ queue[i].sm \in SMs
<1>1. Types => \A i \in 1..Len(queue) : queue[i] \in Task
  BY DEF Types
<1>2. \A t \in Task : t.sm \in SMs
  BY DEF Task
<1> QED
  BY <1>1, <1>2

LEMMA MainUninit == LifecycleInv /\ MainStep => UninitInv'
<1> SUFFICES ASSUME LifecycleInv, Types, PhaseInv, RefInv, UninitInv, MainStep PROVE UninitInv'
  BY DEF LifecycleInv
<1> USE DEF NothingBehindUninit
<1>1. CASE EngineStart
  BY <1>1 DEF EngineStart, UninitInv, object
<1>2. CASE CreateSurfaceManager
  <2> DEFINE t == [op |-> "init", sm |-> nextId, by |-> "main"]
  <2>1. /\ nextId \in SMs /\ t \in Task /\ queue' = Append(queue, t) /\ mpc = "ready"
        /\ map' = map \cup {nextId} /\ UNCHANGED <<current, wpc, mpc>>
    BY <1>2 DEF CreateSurfaceManager, Post, Task, worker, main
  <2>2. \A s \in SMs : s # nextId => smRunning'[s] = smRunning[s]
    BY <1>2, <2>1 DEF CreateSurfaceManager, Types
  <2>3. /\ nextId \notin map /\ \A i \in 1..Len(queue) : queue[i].sm # nextId
        /\ current # NoTask => current.sm # nextId
    BY <2>1, NextIsNew
  <2>4. /\ Len(queue) \in Nat /\ Len(queue') = Len(queue) + 1 /\ queue'[Len(queue) + 1] = t
        /\ \A i \in 1..Len(queue) : queue'[i] = queue[i] /\ queue[i].sm \in SMs
    BY <2>1, QueueGrows, QueuedAreTasks DEF Types
  <2>5. \A i \in 1..Len(queue') : queue'[i].op = "uninit" =>
           queue'[i].sm \notin map' /\ ~smRunning'[queue'[i].sm]
    BY <2>1, <2>2, <2>3, <2>4 DEF UninitInv
  <2>6. NothingBehindUninit'
    BY <2>3, <2>4 DEF UninitInv
  <2>7. wpc' = "uninit" => current'.sm \notin map'
    BY <2>1, <2>3 DEF UninitInv, PhaseInv, Working
  <2> QED
    BY <2>1, <2>5, <2>6, <2>7 DEF UninitInv
<1>3. CASE DestroyPost
  <2> DEFINE t == [op |-> "uninit", sm |-> destroying, by |-> "main"]
  <2>1. destroying \in map /\ destroying \in SMs /\ ~smRunning[destroying]
    BY <1>3 DEF DestroyPost, UninitInv, Types
  <2>2. /\ t \in Task /\ queue' = Append(queue, t)
        /\ map' = map \ {destroying} /\ mpc' = "ready"
        /\ UNCHANGED <<current, wpc, smRunning>>
    BY <1>3, <2>1 DEF DestroyPost, Post, Task, object, worker
  <2>3. /\ Len(queue) \in Nat /\ Len(queue') = Len(queue) + 1 /\ queue'[Len(queue) + 1] = t
        /\ \A i \in 1..Len(queue) : queue'[i] = queue[i]
    BY <2>2, QueueGrows DEF Types
  <2>4. \A i \in 1..Len(queue') : queue'[i].op = "uninit" =>
           queue'[i].sm \notin map' /\ ~smRunning'[queue'[i].sm]
    BY <2>1, <2>2, <2>3 DEF UninitInv
  <2>5. NothingBehindUninit'
    BY <2>1, <2>3 DEF UninitInv
  <2> QED
    BY <2>2, <2>4, <2>5 DEF UninitInv
<1>4. CASE SetDayNightMode
  <2>1. PICK p \in Seq(Task) :
           /\ queue' = queue \o p
           /\ \A i \in 1..Len(p) : /\ p[i].op = "use" /\ p[i].by = "main"
                                   /\ p[i].sm \in map /\ smRunning[p[i].sm]
    BY <1>4, DayNightFacts
  <2>2. /\ Len(queue) \in Nat /\ Len(p) \in Nat /\ Len(queue') = Len(queue) + Len(p)
        /\ \A i \in 1..Len(queue) : queue'[i] = queue[i]
        /\ \A i \in (Len(queue) + 1)..Len(queue') : queue'[i] = p[i - Len(queue)]
    BY <2>1, QueueJoins DEF Types
  <2>3. \A i \in (Len(queue) + 1)..Len(queue') :
           queue'[i].op = "use" /\ queue'[i].sm \in map
    BY <2>1, <2>2
  <2>4. UNCHANGED <<map, current, wpc, smRunning, mpc>>
    BY <1>4 DEF SetDayNightMode, engine, object, worker
  <2>5. mpc # "destroy"
    BY <1>4 DEF SetDayNightMode
  <2>6. \A i \in 1..Len(queue') : queue'[i].op = "uninit" => i \in 1..Len(queue)
    BY <2>2, <2>3
  <2>7. NothingBehindUninit'
    BY <2>2, <2>3, <2>6 DEF UninitInv
  <2> QED
    BY <2>2, <2>4, <2>5, <2>6, <2>7 DEF UninitInv
<1>5. ASSUME NEW s \in SMs, Submit(s) PROVE UninitInv'
  <2> DEFINE t == [op |-> "use", sm |-> s, by |-> "main"]
  <2>1. /\ t \in Task /\ queue' = Append(queue, t) /\ smRunning[s] /\ mpc = "ready"
        /\ UNCHANGED <<map, current, wpc, smRunning, mpc>>
    BY <1>5 DEF Submit, Post, Task, engine, object, worker
  <2>2. /\ Len(queue) \in Nat /\ Len(queue') = Len(queue) + 1 /\ queue'[Len(queue) + 1] = t
        /\ \A i \in 1..Len(queue) : queue'[i] = queue[i]
    BY <2>1, QueueGrows DEF Types
  <2>3. \A i \in 1..Len(queue) : queue[i].op = "uninit" => queue[i].sm # s
    BY <2>1 DEF UninitInv
  <2>4. t.sm = s /\ t.op = "use"
    OBVIOUS
  <2> HIDE DEF t
  <2>5. NothingBehindUninit'
    BY <2>2, <2>3, <2>4 DEF UninitInv
  <2> QED
    BY <2>1, <2>2, <2>4, <2>5 DEF UninitInv
<1>6. ASSUME NEW s \in SMs, DestroyExitRunning(s) PROVE UninitInv'
  <2>1. /\ s \in map /\ smRunning' = [smRunning EXCEPT ![s] = FALSE]
        /\ mpc' = "destroy" /\ destroying' = s
        /\ UNCHANGED <<queue, map, current, wpc>>
    BY <1>6 DEF DestroyExitRunning, thread, engine, worker
  <2>2. \A r \in SMs : ~smRunning[r] \/ r = s => ~smRunning'[r]
    BY <2>1 DEF Types
  <2>3. \A i \in 1..Len(queue) : queue[i].sm \in SMs
    BY QueuedAreTasks
  <2> QED
    BY <2>1, <2>2, <2>3 DEF UninitInv
<1>7. CASE StopBegin \/ StopLock \/ StopDrained \/ StopDeleteModules
  <2>1. UNCHANGED <<queue, map, current, wpc, smRunning>> /\ mpc' # "destroy"
    BY <1>7 DEF StopBegin, StopLock, StopDrained, StopDeleteModules, thread, engine, object, worker
  <2> QED
    BY <2>1 DEF UninitInv
<1>8. CASE StopDrainOne
  <2>1. /\ queue # <<>> /\ queue' = Tail(queue) /\ smRunning' = smRunning
        /\ UNCHANGED <<map, current, wpc, mpc, destroying>>
    BY <1>8 DEF StopDrainOne, DropUnreferenced, engine, worker, main
  <2>2. /\ Len(queue) \in Nat \ {0} /\ Len(queue') = Len(queue) - 1
        /\ \A i \in 1..Len(queue') : queue'[i] = queue[i + 1]
    BY <2>1, QueueShrinks DEF Types
  <2>3. NothingBehindUninit'
    BY <2>2 DEF UninitInv
  <2>4. \A i \in 1..Len(queue') : queue'[i].op = "uninit" =>
           queue'[i].sm \notin map' /\ ~smRunning'[queue'[i].sm]
    BY <2>1, <2>2 DEF UninitInv
  <2> QED
    BY <2>1, <2>3, <2>4 DEF UninitInv
<1>9. CASE StopJoin
  <2>1. queue' = <<>> /\ wpc' = wpc /\ wpc = "exited" /\ mpc' # "destroy"
    BY <1>9 DEF StopJoin, worker
  <2> QED
    BY <2>1 DEF UninitInv
<1>10. CASE StopUninitAll \/ StopClearMap
  <2>1. /\ mpc' # "destroy" /\ UNCHANGED <<queue, wpc>> /\ queue = <<>> /\ wpc = "exited"
    BY <1>10 DEF StopUninitAll, StopClearMap, thread, worker, PhaseInv
  <2> QED
    BY <2>1 DEF UninitInv
<1>11. CASE Aside
  <2>1. UNCHANGED <<queue, map, current, smRunning, mpc, destroying>> /\ (wpc' = "uninit" => wpc = "uninit")
    BY <1>11 DEF Aside, thread, engine
  <2> QED
    BY <2>1 DEF UninitInv
<1> QED
  BY <1>1, <1>2, <1>3, <1>4, <1>5, <1>6, <1>7, <1>8, <1>9, <1>10, <1>11, AsideSteps
  DEF MainStep, StopStep

LEMMA WorkerUninit ==
    LifecycleInv /\ (WorkerStep \/ ReenterCheck \/ ReenterAddListener) => UninitInv'
<1> SUFFICES ASSUME LifecycleInv, Types, PhaseInv, RefInv, UninitInv,
                    WorkerStep \/ ReenterCheck \/ ReenterAddListener
             PROVE  UninitInv'
  BY DEF LifecycleInv
<1> USE DEF NothingBehindUninit
<1>1. CASE WorkerTake
  <2>1. /\ queue # <<>> /\ queue' = Tail(queue) /\ current' = Head(queue) /\ wpc' = Head(queue).op
        /\ UNCHANGED <<map, smRunning, mpc, destroying>>
    BY <1>1 DEF WorkerTake, engine, object, main
  <2>2. /\ Len(queue) \in Nat \ {0} /\ Len(queue') = Len(queue) - 1 /\ Head(queue) = queue[1]
        /\ \A i \in 1..Len(queue') : queue'[i] = queue[i + 1]
    BY <2>1, QueueShrinks DEF Types
  <2>3. NothingBehindUninit'
    BY <2>2 DEF UninitInv
  <2>4. \A i \in 1..Len(queue') : queue'[i].op = "uninit" =>
           queue'[i].sm \notin map' /\ ~smRunning'[queue'[i].sm]
    BY <2>1, <2>2 DEF UninitInv
  <2>5. wpc' = "uninit" => current'.sm \notin map'
    BY <2>1, <2>2 DEF UninitInv
  <2> QED
    BY <2>1, <2>3, <2>4, <2>5 DEF UninitInv
<1>2. CASE WorkerExit \/ InitDispatcher \/ InitModules \/ RunUninit \/ RunUse
  <2>1. UNCHANGED <<queue, map, smRunning, mpc, destroying>> /\ wpc' # "uninit"
    BY <1>2 DEF WorkerExit, InitDispatcher, InitModules, RunUninit, RunUse, thread, engine, object, main
  <2> QED
    BY <2>1 DEF UninitInv
<1>3. CASE ReenterPush
  <2> DEFINE t == [op |-> "use", sm |-> current.sm, by |-> "worker"]
  <2>1. current \in Task
    BY <1>3 DEF ReenterPush, Types, PhaseInv, Working
  <2>2. /\ t \in Task /\ queue' = Append(queue, t) /\ wpc' = "callback"
        /\ UNCHANGED <<map, smRunning, mpc, destroying>>
    BY <1>3, <2>1 DEF ReenterPush, Post, Task, engine, object, main
  <2>3. /\ Len(queue) \in Nat /\ Len(queue') = Len(queue) + 1 /\ queue'[Len(queue) + 1] = t
        /\ \A i \in 1..Len(queue) : queue'[i] = queue[i]
    BY <2>2, QueueGrows DEF Types
  <2>5. t.by = "worker" /\ t.op = "use"
    OBVIOUS
  <2> HIDE DEF t
  <2>6. \A j \in 1..Len(queue') : j \in 1..Len(queue) \/ queue'[j] = t
    BY <2>3
  <2>7. \A i, j \in 1..Len(queue') : i < j /\ j \in 1..Len(queue) => i \in 1..Len(queue)
    BY <2>3
  <2>4. NothingBehindUninit'
    BY <2>3, <2>5, <2>6, <2>7 DEF UninitInv, NothingBehindUninit
  <2> QED
    BY <2>2, <2>3, <2>4, <2>5, <2>6 DEF UninitInv
<1>4. CASE Release
  <2>1. UNCHANGED <<queue, map, smRunning, mpc, destroying>> /\ wpc' # "uninit"
    BY <1>4 DEF Release, DropUnreferenced, thread, engine, main
  <2> QED
    BY <2>1 DEF UninitInv
<1>5. CASE Aside
  <2>1. UNCHANGED <<queue, map, current, smRunning, mpc, destroying>> /\ (wpc' = "uninit" => wpc = "uninit")
    BY <1>5 DEF Aside, thread, engine
  <2> QED
    BY <2>1 DEF UninitInv
<1> QED
  BY <1>1, <1>2, <1>3, <1>4, <1>5, AsideSteps DEF WorkerStep
-----------------------------------------------------------------------------
(* The coordinator is there. *)

LEMMA MainServed == LifecycleInv /\ MainStep => ServedInv'
<1> SUFFICES ASSUME LifecycleInv, Types, PhaseInv, RefInv, UninitInv, ServedInv, MainStep
             PROVE  ServedInv'
  BY DEF LifecycleInv
<1> USE DEF Initialising, InitBefore, InitWaits
<1>1. CASE EngineStart
  BY <1>1 DEF EngineStart, ServedInv, PhaseInv, object
<1>2. CASE CreateSurfaceManager
  <2> DEFINE t == [op |-> "init", sm |-> nextId, by |-> "main"]
  <2>1. /\ nextId \in SMs /\ t \in Task /\ queue' = Append(queue, t) /\ mpc = "ready"
        /\ map' = map \cup {nextId} /\ UNCHANGED <<current, wpc, mpc, coordinator>>
    BY <1>2 DEF CreateSurfaceManager, Post, Task, worker, main
  <2>2. \A i \in 1..Len(queue) : queue[i].sm # nextId
    BY <2>1, NextIsNew
  <2>3. /\ Len(queue) \in Nat /\ Len(queue') = Len(queue) + 1 /\ queue'[Len(queue) + 1] = t
        /\ \A i \in 1..Len(queue) : queue'[i] = queue[i]
    BY <2>1, QueueGrows DEF Types
  <2>4. \A s \in map' : coordinator'[s] \/ Initialising(s)' \/ InitWaits(s)'
    <3>1. \A s : s = nextId => InitWaits(s)'
      BY <2>3
    <3>2. \A s \in map : coordinator'[s] \/ Initialising(s)' \/ InitWaits(s)'
      BY <2>1, <2>3 DEF ServedInv
    <3> QED
      BY <2>1, <3>1, <3>2
  <2>5. \A s \in map', i \in 1..Len(queue') : queue'[i].op = "use" /\ queue'[i].sm = s =>
              coordinator'[s] \/ Initialising(s)' \/ InitBefore(s, i)'
    <3> SUFFICES ASSUME NEW s \in map', NEW i \in 1..Len(queue'), queue'[i].op = "use", queue'[i].sm = s
                 PROVE  coordinator'[s] \/ Initialising(s)' \/ InitBefore(s, i)'
      OBVIOUS
    <3>1. i \in 1..Len(queue) /\ queue'[i] = queue[i] /\ queue[i].sm \in map
      BY <2>1, <2>2, <2>3
    <3> QED
      BY <2>1, <2>3, <3>1 DEF ServedInv
  <2>6. wpc' = "use" /\ current'.sm \in map' => coordinator'[current'.sm]
    BY <2>1, NextIsNew DEF ServedInv, PhaseInv, Working
  <2> QED
    BY <2>1, <2>4, <2>5, <2>6 DEF ServedInv
<1>3. ASSUME mpc = "ready" \/ mpc = "destroy", map' \subseteq map, NEW n \in Nat,
             Len(queue) \in Nat, Len(queue') = Len(queue) + n,
             \A i \in 1..Len(queue) : queue'[i] = queue[i],
             \A i \in (Len(queue) + 1)..Len(queue') : queue'[i].op = "use" => queue'[i].sm \in map \/ queue'[i].sm \notin map',
             UNCHANGED <<current, wpc, coordinator>>
      PROVE  ServedInv'
  <2>1. \A s \in map : coordinator'[s] \/ Initialising(s)' \/ InitWaits(s)
    BY <1>3 DEF ServedInv
  <2>2. \A s : InitWaits(s) => InitWaits(s)'
    BY <1>3
  <2>3. \A s \in map', i \in 1..Len(queue') : queue'[i].op = "use" /\ queue'[i].sm = s =>
              coordinator'[s] \/ Initialising(s)' \/ InitBefore(s, i)'
    <3> SUFFICES ASSUME NEW s \in map', NEW i \in 1..Len(queue'), queue'[i].op = "use", queue'[i].sm = s
                 PROVE  coordinator'[s] \/ Initialising(s)' \/ InitBefore(s, i)'
      OBVIOUS
    <3>1. CASE i \in 1..Len(queue)
      BY <1>3, <3>1 DEF ServedInv
    <3>2. CASE i \notin 1..Len(queue)
      <4>1. i \in (Len(queue) + 1)..Len(queue') /\ s \in map
        BY <1>3, <3>2
      <4>2. InitWaits(s) => InitBefore(s, i)'
        BY <1>3, <4>1
      <4> QED
        BY <2>1, <4>1, <4>2
    <3> QED
      BY <3>1, <3>2
  <2> QED
    BY <1>3, <2>1, <2>2, <2>3 DEF ServedInv
<1>4. CASE DestroyPost
  <2> DEFINE t == [op |-> "uninit", sm |-> destroying, by |-> "main"]
  <2>1. destroying \in SMs
    BY <1>4 DEF DestroyPost, UninitInv, Types
  <2>2. /\ t \in Task /\ t.op # "use" /\ queue' = Append(queue, t) /\ mpc = "destroy"
        /\ map' = map \ {destroying} /\ UNCHANGED <<current, wpc, coordinator>>
    BY <1>4, <2>1 DEF DestroyPost, Post, Task, object, worker
  <2>3. /\ Len(queue) \in Nat /\ Len(queue') = Len(queue) + 1 /\ queue'[Len(queue) + 1] = t
        /\ \A i \in 1..Len(queue) : queue'[i] = queue[i]
    BY <2>2, QueueGrows DEF Types
  <2> HIDE DEF t
  <2>4. \A i \in (Len(queue) + 1)..Len(queue') : queue'[i].op # "use"
    BY <2>2, <2>3
  <2> QED
    BY <1>3, <2>2, <2>3, <2>4
<1>5. CASE SetDayNightMode
  <2>1. PICK p \in Seq(Task) :
           queue' = queue \o p /\ \A i \in 1..Len(p) : p[i].sm \in map
    BY <1>5, DayNightFacts
  <2>2. /\ Len(queue) \in Nat /\ Len(p) \in Nat /\ Len(queue') = Len(queue) + Len(p)
        /\ \A i \in 1..Len(queue) : queue'[i] = queue[i]
        /\ \A i \in (Len(queue) + 1)..Len(queue') : queue'[i] = p[i - Len(queue)]
    BY <2>1, QueueJoins DEF Types
  <2>3. \A i \in (Len(queue) + 1)..Len(queue') : queue'[i].sm \in map
    BY <2>1, <2>2
  <2>4. mpc = "ready" /\ UNCHANGED <<map, current, wpc, coordinator>>
    BY <1>5 DEF SetDayNightMode, engine, object, worker
  <2> QED
    BY <1>3, <2>2, <2>3, <2>4
<1>6. ASSUME NEW s \in SMs, Submit(s) PROVE ServedInv'
  <2> DEFINE t == [op |-> "use", sm |-> s, by |-> "main"]
  <2>1. /\ t \in Task /\ t.sm = s /\ queue' = Append(queue, t) /\ mpc = "ready"
        /\ UNCHANGED <<map, current, wpc, coordinator>>
    BY <1>6 DEF Submit, Post, Task, engine, object, worker
  <2>2. /\ Len(queue) \in Nat /\ Len(queue') = Len(queue) + 1 /\ queue'[Len(queue) + 1] = t
        /\ \A i \in 1..Len(queue) : queue'[i] = queue[i]
    BY <2>1, QueueGrows DEF Types
  <2> HIDE DEF t
  <2>3. \A i \in (Len(queue) + 1)..Len(queue') : queue'[i].sm \in map \/ queue'[i].sm \notin map'
    BY <2>1, <2>2
  <2> QED
    BY <1>3, <2>1, <2>2, <2>3
<1>7. CASE \E s \in SMs : DestroyExitRunning(s)
  BY <1>7 DEF DestroyExitRunning, ServedInv, thread, engine, worker
<1>8. CASE StopBegin \/ StopLock
  BY <1>8 DEF StopBegin, StopLock, ServedInv, thread, engine, object, worker
<1>9. CASE StopDrainOne
  <2>1. /\ mpc = "stop_drain" /\ DropUnreferenced(map, Tail(queue), current)
        /\ UNCHANGED <<map, current, wpc, mpc>>
    BY <1>9 DEF StopDrainOne, engine, worker, main
  <2>2. Working => coordinator'[current.sm] = coordinator[current.sm]
    <3> SUFFICES ASSUME Working PROVE coordinator'[current.sm] = coordinator[current.sm]
      OBVIOUS
    <3>1. current \in Task /\ current # NoTask
      BY DEF Types, PhaseInv
    <3>2. current.sm \in SMs /\ Referenced(current.sm, map, Tail(queue), current)
      BY <3>1 DEF Task, Referenced
    <3> QED
      BY <2>1, <3>2, DropFacts
  <2> QED
    BY <2>1, <2>2 DEF ServedInv, Working
<1>10. CASE StopDrained
  <2>1. mpc' = "stop_join" /\ UNCHANGED <<queue, map, current, wpc, coordinator>> /\ queue = <<>>
    BY <1>10 DEF StopDrained, thread, engine, object, worker
  <2>2. Len(queue) = 0
    BY <2>1
  <2> QED
    BY <2>1, <2>2 DEF ServedInv
<1>11. CASE StopJoin \/ StopUninitAll \/ StopClearMap \/ StopDeleteModules
  <2>1. /\ mpc' \notin {"ready", "destroy"} /\ queue' = <<>> /\ wpc' = "exited"
    BY <1>11 DEF StopJoin, StopUninitAll, StopClearMap, StopDeleteModules, thread, worker, PhaseInv
  <2>2. Len(queue') = 0
    BY <2>1
  <2> QED
    BY <2>1, <2>2 DEF ServedInv
<1>12. CASE Aside
  <2>1. UNCHANGED <<queue, map, current, mpc, coordinator>>
    BY <1>12 DEF Aside, thread, engine
  <2>2. \A s : Initialising(s) => Initialising(s)'
    BY <1>12, <2>1 DEF Aside
  <2>3. /\ wpc' = "use" => wpc = "use"
        /\ wpc' \in {"dispatch", "callback", "reenter", "stuck"} =>
              wpc \in {"dispatch", "callback", "reenter", "stuck"}
    BY <1>12 DEF Aside
  <2> QED
    BY <2>1, <2>2, <2>3 DEF ServedInv
<1> QED
  BY <1>1, <1>2, <1>4, <1>5, <1>6, <1>7, <1>8, <1>9, <1>10, <1>11, <1>12, AsideSteps
  DEF MainStep, StopStep

LEMMA WorkerServed ==
    LifecycleInv /\ (WorkerStep \/ ReenterCheck \/ ReenterAddListener) => ServedInv'
<1> SUFFICES ASSUME LifecycleInv, Types, PhaseInv, RefInv, UninitInv, ServedInv,
                    WorkerStep \/ ReenterCheck \/ ReenterAddListener
             PROVE  ServedInv'
  BY DEF LifecycleInv
<1> USE DEF Initialising, InitBefore, InitWaits
<1>1. CASE WorkerTake
  <2>1. /\ queue # <<>> /\ queue' = Tail(queue) /\ current' = Head(queue) /\ wpc' = Head(queue).op
        /\ wpc = "idle" /\ mpc # "stop_drain"
        /\ UNCHANGED <<map, mpc, coordinator>>
    BY <1>1 DEF WorkerTake, engine, object, main
  <2>2. /\ Len(queue) \in Nat \ {0} /\ Len(queue') = Len(queue) - 1 /\ Head(queue) = queue[1]
        /\ \A i \in 1..Len(queue') : queue'[i] = queue[i + 1]
        /\ queue[1] \in Task
    BY <2>1, QueueShrinks DEF Types
  <2>3. \A s : InitWaits(s) => Initialising(s)' \/ InitWaits(s)'
    <3> SUFFICES ASSUME NEW s, NEW j \in 1..Len(queue), queue[j].op = "init", queue[j].sm = s
                 PROVE  Initialising(s)' \/ InitWaits(s)'
      OBVIOUS
    <3>1. CASE j = 1
      BY <2>1, <2>2, <3>1
    <3>2. CASE j # 1
      <4>1. j - 1 \in 1..Len(queue') /\ queue'[j - 1] = queue[j]
        BY <2>2, <3>2
      <4> QED
        BY <4>1
    <3> QED
      BY <3>1, <3>2
  <2>4. \A s \in map', i \in 1..Len(queue') : queue'[i].op = "use" /\ queue'[i].sm = s =>
              coordinator'[s] \/ Initialising(s)' \/ InitBefore(s, i)'
    <3> SUFFICES ASSUME NEW s \in map', NEW i \in 1..Len(queue'), queue'[i].op = "use",
                        queue'[i].sm = s, ~coordinator'[s]
                 PROVE  Initialising(s)' \/ InitBefore(s, i)'
      OBVIOUS
    <3>1. i + 1 \in 1..Len(queue) /\ queue'[i] = queue[i + 1]
      BY <2>2
    <3>2. PICK j \in 1..(i + 1 - 1) : queue[j].op = "init" /\ queue[j].sm = s
      BY <2>1, <3>1 DEF ServedInv
    <3>3. CASE j = 1
      BY <2>1, <2>2, <3>2, <3>3
    <3>4. CASE j # 1
      <4>1. j - 1 \in 1..(i - 1) /\ queue'[j - 1] = queue[j]
        BY <2>2, <3>4
      <4> QED
        BY <3>2, <4>1
    <3> QED
      BY <3>3, <3>4
  <2>5. wpc' = "use" /\ current'.sm \in map' => coordinator'[current'.sm]
    BY <2>1, <2>2 DEF ServedInv
  <2>6. wpc' \in {"init", "uninit", "use"}
    BY <2>1, <2>2 DEF Task
  <2>7. mpc' \in {"ready", "destroy"} =>
           \A s \in map' : coordinator'[s] \/ Initialising(s)' \/ InitWaits(s)'
    BY <2>1, <2>3 DEF ServedInv
  <2> QED
    BY <2>4, <2>5, <2>6, <2>7 DEF ServedInv
<1>2. CASE WorkerExit \/ InitDispatcher \/ RunUse
  <2>1. /\ UNCHANGED <<queue, map, current, mpc, coordinator>>
        /\ wpc \in {"init", "init_modules"} => wpc' \in {"init", "init_modules"}
        /\ wpc' # "use"
        /\ wpc' \in {"dispatch", "callback", "reenter", "stuck"} => coordinator[current.sm]
    BY <1>2 DEF WorkerExit, InitDispatcher, RunUse, thread, engine, object, main
  <2> QED
    BY <2>1 DEF ServedInv
<1>3. CASE InitModules
  <2>1. /\ UNCHANGED <<queue, map, current, mpc>> /\ wpc' = "release" /\ wpc = "init_modules"
        /\ coordinator' = [coordinator EXCEPT ![current.sm] = TRUE]
    BY <1>3 DEF InitModules, thread, engine, main
  <2>2. \A s \in SMs : coordinator[s] \/ Initialising(s) => coordinator'[s]
    BY <2>1 DEF Types
  <2>3. map \subseteq SMs /\ \A i \in 1..Len(queue) : queue[i].sm \in SMs
    BY QueuedAreTasks DEF Types
  <2> QED
    BY <2>1, <2>2, <2>3 DEF ServedInv
<1>4. CASE RunUninit
  <2>1. /\ UNCHANGED <<queue, map, current, mpc>> /\ wpc' = "release" /\ wpc = "uninit"
        /\ coordinator' = [s \in SMs |-> coordinator[s] /\ s \notin {current.sm}]
    BY <1>4 DEF RunUninit, Uninit, thread, engine, main
  <2>2. \A s \in map : s \in SMs /\ s # current.sm
    BY <2>1 DEF UninitInv, Types
  <2>3. \A s \in map : coordinator'[s] <=> coordinator[s]
    BY <2>1, <2>2
  <2> QED
    BY <2>1, <2>3 DEF ServedInv
<1>5. CASE ReenterPush
  <2> DEFINE t == [op |-> "use", sm |-> current.sm, by |-> "worker"]
  <2>1. current \in Task
    BY <1>5 DEF ReenterPush, Types, PhaseInv, Working
  <2>2. /\ t \in Task /\ t.sm = current.sm /\ queue' = Append(queue, t)
        /\ wpc = "reenter" /\ wpc' = "callback" /\ coordinator[current.sm]
        /\ UNCHANGED <<map, mpc, coordinator, current>>
    BY <1>5, <2>1 DEF ReenterPush, Post, Task, engine, object, main, ServedInv
  <2>3. /\ Len(queue) \in Nat /\ Len(queue') = Len(queue) + 1 /\ queue'[Len(queue) + 1] = t
        /\ \A i \in 1..Len(queue) : queue'[i] = queue[i]
    BY <2>2, QueueGrows DEF Types
  <2> HIDE DEF t
  <2>4. \A i \in 1..Len(queue') : i \in 1..Len(queue) \/ queue'[i] = t
    BY <2>3
  <2>5. mpc' \in {"ready", "destroy"} =>
           \A s \in map' : coordinator'[s] \/ Initialising(s)' \/ InitWaits(s)'
    BY <2>2, <2>3 DEF ServedInv
  <2>6. mpc' # "stop_drain" =>
           \A s \in map', i \in 1..Len(queue') : queue'[i].op = "use" /\ queue'[i].sm = s =>
              coordinator'[s] \/ Initialising(s)' \/ InitBefore(s, i)'
    BY <2>2, <2>3, <2>4 DEF ServedInv
  <2> QED
    BY <2>2, <2>5, <2>6 DEF ServedInv
<1>6. CASE Release
  <2>1. /\ UNCHANGED <<queue, map, mpc>> /\ wpc' = "idle" /\ wpc = "release"
        /\ DropUnreferenced(map, queue, NoTask)
    BY <1>6 DEF Release, thread, engine, main
  <2>2. \A s \in map : s \in SMs /\ Referenced(s, map, queue, NoTask)
    BY DEF Referenced, Types
  <2>3. \A s \in map : coordinator'[s] = coordinator[s]
    BY <2>1, <2>2, DropFacts
  <2> QED
    BY <2>1, <2>3 DEF ServedInv
<1>7. CASE Aside
  <2>1. UNCHANGED <<queue, map, current, mpc, coordinator>>
    BY <1>7 DEF Aside, thread, engine
  <2>2. \A s : Initialising(s) => Initialising(s)'
    BY <1>7, <2>1 DEF Aside
  <2>3. /\ wpc' = "use" => wpc = "use"
        /\ wpc' \in {"dispatch", "callback", "reenter", "stuck"} =>
              wpc \in {"dispatch", "callback", "reenter", "stuck"}
    BY <1>7 DEF Aside
  <2> QED
    BY <2>1, <2>2, <2>3 DEF ServedInv
<1> QED
  BY <1>1, <1>2, <1>3, <1>4, <1>5, <1>6, <1>7, AsideSteps DEF WorkerStep
-----------------------------------------------------------------------------
(* Listeners. *)

\* A listener is in the cache or in the dispatcher's list, never more often
\* than it was added and not removed, and the worker is inside its list.
ListenTypes ==
    /\ cached \in [SMs -> Seq(Listeners)] /\ listeners \in [SMs -> Seq(Listeners)]
    /\ registered \in [SMs -> [Listeners -> Nat]]
    /\ idx \in Nat \ {0}

ListenInv ==
    /\ ListenTypes
    /\ \A s \in SMs : IF dispatcher[s] THEN cached[s] = <<>> ELSE listeners[s] = <<>>
    /\ \A s \in SMs, l \in Listeners :
          CountOf(cached[s], l) + CountOf(listeners[s], l) <= registered[s][l]
    /\ wpc \in InCallback => idx <= Len(listeners[current.sm])

Matches(q, l) == {i \in DOMAIN q : q[i] = l}

LEMMA CountFacts ==
    ASSUME NEW q \in Seq(Listeners), NEW l
    PROVE  /\ IsFiniteSet(Matches(q, l)) /\ CountOf(q, l) = Cardinality(Matches(q, l))
           /\ CountOf(q, l) \in Nat
           /\ CountOf(q, l) = 0 <=> Matches(q, l) = {}
<1>1. Matches(q, l) \subseteq 1..Len(q) /\ Len(q) \in Nat
  BY DEF Matches
<1>2. IsFiniteSet(1..Len(q))
  BY <1>1, FS_Interval
<1>3. IsFiniteSet(Matches(q, l))
  BY <1>1, <1>2, FS_Subset
<1>4. CountOf(q, l) = Cardinality(Matches(q, l))
  BY DEF CountOf, Matches
<1> QED
  BY <1>3, <1>4, FS_CardinalityType, FS_EmptySet

LEMMA CountEmpty == \A l : CountOf(<<>>, l) = 0
<1>1. \A l : {i \in DOMAIN <<>> : <<>>[i] = l} = {}
  OBVIOUS
<1> QED
  BY <1>1, FS_EmptySet DEF CountOf

LEMMA CountAppend ==
    ASSUME NEW q \in Seq(Listeners), NEW a \in Listeners, NEW l
    PROVE  /\ Append(q, a) \in Seq(Listeners)
           /\ CountOf(Append(q, a), l) = IF a = l THEN CountOf(q, l) + 1 ELSE CountOf(q, l)
<1> DEFINE r == Append(q, a)
<1>1. /\ r \in Seq(Listeners) /\ Len(q) \in Nat /\ DOMAIN q = 1..Len(q)
      /\ DOMAIN r = 1..(Len(q) + 1) /\ r[Len(q) + 1] = a
      /\ \A i \in 1..Len(q) : r[i] = q[i]
  OBVIOUS
<1> HIDE DEF r
<1>2. CASE a = l
  <2>1. Matches(r, l) = Matches(q, l) \cup {Len(q) + 1}
    BY <1>1, <1>2 DEF Matches
  <2>2. Len(q) + 1 \notin Matches(q, l)
    BY <1>1 DEF Matches
  <2>3. Cardinality(Matches(q, l) \cup {Len(q) + 1}) = Cardinality(Matches(q, l)) + 1
    BY <2>2, CountFacts, FS_AddElement
  <2>4. CountOf(r, l) = CountOf(q, l) + 1
    BY <1>1, <2>1, <2>3, CountFacts
  <2> QED
    BY <1>1, <1>2, <2>4 DEF r
<1>3. CASE a # l
  <2>1. Matches(r, l) = Matches(q, l)
    BY <1>1, <1>3 DEF Matches
  <2>2. CountOf(r, l) = CountOf(q, l)
    BY <1>1, <2>1, CountFacts
  <2> QED
    BY <1>1, <1>3, <2>2 DEF r
<1> QED
  BY <1>2, <1>3

\* A list whose places come from different places of another list has no
\* listener more often than it.
Picked(q, r, place) ==
    /\ place \in [DOMAIN r -> DOMAIN q]
    /\ \A i \in DOMAIN r : r[i] = q[place[i]]
    /\ \A i, j \in DOMAIN r : place[i] = place[j] => i = j

LEMMA CountPicked ==
    ASSUME NEW q \in Seq(Listeners), NEW r \in Seq(Listeners), NEW place, Picked(q, r, place), NEW l
    PROVE  /\ CountOf(r, l) <= CountOf(q, l)
           /\ \A k \in Matches(q, l) : (\A i \in DOMAIN r : place[i] # k) => CountOf(r, l) < CountOf(q, l)
<1> DEFINE f == [i \in Matches(r, l) |-> place[i]]
<1>1. \A i \in Matches(r, l) : i \in DOMAIN r /\ place[i] \in Matches(q, l)
  BY DEF Matches, Picked
<1>2. \A i, j \in Matches(r, l) : f[i] = f[j] => i = j
  BY <1>1 DEF Picked
<1>3. f \in [Matches(r, l) -> Matches(q, l)]
  BY <1>1
<1>4. f \in Injection(Matches(r, l), Matches(q, l))
  BY <1>2, <1>3, Zenon DEF Injection, IsInjective
<1>5. /\ Cardinality(Matches(r, l)) <= Cardinality(Matches(q, l))
      /\ Cardinality(Matches(r, l)) = Cardinality(Matches(q, l)) =>
            f \in Surjection(Matches(r, l), Matches(q, l))
  BY <1>4, CountFacts, FS_Injection
<1>6. ASSUME NEW k \in Matches(q, l), \A i \in DOMAIN r : place[i] # k
      PROVE  f \notin Surjection(Matches(r, l), Matches(q, l))
  <2>1. \A i \in Matches(r, l) : f[i] # k
    BY <1>1, <1>6
  <2> HIDE DEF f
  <2> QED
    BY <1>6, <2>1 DEF Surjection
<1> QED
  BY <1>5, <1>6, CountFacts

LEMMA NatMinimum ==
    ASSUME NEW S \in SUBSET Nat, S # {}
    PROVE  \E n \in S : \A m \in S : n <= m
<1> DEFINE R == OpToRel(<, Nat)
<1>1. \A n, m \in Nat : n < m => <<n, m>> \in R
  BY DEF OpToRel
<1>2. IsWellFoundedOn(R, Nat)
  BY NatLessThanWellFounded
<1> HIDE DEF R
<1>3. PICK n \in S : \A m \in S : ~(<<m, n>> \in R)
  BY <1>2, WFMin
<1>4. \A m \in S : ~(m < n)
  BY <1>1, <1>3
<1> QED
  BY <1>4

LEMMA ListsJoin ==
    ASSUME NEW p \in Seq(Listeners), NEW t \in Seq(Listeners)
    PROVE  /\ p \o t \in Seq(Listeners) /\ Len(p \o t) = Len(p) + Len(t)
           /\ DOMAIN (p \o t) = 1..Len(p \o t)
           /\ \A i \in 1..Len(p) : (p \o t)[i] = p[i]
           /\ \A i \in 1..Len(t) : (p \o t)[Len(p) + i] = t[i]
<1>1. Len(p) \in Nat /\ Len(t) \in Nat
  OBVIOUS
<1>2. /\ p \o t \in Seq(Listeners) /\ Len(p \o t) = Len(p) + Len(t)
      /\ DOMAIN (p \o t) = 1..Len(p \o t)
      /\ \A i \in 1..Len(p) : (p \o t)[i] = p[i]
  OBVIOUS
<1>3. \A i \in 1..(Len(p) + Len(t)) : (p \o t)[i] = IF i <= Len(p) THEN p[i] ELSE t[i - Len(p)]
  OBVIOUS
<1>4. \A i \in 1..Len(t) : /\ Len(p) + i \in 1..(Len(p) + Len(t))
                           /\ ~(Len(p) + i <= Len(p)) /\ Len(p) + i - Len(p) = i
  BY <1>1
<1> QED
  BY <1>2, <1>3, <1>4

LEMMA RemovedAt ==
    ASSUME NEW q \in Seq(Listeners), NEW k \in 1..Len(q)
    PROVE  LET r == SubSeq(q, 1, k - 1) \o SubSeq(q, k + 1, Len(q))
           IN  /\ r \in Seq(Listeners) /\ DOMAIN r = 1..(Len(q) - 1)
               /\ \A i \in 1..(Len(q) - 1) : r[i] = IF i < k THEN q[i] ELSE q[i + 1]
<1> DEFINE p == SubSeq(q, 1, k - 1)
           t == SubSeq(q, k + 1, Len(q))
           n == Len(q)
<1>1. n \in Nat /\ k \in 1..n
  OBVIOUS
<1>2. /\ p \in Seq(Listeners) /\ Len(p) = k - 1
      /\ \A i \in 1..(k - 1) : p[i] = q[i]
  OBVIOUS
<1>3. /\ t \in Seq(Listeners) /\ Len(t) = n - k
      /\ \A i \in 1..(n - k) : t[i] = q[k + i]
  OBVIOUS
<1> HIDE DEF p, t, n
<1> DEFINE r == p \o t
<1>8. p \in Seq(Listeners) /\ t \in Seq(Listeners)
  BY <1>2, <1>3
<1>4. /\ r \in Seq(Listeners) /\ Len(r) = Len(p) + Len(t) /\ DOMAIN r = 1..Len(r)
      /\ \A i \in 1..Len(p) : r[i] = p[i]
      /\ \A i \in 1..Len(t) : r[Len(p) + i] = t[i]
  BY <1>8, ListsJoin
<1> HIDE DEF r
<1>5. Len(r) = n - 1
  BY <1>1, <1>2, <1>3, <1>4
<1>6. ASSUME NEW i \in 1..(n - 1), i < k PROVE r[i] = q[i]
  <2>1. i \in 1..(k - 1)
    BY <1>1, <1>6
  <2> QED
    BY <1>2, <1>4, <2>1
<1>7. ASSUME NEW i \in 1..(n - 1), ~(i < k) PROVE r[i] = q[i + 1]
  <2> DEFINE j == i - (k - 1)
  <2>1. j \in 1..(n - k) /\ (k - 1) + j = i /\ k + j = i + 1
    BY <1>1, <1>7
  <2> HIDE DEF j
  <2>2. r[(k - 1) + j] = t[j]
    BY <1>2, <1>3, <1>4, <2>1
  <2>3. t[j] = q[k + j]
    BY <1>3, <2>1
  <2> QED
    BY <2>1, <2>2, <2>3
<1> QED
  BY <1>4, <1>5, <1>6, <1>7 DEF r, p, t, n

\* EventDispatcher::removeEventListener: one match less, if there is one.
LEMMA CountRemoveFirst ==
    ASSUME NEW q \in Seq(Listeners), NEW a, NEW l
    PROVE  /\ RemoveFirst(q, a) \in Seq(Listeners)
           /\ CountOf(RemoveFirst(q, a), l) <= CountOf(q, l)
           /\ CountOf(q, a) > 0 => CountOf(RemoveFirst(q, a), a) < CountOf(q, a)
<1>1. CASE ~\E i \in 1..Len(q) : q[i] = a
  <2>1. RemoveFirst(q, a) = q
    BY <1>1 DEF RemoveFirst
  <2>2. Matches(q, a) = {}
    BY <1>1 DEF Matches
  <2> QED
    BY <2>1, <2>2, CountFacts
<1>2. CASE \E i \in 1..Len(q) : q[i] = a
  <2>1. PICK k \in 1..Len(q) :
           q[k] = a /\ RemoveFirst(q, a) = SubSeq(q, 1, k - 1) \o SubSeq(q, k + 1, Len(q))
    <3> DEFINE I == {i \in 1..Len(q) : q[i] = a}
    <3>1. SelectInSeq(q, LAMBDA v : v = a) = Min(I)
      BY <1>2 DEF SelectInSeq
    <3>2. RemoveFirst(q, a) = SubSeq(q, 1, Min(I) - 1) \o SubSeq(q, Min(I) + 1, Len(q))
      BY <1>2, <3>1 DEF RemoveFirst, RemoveAt
    <3>3. I # {} /\ I \subseteq Nat
      BY <1>2
    <3>4. PICK n \in I : \A m \in I : n <= m
      BY <3>3, NatMinimum
    <3>5. Min(I) \in I
      BY <3>4 DEF Min
    <3> QED
      BY <3>2, <3>5
  <2> DEFINE r == SubSeq(q, 1, k - 1) \o SubSeq(q, k + 1, Len(q))
  <2>2. RemoveFirst(q, a) = r
    BY <2>1
  <2>3. Len(q) \in Nat /\ DOMAIN q = 1..Len(q)
    OBVIOUS
  <2>4. /\ r \in Seq(Listeners) /\ DOMAIN r = 1..(Len(q) - 1)
        /\ \A i \in 1..(Len(q) - 1) : r[i] = IF i < k THEN q[i] ELSE q[i + 1]
    BY RemovedAt
  <2> HIDE DEF r
  <2> DEFINE place == [i \in DOMAIN r |-> IF i < k THEN i ELSE i + 1]
  <2>11. \A i \in DOMAIN r : place[i] = IF i < k THEN i ELSE i + 1
    OBVIOUS
  <2>12. \A i \in DOMAIN r : place[i] \in DOMAIN q
    BY <2>1, <2>3, <2>4, <2>11
  <2>5. place \in [DOMAIN r -> DOMAIN q]
    BY <2>12
  <2> HIDE DEF place
  <2>6. \A i \in DOMAIN r : r[i] = q[place[i]]
    BY <2>1, <2>3, <2>4, <2>11
  <2>13. \A i \in DOMAIN r : place[i] # k
    BY <2>1, <2>3, <2>4, <2>11
  <2>7. \A i, j \in DOMAIN r : place[i] = place[j] => i = j
    BY <2>1, <2>3, <2>4, <2>11
  <2>8. k \in Matches(q, a)
    BY <2>1, <2>3 DEF Matches
  <2>14. Picked(q, r, place)
    BY <2>5, <2>6, <2>7 DEF Picked
  <2>9. CountOf(r, l) <= CountOf(q, l)
    BY <2>4, <2>14, CountPicked
  <2>10. CountOf(r, a) < CountOf(q, a)
    <3>1. \A m \in Matches(q, a) : (\A i \in DOMAIN r : place[i] # m) => CountOf(r, a) < CountOf(q, a)
      BY <2>4, <2>14, CountPicked
    <3> QED
      BY <2>8, <2>13, <3>1
  <2> QED
    BY <2>2, <2>4, <2>9, <2>10
<1> QED
  BY <1>1, <1>2

\* SurfaceManager::removeSurfaceEventListener without a dispatcher: no match is left.
LEMMA CountKept ==
    ASSUME NEW q \in Seq(Listeners), NEW a, NEW l,
           NEW kept \in InOrder({i \in DOMAIN q : q[i] # a}),
           NEW r, r = [i \in DOMAIN kept |-> q[kept[i]]]
    PROVE  r \in Seq(Listeners) /\ CountOf(r, l) <= CountOf(q, l) /\ CountOf(r, a) = 0
<1> DEFINE K == {i \in DOMAIN q : q[i] # a}
           n == Cardinality(K)
<1>1. K \subseteq 1..Len(q) /\ Len(q) \in Nat /\ DOMAIN q = 1..Len(q)
  OBVIOUS
<1>2. n \in Nat
  <2>1. IsFiniteSet(1..Len(q))
    BY <1>1, FS_Interval
  <2>2. IsFiniteSet(K)
    BY <1>1, <2>1, FS_Subset
  <2> HIDE DEF K
  <2> QED
    BY <2>2, FS_CardinalityType
<1>3. kept \in [1..n -> K] /\ \A i, j \in 1..n : i < j => kept[i] < kept[j]
  BY DEF InOrder
<1>4. \A k \in K : k \in DOMAIN q /\ q[k] # a /\ q[k] \in Listeners
  OBVIOUS
<1> HIDE DEF K, n
<1>5. /\ r = [i \in 1..n |-> q[kept[i]]] /\ DOMAIN r = 1..n
      /\ \A i \in 1..n : r[i] = q[kept[i]] /\ kept[i] \in DOMAIN q /\ q[kept[i]] # a
                         /\ q[kept[i]] \in Listeners
  BY <1>3, <1>4
<1>6. r \in Seq(Listeners)
  BY <1>2, <1>5
<1>7. \A i, j \in DOMAIN r : kept[i] = kept[j] => i = j
  <2>1. \A k \in K : k \in Nat
    BY <1>1
  <2> QED
    BY <1>2, <1>3, <1>5, <2>1
<1>8. kept \in [DOMAIN r -> DOMAIN q]
  BY <1>3, <1>4, <1>5
<1>9. CountOf(r, l) <= CountOf(q, l)
  <2>1. \A i \in DOMAIN r : r[i] = q[kept[i]]
    BY <1>5
  <2>2. Picked(q, r, kept)
    BY <1>7, <1>8, <2>1 DEF Picked
  <2> QED
    BY <1>6, <2>2, CountPicked
<1>10. Matches(r, a) = {}
  BY <1>5 DEF Matches
<1>11. CountOf(r, a) = 0
  BY <1>6, <1>10, CountFacts
<1> QED
  BY <1>6, <1>9, <1>11

LEMMA ListenInit == Init => ListenInv
<1> SUFFICES ASSUME Init PROVE ListenInv
  OBVIOUS
<1>1. ListenTypes
  BY DEF Init, ListenTypes
<1>2. \A s \in SMs : dispatcher[s] = FALSE /\ cached[s] = <<>> /\ listeners[s] = <<>>
  BY DEF Init
<1>3. \A s \in SMs, l \in Listeners : registered[s][l] = 0
  BY DEF Init
<1> QED
  BY <1>1, <1>2, <1>3, CountEmpty DEF Init, ListenInv, InCallback

\* uninit() of a set of SurfaceManagers to which the task in a callback does not belong.
LEMMA ListenUninit ==
    ASSUME Types, ListenInv, NEW S, Uninit(S), UNCHANGED <<registered, idx>>,
           wpc' \in InCallback => /\ wpc \in InCallback /\ current' = current
                                 /\ current \in Task /\ current.sm \notin S
    PROVE  ListenInv'
<1>1. /\ \A s \in SMs : cached'[s] = IF s \in S THEN <<>> ELSE cached[s]
      /\ \A s \in SMs : listeners'[s] = IF s \in S THEN <<>> ELSE listeners[s]
  BY DEF Uninit
<1>2. /\ cached' \in [SMs -> Seq(Listeners)] /\ listeners' \in [SMs -> Seq(Listeners)]
  BY DEF Uninit, ListenInv, ListenTypes
<1>3. \A s \in SMs : dispatcher'[s] = (dispatcher[s] /\ s \notin S)
  BY Zenon DEF Uninit
<1>4. ASSUME NEW s \in SMs
      PROVE  /\ IF dispatcher'[s] THEN cached'[s] = <<>> ELSE listeners'[s] = <<>>
             /\ \A l \in Listeners : CountOf(cached'[s], l) + CountOf(listeners'[s], l) <= registered'[s][l]
  <2>1. CASE s \in S
    <3>1. \A l \in Listeners : registered'[s][l] \in Nat
      BY DEF ListenInv, ListenTypes
    <3> QED
      BY <1>1, <2>1, <3>1, CountEmpty
  <2>2. CASE s \notin S
    <3>1. dispatcher'[s] <=> dispatcher[s]
      BY <1>3, <2>2
    <3> QED
      BY <1>1, <2>2, <3>1 DEF ListenInv
  <2> QED
    BY <2>1, <2>2
<1>5. wpc' \in InCallback => idx' <= Len(listeners'[current'.sm])
  <2> SUFFICES ASSUME wpc' \in InCallback PROVE idx <= Len(listeners'[current.sm])
    OBVIOUS
  <2>1. current.sm \in SMs /\ current.sm \notin S /\ wpc \in InCallback
    BY DEF Task
  <2> QED
    BY <1>1, <2>1 DEF ListenInv
<1>6. ListenTypes'
  BY <1>2 DEF ListenInv, ListenTypes
<1> QED
  BY <1>4, <1>5, <1>6 DEF ListenInv

\* A step that leaves the lists of listeners alone.
LEMMA ListenSame ==
    ASSUME ListenInv, UNCHANGED <<cached, listeners, dispatcher, registered>>, idx' \in Nat \ {0},
           wpc' \in InCallback => idx' <= Len(listeners[current'.sm])
    PROVE  ListenInv'
  BY DEF ListenInv, ListenTypes

\* One listener list of one SurfaceManager and one count change.
LEMMA ListenOne ==
    ASSUME ListenInv, NEW s \in SMs, NEW c \in Seq(Listeners), NEW h \in Seq(Listeners), NEW l \in Listeners,
           NEW n \in Nat,
           cached' = [cached EXCEPT ![s] = c], listeners' = [listeners EXCEPT ![s] = h],
           registered' = [registered EXCEPT ![s][l] = n],
           UNCHANGED <<dispatcher, idx, wpc, current>>,
           IF dispatcher[s] THEN c = <<>> ELSE h = <<>>,
           wpc \in InCallback /\ current.sm = s => h = listeners[s],
           CountOf(c, l) + CountOf(h, l) <= n,
           \A m \in Listeners : m # l => CountOf(c, m) + CountOf(h, m) <= registered[s][m]
    PROVE  ListenInv'
<1>1. ListenTypes /\ ListenTypes'
  <2>1. registered[s] \in [Listeners -> Nat]
    BY DEF ListenInv, ListenTypes
  <2>2. [registered[s] EXCEPT ![l] = n] \in [Listeners -> Nat]
    BY <2>1
  <2>3. registered' \in [SMs -> [Listeners -> Nat]]
    BY <2>2 DEF ListenInv, ListenTypes
  <2> QED
    BY <2>3 DEF ListenInv, ListenTypes
<1>2. \A r \in SMs : /\ cached'[r] = IF r = s THEN c ELSE cached[r]
                     /\ listeners'[r] = IF r = s THEN h ELSE listeners[r]
  BY <1>1 DEF ListenTypes
<1>3. \A r \in SMs, m \in Listeners :
         registered'[r][m] = IF r = s /\ m = l THEN n ELSE registered[r][m]
  BY <1>1 DEF ListenTypes
<1>4. \A r \in SMs : IF dispatcher'[r] THEN cached'[r] = <<>> ELSE listeners'[r] = <<>>
  BY <1>2 DEF ListenInv
<1>5. \A r \in SMs, m \in Listeners :
         CountOf(cached'[r], m) + CountOf(listeners'[r], m) <= registered'[r][m]
  BY <1>2, <1>3 DEF ListenInv
<1>6. wpc' \in InCallback => idx' <= Len(listeners'[current'.sm])
  <2> SUFFICES ASSUME wpc \in InCallback PROVE idx <= Len(listeners'[current.sm])
    OBVIOUS
  <2>1. CASE current.sm = s
    BY <1>2, <2>1 DEF ListenInv
  <2>2. CASE current.sm # s
    <3>1. listeners'[current.sm] = listeners[current.sm]
      BY <1>1, <2>2 DEF ListenTypes
    <3> QED
      BY <3>1 DEF ListenInv
  <2> QED
    BY <2>1, <2>2
<1> QED
  BY <1>1, <1>4, <1>5, <1>6 DEF ListenInv

LEMMA ListenAdds ==
    ASSUME LifecycleInv, ListenInv, NEW s \in SMs, NEW l \in Listeners, AddListener(s, l)
    PROVE  ListenInv'
<1> DEFINE c == cached[s]
           h == listeners[s]
           n == registered[s][l]
<1>1. /\ c \in Seq(Listeners) /\ h \in Seq(Listeners) /\ n \in Nat
      /\ IF dispatcher[s] THEN c = <<>> ELSE h = <<>>
      /\ cached = [cached EXCEPT ![s] = c] /\ listeners = [listeners EXCEPT ![s] = h]
  BY DEF ListenInv, ListenTypes
<1>2. \A m \in Listeners : /\ CountOf(c, m) + CountOf(h, m) <= registered[s][m] /\ registered[s][m] \in Nat
  BY DEF ListenInv, ListenTypes
<1>3. \A m : CountOf(c, m) \in Nat /\ CountOf(h, m) \in Nat
  BY <1>1, CountFacts
<1>4. registered' = [registered EXCEPT ![s][l] = n + 1] /\ UNCHANGED <<dispatcher, idx, wpc, current>>
  BY DEF AddListener, worker
<1>5. CASE dispatcher[s]
  <2> DEFINE d == Append(h, l)
  <2>1. ~Dispatching(s) /\ listeners' = [listeners EXCEPT ![s] = d] /\ cached' = cached
    BY <1>5 DEF AddListener
  <2>2. d \in Seq(Listeners) /\ \A m : CountOf(d, m) = IF l = m THEN CountOf(h, m) + 1 ELSE CountOf(h, m)
    BY <1>1, CountAppend
  <2>3. wpc \in InCallback => current.sm # s
    BY <2>1 DEF Dispatching, InCallback
  <2>4. cached' = [cached EXCEPT ![s] = c]
    BY <1>1, <2>1
  <2> HIDE DEF c, h, d, n
  <2>5. CountOf(c, l) + CountOf(d, l) <= n + 1
    BY <1>2, <1>3, <2>2 DEF n
  <2>6. \A m \in Listeners : m # l => CountOf(c, m) + CountOf(d, m) <= registered[s][m]
    BY <1>2, <2>2
  <2>7. n + 1 \in Nat
    BY <1>1
  <2>8. IF dispatcher[s] THEN c = <<>> ELSE d = <<>>
    BY <1>1, <1>5
  <2>9. wpc \in InCallback /\ current.sm = s => d = listeners[s]
    BY <2>3
  <2> QED
    BY <1>1, <1>4, <2>1, <2>2, <2>4, <2>5, <2>6, <2>7, <2>8, <2>9, ListenOne
<1>6. CASE ~dispatcher[s]
  <2> DEFINE d == Append(c, l)
  <2>1. cached' = [cached EXCEPT ![s] = d] /\ listeners' = listeners
    BY <1>6 DEF AddListener
  <2>2. d \in Seq(Listeners) /\ \A m : CountOf(d, m) = IF l = m THEN CountOf(c, m) + 1 ELSE CountOf(c, m)
    BY <1>1, CountAppend
  <2>4. listeners' = [listeners EXCEPT ![s] = h]
    BY <1>1, <2>1
  <2>9. wpc \in InCallback /\ current.sm = s => h = listeners[s]
    OBVIOUS
  <2> HIDE DEF c, h, d, n
  <2>5. CountOf(d, l) + CountOf(h, l) <= n + 1
    BY <1>2, <1>3, <2>2 DEF n
  <2>6. \A m \in Listeners : m # l => CountOf(d, m) + CountOf(h, m) <= registered[s][m]
    BY <1>2, <2>2
  <2>7. n + 1 \in Nat
    BY <1>1
  <2>8. IF dispatcher[s] THEN d = <<>> ELSE h = <<>>
    BY <1>1, <1>6
  <2> QED
    BY <1>1, <1>4, <2>1, <2>2, <2>4, <2>5, <2>6, <2>7, <2>8, <2>9, ListenOne
<1> QED
  BY <1>5, <1>6

LEMMA ListenRemoves ==
    ASSUME LifecycleInv, ListenInv, NEW s \in SMs, NEW l \in Listeners, RemoveListener(s, l)
    PROVE  ListenInv'
<1> DEFINE c == cached[s]
           h == listeners[s]
           n == registered[s][l]
<1>1. /\ c \in Seq(Listeners) /\ h \in Seq(Listeners) /\ n \in Nat
      /\ IF dispatcher[s] THEN c = <<>> ELSE h = <<>>
      /\ cached = [cached EXCEPT ![s] = c] /\ listeners = [listeners EXCEPT ![s] = h]
  BY DEF ListenInv, ListenTypes
<1>2. \A m \in Listeners : /\ CountOf(c, m) + CountOf(h, m) <= registered[s][m] /\ registered[s][m] \in Nat
  BY DEF ListenInv, ListenTypes
<1>3. \A m : CountOf(c, m) \in Nat /\ CountOf(h, m) \in Nat
  BY <1>1, CountFacts
<1>4. registered' = [registered EXCEPT ![s][l] = n - 1] /\ UNCHANGED <<dispatcher, idx, wpc, current>>
  BY DEF RemoveListener, worker
<1>7. n > 0 /\ n - 1 \in Nat
  BY <1>1 DEF RemoveListener
<1>5. CASE dispatcher[s]
  <2> DEFINE d == RemoveFirst(h, l)
  <2>1. ~Dispatching(s) /\ listeners' = [listeners EXCEPT ![s] = d] /\ cached' = cached
    BY <1>5 DEF RemoveListener
  <2>2. /\ d \in Seq(Listeners) /\ \A m : CountOf(d, m) <= CountOf(h, m)
        /\ CountOf(h, l) > 0 => CountOf(d, l) < CountOf(h, l)
    BY <1>1, CountRemoveFirst
  <2>3. wpc \in InCallback => current.sm # s
    BY <2>1 DEF Dispatching, InCallback
  <2>4. cached' = [cached EXCEPT ![s] = c]
    BY <1>1, <2>1
  <2> HIDE DEF c, h, d
  <2>10. \A m : CountOf(d, m) \in Nat
    BY <2>2, CountFacts
  <2>5. CountOf(c, l) + CountOf(d, l) <= n - 1
    <3>1. CountOf(c, l) = 0
      BY <1>1, <1>5, CountEmpty
    <3>2. CountOf(c, l) + CountOf(h, l) <= n
      BY <1>2
    <3>3. /\ CountOf(h, l) \in Nat /\ CountOf(d, l) \in Nat /\ CountOf(d, l) <= CountOf(h, l)
          /\ CountOf(h, l) > 0 => CountOf(d, l) < CountOf(h, l)
      BY <1>3, <2>2, <2>10
    <3> HIDE DEF n
    <3> QED
      BY <1>1, <1>7, <3>1, <3>2, <3>3
  <2>6. \A m \in Listeners : m # l => CountOf(c, m) + CountOf(d, m) <= registered[s][m]
    BY <1>2, <1>3, <2>2, <2>10
  <2> HIDE DEF n
  <2>8. IF dispatcher[s] THEN c = <<>> ELSE d = <<>>
    BY <1>1, <1>5
  <2>9. wpc \in InCallback /\ current.sm = s => d = listeners[s]
    BY <2>3
  <2> QED
    BY <1>1, <1>4, <1>7, <2>1, <2>2, <2>4, <2>5, <2>6, <2>8, <2>9, ListenOne
<1>6. CASE ~dispatcher[s]
  <2>1. PICK kept \in InOrder({i \in DOMAIN c : c[i] # l}) :
           cached' = [cached EXCEPT ![s] = [i \in DOMAIN kept |-> c[kept[i]]]] /\ listeners' = listeners
    BY <1>6 DEF RemoveListener
  <2> DEFINE d == [i \in DOMAIN kept |-> c[kept[i]]]
  <2>2. d \in Seq(Listeners) /\ CountOf(d, l) = 0 /\ \A m : CountOf(d, m) <= CountOf(c, m)
    <3>1. kept \in InOrder({i \in DOMAIN c : c[i] # l}) /\ d = [i \in DOMAIN kept |-> c[kept[i]]] /\ c \in Seq(Listeners)
      BY <1>1, <2>1
    <3> HIDE DEF c, n, h, d
    <3>2. \A m : d \in Seq(Listeners) /\ CountOf(d, m) <= CountOf(c, m) /\ CountOf(d, l) = 0
      BY <3>1, CountKept
    <3> QED
      BY <3>2
  <2>4. listeners' = [listeners EXCEPT ![s] = h] /\ cached' = [cached EXCEPT ![s] = d]
    BY <1>1, <2>1
  <2>9. wpc \in InCallback /\ current.sm = s => h = listeners[s]
    OBVIOUS
  <2> HIDE DEF c, h, d, n
  <2>10. \A m : CountOf(d, m) \in Nat
    BY <2>2, CountFacts
  <2>5. CountOf(d, l) + CountOf(h, l) <= n - 1
    <3>1. CountOf(h, l) = 0
      BY <1>1, <1>6, CountEmpty
    <3> QED
      BY <1>1, <1>7, <2>2, <3>1
  <2>6. \A m \in Listeners : m # l => CountOf(d, m) + CountOf(h, m) <= registered[s][m]
    BY <1>2, <1>3, <2>2, <2>10
  <2>8. IF dispatcher[s] THEN d = <<>> ELSE h = <<>>
    BY <1>1, <1>6
  <2> QED
    BY <1>1, <1>4, <1>7, <2>2, <2>4, <2>5, <2>6, <2>8, <2>9, ListenOne
<1> QED
  BY <1>5, <1>6

\* init() hands the cache over to the dispatcher.
LEMMA ListenInitialised == ASSUME LifecycleInv, ListenInv, InitDispatcher PROVE ListenInv'
<1> DEFINE s == current.sm
<1>1. s \in SMs
  BY DEF InitDispatcher, LifecycleInv, Types, PhaseInv, Working, Task
<1>2. /\ dispatcher' = [dispatcher EXCEPT ![s] = TRUE] /\ listeners' = [listeners EXCEPT ![s] = cached[s]]
      /\ cached' = [cached EXCEPT ![s] = <<>>] /\ wpc' = "init_modules"
      /\ UNCHANGED <<registered, idx>>
  BY DEF InitDispatcher, main
<1> HIDE DEF s
<1>3. ListenTypes'
  BY <1>1, <1>2 DEF ListenInv, ListenTypes
<1>4. /\ \A r \in SMs : dispatcher'[r] = IF r = s THEN TRUE ELSE dispatcher[r]
      /\ \A r \in SMs : cached'[r] = IF r = s THEN <<>> ELSE cached[r]
      /\ \A r \in SMs : listeners'[r] = IF r = s THEN cached[s] ELSE listeners[r]
  BY <1>1, <1>2 DEF LifecycleInv, Types, ListenInv, ListenTypes
<1>5. \A r \in SMs : IF dispatcher'[r] THEN cached'[r] = <<>> ELSE listeners'[r] = <<>>
  BY <1>4 DEF ListenInv
<1>6. ASSUME NEW r \in SMs, NEW l \in Listeners
      PROVE  CountOf(cached'[r], l) + CountOf(listeners'[r], l) <= registered'[r][l]
  <2>1. /\ CountOf(cached[r], l) \in Nat /\ CountOf(listeners[r], l) \in Nat /\ registered[r][l] \in Nat
        /\ CountOf(cached[r], l) + CountOf(listeners[r], l) <= registered[r][l]
    BY CountFacts DEF ListenInv, ListenTypes
  <2>2. CASE r = s
    <3>1. cached'[r] = <<>> /\ listeners'[r] = cached[r] /\ registered'[r][l] = registered[r][l]
      BY <1>2, <1>4, <2>2
    <3>2. CountOf(<<>>, l) = 0
      BY CountEmpty
    <3> QED
      BY <2>1, <3>1, <3>2
  <2>3. CASE r # s
    BY <1>2, <1>4, <2>1, <2>3
  <2> QED
    BY <2>2, <2>3
<1> QED
  BY <1>2, <1>3, <1>5, <1>6 DEF ListenInv, InCallback

LEMMA ListenStep == ASSUME LifecycleInv, ListenInv, Next PROVE ListenInv'
<1> USE DEF LifecycleInv
<1>1. CASE EngineStart
  BY <1>1, ListenSame DEF EngineStart, object, InCallback, ListenInv, ListenTypes
<1>2. CASE CreateSurfaceManager \/ DestroyPost \/ SetDayNightMode \/ StopBegin \/ StopLock \/ StopDrained
           \/ StopDeleteModules \/ \E s \in SMs : DestroyExitRunning(s) \/ Submit(s)
  <2>1. UNCHANGED <<cached, listeners, dispatcher, registered, idx, wpc, current>>
    BY <1>2 DEF CreateSurfaceManager, DestroyPost, SetDayNightMode, StopBegin, StopLock, StopDrained,
                StopDeleteModules, DestroyExitRunning, Submit, object, worker, main
  <2> QED
    BY <2>1, ListenSame DEF ListenInv, ListenTypes
<1>3. CASE \E s \in SMs, l \in Listeners : AddListener(s, l) \/ RemoveListener(s, l)
  BY <1>3, ListenAdds, ListenRemoves
<1>4. CASE StopDrainOne \/ StopJoin \/ StopClearMap
  <2>1. PICK m, q, c : /\ DropUnreferenced(m, q, c)
                       /\ wpc \in InCallback => c = current
    <3>1. CASE StopDrainOne
      BY <3>1 DEF StopDrainOne
    <3>2. CASE StopJoin
      BY <3>2 DEF StopJoin, InCallback
    <3>3. CASE StopClearMap
      BY <3>3 DEF StopClearMap
    <3> QED
      BY <1>4, <3>1, <3>2, <3>3
  <2> DEFINE S == {s \in SMs : status[s] = "alive" /\ ~Referenced(s, m, q, c)}
  <2>2. Uninit(S)
    BY <2>1 DEF DropUnreferenced
  <2>3. UNCHANGED <<registered, idx, current, wpc>>
    BY <1>4 DEF StopDrainOne, StopJoin, StopClearMap, worker, main
  <2>4. wpc \in InCallback => current \in Task /\ current.sm \notin S
    BY <2>1 DEF InCallback, Types, PhaseInv, Working, Referenced
  <2> HIDE DEF S
  <2> QED
    BY <2>2, <2>3, <2>4, ListenUninit
<1>5. CASE StopUninitAll
  <2>1. Uninit(map) /\ UNCHANGED <<registered, idx, current, wpc>>
    BY <1>5 DEF StopUninitAll, worker
  <2>2. wpc \notin InCallback
    BY <1>5 DEF StopUninitAll, PhaseInv, InCallback
  <2> QED
    BY <2>1, <2>2, ListenUninit
<1>6. CASE RunUninit
  <2>1. Uninit({current.sm}) /\ wpc' = "release" /\ UNCHANGED <<registered, idx>>
    BY <1>6 DEF RunUninit, main
  <2> QED
    BY <2>1, ListenUninit DEF InCallback
<1>7. CASE Release
  <2> DEFINE S == {s \in SMs : status[s] = "alive" /\ ~Referenced(s, map, queue, NoTask)}
  <2>1. Uninit(S) /\ wpc' = "idle" /\ UNCHANGED <<registered, idx>>
    BY <1>7 DEF Release, DropUnreferenced, main
  <2> HIDE DEF S
  <2> QED
    BY <2>1, ListenUninit DEF InCallback
<1>8. CASE InitDispatcher
  BY <1>8, ListenInitialised
<1>9. CASE WorkerTake \/ WorkerExit \/ InitModules \/ RunUse
  <2>1. UNCHANGED <<cached, listeners, dispatcher, registered>> /\ idx' \in {idx, 1}
    BY <1>9 DEF WorkerTake, WorkerExit, InitModules, RunUse, object, main
  <2>2. wpc' \notin InCallback
    <3>1. CASE WorkerTake
      <4>1. wpc' = Head(queue).op /\ Head(queue) \in Task
        BY <3>1, QueueShrinks DEF WorkerTake, Types
      <4> QED
        BY <4>1 DEF Task, InCallback
    <3> QED
      BY <1>9, <3>1 DEF WorkerExit, InitModules, RunUse, InCallback
  <2> QED
    BY <2>1, <2>2, ListenSame DEF ListenInv, ListenTypes
<1>10. CASE DispatchNext \/ CallbackReturn \/ ReenterCheck \/ ReenterAddListener \/ ReenterPush
  <2>1. UNCHANGED <<cached, listeners, dispatcher, registered, current>> /\ idx' \in {idx, idx + 1}
    BY <1>10 DEF DispatchNext, CallbackReturn, ReenterCheck, ReenterAddListener, ReenterPush, object, main
  <2>2. wpc' \in InCallback => idx' = idx /\ (wpc \in InCallback \/ idx <= Len(listeners[current.sm]))
    BY <1>10 DEF DispatchNext, CallbackReturn, ReenterCheck, ReenterAddListener, ReenterPush, InCallback
  <2> QED
    BY <2>1, <2>2, ListenSame DEF ListenInv, ListenTypes
<1> QED
  BY <1>1, <1>2, <1>3, <1>4, <1>5, <1>6, <1>7, <1>8, <1>9, <1>10
  DEF Next, MainStep, StopStep, WorkerStep
-----------------------------------------------------------------------------
\* The invariant of every behaviour.
LEMMA LifecycleAlways == Spec => []LifecycleInv
<1>1. LifecycleInv /\ UNCHANGED vars => LifecycleInv'
  BY DEF LifecycleInv, Types, PhaseInv, Working, RefInv, Referenced, Holds, UninitInv,
         NothingBehindUninit, ServedInv, Initialising, InitBefore, InitWaits, vars, thread,
         engine, object, main, worker
<1>2. LifecycleInv /\ Next => LifecycleInv'
  BY MainControl, WorkerControl, MainReferences, WorkerReferences, MainUninit, WorkerUninit,
     MainServed, WorkerServed DEF Next, LifecycleInv
<1> QED
  BY LifecycleInit, <1>1, <1>2, PTL DEF Spec

\* The worker never runs a task after the modules were deleted or on a
\* SurfaceManager that was destroyed (AGenUIEngine::stop() joins first, every
\* task holds a shared_ptr), and an API call that was posted finds the
\* coordinator that init() made, for as long as the engine knows the
\* SurfaceManager.
THEOREM EveryTaskFindsItsWorld == Spec => []TaskFindsItsWorld
<1>1. LifecycleInv => TaskFindsItsWorld
  <2> SUFFICES ASSUME LifecycleInv PROVE TaskFindsItsWorld
    OBVIOUS
  <2>1. ASSUME Working PROVE modules /\ status[current.sm] = "alive"
    <3>1. current \in Task /\ current # NoTask
      BY <2>1 DEF LifecycleInv, Types, PhaseInv
    <3>2. current.sm \in SMs /\ Referenced(current.sm, map, queue, current)
      BY <3>1 DEF Task, Referenced
    <3> QED
      BY <2>1, <3>2 DEF LifecycleInv, PhaseInv, RefInv, Working
  <2> QED
    BY <2>1 DEF TaskFindsItsWorld, Working, LifecycleInv, ServedInv
<1> QED
  BY LifecycleAlways, <1>1, PTL

\* Behind the uninit() of a SurfaceManager there is no call of the main thread
\* on it: exitRunning() in destroySurfaceManager() comes before the post.
THEOREM UninitComesLast == Spec => []NothingBehindUninit
<1>1. LifecycleInv => NothingBehindUninit
  BY DEF LifecycleInv, UninitInv
<1> QED
  BY LifecycleAlways, <1>1, PTL

\* When stop() has returned no SurfaceManager is left, nor a task that holds
\* one, however the map, the queue and the worker shared them before.
THEOREM StopReleasesAll == Spec => []AllReleased
<1>1. LifecycleInv => AllReleased
  <2> SUFFICES ASSUME LifecycleInv, ~modules, NEW s \in SMs
               PROVE  /\ status[s] # "alive" /\ ~coordinator[s] /\ ~dispatcher[s]
                      /\ ~Holds(queue, s)
    BY DEF AllReleased
  <2>1. queue = <<>> /\ map = {} /\ current = NoTask
    BY DEF LifecycleInv, PhaseInv, Working
  <2>2. ~Referenced(s, map, queue, current) /\ ~Holds(queue, s)
    BY <2>1, EmptyHoldsNone DEF Referenced
  <2> QED
    BY <2>2 DEF LifecycleInv, RefInv
<1> QED
  BY LifecycleAlways, <1>1, PTL

\* The invariant of the lists of listeners.
LEMMA ListenAlways == Spec => []ListenInv
<1>1. ListenInv /\ UNCHANGED vars => ListenInv'
  BY DEF ListenInv, ListenTypes, vars, thread, engine, object, main, worker
<1> QED
  BY ListenInit, ListenStep, LifecycleAlways, <1>1, PTL DEF Spec

\* A listener that was removed as often as it was added is in no list and is not
\* being called: removeSurfaceEventListener() works on the one of the two lists
\* that has it, whenever init() runs, and waits for a dispatch in progress.
THEOREM RemovedListenersAreGone == Spec => []RemovedIsGone
<1>1. LifecycleInv /\ ListenInv => RemovedIsGone
  <2> SUFFICES ASSUME LifecycleInv, ListenInv PROVE RemovedIsGone
    OBVIOUS
  <2>1. ASSUME wpc \in InCallback
        PROVE  /\ idx \in DOMAIN listeners[current.sm]
               /\ registered[current.sm][listeners[current.sm][idx]] > 0
    <3> DEFINE s == current.sm
               h == listeners[s]
               l == h[idx]
    <3>1. s \in SMs
      BY <2>1 DEF LifecycleInv, Types, PhaseInv, Working, Task, InCallback
    <3>2. /\ h \in Seq(Listeners) /\ idx \in Nat \ {0} /\ idx <= Len(h)
          /\ cached[s] \in Seq(Listeners)
      BY <2>1, <3>1 DEF ListenInv, ListenTypes
    <3> HIDE DEF s, h
    <3>3. idx \in DOMAIN h /\ l \in Listeners /\ idx \in Matches(h, l)
      BY <3>2 DEF Matches
    <3> HIDE DEF l
    <3>4. CountOf(h, l) \in Nat /\ CountOf(h, l) # 0 /\ CountOf(cached[s], l) \in Nat
      BY <3>2, <3>3, CountFacts
    <3>5. CountOf(cached[s], l) + CountOf(h, l) <= registered[s][l] /\ registered[s][l] \in Nat
      BY <3>1, <3>3 DEF ListenInv, ListenTypes, h
    <3>6. registered[s][l] > 0
      BY <3>4, <3>5
    <3> QED
      BY <3>3, <3>6 DEF s, h, l
  <2> QED
    BY <2>1 DEF RemovedIsGone, ListenInv
<1> QED
  BY LifecycleAlways, ListenAlways, <1>1, PTL
=============================================================================
