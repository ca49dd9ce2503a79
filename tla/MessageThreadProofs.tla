------------------------- MODULE MessageThreadProofs -------------------------
(***************************************************************************)
(* Theorems about MessageThread, for every set of posters, every bound on  *)
(* the posts and every number of restarts.                                 *)
(***************************************************************************)
EXTENDS MessageThread, FiniteSetTheorems, SequenceTheorems, TLAPS

(* The control part of the inductive invariant: who holds the mutex, what  *)
(* the worker holds, and how far a stop() has come.                        *)

LockInv == mutex = Worker <=> wpc \in Critical

TaskInv == task # NoTask <=> wpc = "run"

PostInv ==
    \A c \in Clients :
        /\ pc[c] = "enqueue" => /\ arg[c] \in Task
                                /\ arg[c].by = c
                                /\ arg[c].n = posted[c]
        /\ c = Worker /\ pc[c] # "idle" => wpc = "run"

StopInv ==
    /\ \A c \in Clients : pc[c] \in StopPcs => c = Owner
    /\ pc[Owner] = "stop_flag" => isRunning /\ shouldStop
    /\ pc[Owner] \in StopPcs \ {"stop_flag"} => ~isRunning /\ shouldStop
    /\ isRunning /\ pc[Owner] # "stop_flag" => ~shouldStop
    /\ StopReturned => wpc = "exited"

LateInv == lateRuns = 0 \/ (lateRuns = 1 /\ shouldStop /\ wpc \in {"run", "top", "exited"})

ControlInv == TypeOK /\ LockInv /\ TaskInv /\ PostInv /\ StopInv /\ LateInv

(* The data part: `Before` relates a task to one that comes after it on    *)
(* the way from the delayed queue through the task queue into the history. *)

Before(a, b) ==
    /\ a # b
    /\ a.by = b.by /\ ~a.delayed /\ ~b.delayed => a.n < b.n

AllBefore(s, t) == \A i \in 1..Len(s), j \in 1..Len(t) : Before(s[i], t[j])

\* A task that was pushed: older than the one its client is about to push.
Pushed(x) == /\ x.n <= posted[x.by]
             /\ pc[x.by] = "enqueue" => x.n < posted[x.by]

AllPushed(s) == \A i \in 1..Len(s) : Pushed(s[i])

\* The queues were drained and nobody has started the thread again.
Closed == pc[Owner] = "stop_join" \/ StopReturned

OrderInv ==
    /\ InPostOrder(started)
    /\ InPostOrder(taskQueue)
    /\ InPostOrder(delayedTaskQueue)
    /\ \A i \in 1..Len(delayedTaskQueue) : delayedTaskQueue[i].delayed
    /\ AllBefore(started, taskQueue)
    /\ AllBefore(started, delayedTaskQueue)
    /\ AllBefore(taskQueue, delayedTaskQueue)
    /\ AllPushed(started)
    /\ AllPushed(taskQueue)
    /\ AllPushed(delayedTaskQueue)
    /\ \A x \in early : Pushed(x)
    /\ Closed => Queued \cap early = {}
-----------------------------------------------------------------------------
(* Sequences. *)

\* A slice of a sequence is a sequence, of the expected length and elements.
LEMMA SliceType ==
    ASSUME NEW S, NEW s \in Seq(S), NEW m \in 1..Len(s)+1, NEW n \in (m-1)..Len(s)
    PROVE  /\ SubSeq(s, m, n) \in Seq(S)
           /\ Len(SubSeq(s, m, n)) = n - m + 1
           /\ \A i \in 1..(n - m + 1) : SubSeq(s, m, n)[i] = s[m + i - 1]
  BY SubSeqProperties

\* InsertAt shifts what is at and behind the place of insertion.
LEMMA InsertType ==
    ASSUME NEW S, NEW s \in Seq(S), NEW i \in 0..Len(s), NEW e \in S
    PROVE  /\ InsertAt(s, i + 1, e) \in Seq(S)
           /\ Len(InsertAt(s, i + 1, e)) = Len(s) + 1
           /\ \A k \in 1..Len(s)+1 :
                 InsertAt(s, i + 1, e)[k] =
                    IF k <= i THEN s[k] ELSE IF k = i + 1 THEN e ELSE s[k-1]
<1> DEFINE a == SubSeq(s, 1, i)
           b == SubSeq(s, i + 1, Len(s))
<1>1. /\ a \in Seq(S) /\ Len(a) = i
      /\ \A k \in 1..i : a[k] = s[k]
  BY SliceType
<1>2. /\ b \in Seq(S) /\ Len(b) = Len(s) - i
      /\ \A k \in 1..(Len(s) - i) : b[k] = s[i + k]
  BY SliceType
<1>3. InsertAt(s, i + 1, e) = a \o <<e>> \o b
  <2>1. (i + 1) - 1 = i
    OBVIOUS
  <2> QED
    BY <2>1 DEF InsertAt
<1> HIDE DEF a, b
<1> DEFINE c == a \o <<e>>
<1>4. /\ c \in Seq(S) /\ Len(c) = i + 1
      /\ \A k \in 1..(i + 1) : c[k] = IF k <= i THEN s[k] ELSE e
  BY <1>1
<1> HIDE DEF c
<1>5. /\ c \o b \in Seq(S) /\ Len(c \o b) = Len(c) + Len(b)
      /\ \A k \in 1..(Len(c) + Len(b)) :
            (c \o b)[k] = IF k <= Len(c) THEN c[k] ELSE b[k - Len(c)]
  BY <1>2, <1>4, ConcatProperties
<1>6. InsertAt(s, i + 1, e) = c \o b
  BY <1>3 DEF c
<1>7. ASSUME NEW k \in 1..Len(s)+1
      PROVE  (c \o b)[k] = IF k <= i THEN s[k] ELSE IF k = i + 1 THEN e ELSE s[k-1]
  <2>1. CASE k <= i + 1
    BY <2>1, <1>2, <1>4, <1>5, <1>7
  <2>2. CASE k > i + 1
    <3>1. (c \o b)[k] = b[k - (i + 1)]
      BY <2>2, <1>2, <1>4, <1>5, <1>7
    <3>2. k - (i + 1) \in 1..(Len(s) - i) /\ i + (k - (i + 1)) = k - 1
      BY <2>2, <1>7
    <3> QED
      BY <2>2, <3>1, <3>2, <1>2, <1>7
  <2>3. k <= i + 1 \/ k > i + 1
    BY <1>7
  <2> QED
    BY <2>1, <2>2, <2>3
<1>8. Len(c \o b) = Len(s) + 1
  BY <1>2, <1>4, <1>5
<1> QED
  BY <1>5, <1>6, <1>7, <1>8
-----------------------------------------------------------------------------
(* Control. *)

\* Nobody holds the mutex and no thread runs before the first start().
LEMMA ControlInit == Init => ControlInv
<1> SUFFICES ASSUME Init PROVE ControlInv
  OBVIOUS
<1> USE ThreadsAssumption, TaskAssumption
<1>1. TypeOK
  <2>1. <<>> \in Seq(Task) /\ Len(<<>>) = 0
    BY EmptySeq
  <2>2. /\ taskQueue \in Seq(Task) /\ delayedTaskQueue \in Seq(Task) /\ started \in Seq(Task)
        /\ due \in 0..Len(delayedTaskQueue)
    BY <2>1 DEF Init
  <2>3. /\ pc \in [Clients -> ClientPcs]
        /\ arg \in [Clients -> Task \cup {NoTask}]
        /\ posted \in [Clients -> Nat]
    BY DEF Init, ClientPcs
  <2>4. early \subseteq Task /\ wpc \in WorkerPcs /\ task \in Task \cup {NoTask}
    BY DEF Init, WorkerPcs
  <2> QED
    BY <2>2, <2>3, <2>4 DEF Init, TypeOK
<1>2. LockInv /\ TaskInv /\ PostInv /\ StopInv /\ LateInv
  BY DEF Init, LockInv, TaskInv, PostInv, StopInv, LateInv, StopPcs, Critical,
         StopReturned, Clients
<1> QED
  BY <1>1, <1>2 DEF ControlInv

\* Every step of a client, of the owner and of the worker keeps the control part.
LEMMA ControlStep == ControlInv /\ [Next]_vars => ControlInv'
<1> SUFFICES ASSUME ControlInv, [Next]_vars PROVE ControlInv'
  OBVIOUS
<1> USE ThreadsAssumption, TaskAssumption, BoundsAssumption
<1> USE DEF ControlInv
<1>o. Owner \in Clients /\ Worker \in Clients
  BY DEF Clients
<1> DEFINE Rest == LockInv /\ TaskInv /\ PostInv /\ StopInv /\ LateInv
<1>1. ASSUME NEW c \in Clients, PostCheck(c) PROVE ControlInv'
  <2>1. TypeOK'
    <3>1. posted' \in [Clients -> Nat]
      BY <1>1 DEF PostCheck, TypeOK
    <3>2. arg' \in [Clients -> Task \cup {NoTask}] /\ pc' \in [Clients -> ClientPcs]
      <4>1. CASE isRunning
        <5>1. PICK d \in Kinds :
                 arg' = [arg EXCEPT ![c] = [by |-> c, n |-> posted[c] + 1, delayed |-> d]]
          BY <1>1, <4>1 DEF PostCheck
        <5>2. posted[c] + 1 \in Nat \ {0}
          BY DEF TypeOK
        <5>3. [by |-> c, n |-> posted[c] + 1, delayed |-> d] \in Task
          BY <5>2 DEF Task
        <5> QED
          BY <1>1, <4>1, <5>1, <5>3 DEF PostCheck, TypeOK, ClientPcs
      <4>2. CASE ~isRunning
        BY <1>1, <4>2 DEF PostCheck, TypeOK
      <4> QED
        BY <4>1, <4>2
    <3> QED
      BY <1>1, <3>1, <3>2 DEF PostCheck, TypeOK, queues, worker, flags, hist
  <2>2. Rest'
    <3>1. PostInv'
      <4> SUFFICES ASSUME NEW b \in Clients
                   PROVE  /\ pc'[b] = "enqueue" => /\ arg'[b] \in Task
                                                   /\ arg'[b].by = b
                                                   /\ arg'[b].n = posted'[b]
                          /\ b = Worker /\ pc'[b] # "idle" => wpc' = "run"
        BY DEF PostInv
      <4>1. CASE b # c
        BY <1>1, <4>1 DEF PostCheck, TypeOK, PostInv, worker
      <4>2. CASE b = c /\ isRunning
        <5>1. PICK d \in Kinds :
                 arg' = [arg EXCEPT ![c] = [by |-> c, n |-> posted[c] + 1, delayed |-> d]]
          BY <1>1, <4>2 DEF PostCheck
        <5>2. arg'[c] = [by |-> c, n |-> posted[c] + 1, delayed |-> d] /\ posted'[c] = posted[c] + 1
          BY <1>1, <5>1 DEF PostCheck, TypeOK
        <5>3. arg'[c] \in Task
          <6>1. posted[c] + 1 \in Nat \ {0}
            BY DEF TypeOK
          <6> QED
            BY <5>2, <6>1 DEF Task
        <5>4. c = Worker => wpc' = "run"
          BY <1>1 DEF PostCheck, MayCall, worker
        <5> QED
          BY <4>2, <5>2, <5>3, <5>4
      <4>3. CASE b = c /\ ~isRunning
        BY <1>1, <4>3 DEF PostCheck, MayCall, TypeOK, PostInv, worker
      <4> QED
        BY <4>1, <4>2, <4>3
    <3>2. LockInv' /\ TaskInv' /\ LateInv'
      BY <1>1 DEF PostCheck, LockInv, TaskInv, LateInv, worker, flags, hist
    <3>3. StopInv'
      <4>1. \A b \in Clients : pc'[b] = pc[b] \/ (pc'[b] = "enqueue" /\ pc[b] = "idle")
        BY <1>1 DEF PostCheck, MayCall, TypeOK
      <4>2. UNCHANGED <<isRunning, shouldStop, wpc>>
        BY <1>1 DEF PostCheck, worker, flags
      <4> QED
        BY <4>1, <4>2, <1>o DEF StopInv, StopReturned, StopPcs
    <3> QED
      BY <3>1, <3>2, <3>3
  <2> QED
    BY <2>1, <2>2
<1>2. ASSUME NEW c \in Clients, PostEnqueue(c) PROVE ControlInv'
  <2> USE DEF PostEnqueue
  <2>1. arg[c] \in Task
    BY <1>2 DEF PostInv
  <2>2. /\ taskQueue' \in Seq(Task)
        /\ delayedTaskQueue' \in Seq(Task)
        /\ due' \in 0..Len(delayedTaskQueue')
    <3>1. CASE arg[c].delayed
      <4>1. PICK i \in 0..Len(delayedTaskQueue) :
               /\ delayedTaskQueue' = InsertAt(delayedTaskQueue, i + 1, arg[c])
               /\ due' = IF i < due THEN due + 1 ELSE due
        BY <1>2, <3>1 DEF PushDelayed
      <4>2. /\ delayedTaskQueue' \in Seq(Task)
            /\ Len(delayedTaskQueue') = Len(delayedTaskQueue) + 1
        BY <4>1, <2>1, InsertType DEF TypeOK
      <4>3. taskQueue' = taskQueue
        BY <1>2, <3>1 DEF PushDelayed
      <4> QED
        BY <4>1, <4>2, <4>3 DEF TypeOK
    <3>2. CASE ~arg[c].delayed
      <4>1. Append(taskQueue, arg[c]) \in Seq(Task)
        BY <2>1, AppendProperties DEF TypeOK
      <4> QED
        BY <1>2, <3>2, <4>1 DEF PushTask, TypeOK
    <3> QED
      BY <3>1, <3>2
  <2>3. TypeOK'
    BY <1>2, <2>2 DEF TypeOK, ClientPcs, worker, flags, hist
  <2>4. Rest'
    BY <1>2 DEF TypeOK, LockInv, TaskInv, PostInv, StopInv, LateInv, StopReturned, StopPcs,
       worker, flags, hist
  <2> QED
    BY <2>3, <2>4
<1>3. ASSUME NEW c \in Clients, PostNotify(c) PROVE ControlInv'
  <2> USE DEF PostNotify, Notify
  <2>1. TypeOK'
    BY <1>3 DEF TypeOK, ClientPcs, WorkerPcs, Critical, queues, flags, hist
  <2>2. Rest'
    BY <1>3 DEF TypeOK, LockInv, TaskInv, PostInv, StopInv, LateInv, StopReturned, StopPcs,
       Critical, queues, flags, hist
  <2> QED
    BY <2>1, <2>2
<1>4. CASE Start
  <2>1. TypeOK'
    <3>1. wpc' \in WorkerPcs /\ starts' \in Nat /\ lateRuns' \in Nat
      BY <1>4 DEF Start, TypeOK, WorkerPcs
    <3>2. isRunning' \in BOOLEAN /\ shouldStop' \in BOOLEAN
      BY <1>4 DEF Start
    <3> QED
      BY <1>4, <3>1, <3>2 DEF Start, TypeOK, queues, client
  <2>2. Rest'
    BY <1>4, <1>o DEF Start, TypeOK, LockInv, TaskInv, PostInv, StopInv, LateInv, StopReturned,
       StopPcs, Critical, queues, client
  <2> QED
    BY <2>1, <2>2
<1>5. CASE StopSignal
  <2>1. early' \subseteq Task
    <3>1. Queued \subseteq Task
      BY DEF Queued, TypeOK, ToSet
    <3> QED
      BY <1>5, <3>1 DEF StopSignal, PostsReturned
  <2>2. TypeOK'
    BY <1>5, <2>1 DEF StopSignal, TypeOK, ClientPcs, StopPcs, queues, worker
  <2>3. Rest'
    BY <1>5, <1>o DEF StopSignal, TypeOK, LockInv, TaskInv, PostInv, StopInv, LateInv,
       StopReturned, StopPcs, queues, worker
  <2> QED
    BY <2>2, <2>3
<1>6. CASE StopClearRunning
  <2>1. TypeOK'
    BY <1>6 DEF StopClearRunning, TypeOK, ClientPcs, StopPcs, queues, worker, hist
  <2>2. Rest'
    BY <1>6, <1>o DEF StopClearRunning, TypeOK, LockInv, TaskInv, PostInv, StopInv, LateInv,
       StopReturned, StopPcs, queues, worker, hist
  <2> QED
    BY <2>1, <2>2
<1>7. CASE StopNotify
  <2>1. TypeOK'
    BY <1>7 DEF StopNotify, Notify, TypeOK, ClientPcs, WorkerPcs, StopPcs, queues, flags, hist
  <2>2. Rest'
    BY <1>7, <1>o DEF StopNotify, Notify, TypeOK, LockInv, TaskInv, PostInv, StopInv, LateInv,
       StopReturned, StopPcs, Critical, queues, flags, hist
  <2> QED
    BY <2>1, <2>2
<1>8. CASE StopDrain
  <2>1. TypeOK'
    <3>1. taskQueue' \in Seq(Task) /\ delayedTaskQueue' \in Seq(Task)
          /\ due' \in 0..Len(delayedTaskQueue')
      BY <1>8, EmptySeq DEF StopDrain
    <3> QED
      BY <1>8, <3>1 DEF StopDrain, TypeOK, ClientPcs, StopPcs, worker, flags, hist
  <2>2. Rest'
    BY <1>8, <1>o DEF StopDrain, TypeOK, LockInv, TaskInv, PostInv, StopInv, LateInv,
       StopReturned, StopPcs, worker, flags, hist
  <2> QED
    BY <2>1, <2>2
<1>9. CASE StopJoin
  <2>1. TypeOK'
    BY <1>9 DEF StopJoin, TypeOK, ClientPcs, queues, worker, flags, hist
  <2>2. Rest'
    BY <1>9, <1>o DEF StopJoin, TypeOK, LockInv, TaskInv, PostInv, StopInv, LateInv,
       StopReturned, StopPcs, queues, worker, flags, hist
  <2> QED
    BY <2>1, <2>2
<1>10. CASE WorkerTop \/ WorkerLock \/ WorkerCheck \/ WorkerPredicate \/ WorkerSleep
            \/ WorkerTimeout \/ WorkerSpuriousWake \/ WorkerRelock
  <2> USE <1>10 DEF WorkerTop, WorkerLock, WorkerCheck, WorkerPredicate, WorkerSleep,
             WorkerTimeout, WorkerSpuriousWake, WorkerRelock, queues, client, flags, hist
  <2>1. TypeOK'
    BY DEF TypeOK, WorkerPcs, Critical
  <2>2. LockInv' /\ TaskInv' /\ PostInv'
    BY DEF TypeOK, LockInv, TaskInv, PostInv, Critical
  <2>3. StopInv' /\ LateInv'
    BY DEF TypeOK, StopInv, LateInv, StopReturned, StopPcs
  <2> QED
    BY <2>1, <2>2, <2>3
<1>11. CASE WorkerPromote
  <2>1. /\ taskQueue' \in Seq(Task)
        /\ delayedTaskQueue' \in Seq(Task)
        /\ due' \in 0..Len(delayedTaskQueue')
    <3>1. /\ SubSeq(delayedTaskQueue, 1, due) \in Seq(Task)
          /\ SubSeq(delayedTaskQueue, due + 1, Len(delayedTaskQueue)) \in Seq(Task)
      BY SliceType DEF TypeOK
    <3> QED
      BY <1>11, <3>1 DEF WorkerPromote, TypeOK
  <2>2. TypeOK'
    BY <1>11, <2>1 DEF WorkerPromote, TypeOK, WorkerPcs, Critical, client, flags, hist
  <2>3. Rest'
    BY <1>11 DEF WorkerPromote, TypeOK, LockInv, TaskInv, PostInv, StopInv, LateInv,
       StopReturned, StopPcs, Critical, client, flags, hist
  <2> QED
    BY <2>2, <2>3
<1>12. CASE WorkerTake
  <2>1. TypeOK'
    <3>1. /\ taskQueue' \in Seq(Task) /\ started' \in Seq(Task)
          /\ task' \in Task \cup {NoTask} /\ lateRuns' \in Nat
      <4>1. CASE taskQueue # <<>>
        <5>1. /\ Head(taskQueue) \in Task /\ Tail(taskQueue) \in Seq(Task)
              /\ Append(started, Head(taskQueue)) \in Seq(Task)
          BY <4>1, HeadTailProperties, AppendProperties DEF TypeOK
        <5> QED
          <6>1. taskQueue' \in Seq(Task) /\ started' \in Seq(Task) /\ task' \in Task
            BY <1>12, <4>1, <5>1 DEF WorkerTake
          <6>2. lateRuns' \in Nat
            BY <1>12, <4>1 DEF WorkerTake, TypeOK
          <6> QED
            BY <6>1, <6>2
      <4>2. CASE taskQueue = <<>>
        BY <1>12, <4>2 DEF WorkerTake, TypeOK
      <4> QED
        BY <4>1, <4>2
    <3>2. wpc' \in WorkerPcs /\ mutex' \in {Worker, NoOne} /\ timedOut' \in BOOLEAN
      BY <1>12 DEF WorkerTake, WorkerPcs
    <3> QED
      BY <1>12, <3>1, <3>2 DEF WorkerTake, TypeOK, client, flags
  <2>2. Rest'
    BY <1>12 DEF WorkerTake, TypeOK, LockInv, TaskInv, PostInv, StopInv, LateInv,
       StopReturned, StopPcs, Critical, client, flags
  <2> QED
    BY <2>1, <2>2
<1>13. CASE WorkerFinish
  <2>1. TypeOK'
    BY <1>13 DEF WorkerFinish, TypeOK, WorkerPcs, queues, client, flags, hist
  <2>2. Rest'
    BY <1>13 DEF WorkerFinish, TypeOK, LockInv, TaskInv, PostInv, StopInv, LateInv,
       StopReturned, StopPcs, Critical, queues, client, flags, hist
  <2> QED
    BY <2>1, <2>2
<1>14. CASE Expire
  <2>1. TypeOK'
    BY <1>14 DEF Expire, TypeOK, worker, client, flags, hist
  <2>2. Rest'
    BY <1>14 DEF Expire, TypeOK, LockInv, TaskInv, PostInv, StopInv, LateInv,
       StopReturned, worker, client, flags, hist
  <2> QED
    BY <2>1, <2>2
<1>15. CASE UNCHANGED vars
  BY <1>15 DEF vars, TypeOK, LockInv, TaskInv, PostInv, StopInv, LateInv, StopReturned,
     queues, worker, client, flags, hist
<1> QED
  BY <1>1, <1>2, <1>3, <1>4, <1>5, <1>6, <1>7, <1>8, <1>9, <1>10, <1>11, <1>12, <1>13,
     <1>14, <1>15
     DEF Next, ClientStep, OwnerStep, StopStep, WorkerLoop

\* The control part holds in every reachable state.
LEMMA ControlAlways == Spec => []ControlInv
  BY ControlInit, ControlStep, PTL DEF Spec

\* Every variable keeps its type (MessageThread::start, stop, post,
\* postDelayed and workerThreadLoop), for any number of posters and restarts.
THEOREM TypeCorrect == Spec => []TypeOK
<1>1. ControlInv => TypeOK
  BY DEF ControlInv
<1> QED
  BY <1>1, ControlAlways, PTL

\* After stop() has returned no task runs, because of the join in stop().
THEOREM StopIsQuiet == Spec => []QuietAfterStop
<1>1. ControlInv => QuietAfterStop
  BY DEF ControlInv, StopInv, TaskInv, QuietAfterStop
<1> QED
  BY <1>1, ControlAlways, PTL

\* At most one task begins after _shouldStop was raised, because the loop
\* head of workerThreadLoop looks at the flag before every iteration.
THEOREM OneLateRun == Spec => []AtMostOneLateRun
<1>1. ControlInv => AtMostOneLateRun
  BY DEF ControlInv, LateInv, AtMostOneLateRun
<1> QED
  BY <1>1, ControlAlways, PTL
-----------------------------------------------------------------------------
(* Order. *)

\* A step that lets no client forget a post keeps every pushed task pushed.
Advance ==
    \A c \in Clients :
        /\ posted'[c] \in Nat /\ posted[c] <= posted'[c]
        /\ pc'[c] = "enqueue" => pc[c] = "enqueue" \/ posted[c] < posted'[c]

\* Pushed in the next state.
PushedNext(x) == /\ x.n <= posted'[x.by]
                 /\ pc'[x.by] = "enqueue" => x.n < posted'[x.by]

\* A task that was pushed stays older than what its client pushes later.
LEMMA PushedStable ==
    ASSUME TypeOK, Advance, NEW x \in Task, Pushed(x)
    PROVE  PushedNext(x)
<1>1. x.by \in Clients /\ x.n \in Nat
  BY DEF Task
<1>2. posted[x.by] \in Nat
  BY <1>1 DEF TypeOK
<1> QED
  BY <1>1, <1>2 DEF Pushed, PushedNext, Advance

\* A step that moves no task keeps the order.
LEMMA OrderFrame ==
    ASSUME TypeOK, OrderInv, Advance, Closed' => Closed,
           UNCHANGED <<taskQueue, delayedTaskQueue, started, early>>
    PROVE  OrderInv'
<1>1. \A x \in Task : Pushed(x) => PushedNext(x)
  BY PushedStable
<1>2. /\ AllPushed(started)' /\ AllPushed(taskQueue)' /\ AllPushed(delayedTaskQueue)'
  BY <1>1, ElementOfSeq DEF OrderInv, TypeOK, AllPushed, Pushed, PushedNext
<1>3. (\A x \in early : Pushed(x))'
  BY <1>1 DEF OrderInv, TypeOK, Pushed, PushedNext
<1>4. Closed' => (Queued \cap early = {})'
  BY DEF OrderInv, Queued
<1> QED
  BY <1>2, <1>3, <1>4 DEF OrderInv, InPostOrder, AllBefore, Before, AllPushed

\* The queues and the history start empty.
LEMMA OrderInit == Init => OrderInv
  BY DEF Init, OrderInv, InPostOrder, AllBefore, AllPushed, Closed, Queued, ToSet

\* Every step keeps the tasks of one client in the order of their posts.
LEMMA OrderStep == ControlInv /\ OrderInv /\ [Next]_vars => OrderInv'
<1> SUFFICES ASSUME ControlInv, OrderInv, [Next]_vars PROVE OrderInv'
  OBVIOUS
<1> USE ThreadsAssumption, TaskAssumption, BoundsAssumption
<1>o. Owner \in Clients /\ Worker \in Clients
  BY DEF Clients
<1>t. TypeOK
  BY DEF ControlInv
<1>1. ASSUME NEW c \in Clients, PostCheck(c) PROVE OrderInv'
  <2>1. Advance
    <3> SUFFICES ASSUME NEW b \in Clients
                 PROVE  /\ posted'[b] \in Nat /\ posted[b] <= posted'[b]
                        /\ pc'[b] = "enqueue" => pc[b] = "enqueue" \/ posted[b] < posted'[b]
      BY DEF Advance
    <3>1. posted[b] \in Nat
      BY <1>t DEF TypeOK
    <3> QED
      BY <1>1, <1>t, <3>1 DEF PostCheck, TypeOK
  <2>2. Closed' => Closed
    <3>1. pc'[Owner] = pc[Owner] \/ (pc[Owner] = "idle" /\ pc'[Owner] = "enqueue")
      BY <1>1, <1>t, <1>o DEF PostCheck, MayCall, TypeOK
    <3>2. UNCHANGED isRunning
      BY <1>1 DEF PostCheck, flags
    <3> QED
      BY <3>1, <3>2 DEF Closed, StopReturned, StopPcs
  <2>3. UNCHANGED <<taskQueue, delayedTaskQueue, started, early>>
    BY <1>1 DEF PostCheck, queues, hist
  <2> QED
    BY <1>t, <2>1, <2>2, <2>3, OrderFrame
<1>2. ASSUME NEW c \in Clients, PostEnqueue(c) PROVE OrderInv'
  <2> DEFINE t == arg[c]
  <2>1. t \in Task /\ t.by = c /\ t.n = posted[c] /\ t.n \in Nat
    BY <1>2 DEF PostEnqueue, ControlInv, PostInv, Task
  <2>2. Advance
    BY <1>2, <1>t DEF PostEnqueue, TypeOK, Advance
  <2>3. PushedNext(t) /\ \A x \in Task : Pushed(x) => PushedNext(x)
    BY <1>2, <1>t, <2>1, <2>2, PushedStable DEF PostEnqueue, PushedNext, TypeOK
  <2>4. \A x \in Task : Pushed(x) => Before(x, t) /\ x # t
    BY <1>2, <1>t, <2>1 DEF PostEnqueue, Pushed, Before, TypeOK, Task
  <2>5. t \notin early
    BY <2>1, <2>4, <1>t DEF OrderInv, TypeOK
  <2>6. (\A x \in early : Pushed(x))'
    BY <1>2, <1>t, <2>3 DEF PostEnqueue, OrderInv, TypeOK, hist, Pushed, PushedNext
  <2>7. Closed' => Closed
    BY <1>2, <1>t DEF PostEnqueue, TypeOK, Closed, StopReturned, StopPcs, flags
  <2>8. UNCHANGED <<started, early>>
    BY <1>2 DEF PostEnqueue, hist
  <2>9. /\ \A i \in 1..Len(started) : started[i] \in Task /\ Pushed(started[i])
        /\ \A i \in 1..Len(taskQueue) : taskQueue[i] \in Task /\ Pushed(taskQueue[i])
        /\ \A i \in 1..Len(delayedTaskQueue) :
              delayedTaskQueue[i] \in Task /\ Pushed(delayedTaskQueue[i])
    BY <1>t DEF OrderInv, AllPushed, TypeOK
  <2> HIDE DEF t
  <2>10. CASE ~t.delayed
    <3>1. taskQueue' = Append(taskQueue, t) /\ UNCHANGED delayedTaskQueue
      BY <1>2, <2>10 DEF PostEnqueue, PushTask, t
    <3>2. /\ Len(taskQueue') = Len(taskQueue) + 1
          /\ \A i \in 1..Len(taskQueue) : taskQueue'[i] = taskQueue[i]
          /\ taskQueue'[Len(taskQueue) + 1] = t
          /\ Len(taskQueue) \in Nat
      BY <3>1, <1>t, <2>1, AppendProperties DEF TypeOK
    <3>3. \A i \in 1..Len(taskQueue') : taskQueue'[i] \in Task /\ PushedNext(taskQueue'[i])
      BY <3>2, <2>1, <2>3, <2>9
    <3>4. InPostOrder(taskQueue')
      BY <3>2, <2>4, <2>9 DEF OrderInv, InPostOrder, Before
    <3>5. AllBefore(started, taskQueue')
      BY <3>2, <2>4, <2>9 DEF OrderInv, AllBefore
    <3>6. AllBefore(taskQueue', delayedTaskQueue)
      <4>1. \A j \in 1..Len(delayedTaskQueue) : Before(t, delayedTaskQueue[j])
        BY <2>4, <2>9 DEF OrderInv, Before
      <4> QED
        BY <3>2, <4>1 DEF OrderInv, AllBefore
    <3>7. AllPushed(started)' /\ AllPushed(taskQueue)' /\ AllPushed(delayedTaskQueue)'
      BY <3>1, <3>3, <2>3, <2>8, <2>9 DEF AllPushed, Pushed, PushedNext
    <3>8. Closed' => (Queued \cap early = {})'
      <4>1. Queued' \subseteq Queued \cup {t}
        BY <3>1, <3>2, <1>t DEF Queued, ToSet, TypeOK
      <4> QED
        BY <4>1, <2>5, <2>7, <2>8 DEF OrderInv
    <3> QED
      BY <3>1, <3>4, <3>5, <3>6, <3>7, <3>8, <2>6, <2>8 DEF OrderInv, AllBefore, InPostOrder
  <2>11. CASE t.delayed
    <3> DEFINE d == delayedTaskQueue
    <3>1. PICK k \in 0..Len(d) : d' = InsertAt(d, k + 1, t)
      BY <1>2, <2>11 DEF PostEnqueue, PushDelayed, t
    <3>2. UNCHANGED taskQueue
      BY <1>2, <2>11 DEF PostEnqueue, PushDelayed, t
    <3>3. /\ d' \in Seq(Task) /\ Len(d) \in Nat
          /\ Len(d') = Len(d) + 1
          /\ \A i \in 1..Len(d)+1 :
                d'[i] = IF i <= k THEN d[i] ELSE IF i = k + 1 THEN t ELSE d[i-1]
      <4>1. d \in Seq(Task) /\ Len(d) \in Nat
        BY <1>t DEF TypeOK
      <4>2. /\ InsertAt(d, k + 1, t) \in Seq(Task)
            /\ Len(InsertAt(d, k + 1, t)) = Len(d) + 1
            /\ \A i \in 1..Len(d)+1 :
                  InsertAt(d, k + 1, t)[i] =
                     IF i <= k THEN d[i] ELSE IF i = k + 1 THEN t ELSE d[i-1]
        BY <2>1, <4>1, InsertType
      <4> QED
        BY <3>1, <4>1, <4>2
    <3>4. \A i \in 1..Len(d') : d'[i] = t \/ \E m \in 1..Len(d) : d'[i] = d[m]
      <4> SUFFICES ASSUME NEW i \in 1..Len(d')
                   PROVE  d'[i] = t \/ \E m \in 1..Len(d) : d'[i] = d[m]
        OBVIOUS
      <4>1. CASE i <= k
        BY <4>1, <3>3
      <4>2. CASE i = k + 1
        BY <4>2, <3>3
      <4>3. CASE i > k + 1
        <5>1. i - 1 \in 1..Len(d) /\ d'[i] = d[i - 1]
          BY <4>3, <3>3
        <5> QED
          BY <5>1
      <4> QED
        BY <4>1, <4>2, <4>3, <3>3
    <3>5. \A i \in 1..Len(d') : d'[i] \in Task /\ PushedNext(d'[i]) /\ d'[i].delayed
      BY <3>4, <2>1, <2>3, <2>9, <2>11 DEF OrderInv
    <3>6. InPostOrder(d')
      <4> SUFFICES ASSUME NEW i \in 1..Len(d'), NEW j \in 1..Len(d'), i < j
                   PROVE  d'[i] # d'[j]
        BY <3>5 DEF InPostOrder
      <4>1. \A m \in 1..Len(d) : d[m] # t
        BY <2>4, <2>9
      <4>2. \A m, n \in 1..Len(d) : m < n => d[m] # d[n]
        BY DEF OrderInv, InPostOrder
      <4>3. CASE i <= k /\ j <= k
        BY <4>3, <4>2, <3>3
      <4>4. CASE i <= k /\ j = k + 1
        BY <4>4, <4>1, <3>3
      <4>5. CASE i <= k /\ j > k + 1
        <5>1. i \in 1..Len(d) /\ j - 1 \in 1..Len(d) /\ i < j - 1
          BY <4>5, <3>3
        <5>2. d'[i] = d[i] /\ d'[j] = d[j - 1]
          BY <4>5, <3>3
        <5> QED
          BY <5>1, <5>2, <4>2
      <4>6. CASE i = k + 1
        <5>1. j - 1 \in 1..Len(d) /\ d'[i] = t /\ d'[j] = d[j - 1]
          BY <4>6, <3>3
        <5> QED
          BY <5>1, <4>1
      <4>7. CASE i > k + 1
        <5>1. i - 1 \in 1..Len(d) /\ j - 1 \in 1..Len(d) /\ i - 1 < j - 1
          BY <4>7, <3>3
        <5>2. d'[i] = d[i - 1] /\ d'[j] = d[j - 1]
          BY <4>7, <3>3
        <5> QED
          BY <5>1, <5>2, <4>2
      <4> QED
        BY <4>3, <4>4, <4>5, <4>6, <4>7, <3>3
    <3>7. AllBefore(started, d') /\ AllBefore(taskQueue, d')
      <4>1. \A x \in Task : Pushed(x) => Before(x, t)
        BY <2>4
      <4> QED
        BY <4>1, <3>4, <2>9 DEF OrderInv, AllBefore
    <3>8. AllPushed(started)' /\ AllPushed(taskQueue)' /\ AllPushed(delayedTaskQueue)'
      BY <3>2, <3>5, <2>3, <2>8, <2>9 DEF AllPushed, Pushed, PushedNext
    <3>9. Closed' => (Queued \cap early = {})'
      <4>1. Queued' \subseteq Queued \cup {t}
        BY <3>2, <3>3, <3>4, <1>t DEF Queued, ToSet, TypeOK
      <4> QED
        BY <4>1, <2>5, <2>7, <2>8 DEF OrderInv
    <3> QED
      BY <3>2, <3>5, <3>6, <3>7, <3>8, <3>9, <2>6, <2>8 DEF OrderInv, AllBefore, InPostOrder
  <2> QED
    BY <2>10, <2>11
<1>3. ASSUME NEW c \in Clients, PostNotify(c) PROVE OrderInv'
  <2>1. Advance
    BY <1>3, <1>t DEF PostNotify, TypeOK, Advance
  <2>2. Closed' => Closed
    BY <1>3, <1>t DEF PostNotify, TypeOK, Closed, StopReturned, StopPcs, flags
  <2>3. UNCHANGED <<taskQueue, delayedTaskQueue, started, early>>
    BY <1>3 DEF PostNotify, queues, hist
  <2> QED
    BY <1>t, <2>1, <2>2, <2>3, OrderFrame
<1>4. CASE Start
  <2>1. Advance
    BY <1>4, <1>t DEF Start, TypeOK, Advance, client
  <2>2. ~Closed'
    BY <1>4 DEF Start, Closed, StopReturned, client
  <2>3. UNCHANGED <<taskQueue, delayedTaskQueue, started, early>>
    BY <1>4 DEF Start, queues
  <2> QED
    BY <1>t, <2>1, <2>2, <2>3, OrderFrame
<1>5. CASE StopClearRunning \/ StopNotify \/ StopJoin
  <2> USE <1>5 DEF StopClearRunning, StopNotify, StopJoin, queues, hist
  <2>1. Advance
    BY <1>t DEF TypeOK, Advance
  <2>2. Closed' => Closed
    BY <1>t, <1>o DEF TypeOK, Closed, StopReturned, StopPcs, flags
  <2>3. UNCHANGED <<taskQueue, delayedTaskQueue, started, early>>
    OBVIOUS
  <2> QED
    BY <1>t, <2>1, <2>2, <2>3, OrderFrame
<1>6. CASE WorkerTop \/ WorkerLock \/ WorkerCheck \/ WorkerPredicate \/ WorkerSleep
           \/ WorkerTimeout \/ WorkerSpuriousWake \/ WorkerRelock \/ WorkerFinish \/ Expire
           \/ UNCHANGED vars
  <2> USE <1>6 DEF WorkerTop, WorkerLock, WorkerCheck, WorkerPredicate, WorkerSleep,
             WorkerTimeout, WorkerSpuriousWake, WorkerRelock, WorkerFinish, Expire, vars,
             queues, client, flags, hist
  <2>1. Advance
    BY <1>t DEF TypeOK, Advance
  <2>2. Closed' => Closed
    BY DEF Closed, StopReturned
  <2>3. UNCHANGED <<taskQueue, delayedTaskQueue, started, early>>
    OBVIOUS
  <2> QED
    BY <1>t, <2>1, <2>2, <2>3, OrderFrame
<1>7. CASE StopSignal
  <2>1. Advance
    BY <1>7, <1>t DEF StopSignal, TypeOK, Advance
  <2>2. ~Closed'
    BY <1>7, <1>t, <1>o DEF StopSignal, TypeOK, Closed, StopReturned, StopPcs
  <2>3. UNCHANGED <<taskQueue, delayedTaskQueue, started>>
    BY <1>7 DEF StopSignal, queues
  <2>4. \A x \in Task : Pushed(x) => PushedNext(x)
    BY <1>t, <2>1, PushedStable
  <2>5. AllPushed(started)' /\ AllPushed(taskQueue)' /\ AllPushed(delayedTaskQueue)'
    BY <1>t, <2>3, <2>4, ElementOfSeq DEF OrderInv, TypeOK, AllPushed, Pushed, PushedNext
  <2>6. \A x \in Queued : x \in Task /\ Pushed(x)
    <3>1. \A s \in Seq(Task) : \A x \in ToSet(s) : \E i \in 1..Len(s) : x = s[i]
      BY DEF ToSet
    <3>2. \A s \in Seq(Task) : AllPushed(s) => \A x \in ToSet(s) : x \in Task /\ Pushed(x)
      BY <3>1, ElementOfSeq DEF AllPushed
    <3> QED
      BY <1>t, <3>2 DEF Queued, OrderInv, TypeOK
  <2>7. (\A x \in early : Pushed(x))'
    BY <1>7, <2>4, <2>6 DEF StopSignal, PostsReturned, Pushed, PushedNext
  <2> QED
    BY <2>2, <2>3, <2>5, <2>7 DEF OrderInv, InPostOrder, AllBefore, Before, AllPushed
<1>8. CASE StopDrain
  <2>1. Advance
    BY <1>8, <1>t DEF StopDrain, TypeOK, Advance
  <2>2. taskQueue' = <<>> /\ delayedTaskQueue' = <<>> /\ UNCHANGED <<started, early>>
    BY <1>8 DEF StopDrain, hist
  <2>3. \A x \in Task : Pushed(x) => PushedNext(x)
    BY <1>t, <2>1, PushedStable
  <2>4. AllPushed(started)' /\ (\A x \in early : Pushed(x))'
    BY <1>t, <2>2, <2>3, ElementOfSeq DEF OrderInv, TypeOK, AllPushed, Pushed, PushedNext
  <2>5. Queued' = {}
    BY <2>2 DEF Queued, ToSet
  <2> QED
    BY <2>2, <2>4, <2>5 DEF OrderInv, InPostOrder, AllBefore, Before, AllPushed
<1>9. CASE WorkerTake
  <2>1. UNCHANGED <<pc, posted, early, delayedTaskQueue, isRunning>>
    BY <1>9 DEF WorkerTake, client, flags
  <2>2. CASE taskQueue = <<>>
    <3>1. UNCHANGED <<taskQueue, started>>
      BY <1>9, <2>2 DEF WorkerTake
    <3> QED
      BY <1>t, <2>1, <3>1, OrderFrame DEF TypeOK, Advance, Closed, StopReturned
  <2>3. CASE taskQueue # <<>>
    <3> DEFINE h == taskQueue[1]
    <3>1. /\ taskQueue' = Tail(taskQueue)
          /\ started' = Append(started, h)
          /\ h \in Task
      BY <1>9, <1>t, <2>3 DEF WorkerTake, TypeOK
    <3>2. /\ Len(taskQueue) \in Nat \ {0}
          /\ Len(taskQueue') = Len(taskQueue) - 1
          /\ \A i \in 1..(Len(taskQueue) - 1) : taskQueue'[i] = taskQueue[i + 1]
      BY <1>t, <2>3, <3>1, EmptySeq, HeadTailProperties DEF TypeOK
    <3>3. /\ Len(started) \in Nat
          /\ Len(started') = Len(started) + 1
          /\ \A i \in 1..Len(started) : started'[i] = started[i]
          /\ started'[Len(started) + 1] = h
      BY <1>t, <3>1, AppendProperties DEF TypeOK
    <3>4. InPostOrder(taskQueue')
      <4>1. \A i \in 1..Len(taskQueue') : i + 1 \in 1..Len(taskQueue) /\ taskQueue'[i] = taskQueue[i + 1]
        BY <3>2
      <4>2. \A i, j \in 1..Len(taskQueue') : i < j => i + 1 < j + 1
        BY <3>2
      <4>3. InPostOrder(taskQueue)
        BY DEF OrderInv
      <4> QED
        BY <4>1, <4>2, <4>3 DEF InPostOrder
    <3>5. InPostOrder(started')
      BY <3>2, <3>3 DEF OrderInv, InPostOrder, AllBefore, Before
    <3>6. AllBefore(started', taskQueue') /\ AllBefore(started', delayedTaskQueue)
          /\ AllBefore(taskQueue', delayedTaskQueue)
      <4>1. \A j \in 1..Len(taskQueue') : Before(h, taskQueue'[j])
        BY <3>2 DEF OrderInv, InPostOrder, Before
      <4>2. \A i \in 1..Len(started), j \in 1..Len(taskQueue') : Before(started[i], taskQueue'[j])
        BY <3>2 DEF OrderInv, AllBefore
      <4>3. \A j \in 1..Len(delayedTaskQueue) : Before(h, delayedTaskQueue[j])
        BY <3>2 DEF OrderInv, AllBefore
      <4> QED
        <5>1. \A i \in 1..Len(started') : started'[i] = h \/ (i \in 1..Len(started) /\ started'[i] = started[i])
          BY <3>3
        <5>2. AllBefore(started', taskQueue')
          BY <4>1, <4>2, <5>1 DEF AllBefore
        <5>3. AllBefore(started', delayedTaskQueue)
          BY <4>3, <5>1 DEF OrderInv, AllBefore
        <5>4. AllBefore(taskQueue', delayedTaskQueue)
          <6>1. \A i \in 1..Len(taskQueue') : i + 1 \in 1..Len(taskQueue) /\ taskQueue'[i] = taskQueue[i + 1]
            BY <3>2
          <6> QED
            BY <6>1 DEF OrderInv, AllBefore
        <5> QED
          BY <5>2, <5>3, <5>4
    <3>7. AllPushed(started)' /\ AllPushed(taskQueue)' /\ AllPushed(delayedTaskQueue)'
      <4>1. Pushed(h) /\ \A i \in 1..Len(taskQueue') : Pushed(taskQueue'[i])
        BY <3>2 DEF OrderInv, AllPushed
      <4>2. \A x : Pushed(x) => PushedNext(x)
        BY <2>1 DEF Pushed, PushedNext
      <4>3. \A i \in 1..Len(started') : PushedNext(started'[i])
        BY <3>3, <4>1, <4>2 DEF OrderInv, AllPushed
      <4> QED
        BY <2>1, <4>1, <4>2, <4>3 DEF OrderInv, AllPushed, Pushed, PushedNext
    <3>8. Closed' => (Queued \cap early = {})'
      <4>1. Queued' \subseteq Queued
        BY <1>t, <2>1, <3>1, <3>2, HeadTailProperties DEF Queued, ToSet, TypeOK
      <4> QED
        BY <2>1, <4>1 DEF OrderInv, Closed, StopReturned
    <3>9. (\A x \in early : Pushed(x))'
      BY <2>1 DEF OrderInv, Pushed
    <3> QED
      BY <2>1, <3>4, <3>5, <3>6, <3>7, <3>8, <3>9 DEF OrderInv, AllBefore, InPostOrder
  <2> QED
    BY <2>2, <2>3
<1>10. CASE WorkerPromote
  <2> DEFINE d == delayedTaskQueue
             q == taskQueue
             m == SubSeq(d, 1, due)
  <2>1. UNCHANGED <<pc, posted, early, started, isRunning>>
    BY <1>10 DEF WorkerPromote, client, flags, hist
  <2>2. q' = q \o m /\ d' = SubSeq(d, due + 1, Len(d))
    BY <1>10 DEF WorkerPromote
  <2>3. /\ q \in Seq(Task) /\ d \in Seq(Task) /\ due \in 0..Len(d)
        /\ Len(q) \in Nat /\ Len(d) \in Nat /\ due \in Nat
    BY <1>t DEF TypeOK
  <2>4. /\ m \in Seq(Task) /\ Len(m) = due
        /\ \A i \in 1..due : m[i] = d[i]
    BY <2>3, SliceType
  <2>5. /\ Len(d') = Len(d) - due
        /\ \A i \in 1..(Len(d) - due) : d'[i] = d[due + i]
    BY <2>2, <2>3, SliceType
  <2> HIDE DEF m
  <2>6. /\ Len(q') = Len(q) + due
        /\ \A i \in 1..(Len(q) + due) : q'[i] = IF i <= Len(q) THEN q[i] ELSE d[i - Len(q)]
    <3>1. /\ Len(q \o m) = Len(q) + due
          /\ \A i \in 1..(Len(q) + due) :
                (q \o m)[i] = IF i <= Len(q) THEN q[i] ELSE m[i - Len(q)]
      BY <2>3, <2>4, ConcatProperties
    <3>2. \A i \in 1..(Len(q) + due) : i > Len(q) => m[i - Len(q)] = d[i - Len(q)]
      BY <2>3, <2>4
    <3>3. \A i \in 1..(Len(q) + due) : i <= Len(q) \/ i > Len(q)
      BY <2>3
    <3> QED
      BY <2>2, <3>1, <3>2, <3>3
  <2>7. \A i \in 1..Len(d') : /\ due + i \in 1..Len(d)
                              /\ d'[i] = d[due + i]
    BY <2>3, <2>5
  <2>8. \A i \in 1..Len(q') :
           \/ i \in 1..Len(q) /\ q'[i] = q[i]
           \/ i > Len(q) /\ i - Len(q) \in 1..due /\ q'[i] = d[i - Len(q)]
    BY <2>3, <2>6
  <2>9. InPostOrder(d') /\ \A i \in 1..Len(d') : d'[i].delayed
    <3>1. \A i, j \in 1..Len(d') : i < j => due + i < due + j
      BY <2>3, <2>5
    <3> QED
      BY <2>7, <3>1 DEF OrderInv, InPostOrder
  <2>10. InPostOrder(q')
    <3> SUFFICES ASSUME NEW i \in 1..Len(q'), NEW j \in 1..Len(q'), i < j
                 PROVE  Before(q'[i], q'[j])
      BY DEF InPostOrder, Before
    <3>1. CASE j \in 1..Len(q)
      <4>1. i \in 1..Len(q) /\ q'[i] = q[i] /\ q'[j] = q[j]
        BY <3>1, <2>3, <2>6
      <4> QED
        BY <4>1, <3>1 DEF OrderInv, InPostOrder, Before
    <3>2. CASE i \in 1..Len(q) /\ j > Len(q)
      <4>1. q'[i] = q[i] /\ j - Len(q) \in 1..Len(d) /\ q'[j] = d[j - Len(q)]
        BY <3>2, <2>3, <2>6
      <4> QED
        BY <4>1, <3>2 DEF OrderInv, AllBefore
    <3>3. CASE i > Len(q)
      <4>1. /\ i - Len(q) \in 1..Len(d) /\ q'[i] = d[i - Len(q)]
            /\ j - Len(q) \in 1..Len(d) /\ q'[j] = d[j - Len(q)]
            /\ i - Len(q) < j - Len(q)
        BY <3>3, <2>3, <2>6
      <4> QED
        BY <4>1 DEF OrderInv, InPostOrder, Before
    <3> QED
      BY <3>1, <3>2, <3>3, <2>3, <2>6
  <2>11. AllBefore(started, q') /\ AllBefore(started, d')
    <3>1. \A j \in 1..due : j \in 1..Len(d)
      BY <2>3
    <3> QED
      BY <2>7, <2>8, <3>1 DEF OrderInv, AllBefore
  <2>12. AllBefore(q', d')
    <3> SUFFICES ASSUME NEW i \in 1..Len(q'), NEW j \in 1..Len(d')
                 PROVE  Before(q'[i], d'[j])
      BY DEF AllBefore
    <3>1. CASE i \in 1..Len(q) /\ q'[i] = q[i]
      BY <3>1, <2>7 DEF OrderInv, AllBefore
    <3>2. CASE i - Len(q) \in 1..due /\ q'[i] = d[i - Len(q)]
      <4>1. i - Len(q) \in 1..Len(d) /\ due + j \in 1..Len(d) /\ i - Len(q) < due + j
        BY <3>2, <2>3, <2>5
      <4> QED
        <5>1. d[i - Len(q)] # d[due + j] /\ d[due + j].delayed
          BY <4>1 DEF OrderInv, InPostOrder
        <5> QED
          BY <5>1, <3>2, <2>7 DEF Before
    <3> QED
      BY <3>1, <3>2, <2>8
  <2>13. AllPushed(started)' /\ AllPushed(taskQueue)' /\ AllPushed(delayedTaskQueue)'
    <3>1. \A x : Pushed(x) => PushedNext(x)
      BY <2>1 DEF Pushed, PushedNext
    <3>2. \A j \in 1..due : j \in 1..Len(d)
      BY <2>3
    <3>3. \A i \in 1..Len(q') : Pushed(q'[i])
      BY <2>8, <3>2 DEF OrderInv, AllPushed
    <3>4. \A i \in 1..Len(d') : Pushed(d'[i])
      BY <2>7 DEF OrderInv, AllPushed
    <3> QED
      BY <2>1, <3>1, <3>3, <3>4 DEF OrderInv, AllPushed, Pushed, PushedNext
  <2>14. Closed' => (Queued \cap early = {})'
    <3>1. Queued' \subseteq Queued
      <4>1. ToSet(q') = {q'[i] : i \in 1..Len(q')} /\ ToSet(d') = {d'[i] : i \in 1..Len(d')}
            /\ ToSet(q) = {q[i] : i \in 1..Len(q)} /\ ToSet(d) = {d[i] : i \in 1..Len(d)}
        <5>1. q' \in Seq(Task) /\ d' \in Seq(Task)
          BY <2>2, <2>3, <2>4, SliceType, ConcatProperties
        <5> QED
          BY <5>1, <2>3 DEF ToSet
      <4>2. \A j \in 1..due : j \in 1..Len(d)
        BY <2>3
      <4> QED
        BY <4>1, <4>2, <2>7, <2>8 DEF Queued
    <3> QED
      BY <2>1, <3>1 DEF OrderInv, Closed, StopReturned
  <2>15. (\A x \in early : Pushed(x))'
    BY <2>1 DEF OrderInv, Pushed
  <2> QED
    BY <2>1, <2>9, <2>10, <2>11, <2>12, <2>13, <2>14, <2>15
       DEF OrderInv, AllBefore, InPostOrder
<1> QED
  BY <1>1, <1>2, <1>3, <1>4, <1>5, <1>6, <1>7, <1>8, <1>9, <1>10
     DEF Next, ClientStep, OwnerStep, StopStep, WorkerLoop

\* The data part holds in every reachable state.
LEMMA OrderAlways == Spec => []OrderInv
  BY ControlAlways, OrderInit, OrderStep, PTL DEF Spec

\* Tasks posted by one client without a delay begin in the order they were
\* posted, and no task begins twice (post, processDelayedTasks and the pop
\* in workerThreadLoop, through any number of stops and restarts).
THEOREM PostOrderKept == Spec => []SubmissionOrder
<1>1. OrderInv => SubmissionOrder
  BY DEF OrderInv, SubmissionOrder
<1> QED
  BY <1>1, OrderAlways, PTL

\* stop() leaves nothing behind that was accepted before it was called.
THEOREM DrainIsComplete == Spec => []NothingEarlyIsLeft
<1>1. OrderInv => NothingEarlyIsLeft
  BY DEF OrderInv, NothingEarlyIsLeft, Closed
<1> QED
  BY <1>1, OrderAlways, PTL
-----------------------------------------------------------------------------
(* The worker thread implements the serial executor of TaskExecutor, for   *)
(* every set of posters, every bound on the posts and every number of      *)
(* restarts.                                                               *)

(* The executor's state, as MessageThread maps it. *)

Ids(q)   == [i \in DOMAIN q |-> IdOf(q[i])]
TimerIds == {IdOf(t) : t \in ToSet(delayedTaskQueue)}
UsedIds  == {id \in TaskId : id[2] <= posted[id[1]] /\ ~InFlight(id[1], id[2])}

\* No client posts more than it may.
CountInv == \A c \in Clients : posted[c] <= MaxPosts[c]

RefineInv == ControlInv /\ OrderInv /\ CountInv

LEMMA CountAlways == Spec => []RefineInv
<1>1. Init => CountInv
  BY BoundsAssumption DEF Init, CountInv
<1>2. ControlInv /\ CountInv /\ [Next]_vars => CountInv'
  <2> SUFFICES ASSUME TypeOK, CountInv, [Next]_vars PROVE CountInv'
    BY DEF ControlInv
  <2>1. ASSUME NEW c \in Clients, PostCheck(c) PROVE CountInv'
    <3>1. posted' = [posted EXCEPT ![c] = posted[c] + 1] /\ posted[c] < MaxPosts[c]
      BY <2>1 DEF PostCheck
    <3>2. posted \in [Clients -> Nat] /\ MaxPosts \in [Clients -> Nat]
      BY BoundsAssumption DEF TypeOK
    <3>3. \A d \in Clients : posted'[d] = IF d = c THEN posted[c] + 1 ELSE posted[d]
      BY <3>1, <3>2
    <3>4. posted[c] + 1 <= MaxPosts[c]
      BY <3>1, <3>2
    <3> QED
      BY <3>3, <3>4 DEF CountInv
  <2>2. CASE UNCHANGED posted
    BY <2>2 DEF CountInv
  <2>3. (\E c \in Clients : PostCheck(c)) \/ UNCHANGED posted
    BY DEF Next, ClientStep, OwnerStep, StopStep, WorkerLoop, PostEnqueue, PostNotify, Start,
           StopSignal, StopClearRunning, StopNotify, StopDrain, StopJoin, WorkerTop, WorkerLock,
           WorkerPromote, WorkerCheck, WorkerPredicate, WorkerSleep, WorkerTimeout, WorkerRelock,
           WorkerTake, WorkerFinish, WorkerSpuriousWake, Expire, vars, client
  <2> QED
    BY <2>1, <2>2, <2>3
<1> QED
  BY <1>1, <1>2, ControlAlways, OrderAlways, PTL DEF Spec, RefineInv
-----------------------------------------------------------------------------
(* Identifiers. *)

LEMMA IdOfTask == \A t \in Task : t # NoTask /\ IdOf(t) = <<t.by, t.n>>
  BY TaskAssumption DEF IdOf

LEMMA TaskIdsAreNoTask == \A t \in Task : IdOf(t) # NoTask
  BY IdOfTask, IdAssumption DEF Task

LEMMA TaskFields == \A t \in Task : t = [by |-> t.by, n |-> t.n, delayed |-> t.delayed]
  BY DEF Task

LEMMA IdsAppend ==
    ASSUME NEW q \in Seq(Task), NEW t \in Task
    PROVE  Ids(Append(q, t)) = Append(Ids(q), IdOf(t))
  BY DEF Ids

LEMMA IdsTail ==
    ASSUME NEW q \in Seq(Task), q # <<>>
    PROVE  Ids(q) # <<>> /\ Head(Ids(q)) = IdOf(Head(q)) /\ Ids(Tail(q)) = Tail(Ids(q))
  BY DEF Ids

LEMMA IdsConcat ==
    ASSUME NEW q \in Seq(Task), NEW r \in Seq(Task)
    PROVE  Ids(q \o r) = Ids(q) \o Ids(r)
  BY DEF Ids
-----------------------------------------------------------------------------
LEMMA IdParts ==
    \A id \in TaskId : /\ id = <<id[1], id[2]>>
                       /\ id[1] \in Clients /\ id[2] \in Nat \ {0}
  BY BoundsAssumption DEF TaskId

LEMMA RefineInit == Init => Executor!Init
<1> SUFFICES ASSUME Init PROVE Executor!Init
  OBVIOUS
<1>1. UsedIds = {}
  BY IdParts DEF Init, UsedIds
<1>2. Ids(taskQueue) = <<>> /\ TimerIds = {} /\ IdOf(task) = NoTask /\ lateRuns = 0
  BY DEF Init, Ids, TimerIds, ToSet, IdOf
<1>3. Phase = "stopped"
  BY DEF Init, Phase, StopPcs, Clients
<1> QED
  BY <1>1, <1>2, <1>3 DEF Executor!Init, Ids, TimerIds, UsedIds
-----------------------------------------------------------------------------
(* Steps the executor does not see. *)

\* What it sees of a client: the posts that are not on their way.
LEMMA UsedKept ==
    ASSUME UNCHANGED posted,
           \A c \in Clients : pc[c] = "enqueue" <=> pc'[c] = "enqueue",
           \A c \in Clients : pc[c] = "enqueue" => arg'[c] = arg[c]
    PROVE  UsedIds' = UsedIds
<1>1. \A c \in Clients : \A n : InFlight(c, n)' <=> InFlight(c, n)
  BY DEF InFlight
<1> QED
  BY <1>1, IdParts DEF UsedIds

LEMMA Unseen ==
    ASSUME UNCHANGED <<taskQueue, delayedTaskQueue, task, lateRuns>>,
           Phase' = Phase, UsedIds' = UsedIds
    PROVE  UNCHANGED Executor!vars
  BY DEF Executor!vars, UsedIds

LEMMA PhaseKept ==
    ASSUME UNCHANGED <<isRunning, shouldStop>>, pc[Owner] \in StopPcs <=> pc'[Owner] \in StopPcs
    PROVE  Phase' = Phase
  BY DEF Phase
-----------------------------------------------------------------------------
(* Clients. *)

\* A post that is refused, or that is on its way.
LEMMA CheckRefines ==
    ASSUME RefineInv, NEW c \in Clients, PostCheck(c)
    PROVE  Executor!Next \/ UNCHANGED Executor!vars
<1> DEFINE n == posted[c] + 1
<1>1. /\ posted \in [Clients -> Nat] /\ pc \in [Clients -> ClientPcs] /\ MaxPosts \in [Clients -> Nat]
      /\ arg \in [Clients -> Task \cup {NoTask}]
  BY BoundsAssumption DEF RefineInv, ControlInv, TypeOK
<1>2. /\ pc[c] = "idle" /\ posted' = [posted EXCEPT ![c] = n] /\ posted[c] < MaxPosts[c]
      /\ UNCHANGED <<taskQueue, delayedTaskQueue, task, lateRuns, isRunning, shouldStop>>
  BY DEF PostCheck, MayCall, queues, worker, flags, hist
<1>3. PICK id \in TaskId : id = <<c, n>> /\ id[1] = c /\ id[2] = n
  <2>1. n \in 1..MaxPosts[c]
    BY <1>1, <1>2
  <2>2. <<c, n>> \in TaskId
    BY <2>1 DEF TaskId
  <2> QED
    BY <2>2
<1>4. \A d \in Clients : posted'[d] = IF d = c THEN n ELSE posted[d]
  BY <1>1, <1>2
<1>5. id \notin UsedIds
  BY <1>1, <1>3 DEF UsedIds
<1>6. CASE isRunning
  <2>1. /\ \E d \in Kinds : arg' = [arg EXCEPT ![c] = [by |-> c, n |-> n, delayed |-> d]]
        /\ pc' = [pc EXCEPT ![c] = "enqueue"]
    BY <1>6 DEF PostCheck
  <2>2. /\ pc'[c] = "enqueue" /\ arg'[c].n = n
        /\ \A d \in Clients \ {c} : pc'[d] = pc[d] /\ arg'[d] = arg[d]
    BY <1>1, <2>1
  <2>3. \A d \in Clients \ {c} : \A k : InFlight(d, k)' <=> InFlight(d, k)
    BY <2>2 DEF InFlight
  <2>4. \A k : (InFlight(c, k)' <=> k = n) /\ ~InFlight(c, k)
    BY <1>2, <2>2 DEF InFlight
  <2>5. UsedIds' = UsedIds
    <3>1. ASSUME NEW x \in TaskId
          PROVE  x[2] <= posted'[x[1]] /\ ~InFlight(x[1], x[2])' <=> x[2] <= posted[x[1]] /\ ~InFlight(x[1], x[2])
      <4>1. x[1] \in Clients /\ x[2] \in Nat
        BY IdParts
      <4>2. CASE x[1] = c
        BY <1>1, <1>4, <2>4, <4>1, <4>2
      <4>3. CASE x[1] # c
        BY <1>4, <2>3, <4>1, <4>3
      <4> QED
        BY <4>2, <4>3
    <3> QED
      BY <3>1 DEF UsedIds
  <2>6. Phase' = Phase
    <3>1. pc[Owner] \in StopPcs <=> pc'[Owner] \in StopPcs
      BY <1>2, <2>2 DEF StopPcs, Clients
    <3> QED
      BY <1>2, <3>1, PhaseKept
  <2> QED
    BY <1>2, <2>5, <2>6, Unseen
<1>7. CASE ~isRunning
  <2>1. UNCHANGED <<arg, pc>>
    BY <1>7 DEF PostCheck
  <2>2. UsedIds' = UsedIds \cup {id}
    <3>1. ASSUME NEW x \in TaskId
          PROVE  x[2] <= posted'[x[1]] /\ ~InFlight(x[1], x[2])' <=>
                 (x[2] <= posted[x[1]] /\ ~InFlight(x[1], x[2])) \/ x = id
      <4>1. x[1] \in Clients /\ x[2] \in Nat /\ x = <<x[1], x[2]>>
        BY IdParts
      <4>2. InFlight(x[1], x[2])' <=> InFlight(x[1], x[2])
        BY <2>1 DEF InFlight
      <4>3. CASE x[1] = c
        <5>1. ~InFlight(x[1], x[2])
          BY <1>2, <4>3 DEF InFlight
        <5>2. x = id <=> x[2] = n
          BY <1>3, <4>1, <4>3
        <5> QED
          BY <1>1, <1>4, <4>1, <4>2, <4>3, <5>1, <5>2
      <4>4. CASE x[1] # c
        BY <1>3, <1>4, <4>1, <4>2, <4>4
      <4> QED
        BY <4>3, <4>4
    <3> QED
      BY <1>3, <3>1 DEF UsedIds
  <2>3. Phase' = Phase /\ Phase # "running"
    BY <1>2, <1>7, <2>1 DEF Phase
  <2>4. Executor!Refuse(id)
    BY <1>2, <1>5, <2>2, <2>3 DEF Executor!Refuse, UsedIds
  <2> QED
    BY <1>3, <2>4 DEF Executor!Next
<1> QED
  BY <1>6, <1>7

LEMMA InsertElements ==
    ASSUME NEW s \in Seq(Task), NEW i \in 0..Len(s), NEW t \in Task
    PROVE  ToSet(InsertAt(s, i + 1, t)) = ToSet(s) \cup {t}
<1>0. /\ InsertAt(s, i + 1, t) \in Seq(Task)
      /\ Len(InsertAt(s, i + 1, t)) = Len(s) + 1
      /\ \A k \in 1..Len(s)+1 :
            InsertAt(s, i + 1, t)[k] =
               IF k <= i THEN s[k] ELSE IF k = i + 1 THEN t ELSE s[k-1]
  <2>1. s \in Seq(Task) /\ Len(s) \in Nat /\ i \in 0..Len(s) /\ t \in Task
    OBVIOUS
  <2> QED
    BY <2>1, InsertType
<1> DEFINE r == InsertAt(s, i + 1, t)
<1> HIDE DEF r
<1>1. /\ r \in Seq(Task) /\ Len(r) = Len(s) + 1
      /\ \A k \in 1..Len(s)+1 :
            r[k] = IF k <= i THEN s[k] ELSE IF k = i + 1 THEN t ELSE s[k-1]
  BY <1>0, Zenon DEF r
<1>2. /\ ToSet(r) = {r[k] : k \in 1..Len(r)} /\ ToSet(s) = {s[k] : k \in 1..Len(s)}
      /\ Len(s) \in Nat
  BY <1>1 DEF ToSet
<1>3. \A k \in 1..Len(s) : \E j \in 1..Len(r) : r[j] = s[k]
  <2> SUFFICES ASSUME NEW k \in 1..Len(s) PROVE \E j \in 1..Len(r) : r[j] = s[k]
    OBVIOUS
  <2>1. CASE k <= i
    <3>1. k \in 1..Len(r) /\ r[k] = s[k]
      BY <1>1, <1>2, <2>1
    <3> QED
      BY <3>1
  <2>2. CASE k > i
    <3>1. k + 1 \in 1..Len(r) /\ r[k + 1] = s[k]
      BY <1>1, <1>2, <2>2
    <3> QED
      BY <3>1
  <2> QED
    BY <1>2, <2>1, <2>2
<1>4. \A k \in 1..Len(r) : r[k] = t \/ \E j \in 1..Len(s) : r[k] = s[j]
  <2> SUFFICES ASSUME NEW k \in 1..Len(r), r[k] # t PROVE \E j \in 1..Len(s) : r[k] = s[j]
    OBVIOUS
  <2>1. CASE k <= i
    <3>1. k \in 1..Len(s) /\ r[k] = s[k]
      BY <1>1, <1>2, <2>1
    <3> QED
      BY <3>1
  <2>2. CASE k > i
    <3>1. k - 1 \in 1..Len(s) /\ r[k] = s[k - 1]
      BY <1>1, <1>2, <2>2
    <3> QED
      BY <3>1
  <2> QED
    BY <1>2, <2>1, <2>2
<1>5. i + 1 \in 1..Len(r) /\ r[i + 1] = t
  BY <1>1, <1>2
<1> QED
  BY <1>2, <1>3, <1>4, <1>5 DEF r

\* A post that arrives.
LEMMA EnqueueRefines ==
    ASSUME RefineInv, NEW c \in Clients, PostEnqueue(c)
    PROVE  Executor!Next
<1> DEFINE t == arg[c]
<1>1. /\ posted \in [Clients -> Nat] /\ pc \in [Clients -> ClientPcs]
      /\ taskQueue \in Seq(Task) /\ delayedTaskQueue \in Seq(Task) /\ due \in 0..Len(delayedTaskQueue)
      /\ MaxPosts \in [Clients -> Nat] /\ posted[c] <= MaxPosts[c]
  BY BoundsAssumption DEF RefineInv, ControlInv, TypeOK, CountInv
<1>2. /\ pc[c] = "enqueue" /\ pc' = [pc EXCEPT ![c] = "notify"]
      /\ UNCHANGED <<posted, arg, task, lateRuns, isRunning, shouldStop>>
  BY DEF PostEnqueue, worker, flags, hist
<1>3. t \in Task /\ t.by = c /\ t.n = posted[c]
  BY <1>2 DEF RefineInv, ControlInv, PostInv
<1>4. t.n \in Nat \ {0}
  BY <1>3 DEF Task
<1>5. PICK id \in TaskId : id = <<c, posted[c]>> /\ id[1] = c /\ id[2] = posted[c] /\ id = IdOf(t)
  <2>1. posted[c] \in 1..MaxPosts[c]
    BY <1>1, <1>3, <1>4
  <2>2. <<c, posted[c]>> \in TaskId
    BY <2>1 DEF TaskId
  <2>3. IdOf(t) = <<c, posted[c]>>
    BY <1>3, IdOfTask
  <2> QED
    BY <2>2, <2>3
<1>6. id \notin UsedIds
  BY <1>2, <1>3, <1>5 DEF UsedIds, InFlight
<1>7. UsedIds' = UsedIds \cup {id}
  <2>1. pc'[c] # "enqueue" /\ \A d \in Clients \ {c} : pc'[d] = pc[d]
    BY <1>1, <1>2
  <2>2. ASSUME NEW x \in TaskId
        PROVE  x[2] <= posted'[x[1]] /\ ~InFlight(x[1], x[2])' <=>
               (x[2] <= posted[x[1]] /\ ~InFlight(x[1], x[2])) \/ x = id
    <3>1. x[1] \in Clients /\ x[2] \in Nat /\ x = <<x[1], x[2]>>
      BY IdParts
    <3>2. CASE x[1] = c
      <4>1. InFlight(x[1], x[2]) <=> x[2] = posted[c]
        BY <1>2, <1>3, <3>2 DEF InFlight
      <4>2. ~InFlight(x[1], x[2])'
        BY <2>1, <3>2 DEF InFlight
      <4>3. x = id <=> x[2] = posted[c]
        BY <1>5, <3>1, <3>2
      <4>4. posted[c] <= posted[c]
        BY <1>1
      <4> QED
        BY <1>2, <3>2, <4>1, <4>2, <4>3, <4>4
    <3>3. CASE x[1] # c
      <4>1. InFlight(x[1], x[2])' <=> InFlight(x[1], x[2])
        BY <1>2, <2>1, <3>1, <3>3 DEF InFlight
      <4> QED
        BY <1>2, <1>5, <3>3, <4>1
    <3> QED
      BY <3>2, <3>3
  <2> QED
    BY <2>2 DEF UsedIds
<1>8. Phase' = Phase
  <2>1. pc[Owner] \in StopPcs <=> pc'[Owner] \in StopPcs
    BY <1>1, <1>2 DEF StopPcs, Clients
  <2> QED
    BY <1>2, <2>1, PhaseKept
<1>9. CASE t.delayed
  <2>1. PushDelayed(t)
    BY <1>9 DEF PostEnqueue
  <2>2. PICK i \in 0..Len(delayedTaskQueue) : delayedTaskQueue' = InsertAt(delayedTaskQueue, i + 1, t)
    BY <2>1 DEF PushDelayed
  <2>3. ToSet(delayedTaskQueue') = ToSet(delayedTaskQueue) \cup {t}
    BY <1>1, <1>3, <2>2, InsertElements
  <2>4. TimerIds' = TimerIds \cup {id}
    BY <1>5, <2>3 DEF TimerIds, IdOf
  <2>5. UNCHANGED taskQueue
    BY <2>1 DEF PushDelayed
  <2>6. Executor!Submit(id)
    BY <1>2, <1>6, <1>7, <1>8, <2>4, <2>5 DEF Executor!Submit, UsedIds, TimerIds, IdOf
  <2> QED
    BY <2>6 DEF Executor!Next
<1>10. CASE ~t.delayed
  <2>1. taskQueue' = Append(taskQueue, t) /\ UNCHANGED delayedTaskQueue
    BY <1>10 DEF PostEnqueue, PushTask
  <2>2. Ids(taskQueue') = Append(Ids(taskQueue), id)
    BY <1>1, <1>3, <1>5, <2>1, IdsAppend
  <2>3. Executor!Submit(id)
    BY <1>2, <1>6, <1>7, <1>8, <2>1, <2>2 DEF Executor!Submit, UsedIds, Ids, IdOf
  <2> QED
    BY <2>3 DEF Executor!Next
<1> QED
  BY <1>9, <1>10
-----------------------------------------------------------------------------
(* Owner. *)

LEMMA OwnerRefines ==
    ASSUME RefineInv, OwnerStep
    PROVE  Executor!Next \/ UNCHANGED Executor!vars
<1>1. /\ pc \in [Clients -> ClientPcs] /\ Owner \in Clients /\ isRunning \in BOOLEAN /\ shouldStop \in BOOLEAN
      /\ StopInv
  BY DEF RefineInv, ControlInv, TypeOK, Clients
<1>2. ASSUME UNCHANGED <<arg, posted>>, pc[Owner] # "enqueue",
             \E p \in {"idle"} \cup StopPcs : pc' = [pc EXCEPT ![Owner] = p]
      PROVE  UsedIds' = UsedIds
  BY <1>1, <1>2, UsedKept DEF StopPcs
<1>3. CASE Start
  <2>1. Phase = "stopped" /\ Phase' = "running"
    BY <1>3 DEF Start, Phase, StopPcs, client
  <2>2. UsedIds' = UsedIds
    BY <1>3, UsedKept DEF Start, client
  <2>3. Executor!Start
    BY <1>3, <2>1, <2>2 DEF Executor!Start, UsedIds, Start, queues
  <2> QED
    BY <2>3 DEF Executor!Next
<1>4. CASE StopSignal
  <2>1. Phase = "running" /\ Phase' = "stopping"
    BY <1>1, <1>4 DEF StopSignal, Phase, StopPcs, StopInv
  <2>2. UsedIds' = UsedIds
    BY <1>2, <1>4 DEF StopSignal, StopPcs
  <2>3. Executor!RequestStop
    BY <1>4, <2>1, <2>2 DEF Executor!RequestStop, UsedIds, StopSignal, queues, worker
  <2> QED
    BY <2>3 DEF Executor!Next
<1>5. CASE StopClearRunning
  <2>1. Phase' = Phase
    BY <1>1, <1>5 DEF StopClearRunning, Phase, StopPcs, StopInv
  <2>2. UsedIds' = UsedIds
    BY <1>2, <1>5 DEF StopClearRunning, StopPcs
  <2> QED
    BY <1>5, <2>1, <2>2, Unseen DEF StopClearRunning, queues, worker, hist
<1>6. CASE StopNotify
  <2>1. Phase' = Phase
    BY <1>1, <1>6, PhaseKept DEF StopNotify, StopPcs, flags
  <2>2. UsedIds' = UsedIds
    BY <1>2, <1>6 DEF StopNotify, StopPcs
  <2> QED
    BY <1>6, <2>1, <2>2, Unseen DEF StopNotify, Notify, queues, hist
<1>7. CASE StopDrain
  <2>1. Phase = "stopping" /\ Phase' = "stopping"
    BY <1>1, <1>7 DEF StopDrain, Phase, StopPcs, StopInv, flags
  <2>2. UsedIds' = UsedIds
    BY <1>2, <1>7 DEF StopDrain, StopPcs
  <2>3. Ids(taskQueue') = <<>> /\ TimerIds' = {}
    BY <1>7 DEF StopDrain, Ids, TimerIds, ToSet
  <2>4. Executor!Discard
    BY <1>7, <2>1, <2>2, <2>3 DEF Executor!Discard, UsedIds, Ids, TimerIds, StopDrain, worker, hist
  <2> QED
    BY <2>4 DEF Executor!Next
<1>8. CASE StopJoin
  <2>1. Phase = "stopping" /\ Phase' = "stopped"
    BY <1>1, <1>8 DEF StopJoin, Phase, StopPcs, StopInv, flags
  <2>2. UsedIds' = UsedIds
    BY <1>2, <1>8 DEF StopJoin, StopPcs
  <2>3. IdOf(task) = NoTask
    BY <1>8 DEF StopJoin, RefineInv, ControlInv, TaskInv, IdOf
  <2>4. Executor!Stopped
    BY <1>8, <2>1, <2>2, <2>3 DEF Executor!Stopped, UsedIds, StopJoin, queues, worker, hist
  <2> QED
    BY <2>4 DEF Executor!Next
<1> QED
  BY <1>3, <1>4, <1>5, <1>6, <1>7, <1>8 DEF OwnerStep, StopStep
-----------------------------------------------------------------------------
(* Worker. *)

\* The executor has its own instance of FiniteSets.
LEMMA SameCardinality == \A A : Executor!Cardinality(A) = Cardinality(A)
  BY DEF Executor!Cardinality, Cardinality

\* processDelayedTasks() moves the tasks that have expired, one id each.
LEMMA PromoteRefines ==
    ASSUME RefineInv, WorkerPromote
    PROVE  Executor!Next \/ UNCHANGED Executor!vars
<1> DEFINE d == delayedTaskQueue
           moved == SubSeq(d, 1, due)
           kept  == SubSeq(d, due + 1, Len(d))
<1>1. /\ d \in Seq(Task) /\ taskQueue \in Seq(Task) /\ due \in 0..Len(d) /\ Len(d) \in Nat
      /\ InPostOrder(d) /\ \A i \in 1..Len(d) : d[i].delayed /\ d[i] \in Task
  BY DEF RefineInv, ControlInv, TypeOK, OrderInv
<1>2. /\ taskQueue' = taskQueue \o moved /\ d' = kept
      /\ UNCHANGED <<task, pc, arg, posted, isRunning, shouldStop, lateRuns>>
  BY DEF WorkerPromote, client, flags, hist
<1>3. /\ moved \in Seq(Task) /\ Len(moved) = due /\ \A i \in 1..due : moved[i] = d[i]
  BY <1>1, SliceType
<1>4. /\ kept \in Seq(Task) /\ Len(kept) = Len(d) - due
      /\ \A i \in 1..(Len(d) - due) : kept[i] = d[due + i]
  BY <1>1, SliceType
<1>5. Phase' = Phase /\ UsedIds' = UsedIds
  BY <1>2, UsedKept, PhaseKept
<1> HIDE DEF d, moved, kept
<1>6. \A i, j \in 1..Len(d) : IdOf(d[i]) = IdOf(d[j]) => i = j
  <2> SUFFICES ASSUME NEW i \in 1..Len(d), NEW j \in 1..Len(d), IdOf(d[i]) = IdOf(d[j]), i < j
               PROVE  FALSE
    BY <1>1
  <2>1. d[i].by = d[j].by /\ d[i].n = d[j].n /\ d[i].delayed = d[j].delayed
    BY <1>1, IdOfTask DEF Task
  <2>2. d[i] = d[j]
    <3>1. /\ d[i] = [by |-> d[i].by, n |-> d[i].n, delayed |-> d[i].delayed]
          /\ d[j] = [by |-> d[j].by, n |-> d[j].n, delayed |-> d[j].delayed]
      BY <1>1, TaskFields
    <3> QED
      BY <2>1, <3>1
  <2> QED
    BY <1>1, <2>2 DEF InPostOrder
<1> DEFINE S == {IdOf(d[i]) : i \in 1..due}
           order == [i \in 1..due |-> IdOf(d[i])]
<1>7. order \in Executor!Orderings(S)
  <2>1. \A i, j \in 1..due : order[i] = order[j] => i = j
    BY <1>1, <1>6
  <2>2. order \in Bijection(1..due, S)
    BY <2>1 DEF Bijection, Injection, Surjection, IsInjective
  <2>3. Cardinality(S) = due
    <3>1. IsFiniteSet(1..due) /\ Cardinality(1..due) = due
      BY <1>1, FS_Interval
    <3>2. ExistsBijection(1..due, S)
      BY <2>2 DEF ExistsBijection
    <3> QED
      BY <3>1, <3>2, FS_Bijection
  <2>4. order \in [1..due -> S]
    OBVIOUS
  <2>5. IsInjective(order)
    BY <2>1, <2>4 DEF IsInjective
  <2> HIDE DEF S, order
  <2>6. order \in [1..Cardinality(S) -> S]
    BY <2>3, <2>4
  <2> QED
    BY <2>5, <2>6, SameCardinality DEF Executor!Orderings, Executor!IsInjective, IsInjective
<1>8. Ids(taskQueue') = Ids(taskQueue) \o order
  <2>1. Ids(moved) = order
    BY <1>3 DEF Ids
  <2> QED
    BY <1>1, <1>2, <1>3, <2>1, IdsConcat
<1>9. TimerIds = {IdOf(d[i]) : i \in 1..Len(d)} /\ TimerIds' = {IdOf(d[i]) : i \in (due + 1)..Len(d)}
  <2>1. TimerIds = {IdOf(d[i]) : i \in 1..Len(d)}
    BY <1>1 DEF TimerIds, ToSet, d
  <2>2. TimerIds' = {IdOf(kept[i]) : i \in 1..(Len(d) - due)}
    BY <1>2, <1>4 DEF TimerIds, ToSet, d
  <2>3. \A i \in (due + 1)..Len(d) : i - due \in 1..(Len(d) - due) /\ kept[i - due] = d[i]
    BY <1>1, <1>4
  <2>4. \A i \in 1..(Len(d) - due) : due + i \in (due + 1)..Len(d)
    BY <1>1
  <2> QED
    BY <1>4, <2>1, <2>2, <2>3, <2>4
<1>10. TimerIds' = TimerIds \ S /\ S \subseteq TimerIds
  BY <1>1, <1>6, <1>9
<1> HIDE DEF S, order
<1>11. CASE S = {}
  <2>0. due = 0
    BY <1>1, <1>11 DEF S
  <2>1. Ids(taskQueue') = Ids(taskQueue)
    <3>1. moved = <<>>
      BY <1>3, <2>0
    <3>2. taskQueue' = taskQueue
      BY <1>1, <1>2, <3>1
    <3> QED
      BY <3>2 DEF Ids
  <2> QED
    BY <1>2, <1>5, <1>10, <1>11, <2>1 DEF Executor!vars, UsedIds, Ids, TimerIds
<1>12. CASE S # {}
  <2>1. PICK S0, order0 :
           /\ S0 # {} /\ S0 \subseteq TimerIds /\ TimerIds' = TimerIds \ S0
           /\ order0 \in Executor!Orderings(S0) /\ Ids(taskQueue') = Ids(taskQueue) \o order0
    BY <1>7, <1>8, <1>10, <1>12
  <2>2. \E A \in (SUBSET TimerIds) \ {{}} :
           /\ TimerIds' = TimerIds \ A
           /\ \E o \in Executor!Orderings(A) : Ids(taskQueue') = Ids(taskQueue) \o o
    <3>1. S0 \in (SUBSET TimerIds) \ {{}}
      BY <2>1
    <3> QED
      BY <2>1, <3>1, Zenon
  <2>3. UNCHANGED <<Phase, IdOf(task), UsedIds, lateRuns>>
    BY <1>2, <1>5
  <2>4. Executor!Mature
    BY <2>2, <2>3, Zenon DEF Executor!Mature, UsedIds, Ids, TimerIds
  <2> QED
    BY <2>4 DEF Executor!Next
<1> QED
  BY <1>11, <1>12

LEMMA TakeRefines ==
    ASSUME RefineInv, WorkerTake
    PROVE  Executor!Next \/ UNCHANGED Executor!vars
<1>1. /\ taskQueue \in Seq(Task) /\ isRunning \in BOOLEAN /\ shouldStop \in BOOLEAN
      /\ StopInv /\ LateInv /\ TaskInv /\ wpc = "take"
  BY DEF RefineInv, ControlInv, TypeOK, WorkerTake
<1>2. UNCHANGED <<delayedTaskQueue, pc, arg, posted, isRunning, shouldStop>>
  BY DEF WorkerTake, client, flags
<1>3. Phase' = Phase /\ UsedIds' = UsedIds
  BY <1>2, UsedKept, PhaseKept
<1>4. CASE taskQueue = <<>>
  <2>1. UNCHANGED <<taskQueue, task, lateRuns>>
    BY <1>4 DEF WorkerTake
  <2> QED
    BY <1>2, <1>3, <2>1, Unseen
<1>5. CASE taskQueue # <<>>
  <2>1. /\ task' = Head(taskQueue) /\ taskQueue' = Tail(taskQueue)
        /\ lateRuns' = IF shouldStop THEN lateRuns + 1 ELSE lateRuns
    BY <1>5 DEF WorkerTake
  <2>2. lateRuns = 0 /\ IdOf(task) = NoTask
    BY <1>1 DEF LateInv, TaskInv, IdOf
  <2>3. Phase \in {"running", "stopping"} /\ (Phase = "stopping" <=> shouldStop)
    BY <1>1 DEF Phase, StopInv, StopReturned, StopPcs
  <2>4. Ids(taskQueue) # <<>> /\ IdOf(task') = Head(Ids(taskQueue)) /\ Ids(taskQueue') = Tail(Ids(taskQueue))
    BY <1>1, <1>5, <2>1, IdsTail
  <2>5. lateRuns' = IF Phase = "stopping" THEN 1 ELSE 0
    BY <2>1, <2>2, <2>3
  <2>6. Phase = "running" \/ (Phase = "stopping" /\ lateRuns = 0)
    BY <2>2, <2>3
  <2>7. UNCHANGED TimerIds
    BY <1>2 DEF TimerIds
  <2>8. Executor!Begin
    BY <1>3, <2>2, <2>4, <2>5, <2>6, <2>7, Zenon DEF TimerIds, Executor!Begin, UsedIds, Ids, IdOf
  <2> QED
    BY <2>8 DEF Executor!Next
<1> QED
  BY <1>4, <1>5

LEMMA WorkerRefines ==
    ASSUME RefineInv, WorkerLoop \/ WorkerSpuriousWake \/ Expire
    PROVE  Executor!Next \/ UNCHANGED Executor!vars
<1>1. ASSUME UNCHANGED <<taskQueue, delayedTaskQueue, client, flags, lateRuns>>
      PROVE  Phase' = Phase /\ UsedIds' = UsedIds
  BY <1>1, UsedKept, PhaseKept DEF client, flags
<1>2. ASSUME UNCHANGED <<taskQueue, delayedTaskQueue, task, client, flags, lateRuns>>
      PROVE  UNCHANGED Executor!vars
  BY <1>1, <1>2, Unseen
<1>3. CASE WorkerFinish
  <2>1. UNCHANGED <<taskQueue, delayedTaskQueue, client, flags, lateRuns>>
    BY <1>3 DEF WorkerFinish, queues, hist
  <2>2. Phase' = Phase /\ UsedIds' = UsedIds
    BY <1>1, <2>1
  <2>3. wpc = "run" /\ task \in Task /\ task' = NoTask
    BY <1>3 DEF WorkerFinish, RefineInv, ControlInv, TypeOK, TaskInv
  <2>4. IdOf(task) # NoTask /\ IdOf(task') = NoTask
    BY <2>3, IdOfTask, TaskIdsAreNoTask DEF IdOf
  <2>5. UNCHANGED <<Ids(taskQueue), TimerIds>>
    BY <2>1 DEF Ids, TimerIds
  <2>6. Executor!Finish
    BY <2>1, <2>2, <2>4, <2>5, Zenon DEF Executor!Finish, UsedIds, Ids, TimerIds, IdOf
  <2> QED
    BY <2>6 DEF Executor!Next
<1>4. CASE WorkerTop \/ WorkerLock \/ WorkerCheck \/ WorkerPredicate \/ WorkerSleep
           \/ WorkerTimeout \/ WorkerRelock \/ WorkerSpuriousWake \/ Expire
  BY <1>2, <1>4 DEF WorkerTop, WorkerLock, WorkerCheck, WorkerPredicate, WorkerSleep, WorkerTimeout,
                    WorkerRelock, WorkerSpuriousWake, Expire, queues, worker, hist
<1> QED
  BY <1>3, <1>4, PromoteRefines, TakeRefines DEF WorkerLoop

-----------------------------------------------------------------------------
LEMMA StepRefines ==
    RefineInv /\ [Next]_vars => [Executor!Next]_(Executor!vars)
<1> SUFFICES ASSUME RefineInv, [Next]_vars PROVE Executor!Next \/ UNCHANGED Executor!vars
  OBVIOUS
<1>1. ASSUME NEW c \in Clients, PostNotify(c) PROVE UNCHANGED Executor!vars
  <2>1. /\ UNCHANGED <<taskQueue, delayedTaskQueue, task, lateRuns, arg, posted, isRunning, shouldStop>>
        /\ pc[c] = "notify" /\ pc' = [pc EXCEPT ![c] = "idle"] /\ pc \in [Clients -> ClientPcs]
    BY <1>1 DEF PostNotify, Notify, queues, flags, hist, RefineInv, ControlInv, TypeOK
  <2>2. \A d \in Clients : pc[d] = pc'[d] \/ (pc[d] = "notify" /\ pc'[d] = "idle")
    BY <2>1
  <2>3. UsedIds' = UsedIds
    BY <2>1, <2>2, UsedKept
  <2>4. pc[Owner] \in StopPcs <=> pc'[Owner] \in StopPcs
    BY <2>2 DEF StopPcs, Clients
  <2> QED
    BY <2>1, <2>3, <2>4, PhaseKept, Unseen
<1>2. CASE UNCHANGED vars
  <2>1. /\ UNCHANGED <<taskQueue, delayedTaskQueue, task, lateRuns, arg, posted, pc>>
        /\ UNCHANGED <<isRunning, shouldStop>>
    BY <1>2 DEF vars, queues, worker, client, flags, hist
  <2> QED
    BY <2>1, UsedKept, PhaseKept, Unseen
<1> QED
  BY <1>1, <1>2, CheckRefines, EnqueueRefines, OwnerRefines, WorkerRefines DEF Next, ClientStep

\* The worker thread implements the executor: whatever the interleaving of
\* posts, wake-ups, expiring delays, stop() and start(), each step of
\* workerThreadLoop, post() and stop() is a step of the executor that
\* IThread promises, or one its callers cannot see.
THEOREM WorkerImplementsExecutor == Spec => Executor!Spec
<1>1. Spec => [][Executor!Next]_(Executor!vars)
  BY CountAlways, StepRefines, PTL DEF Spec
<1> QED
  BY <1>1, RefineInit, PTL DEF Spec, Executor!Spec
=============================================================================
