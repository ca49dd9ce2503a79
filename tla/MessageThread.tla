---------------------------- MODULE MessageThread ----------------------------
(***************************************************************************)
(* The shared worker thread of the engine                                  *)
(* (core/src/module/agenui_message_thread.cpp).                            *)
(*                                                                         *)
(* One object, three kinds of threads: Owner calls start() and stop()      *)
(* (ThreadManager serialises both), every client calls post() and          *)
(* postDelayed(), and Worker runs workerThreadLoop().  A task body may     *)
(* post as well, so Worker is a client while it runs a task.               *)
(*                                                                         *)
(* The atomics _isRunning and _shouldStop are read and written outside     *)
(* the mutex, one access per step.  A critical section that touches only   *)
(* the queues is one step, guarded by the mutex being free; the worker's   *)
(* critical section reads _shouldStop several times and sleeps on the      *)
(* condition variable in the middle, so it is a sequence of steps that     *)
(* hold the mutex.                                                         *)
(***************************************************************************)
EXTENDS Integers, Sequences, FiniteSets, SequencesExt

CONSTANTS
    Posters,    \* threads that only post
    Owner,      \* the thread that starts and stops the worker (it posts too)
    Worker,     \* the worker thread
    NoOne,      \* the mutex has no holder
    NoTask,     \* the worker holds no task
    Kinds,      \* subset of BOOLEAN: TRUE allows postDelayed, FALSE post
    MaxPosts,   \* bound: posts attempted by each client
    MaxStarts   \* bound: calls of start() that spawn a thread

Clients == Posters \cup {Owner, Worker}
Task    == [by : Clients, n : Nat \ {0}, delayed : BOOLEAN]

ASSUME ThreadsAssumption ==
    /\ Owner \notin Posters
    /\ Worker \notin Posters
    /\ Owner # Worker
    /\ NoOne # Worker
ASSUME TaskAssumption == NoTask \notin Task
ASSUME IdAssumption == NoTask \notin Clients \X (Nat \ {0})
ASSUME BoundsAssumption ==
    /\ Kinds \subseteq BOOLEAN
    /\ MaxPosts \in [Clients -> Nat]
    /\ MaxStarts \in Nat

VARIABLES
    isRunning,        \* _isRunning
    shouldStop,       \* _shouldStop
    taskQueue,        \* _taskQueue
    delayedTaskQueue, \* _delayedTaskQueue, earliest executeTime first
    due,              \* how many heads of delayedTaskQueue have expired
    mutex,            \* holder of _queueMutex across steps
    wpc,              \* where the worker is in workerThreadLoop
    timedOut,         \* the last return from the condition wait was a timeout
    task,             \* the worker's local `task`
    pc,               \* where each client is in post() or stop()
    arg,              \* the task a client is posting
    posted,           \* posts attempted, per client
    starts,           \* threads spawned so far
    started,          \* history: the tasks run, in the order they were begun
    lateRuns,         \* history: tasks dequeued since _shouldStop was set
    early             \* history: tasks whose post() had returned when stop() began

queues == <<taskQueue, delayedTaskQueue, due>>
worker == <<mutex, wpc, timedOut, task>>
client == <<pc, arg, posted>>
flags  == <<isRunning, shouldStop, starts>>
hist   == <<started, lateRuns, early>>
vars   == <<queues, worker, client, flags, hist>>

Critical  == {"promote", "check", "pred", "sleep", "take"}
WorkerPcs == Critical \cup {"exited", "top", "lock", "waiting", "relock", "run"}
StopPcs   == {"stop_flag", "stop_notify", "stop_drain", "stop_join"}
ClientPcs == {"idle", "enqueue", "notify"} \cup StopPcs

Queued == ToSet(taskQueue) \cup ToSet(delayedTaskQueue)

Init ==
    /\ isRunning = FALSE
    /\ shouldStop = FALSE
    /\ taskQueue = <<>>
    /\ delayedTaskQueue = <<>>
    /\ due = 0
    /\ mutex = NoOne
    /\ wpc = "exited"
    /\ timedOut = FALSE
    /\ task = NoTask
    /\ pc = [c \in Clients |-> "idle"]
    /\ arg = [c \in Clients |-> NoTask]
    /\ posted = [c \in Clients |-> 0]
    /\ starts = 0
    /\ started = <<>>
    /\ lateRuns = 0
    /\ early = {}
-----------------------------------------------------------------------------
(* Clients: post() and postDelayed(). *)

\* A thread is free to call: the worker only from inside a task body.
MayCall(c) == pc[c] = "idle" /\ (c = Worker => wpc = "run")

\* The unlocked check of _isRunning; a post to a thread that is not running
\* is ignored.
PostCheck(c) ==
    /\ MayCall(c)
    /\ posted[c] < MaxPosts[c]
    /\ posted' = [posted EXCEPT ![c] = @ + 1]
    /\ \/ /\ isRunning
          /\ \E d \in Kinds :
                arg' = [arg EXCEPT ![c] = [by |-> c, n |-> posted[c] + 1, delayed |-> d]]
          /\ pc' = [pc EXCEPT ![c] = "enqueue"]
       \/ ~isRunning /\ UNCHANGED <<arg, pc>>
    /\ UNCHANGED <<queues, worker, flags, hist>>

\* postDelayed's priority queue: the new task may land anywhere, as delays
\* are arbitrary; landing before an expired task means it has expired too.
PushDelayed(t) ==
    /\ \E i \in 0..Len(delayedTaskQueue) :
          /\ delayedTaskQueue' = InsertAt(delayedTaskQueue, i + 1, t)
          /\ due' = IF i < due THEN due + 1 ELSE due
    /\ UNCHANGED taskQueue

\* Mutant: the new task is put in front.
PushTask_Front(t) ==
    /\ taskQueue' = <<t>> \o taskQueue
    /\ UNCHANGED <<delayedTaskQueue, due>>

PushTask(t) ==
    /\ taskQueue' = Append(taskQueue, t)
    /\ UNCHANGED <<delayedTaskQueue, due>>

PostEnqueue(c) ==
    /\ pc[c] = "enqueue"
    /\ mutex = NoOne
    /\ IF arg[c].delayed THEN PushDelayed(arg[c]) ELSE PushTask(arg[c])
    /\ pc' = [pc EXCEPT ![c] = "notify"]
    /\ UNCHANGED <<arg, posted, worker, flags, hist>>

\* _condition.notify_one(): only the worker ever waits.
Notify ==
    /\ IF wpc = "waiting"
       THEN wpc' = "relock" /\ timedOut' = FALSE
       ELSE UNCHANGED <<wpc, timedOut>>
    /\ UNCHANGED <<mutex, task>>

PostNotify(c) ==
    /\ pc[c] = "notify"
    /\ Notify
    /\ pc' = [pc EXCEPT ![c] = "idle"]
    /\ UNCHANGED <<arg, posted, queues, flags, hist>>
-----------------------------------------------------------------------------
(* Owner: start() and stop(). *)

Start ==
    /\ pc[Owner] = "idle"
    /\ ~isRunning
    /\ starts < MaxStarts
    /\ shouldStop' = FALSE
    /\ isRunning' = TRUE
    /\ wpc' = "top"
    /\ starts' = starts + 1
    /\ lateRuns' = 0
    /\ UNCHANGED <<queues, mutex, timedOut, task, client, started, early>>

\* The queued tasks whose post has returned.
PostsReturned == {t \in Queued : pc[t.by] = "idle" \/ arg[t.by] # t}

StopSignal ==
    /\ pc[Owner] = "idle"
    /\ isRunning
    /\ shouldStop' = TRUE
    /\ pc' = [pc EXCEPT ![Owner] = "stop_flag"]
    /\ early' = PostsReturned
    /\ UNCHANGED <<queues, worker, arg, posted, isRunning, starts, started, lateRuns>>

StopClearRunning ==
    /\ pc[Owner] = "stop_flag"
    /\ isRunning' = FALSE
    /\ pc' = [pc EXCEPT ![Owner] = "stop_notify"]
    /\ UNCHANGED <<queues, worker, arg, posted, shouldStop, starts, hist>>

\* The wake-up is sent without holding the mutex: a worker between its
\* predicate and its sleep misses it.
StopNotify ==
    /\ pc[Owner] = "stop_notify"
    /\ Notify
    /\ pc' = [pc EXCEPT ![Owner] = "stop_drain"]
    /\ UNCHANGED <<arg, posted, queues, flags, hist>>

\* Mutant: the delayed queue is not drained.
StopDrain_ForgetsDelayed ==
    /\ pc[Owner] = "stop_drain"
    /\ mutex = NoOne
    /\ taskQueue' = <<>>
    /\ pc' = [pc EXCEPT ![Owner] = "stop_join"]
    /\ UNCHANGED <<delayedTaskQueue, due, arg, posted, worker, flags, hist>>

StopDrain ==
    /\ pc[Owner] = "stop_drain"
    /\ mutex = NoOne
    /\ taskQueue' = <<>>
    /\ delayedTaskQueue' = <<>>
    /\ due' = 0
    /\ pc' = [pc EXCEPT ![Owner] = "stop_join"]
    /\ UNCHANGED <<arg, posted, worker, flags, hist>>

\* Mutant: stop() returns without joining (detach instead of join).
StopJoin_Detach ==
    /\ pc[Owner] = "stop_join"
    /\ pc' = [pc EXCEPT ![Owner] = "idle"]
    /\ UNCHANGED <<arg, posted, queues, worker, flags, hist>>

StopJoin ==
    /\ pc[Owner] = "stop_join"
    /\ wpc = "exited"
    /\ pc' = [pc EXCEPT ![Owner] = "idle"]
    /\ UNCHANGED <<arg, posted, queues, worker, flags, hist>>
-----------------------------------------------------------------------------
(* Worker: workerThreadLoop(). *)

\* Mutant: the loop head does not look at _shouldStop.
WorkerTop_Forever ==
    /\ wpc = "top"
    /\ wpc' = "lock"
    /\ UNCHANGED <<queues, mutex, timedOut, task, client, flags, hist>>

WorkerTop ==
    /\ wpc = "top"
    /\ wpc' = IF shouldStop THEN "exited" ELSE "lock"
    /\ UNCHANGED <<queues, mutex, timedOut, task, client, flags, hist>>

WorkerLock ==
    /\ wpc = "lock"
    /\ mutex = NoOne
    /\ mutex' = Worker
    /\ wpc' = "promote"
    /\ UNCHANGED <<queues, timedOut, task, client, flags, hist>>

\* Mutant: one expired task is moved, the others are thrown away.
WorkerPromote_KeepsOne ==
    /\ wpc = "promote"
    /\ taskQueue' = taskQueue \o SubSeq(delayedTaskQueue, 1, IF due > 0 THEN 1 ELSE 0)
    /\ delayedTaskQueue' = SubSeq(delayedTaskQueue, due + 1, Len(delayedTaskQueue))
    /\ due' = 0
    /\ wpc' = "check"
    /\ UNCHANGED <<mutex, timedOut, task, client, flags, hist>>

\* Mutant: the expired tasks are moved and the next one is still taken for expired.
WorkerPromote_StaysDue ==
    /\ wpc = "promote"
    /\ taskQueue' = taskQueue \o SubSeq(delayedTaskQueue, 1, due)
    /\ delayedTaskQueue' = SubSeq(delayedTaskQueue, due + 1, Len(delayedTaskQueue))
    /\ wpc' = "check"
    /\ UNCHANGED <<due, mutex, timedOut, task, client, flags, hist>>

\* processDelayedTasks()
WorkerPromote ==
    /\ wpc = "promote"
    /\ taskQueue' = taskQueue \o SubSeq(delayedTaskQueue, 1, due)
    /\ delayedTaskQueue' = SubSeq(delayedTaskQueue, due + 1, Len(delayedTaskQueue))
    /\ due' = 0
    /\ wpc' = "check"
    /\ UNCHANGED <<mutex, timedOut, task, client, flags, hist>>

WorkerCheck ==
    /\ wpc = "check"
    /\ wpc' = IF taskQueue = <<>> /\ ~shouldStop THEN "pred" ELSE "take"
    /\ UNCHANGED <<queues, mutex, timedOut, task, client, flags, hist>>

\* The predicate of wait_for, on entry and after every wake-up; a timeout
\* ends the wait whatever the predicate says.
WorkerPredicate ==
    /\ wpc = "pred"
    /\ wpc' = IF taskQueue # <<>> \/ shouldStop \/ timedOut THEN "take" ELSE "sleep"
    /\ UNCHANGED <<queues, mutex, timedOut, task, client, flags, hist>>

WorkerSleep ==
    /\ wpc = "sleep"
    /\ mutex' = NoOne
    /\ wpc' = "waiting"
    /\ UNCHANGED <<queues, timedOut, task, client, flags, hist>>

\* Mutant: wait() in the place of wait_for().
WorkerTimeout_Never ==
    /\ wpc = "waiting"
    /\ FALSE
    /\ UNCHANGED vars

\* The wait duration elapses: 100 ms, or the time to the next delayed task.
WorkerTimeout ==
    /\ wpc = "waiting"
    /\ timedOut' = TRUE
    /\ wpc' = "relock"
    /\ UNCHANGED <<queues, mutex, task, client, flags, hist>>

WorkerSpuriousWake ==
    /\ wpc = "waiting"
    /\ wpc' = "relock"
    /\ UNCHANGED <<queues, mutex, timedOut, task, client, flags, hist>>

WorkerRelock ==
    /\ wpc = "relock"
    /\ mutex = NoOne
    /\ mutex' = Worker
    /\ wpc' = "pred"
    /\ UNCHANGED <<queues, timedOut, task, client, flags, hist>>

\* Mutant: front() without pop().
WorkerTake_NoPop ==
    /\ wpc = "take"
    /\ mutex' = NoOne
    /\ timedOut' = FALSE
    /\ \/ /\ taskQueue # <<>>
          /\ task' = Head(taskQueue)
          /\ started' = Append(started, Head(taskQueue))
          /\ lateRuns' = IF shouldStop THEN lateRuns + 1 ELSE lateRuns
          /\ wpc' = "run"
       \/ /\ taskQueue = <<>>
          /\ wpc' = IF shouldStop /\ delayedTaskQueue = <<>> THEN "exited" ELSE "top"
          /\ UNCHANGED <<task, started, lateRuns>>
    /\ UNCHANGED <<queues, client, flags, early>>

WorkerTake ==
    /\ wpc = "take"
    /\ mutex' = NoOne
    /\ timedOut' = FALSE
    /\ \/ /\ taskQueue # <<>>
          /\ task' = Head(taskQueue)
          /\ taskQueue' = Tail(taskQueue)
          /\ started' = Append(started, Head(taskQueue))
          /\ lateRuns' = IF shouldStop THEN lateRuns + 1 ELSE lateRuns
          /\ wpc' = "run"
       \/ /\ taskQueue = <<>>
          /\ wpc' = IF shouldStop /\ delayedTaskQueue = <<>> THEN "exited" ELSE "top"
          /\ UNCHANGED <<task, taskQueue, started, lateRuns>>
    /\ UNCHANGED <<delayedTaskQueue, due, client, flags, early>>

\* The task body returns; every post it made has returned too.
WorkerFinish ==
    /\ wpc = "run"
    /\ pc[Worker] = "idle"
    /\ task' = NoTask
    /\ wpc' = "top"
    /\ UNCHANGED <<queues, mutex, timedOut, client, flags, hist>>
-----------------------------------------------------------------------------
\* The steady clock passes the executeTime of the next delayed task.
Expire ==
    /\ due < Len(delayedTaskQueue)
    /\ due' = due + 1
    /\ UNCHANGED <<taskQueue, delayedTaskQueue, worker, client, flags, hist>>

ClientStep(c) == PostCheck(c) \/ PostEnqueue(c) \/ PostNotify(c)
StopStep   == StopClearRunning \/ StopNotify \/ StopDrain \/ StopJoin
OwnerStep  == Start \/ StopSignal \/ StopStep
WorkerLoop == \/ WorkerTop \/ WorkerLock \/ WorkerPromote \/ WorkerCheck
              \/ WorkerPredicate \/ WorkerSleep \/ WorkerTimeout \/ WorkerRelock
              \/ WorkerTake \/ WorkerFinish

Next == \/ \E c \in Clients : ClientStep(c)
        \/ OwnerStep
        \/ WorkerLoop
        \/ WorkerSpuriousWake
        \/ Expire

Spec == Init /\ [][Next]_vars

(* Fairness.  The operating system schedules the worker, a condition wait  *)
(* with a deadline returns, a task body returns (WorkerFinish) and so does *)
(* a post made from it, and a stop() that was called goes on.  Nothing is  *)
(* assumed of the posters, nor that anyone ever calls stop(); std::mutex   *)
(* promises no fairness, so no strong fairness is assumed of a lock.  The  *)
(* timeout is strongly fair: wait_for with a predicate keeps one absolute  *)
(* deadline over all the wake-ups of a wait, spurious ones included.       *)
Fairness ==
    /\ WF_vars(WorkerLoop)
    /\ SF_vars(WorkerTimeout)
    /\ WF_vars(PostEnqueue(Worker))
    /\ WF_vars(PostNotify(Worker))
    /\ WF_vars(PostEnqueue(Owner))
    /\ WF_vars(PostNotify(Owner))
    /\ WF_vars(StopStep)
    /\ WF_vars(Expire)

FairSpec == Spec /\ Fairness
-----------------------------------------------------------------------------
(* Type and safety. *)

\* Every variable has its type; at most the whole delayed queue has expired.
TypeOK ==
    /\ isRunning \in BOOLEAN /\ shouldStop \in BOOLEAN
    /\ taskQueue \in Seq(Task)
    /\ delayedTaskQueue \in Seq(Task)
    /\ due \in 0..Len(delayedTaskQueue)
    /\ mutex \in {Worker, NoOne}
    /\ wpc \in WorkerPcs
    /\ timedOut \in BOOLEAN
    /\ task \in Task \cup {NoTask}
    /\ pc \in [Clients -> ClientPcs]
    /\ arg \in [Clients -> Task \cup {NoTask}]
    /\ posted \in [Clients -> Nat]
    /\ starts \in Nat
    /\ started \in Seq(Task)
    /\ lateRuns \in Nat
    /\ early \subseteq Task

StopReturned == ~isRunning /\ pc[Owner] \notin StopPcs

\* Once stop() has returned the worker is gone: no task is running and none
\* will until the next start().  The race is between the join, the task in
\* progress and a wake-up the worker missed.
QuietAfterStop == StopReturned => wpc = "exited" /\ task = NoTask

\* What one client posts without a delay begins in the order it was posted,
\* and no task begins twice, whatever the other clients, the delayed tasks
\* and the stops in between do.
InPostOrder(s) ==
    \A i, j \in 1..Len(s) : i < j =>
        /\ s[i] # s[j]
        /\ s[i].by = s[j].by /\ ~s[i].delayed /\ ~s[j].delayed => s[i].n < s[j].n
SubmissionOrder == InPostOrder(started)

\* Once stop() has raised _shouldStop the worker begins at most one more
\* task, although the queue may still be full when the flag is raised.
AtMostOneLateRun == lateRuns <= 1

\* A task whose post had returned when stop() was called has begun or has
\* been dropped when stop() returns; only a post caught between its check of
\* _isRunning and its push can leave a task behind in a stopped thread.
NothingEarlyIsLeft == StopReturned => Queued \cap early = {}
-----------------------------------------------------------------------------
(* The promise of IThread, and how this thread keeps it. *)

TaskId == UNION {{c} \X (1..MaxPosts[c]) : c \in Clients}
IdOf(t) == IF t = NoTask THEN NoTask ELSE <<t.by, t.n>>
InFlight(c, n) == pc[c] = "enqueue" /\ arg[c].n = n
Phase == IF isRunning /\ ~shouldStop THEN "running"
         ELSE IF pc[Owner] \in StopPcs THEN "stopping" ELSE "stopped"

Executor == INSTANCE TaskExecutor WITH
    phase   <- Phase,
    queue   <- [i \in DOMAIN taskQueue |-> IdOf(taskQueue[i])],
    timers  <- {IdOf(t) : t \in ToSet(delayedTaskQueue)},
    current <- IdOf(task),
    used    <- {id \in TaskId : id[2] <= posted[id[1]] /\ ~InFlight(id[1], id[2])},
    late    <- lateRuns

\* Every behaviour of the worker loop is a behaviour of a serial executor.
ImplementsExecutor == Executor!FairSpec
-----------------------------------------------------------------------------
(* Liveness. *)

\* stop() returns, even if its wake-up is lost: the wait of the worker ends
\* at its deadline.
StopTerminates == pc[Owner] = "stop_flag" ~> StopReturned

\* A task in a queue, delayed or not, begins or the thread is being stopped.
AcceptedTaskBegins ==
    \A id \in TaskId :
        (\E t \in Queued : IdOf(t) = id) ~>
            (~isRunning \/ \E i \in DOMAIN started : IdOf(started[i]) = id)
=============================================================================
