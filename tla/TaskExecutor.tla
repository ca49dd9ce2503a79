----------------------------- MODULE TaskExecutor -----------------------------
(***************************************************************************)
(* What IThread promises its callers (core/src/module/agenui_ithread.h):   *)
(* one task at a time, in the order they were submitted, each at most      *)
(* once; none refused while the thread runs; after stop() is requested at  *)
(* most one more task begins, and none after stop() has returned.  The     *)
(* promise does not cover a task submitted after stop() was requested: it  *)
(* may stay queued for ever.                                               *)
(***************************************************************************)
EXTENDS Integers, Sequences, FiniteSets, Functions

CONSTANTS TaskId,   \* one id per post
          NoTask

VARIABLES phase,    \* "stopped", "running" or "stopping"
          queue,    \* submitted tasks not begun
          timers,   \* delayed tasks not matured
          current,  \* the task being run
          used,     \* ids submitted or refused
          late      \* tasks begun since stop() was requested

vars == <<phase, queue, timers, current, used, late>>

Init == /\ phase = "stopped"
        /\ queue = <<>>
        /\ timers = {}
        /\ current = NoTask
        /\ used = {}
        /\ late = 0

Start == /\ phase = "stopped"
         /\ phase' = "running"
         /\ late' = 0
         /\ UNCHANGED <<queue, timers, current, used>>

\* Allowed in every phase: the caller may have looked at the thread earlier.
Submit(id) == /\ id \notin used
              /\ used' = used \cup {id}
              /\ \/ queue' = Append(queue, id) /\ UNCHANGED timers
                 \/ timers' = timers \cup {id} /\ UNCHANGED queue
              /\ UNCHANGED <<phase, current, late>>

Refuse(id) == /\ phase # "running"
              /\ id \notin used
              /\ used' = used \cup {id}
              /\ UNCHANGED <<phase, queue, timers, current, late>>

Orderings(S) == {s \in [1..Cardinality(S) -> S] : IsInjective(s)}

Mature == /\ \E S \in (SUBSET timers) \ {{}} :
                /\ timers' = timers \ S
                /\ \E s \in Orderings(S) : queue' = queue \o s
          /\ UNCHANGED <<phase, current, used, late>>

Begin == /\ phase = "running" \/ (phase = "stopping" /\ late = 0)
         /\ current = NoTask
         /\ queue # <<>>
         /\ current' = Head(queue)
         /\ queue' = Tail(queue)
         /\ late' = IF phase = "stopping" THEN 1 ELSE 0
         /\ UNCHANGED <<phase, timers, used>>

Finish == /\ current # NoTask
          /\ current' = NoTask
          /\ UNCHANGED <<phase, queue, timers, used, late>>

RequestStop == /\ phase = "running"
               /\ phase' = "stopping"
               /\ UNCHANGED <<queue, timers, current, used, late>>

Discard == /\ phase = "stopping"
           /\ queue' = <<>>
           /\ timers' = {}
           /\ UNCHANGED <<phase, current, used, late>>

Stopped == /\ phase = "stopping"
           /\ current = NoTask
           /\ phase' = "stopped"
           /\ UNCHANGED <<queue, timers, current, used, late>>

Next == \/ Start \/ RequestStop \/ Discard \/ Stopped
        \/ \E id \in TaskId : Submit(id) \/ Refuse(id)
        \/ Mature \/ Begin \/ Finish

\* A submitted task is begun unless a stop intervenes, a task that began
\* ends, and a stop() that was called returns.
Fairness == WF_vars(Begin) /\ WF_vars(Finish) /\ WF_vars(Stopped)

Spec == Init /\ [][Next]_vars
FairSpec == Spec /\ Fairness
=============================================================================
