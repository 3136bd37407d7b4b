---------------------------- MODULE QueueClients ----------------------------
(***************************************************************************)
(* The task queue together with threads that call it: producers that use   *)
(* the blocking and the non-blocking push in any order, consumers that run *)
(* the loop of thread_pool_worker_main, and somebody who may shut the      *)
(* queue down, at any moment and more than once (thread_pool_shutdown      *)
(* followed by thread_pool_destroy does that).                             *)
(***************************************************************************)
EXTENDS TaskQueue

CONSTANTS Producers, Consumers

ASSUME ThreadsAssumption ==
    /\ IsFiniteSet(Producers)
    /\ IsFiniteSet(Consumers)

VARIABLES
    pstate,     \* producer -> "idle", or "push" inside task_queue_push
    ptask,      \* producer -> the task argument of its last call
    result,     \* producer -> the value its last call returned
    cstate,     \* consumer -> "pop" inside task_queue_pop, "busy" in the
                \*             handler, "exited" out of the worker loop
    got         \* consumer -> the task its handler has

pvars == <<pstate, ptask, result>>
cvars == <<cstate, got>>
vars == <<queueVars, pvars, cvars>>

Init ==
    /\ QueueInit
    /\ pstate = [p \in Producers |-> "idle"]
    /\ ptask = [p \in Producers |-> NoTask]
    /\ result = [p \in Producers |-> "none"]
    /\ cstate = [c \in Consumers |-> "pop"]
    /\ got = [c \in Consumers |-> NoTask]

-----------------------------------------------------------------------------
TryPushCall(p) ==
    /\ pstate[p] = "idle"
    /\ \E t \in Tasks, r \in {"ok", "full", "closed"} :
          /\ TryPush(t, r)
          /\ ptask' = [ptask EXCEPT ![p] = t]
          /\ result' = [result EXCEPT ![p] = r]
    /\ UNCHANGED <<pstate, cvars>>

PushCall(p) ==
    /\ pstate[p] = "idle"
    /\ pstate' = [pstate EXCEPT ![p] = "push"]
    /\ \E t \in Tasks : ptask' = [ptask EXCEPT ![p] = t]
    /\ result' = [result EXCEPT ![p] = "none"]
    /\ UNCHANGED <<queueVars, cvars>>

PushWait(p) ==
    /\ pstate[p] = "push" /\ p \notin notFull
    /\ Push(p, ptask[p], "wait")
    /\ UNCHANGED <<pvars, cvars>>

PushReturn(p) ==
    /\ pstate[p] = "push" /\ p \notin notFull
    /\ \E r \in {"ok", "closed"} :
          /\ Push(p, ptask[p], r)
          /\ result' = [result EXCEPT ![p] = r]
    /\ pstate' = [pstate EXCEPT ![p] = "idle"]
    /\ UNCHANGED <<ptask, cvars>>

PopWait(c) ==
    /\ cstate[c] = "pop" /\ c \notin notEmpty
    /\ Pop(c, "wait")
    /\ UNCHANGED <<pvars, cvars>>

PopReturn(c) ==
    /\ cstate[c] = "pop" /\ c \notin notEmpty
    /\ Pop(c, "ok")
    /\ got' = [got EXCEPT ![c] = items[head]]
    /\ cstate' = [cstate EXCEPT ![c] = "busy"]
    /\ UNCHANGED pvars

\* The pop fails, so thread_pool_worker_main leaves its loop.
PopClosed(c) ==
    /\ cstate[c] = "pop" /\ c \notin notEmpty
    /\ Pop(c, "closed")
    /\ cstate' = [cstate EXCEPT ![c] = "exited"]
    /\ UNCHANGED <<pvars, got>>

\* The handler returns and the worker loop comes round.
HandlerDone(c) ==
    /\ cstate[c] = "busy"
    /\ cstate' = [cstate EXCEPT ![c] = "pop"]
    /\ got' = [got EXCEPT ![c] = NoTask]
    /\ UNCHANGED <<queueVars, pvars>>

ShutdownCall ==
    /\ Shutdown
    /\ UNCHANGED <<pvars, cvars>>

Wakeup ==
    /\ SpuriousWakeup
    /\ UNCHANGED <<pvars, cvars>>

Next ==
    \/ \E p \in Producers :
          TryPushCall(p) \/ PushCall(p) \/ PushWait(p) \/ PushReturn(p)
    \/ \E c \in Consumers :
          PopWait(c) \/ PopReturn(c) \/ PopClosed(c) \/ HandlerDone(c)
    \/ ShutdownCall
    \/ Wakeup

Spec == Init /\ [][Next]_vars

\* A thread inside a push or a pop, or in a handler, keeps running. Nobody has
\* to call push or shutdown, and no spurious wakeup is ever owed.
Fairness ==
    /\ \A p \in Producers : WF_vars(PushWait(p) \/ PushReturn(p))
    /\ \A c \in Consumers :
          /\ WF_vars(PopWait(c) \/ PopReturn(c) \/ PopClosed(c))
          /\ WF_vars(HandlerDone(c))

FairSpec == Spec /\ Fairness

-----------------------------------------------------------------------------
\* Every variable has its type, and only a thread inside a blocking call can be
\* blocked on the condition variable of that call.
TypeOK ==
    /\ QueueTypeOK
    /\ notEmpty \subseteq {c \in Consumers : cstate[c] = "pop"}
    /\ notFull \subseteq {p \in Producers : pstate[p] = "push"}
    /\ pstate \in [Producers -> {"idle", "push"}]
    /\ ptask \in [Producers -> Tasks \cup {NoTask}]
    /\ \A p \in Producers : pstate[p] = "push" => ptask[p] \in Tasks
    /\ result \in [Producers -> {"none", "ok", "full", "closed"}]
    /\ cstate \in [Consumers -> {"pop", "busy", "exited"}]
    /\ got \in [Consumers -> Tasks \cup {NoTask}]

\* Consumers in task_queue_pop that hold no place in the wait set: they take
\* the mutex and test the queue without being woken by anybody.
AwakeConsumers == {c \in Consumers : cstate[c] = "pop"} \ notEmpty
AwakeProducers == {p \in Producers : pstate[p] = "push"} \ notFull

\* No wakeup is lost in task_queue_pop: while a worker sleeps on not_empty,
\* there are at least as many awake workers on their way to the queue as there
\* are tasks in it, although a worker that was never asleep may take the task
\* a sleeper was signalled for.
NoLostTaskWakeup == notEmpty # {} => count <= Cardinality(AwakeConsumers)

\* The same for task_queue_push: while a producer sleeps on not_full, every
\* free slot has an awake producer coming for it, although task_queue_try_push
\* may take the slot first.
NoLostRoomWakeup ==
    notFull # {} => Capacity - count <= Cardinality(AwakeProducers)

\* Once task_queue_shutdown was called nobody is asleep, and nobody falls
\* asleep again: a worker or producer left behind would block its join forever.
NobodySleepsAfterShutdown == shutdown => notEmpty = {} /\ notFull = {}

-----------------------------------------------------------------------------
Fifo == INSTANCE BoundedFifo WITH queue <- Contents, closed <- shutdown

\* The ring buffer with its condition variables implements the bounded FIFO:
\* tasks leave in the order of the accepted pushes, none is lost or handed out
\* twice, and the return codes are those the abstract queue would give.
ImplementsFifo == Fifo!Spec

\* ... and it makes the progress the abstract queue promises.
ImplementsFifoProgress == Fifo!Fairness

\* After a shutdown the accepted tasks are handed out and all threads get out
\* of the queue: every worker loop ends and no push stays blocked.
ShutdownTerminates ==
    /\ \A c \in Consumers : shutdown ~> cstate[c] = "exited"
    /\ \A p \in Producers : shutdown /\ pstate[p] = "push" ~> pstate[p] = "idle"
=============================================================================
