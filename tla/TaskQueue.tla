----------------------------- MODULE TaskQueue -----------------------------
(***************************************************************************)
(* The bounded task queue of src/task_queue.c: a ring buffer of client     *)
(* descriptors guarded by one mutex and two condition variables.           *)
(*                                                                         *)
(* Everything a caller does between pthread_mutex_lock and the unlock (or  *)
(* the pthread_cond_wait that releases the mutex) is one atomic step here. *)
(* A condition variable is the set of threads blocked on it: a wait adds   *)
(* the caller, a signal removes one member chosen by the scheduler, and a  *)
(* removed thread has to take the mutex and test its condition again.      *)
(*                                                                         *)
(* This module holds the queue's own state and its critical sections; the  *)
(* threads that run them are in QueueClients and in Server.                *)
(***************************************************************************)
EXTENDS Integers, FiniteSets

CONSTANTS
    Tasks,      \* what a producer can submit: the client descriptors
    NoTask,     \* the content of a slot that was never written
    Capacity    \* queue_capacity

ASSUME CapacityAssumption == Capacity \in Nat \ {0}
ASSUME NoTaskAssumption == NoTask \notin Tasks

VARIABLES
    items,      \* the ring: slot number -> task
    head,       \* the slot of the oldest task
    tail,       \* the slot the next task is written to
    count,      \* number of queued tasks
    shutdown,   \* the shutdown flag
    notEmpty,   \* consumers blocked on the condition variable not_empty
    notFull     \* producers blocked on the condition variable not_full

ring == <<items, head, tail, count>>
queueVars == <<items, head, tail, count, shutdown, notEmpty, notFull>>

Slots == 0..(Capacity - 1)

\* Faulty Advance: the index is not wrapped at the end of the ring.
AdvanceUnwrapped(i) == i + 1

\* The slot after i.
Advance(i) == (i + 1) % Capacity

\* What pthread_cond_signal can leave of the threads blocked on a condition.
Signalled(waiters) ==
    IF waiters = {} THEN {{}} ELSE {waiters \ {w} : w \in waiters}

-----------------------------------------------------------------------------
\* task_queue_init
QueueInit ==
    /\ items = [i \in Slots |-> NoTask]
    /\ head = 0
    /\ tail = 0
    /\ count = 0
    /\ shutdown = FALSE
    /\ notEmpty = {}
    /\ notFull = {}

\* Faulty Enqueue: tail stays where it was.
EnqueueStuckTail(t) ==
    /\ items' = [items EXCEPT ![tail] = t]
    /\ count' = count + 1
    /\ notEmpty' \in Signalled(notEmpty)
    /\ UNCHANGED <<head, tail, shutdown, notFull>>

\* Faulty Enqueue: not_empty is not signalled.
EnqueueUnsignalled(t) ==
    /\ items' = [items EXCEPT ![tail] = t]
    /\ tail' = Advance(tail)
    /\ count' = count + 1
    /\ UNCHANGED <<head, shutdown, notEmpty, notFull>>

\* The four lines that store a task, shared by both pushes.
Enqueue(t) ==
    /\ items' = [items EXCEPT ![tail] = t]
    /\ tail' = Advance(tail)
    /\ count' = count + 1
    /\ notEmpty' \in Signalled(notEmpty)
    /\ UNCHANGED <<head, shutdown, notFull>>

\* Faulty TryPush: the shutdown flag is not looked at.
TryPushIgnoringShutdown(t, result) ==
    \/ /\ count = Capacity
       /\ result = "full"
       /\ UNCHANGED queueVars
    \/ /\ count # Capacity
       /\ result = "ok"
       /\ Enqueue(t)

\* task_queue_try_push: never waits; "closed" is -1, "full" is 1, "ok" is 0.
TryPush(t, result) ==
    \/ /\ shutdown
       /\ result = "closed"
       /\ UNCHANGED queueVars
    \/ /\ ~shutdown /\ count = Capacity
       /\ result = "full"
       /\ UNCHANGED queueVars
    \/ /\ ~shutdown /\ count # Capacity
       /\ result = "ok"
       /\ Enqueue(t)

\* One pass of task_queue_push with the mutex held. "wait" is the call of
\* pthread_cond_wait: thread p blocks, and makes another pass once it is woken.
Push(p, t, result) ==
    \/ /\ ~shutdown /\ count = Capacity
       /\ result = "wait"
       /\ notFull' = notFull \cup {p}
       /\ UNCHANGED <<ring, shutdown, notEmpty>>
    \/ /\ shutdown
       /\ result = "closed"
       /\ UNCHANGED queueVars
    \/ /\ ~shutdown /\ count # Capacity
       /\ result = "ok"
       /\ Enqueue(t)

\* Faulty Pop: producers are signalled only when the queue was full.
PopSignalsOnlyWhenFull(c, result) ==
    \/ /\ count = 0 /\ ~shutdown
       /\ result = "wait"
       /\ notEmpty' = notEmpty \cup {c}
       /\ UNCHANGED <<ring, shutdown, notFull>>
    \/ /\ shutdown /\ count = 0
       /\ result = "closed"
       /\ UNCHANGED queueVars
    \/ /\ count # 0
       /\ result = "ok"
       /\ head' = Advance(head)
       /\ count' = count - 1
       /\ notFull' \in (IF count = Capacity THEN Signalled(notFull) ELSE {notFull})
       /\ UNCHANGED <<items, tail, shutdown, notEmpty>>

\* Faulty Pop: a shut down queue is not drained.
PopDropsQueue(c, result) ==
    \/ /\ count = 0 /\ ~shutdown
       /\ result = "wait"
       /\ notEmpty' = notEmpty \cup {c}
       /\ UNCHANGED <<ring, shutdown, notFull>>
    \/ /\ shutdown
       /\ result = "closed"
       /\ UNCHANGED queueVars
    \/ /\ count # 0 /\ ~shutdown
       /\ result = "ok"
       /\ head' = Advance(head)
       /\ count' = count - 1
       /\ notFull' \in Signalled(notFull)
       /\ UNCHANGED <<items, tail, shutdown, notEmpty>>

\* One pass of task_queue_pop with the mutex held. The task handed over by an
\* "ok" pass is items[head] of the state the pass starts in.
Pop(c, result) ==
    \/ /\ count = 0 /\ ~shutdown
       /\ result = "wait"
       /\ notEmpty' = notEmpty \cup {c}
       /\ UNCHANGED <<ring, shutdown, notFull>>
    \/ /\ shutdown /\ count = 0
       /\ result = "closed"
       /\ UNCHANGED queueVars
    \/ /\ count # 0
       /\ result = "ok"
       /\ head' = Advance(head)
       /\ count' = count - 1
       /\ notFull' \in Signalled(notFull)
       /\ UNCHANGED <<items, tail, shutdown, notEmpty>>

\* Faulty Shutdown: one sleeper of each condition is woken instead of all.
ShutdownSignalsOne ==
    /\ shutdown' = TRUE
    /\ notEmpty' \in Signalled(notEmpty)
    /\ notFull' \in Signalled(notFull)
    /\ UNCHANGED ring

\* task_queue_shutdown: set the flag and broadcast both conditions.
Shutdown ==
    /\ shutdown' = TRUE
    /\ notEmpty' = {}
    /\ notFull' = {}
    /\ UNCHANGED ring

\* POSIX lets pthread_cond_wait return without a signal.
SpuriousWakeup ==
    \/ \E c \in notEmpty : /\ notEmpty' = notEmpty \ {c}
                           /\ UNCHANGED <<ring, shutdown, notFull>>
    \/ \E p \in notFull :  /\ notFull' = notFull \ {p}
                           /\ UNCHANGED <<ring, shutdown, notEmpty>>

\* task_queue_destroy: the ring is freed and the structure zeroed. The caller
\* has to know that no thread uses the queue any more.
Destroy ==
    /\ items' = [i \in Slots |-> NoTask]
    /\ head' = 0
    /\ tail' = 0
    /\ count' = 0
    /\ shutdown' = FALSE
    /\ UNCHANGED <<notEmpty, notFull>>

-----------------------------------------------------------------------------
\* The queued tasks, oldest first.
Contents == [k \in 1..count |-> items[(head + k - 1) % Capacity]]

\* The types, with head and tail inside the array and count within its size.
QueueTypeOK ==
    /\ items \in [Slots -> Tasks \cup {NoTask}]
    /\ head \in Slots
    /\ tail \in Slots
    /\ count \in 0..Capacity
    /\ shutdown \in BOOLEAN

\* The ring is coherent: tail is count slots ahead of head, and the slots in
\* between hold submitted tasks, never the leftovers of an earlier lap.
RingCoherent ==
    /\ tail = (head + count) % Capacity
    /\ \A k \in 0..(count - 1) : items[(head + k) % Capacity] \in Tasks
=============================================================================
