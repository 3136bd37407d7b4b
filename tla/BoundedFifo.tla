---------------------------- MODULE BoundedFifo ----------------------------
(***************************************************************************)
(* What src/task_queue.c promises its callers, without ring, mutex or      *)
(* condition variables: a bounded first-in first-out queue that can be     *)
(* closed. A closed queue refuses new tasks at once and still hands out    *)
(* every task it accepted before it tells a consumer that it is closed.    *)
(* A call that cannot complete yet is an operation that is not enabled.    *)
(***************************************************************************)
EXTENDS Integers, Sequences

CONSTANTS Tasks, NoTask, Capacity, Producers, Consumers

VARIABLES
    queue,      \* the accepted tasks that were not handed out, oldest first
    closed,     \* shutdown was called
    pstate,     \* producer -> what it is doing
    ptask,      \* producer -> the task of its last call
    result,     \* producer -> the result of its last call
    cstate,     \* consumer -> what it is doing
    got         \* consumer -> the task it is handling

vars == <<queue, closed, pstate, ptask, result, cstate, got>>
pvars == <<pstate, ptask, result>>
cvars == <<cstate, got>>

Init ==
    /\ queue = <<>>
    /\ closed = FALSE
    /\ pstate = [p \in Producers |-> "idle"]
    /\ ptask = [p \in Producers |-> NoTask]
    /\ result = [p \in Producers |-> "none"]
    /\ cstate = [c \in Consumers |-> "pop"]
    /\ got = [c \in Consumers |-> NoTask]

\* An accepted task goes to the back; a closed or a full queue says so.
Offer(t, r) ==
    \/ closed /\ r = "closed" /\ UNCHANGED queue
    \/ ~closed /\ Len(queue) = Capacity /\ r = "full" /\ UNCHANGED queue
    \/ ~closed /\ Len(queue) < Capacity /\ r = "ok" /\ queue' = Append(queue, t)

TryPushCall(p) ==
    /\ pstate[p] = "idle"
    /\ \E t \in Tasks, r \in {"ok", "full", "closed"} :
          /\ Offer(t, r)
          /\ ptask' = [ptask EXCEPT ![p] = t]
          /\ result' = [result EXCEPT ![p] = r]
    /\ UNCHANGED <<closed, pstate, cvars>>

PushCall(p) ==
    /\ pstate[p] = "idle"
    /\ pstate' = [pstate EXCEPT ![p] = "push"]
    /\ \E t \in Tasks : ptask' = [ptask EXCEPT ![p] = t]
    /\ result' = [result EXCEPT ![p] = "none"]
    /\ UNCHANGED <<queue, closed, cvars>>

PushReturn(p) ==
    /\ pstate[p] = "push"
    /\ \E r \in {"ok", "closed"} :
          /\ Offer(ptask[p], r)
          /\ result' = [result EXCEPT ![p] = r]
    /\ pstate' = [pstate EXCEPT ![p] = "idle"]
    /\ UNCHANGED <<closed, ptask, cvars>>

PopReturn(c) ==
    /\ cstate[c] = "pop"
    /\ queue # <<>>
    /\ got' = [got EXCEPT ![c] = Head(queue)]
    /\ queue' = Tail(queue)
    /\ cstate' = [cstate EXCEPT ![c] = "busy"]
    /\ UNCHANGED <<closed, pvars>>

PopClosed(c) ==
    /\ cstate[c] = "pop"
    /\ closed /\ queue = <<>>
    /\ cstate' = [cstate EXCEPT ![c] = "exited"]
    /\ UNCHANGED <<queue, closed, pvars, got>>

HandlerDone(c) ==
    /\ cstate[c] = "busy"
    /\ cstate' = [cstate EXCEPT ![c] = "pop"]
    /\ got' = [got EXCEPT ![c] = NoTask]
    /\ UNCHANGED <<queue, closed, pvars>>

Close ==
    /\ closed' = TRUE
    /\ UNCHANGED <<queue, pvars, cvars>>

Next ==
    \/ \E p \in Producers : TryPushCall(p) \/ PushCall(p) \/ PushReturn(p)
    \/ \E c \in Consumers : PopReturn(c) \/ PopClosed(c) \/ HandlerDone(c)
    \/ Close

\* The queue, not the individual caller, is what the promise of progress is
\* about: a queued task is handed to some consumer, free room is given to some
\* blocked producer, and once the queue is closed every caller returns.
Fairness ==
    /\ WF_vars(\E c \in Consumers : PopReturn(c))
    /\ WF_vars(\E p \in Producers : PushReturn(p))
    /\ \A c \in Consumers : WF_vars(PopClosed(c)) /\ WF_vars(HandlerDone(c))
    /\ \A p \in Producers : WF_vars(closed /\ PushReturn(p))

Spec == Init /\ [][Next]_vars
FairSpec == Spec /\ Fairness
=============================================================================
