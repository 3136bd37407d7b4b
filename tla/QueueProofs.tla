---------------------------- MODULE QueueProofs ----------------------------
(***************************************************************************)
(* Proofs about the task queue of src/task_queue.c, for every capacity,    *)
(* every set of tasks and any finite number of producers and consumers.    *)
(***************************************************************************)
EXTENDS QueueClients, TaskQueueTheorems

-----------------------------------------------------------------------------
(* Type correctness.                                                       *)

LEMMA TypeStep == TypeOK /\ [Next]_vars => TypeOK'
  <1>. SUFFICES ASSUME TypeOK, [Next]_vars PROVE TypeOK'
    OBVIOUS
  <1>1. ASSUME NEW p \in Producers, TryPushCall(p) PROVE TypeOK'
    <2>. PICK t \in Tasks, r \in {"ok", "full", "closed"} :
            /\ TryPush(t, r)
            /\ ptask' = [ptask EXCEPT ![p] = t]
            /\ result' = [result EXCEPT ![p] = r]
      BY <1>1 DEF TryPushCall
    <2>1. QueueTypeOK' /\ notEmpty' \subseteq notEmpty /\ notFull' = notFull
      <3>1. CASE UNCHANGED queueVars
        BY <3>1 DEF queueVars, TypeOK, QueueTypeOK
      <3>2. CASE count # Capacity /\ Enqueue(t)
        BY <3>2, EnqueueType DEF TypeOK
      <3>. QED  BY <3>1, <3>2 DEF TryPush
    <2>. QED  BY <1>1, <2>1 DEF TryPushCall, TypeOK, cvars
  <1>2. ASSUME NEW p \in Producers, PushCall(p) PROVE TypeOK'
    BY <1>2 DEF PushCall, TypeOK, QueueTypeOK, queueVars, cvars
  <1>3. ASSUME NEW p \in Producers, PushWait(p) PROVE TypeOK'
    BY <1>3 DEF PushWait, Push, TypeOK, QueueTypeOK, ring, pvars, cvars
  <1>4. ASSUME NEW p \in Producers, PushReturn(p) PROVE TypeOK'
    <2>. PICK r \in {"ok", "closed"} :
            /\ Push(p, ptask[p], r)
            /\ result' = [result EXCEPT ![p] = r]
      BY <1>4 DEF PushReturn
    <2>1. QueueTypeOK' /\ notEmpty' \subseteq notEmpty /\ notFull' = notFull
      <3>1. CASE UNCHANGED queueVars
        BY <3>1 DEF queueVars, TypeOK, QueueTypeOK
      <3>2. CASE count # Capacity /\ Enqueue(ptask[p])
        <4>1. ptask[p] \in Tasks
          BY <1>4 DEF PushReturn, TypeOK
        <4>. QED  BY <3>2, <4>1, EnqueueType DEF TypeOK
      <3>. QED  BY <3>1, <3>2 DEF Push
    <2>. QED  BY <1>4, <2>1 DEF PushReturn, TypeOK, cvars
  <1>5. ASSUME NEW c \in Consumers, PopWait(c) PROVE TypeOK'
    BY <1>5 DEF PopWait, Pop, TypeOK, QueueTypeOK, ring, pvars, cvars
  <1>6. ASSUME NEW c \in Consumers, PopReturn(c) PROVE TypeOK'
    <2>1. QueueTypeOK' /\ notEmpty' = notEmpty /\ notFull' \subseteq notFull
      BY <1>6, DequeueType DEF PopReturn, TypeOK
    <2>2. items[head] \in Tasks \cup {NoTask}
      BY DEF TypeOK, QueueTypeOK
    <2>. QED  BY <1>6, <2>1, <2>2 DEF PopReturn, TypeOK, pvars
  <1>7. ASSUME NEW c \in Consumers, PopClosed(c) PROVE TypeOK'
    BY <1>7 DEF PopClosed, Pop, TypeOK, QueueTypeOK, queueVars, pvars
  <1>8. ASSUME NEW c \in Consumers, HandlerDone(c) PROVE TypeOK'
    BY <1>8 DEF HandlerDone, TypeOK, QueueTypeOK, queueVars, pvars
  <1>9. CASE ShutdownCall
    BY <1>9 DEF ShutdownCall, Shutdown, TypeOK, QueueTypeOK, ring, pvars, cvars
  <1>10. CASE Wakeup
    BY <1>10 DEF Wakeup, SpuriousWakeup, TypeOK, QueueTypeOK, ring, pvars, cvars
  <1>11. CASE UNCHANGED vars
    BY <1>11 DEF vars, queueVars, pvars, cvars, TypeOK, QueueTypeOK
  <1>. QED
    BY <1>1, <1>2, <1>3, <1>4, <1>5, <1>6, <1>7, <1>8, <1>9, <1>10, <1>11 DEF Next

\* Every variable keeps its type: in particular head and tail never leave the
\* ring and count never leaves 0..capacity, for every capacity.
THEOREM TypeCorrect == Spec => []TypeOK
  <1>1. Init => TypeOK
    <2>. SUFFICES ASSUME Init PROVE TypeOK
      OBVIOUS
    <2>1. QueueTypeOK
      BY QueueInitCoherent DEF Init
    <2>. QED  BY <2>1 DEF Init, QueueInit, TypeOK
  <1>. QED  BY <1>1, TypeStep, PTL DEF Spec

-----------------------------------------------------------------------------
(* The ring buffer implements the bounded FIFO.                            *)

\* Accepting a task in the ring is accepting it in the abstract queue.
LEMMA EnqueueIsOffer ==
    ASSUME TypeOK, RingCoherent, NEW t \in Tasks, ~shutdown, count # Capacity, Enqueue(t)
    PROVE  RingCoherent' /\ Fifo!Offer(t, "ok")
  <1>1. RingCoherent' /\ Contents' = Append(Contents, t) /\ Len(Contents) = count
    BY EnqueueEffect, ContentsType DEF TypeOK
  <1>2. Len(Contents) < Capacity
    BY <1>1, CapacityAssumption DEF TypeOK, QueueTypeOK
  <1>. QED  BY <1>1, <1>2 DEF Fifo!Offer

\* Every step of the threads keeps the ring coherent and is a step of the
\* abstract queue or leaves the abstract queue as it was.
LEMMA RefinementStep ==
    ASSUME TypeOK, RingCoherent, [Next]_vars
    PROVE  RingCoherent' /\ [Fifo!Next]_(Fifo!vars)
  <1>. USE DEF Fifo!cvars, Fifo!pvars, cvars, pvars
  <1>1. ASSUME NEW p \in Producers, TryPushCall(p)
        PROVE  RingCoherent' /\ Fifo!TryPushCall(p)
    <2>. PICK t \in Tasks, r \in {"ok", "full", "closed"} :
            /\ TryPush(t, r)
            /\ ptask' = [ptask EXCEPT ![p] = t]
            /\ result' = [result EXCEPT ![p] = r]
      BY <1>1 DEF TryPushCall
    <2>1. RingCoherent' /\ Fifo!Offer(t, r) /\ shutdown' = shutdown
      <3>1. CASE shutdown /\ r = "closed" /\ UNCHANGED queueVars
        BY <3>1, RingUnchanged DEF queueVars, ring, Fifo!Offer
      <3>2. CASE ~shutdown /\ count = Capacity /\ r = "full" /\ UNCHANGED queueVars
        BY <3>2, RingUnchanged, ContentsType DEF queueVars, ring, Fifo!Offer, TypeOK
      <3>3. CASE ~shutdown /\ count # Capacity /\ r = "ok" /\ Enqueue(t)
        BY <3>3, EnqueueIsOffer DEF Enqueue
      <3>. QED  BY <3>1, <3>2, <3>3 DEF TryPush
    <2>. QED  BY <1>1, <2>1 DEF TryPushCall, Fifo!TryPushCall
  <1>2. ASSUME NEW p \in Producers, PushCall(p)
        PROVE  RingCoherent' /\ Fifo!PushCall(p)
    BY <1>2, RingUnchanged DEF PushCall, Fifo!PushCall, queueVars, ring
  <1>3. ASSUME NEW p \in Producers, PushWait(p)
        PROVE  RingCoherent' /\ UNCHANGED Fifo!vars
    BY <1>3, RingUnchanged DEF PushWait, Push, ring, Fifo!vars
  <1>4. ASSUME NEW p \in Producers, PushReturn(p)
        PROVE  RingCoherent' /\ Fifo!PushReturn(p)
    <2>. PICK r \in {"ok", "closed"} :
            /\ Push(p, ptask[p], r)
            /\ result' = [result EXCEPT ![p] = r]
      BY <1>4 DEF PushReturn
    <2>1. RingCoherent' /\ Fifo!Offer(ptask[p], r) /\ shutdown' = shutdown
      <3>1. CASE shutdown /\ r = "closed" /\ UNCHANGED queueVars
        BY <3>1, RingUnchanged DEF queueVars, ring, Fifo!Offer
      <3>2. CASE ~shutdown /\ count # Capacity /\ r = "ok" /\ Enqueue(ptask[p])
        <4>1. ptask[p] \in Tasks
          BY <1>4 DEF PushReturn, TypeOK
        <4>. QED  BY <3>2, <4>1, EnqueueIsOffer DEF Enqueue
      <3>. QED  BY <3>1, <3>2 DEF Push
    <2>. QED  BY <1>4, <2>1 DEF PushReturn, Fifo!PushReturn
  <1>5. ASSUME NEW c \in Consumers, PopWait(c)
        PROVE  RingCoherent' /\ UNCHANGED Fifo!vars
    BY <1>5, RingUnchanged DEF PopWait, Pop, ring, Fifo!vars
  <1>6. ASSUME NEW c \in Consumers, PopReturn(c)
        PROVE  RingCoherent' /\ Fifo!PopReturn(c)
    <2>1. Pop(c, "ok")
      BY <1>6 DEF PopReturn
    <2>2. /\ RingCoherent'
          /\ Contents # <<>>
          /\ items[head] = Head(Contents)
          /\ Contents' = Tail(Contents)
      BY <2>1, DequeueEffect DEF TypeOK
    <2>3. shutdown' = shutdown
      BY <2>1 DEF Pop
    <2>. QED  BY <1>6, <2>2, <2>3 DEF PopReturn, Fifo!PopReturn
  <1>7. ASSUME NEW c \in Consumers, PopClosed(c)
        PROVE  RingCoherent' /\ Fifo!PopClosed(c)
    <2>1. shutdown /\ count = 0 /\ UNCHANGED queueVars
      BY <1>7 DEF PopClosed, Pop
    <2>2. Contents = <<>>
      BY <2>1, ContentsType DEF TypeOK
    <2>3. RingCoherent' /\ Contents' = Contents
      BY <2>1, RingUnchanged DEF queueVars, ring
    <2>. QED  BY <1>7, <2>1, <2>2, <2>3 DEF PopClosed, Fifo!PopClosed, queueVars
  <1>8. ASSUME NEW c \in Consumers, HandlerDone(c)
        PROVE  RingCoherent' /\ Fifo!HandlerDone(c)
    BY <1>8, RingUnchanged DEF HandlerDone, Fifo!HandlerDone, queueVars, ring
  <1>9. ASSUME ShutdownCall PROVE RingCoherent' /\ Fifo!Close
    BY <1>9, RingUnchanged DEF ShutdownCall, Shutdown, Fifo!Close
  <1>10. ASSUME Wakeup PROVE RingCoherent' /\ UNCHANGED Fifo!vars
    BY <1>10, RingUnchanged DEF Wakeup, SpuriousWakeup, ring, Fifo!vars
  <1>11. ASSUME UNCHANGED vars PROVE RingCoherent' /\ UNCHANGED Fifo!vars
    BY <1>11, RingUnchanged DEF vars, queueVars, ring, Fifo!vars
  <1>. QED
    BY <1>1, <1>2, <1>3, <1>4, <1>5, <1>6, <1>7, <1>8, <1>9, <1>10, <1>11
       DEF Next, Fifo!Next

\* The empty ring is coherent.
LEMMA RingInit == Init => RingCoherent
  BY QueueInitCoherent DEF Init

\* The ring stays coherent: tail is always count slots after head, and the slots
\* between them hold tasks that were submitted and not yet taken.
THEOREM RingIsCoherent == Spec => []RingCoherent
  <1>1. RingCoherent /\ TypeOK /\ [Next]_vars => RingCoherent'
    BY RefinementStep
  <1>. QED  BY <1>1, RingInit, TypeCorrect, PTL DEF Spec

\* The task queue implements the bounded FIFO: whatever the threads do and
\* whoever the condition variables wake, tasks leave in the order in which they
\* were accepted, none is lost or handed out twice, and no call returns a code
\* that the abstract queue would not have returned at that moment.
THEOREM QueueRefinesFifo == Spec => ImplementsFifo
  <1>1. Init => Fifo!Init
    BY DEF Init, QueueInit, Contents, Fifo!Init
  <1>2. TypeOK /\ RingCoherent /\ [Next]_vars => [Fifo!Next]_(Fifo!vars)
    BY RefinementStep
  <1>. QED  BY <1>1, <1>2, TypeCorrect, RingIsCoherent, PTL DEF Spec, ImplementsFifo, Fifo!Spec

-----------------------------------------------------------------------------
(* No wakeup is lost.                                                      *)

LEMMA AwakeFinite ==
    ASSUME NEW S \in {AwakeConsumers, AwakeProducers}
    PROVE  IsFiniteSet(S) /\ Cardinality(S) \in Nat
  <1>1. AwakeConsumers \in SUBSET Consumers /\ AwakeProducers \in SUBSET Producers
    BY DEF AwakeConsumers, AwakeProducers
  <1>2. IsFiniteSet(S)
    BY <1>1, ThreadsAssumption, FS_Subset
  <1>. QED  BY <1>2, FS_CardinalityType

\* A push wakes a sleeping consumer for the task it adds.
LEMMA EnqueueWakes ==
    ASSUME TypeOK, NoLostTaskWakeup, NEW t, Enqueue(t), cstate' = cstate
    PROVE  NoLostTaskWakeup'
  <1>. SUFFICES ASSUME notEmpty' # {}
                PROVE  count' <= Cardinality(AwakeConsumers')
    BY DEF NoLostTaskWakeup
  <1>1. notEmpty' \in Signalled(notEmpty)
    BY DEF Enqueue
  <1>2. notEmpty # {}
    BY <1>1, SignalledSubset
  <1>3. PICK w \in notEmpty : notEmpty' = notEmpty \ {w}
    BY <1>1, <1>2, SignalledSubset
  <1>4. AwakeConsumers' = AwakeConsumers \cup {w} /\ w \notin AwakeConsumers
    BY <1>3 DEF AwakeConsumers, TypeOK
  <1>5. Cardinality(AwakeConsumers') = Cardinality(AwakeConsumers) + 1
    BY <1>4, AwakeFinite, FS_AddElement
  <1>6. count <= Cardinality(AwakeConsumers) /\ count' = count + 1 /\ count \in Nat
    BY <1>2, CapacityAssumption DEF NoLostTaskWakeup, Enqueue, TypeOK, QueueTypeOK
  <1>7. Cardinality(AwakeConsumers) \in Nat
    BY AwakeFinite
  <1>. QED  BY <1>5, <1>6, <1>7

\* A pop wakes a sleeping producer for the slot it frees.
LEMMA DequeueWakes ==
    ASSUME TypeOK, NoLostRoomWakeup, NEW c, Pop(c, "ok"), pstate' = pstate
    PROVE  NoLostRoomWakeup'
  <1>. SUFFICES ASSUME notFull' # {}
                PROVE  Capacity - count' <= Cardinality(AwakeProducers')
    BY DEF NoLostRoomWakeup
  <1>1. notFull' \in Signalled(notFull)
    BY DEF Pop
  <1>2. notFull # {}
    BY <1>1, SignalledSubset
  <1>3. PICK w \in notFull : notFull' = notFull \ {w}
    BY <1>1, <1>2, SignalledSubset
  <1>4. AwakeProducers' = AwakeProducers \cup {w} /\ w \notin AwakeProducers
    BY <1>3 DEF AwakeProducers, TypeOK
  <1>5. Cardinality(AwakeProducers') = Cardinality(AwakeProducers) + 1
    BY <1>4, AwakeFinite, FS_AddElement
  <1>6. /\ Capacity - count <= Cardinality(AwakeProducers)
        /\ count' = count - 1 /\ count \in Nat /\ Capacity \in Nat
    BY <1>2, CapacityAssumption DEF NoLostRoomWakeup, Pop, TypeOK, QueueTypeOK
  <1>7. Cardinality(AwakeProducers) \in Nat
    BY AwakeFinite
  <1>. QED  BY <1>5, <1>6, <1>7

\* The inductive invariant behind the two wakeup properties: the flag matters
\* because a call that returns "closed" gives up its place without taking a
\* task or a slot, which is harmless only if nobody is asleep.
WakeupInv == NobodySleepsAfterShutdown /\ NoLostTaskWakeup /\ NoLostRoomWakeup

\* More awake threads and an unchanged queue cannot lose a wakeup.
LEMMA MoreAwake ==
    ASSUME TypeOK, TypeOK', WakeupInv, count' = count, shutdown' = shutdown,
           notEmpty' \subseteq notEmpty, notFull' \subseteq notFull,
           AwakeConsumers \subseteq AwakeConsumers',
           AwakeProducers \subseteq AwakeProducers'
    PROVE  WakeupInv'
  <1>1. IsFiniteSet(AwakeConsumers') /\ IsFiniteSet(AwakeProducers')
    <2>1. AwakeConsumers' \in SUBSET Consumers /\ AwakeProducers' \in SUBSET Producers
      BY DEF AwakeConsumers, AwakeProducers
    <2>. QED  BY <2>1, ThreadsAssumption, FS_Subset
  <1>2. /\ Cardinality(AwakeConsumers) <= Cardinality(AwakeConsumers')
        /\ Cardinality(AwakeProducers) <= Cardinality(AwakeProducers')
    BY <1>1, FS_Subset
  <1>3. /\ Cardinality(AwakeConsumers) \in Nat /\ Cardinality(AwakeConsumers') \in Nat
        /\ Cardinality(AwakeProducers) \in Nat /\ Cardinality(AwakeProducers') \in Nat
    BY <1>1, AwakeFinite, FS_CardinalityType
  <1>4. count \in Nat /\ Capacity \in Nat
    BY CapacityAssumption DEF TypeOK, QueueTypeOK
  <1>5. NobodySleepsAfterShutdown'
    BY DEF WakeupInv, NobodySleepsAfterShutdown
  <1>6. NoLostTaskWakeup'
    BY <1>2, <1>3, <1>4 DEF WakeupInv, NoLostTaskWakeup
  <1>7. NoLostRoomWakeup'
    BY <1>2, <1>3, <1>4 DEF WakeupInv, NoLostRoomWakeup
  <1>. QED  BY <1>5, <1>6, <1>7 DEF WakeupInv

LEMMA WakeupStep ==
    ASSUME TypeOK, TypeOK', WakeupInv, [Next]_vars
    PROVE  WakeupInv'
  <1>. USE DEF cvars, pvars
  <1>0. count \in Nat /\ Capacity \in Nat /\ count <= Capacity
    BY CapacityAssumption DEF TypeOK, QueueTypeOK
  <1>1. ASSUME NEW p \in Producers, TryPushCall(p) PROVE WakeupInv'
    <2>. PICK t \in Tasks, r \in {"ok", "full", "closed"} : TryPush(t, r)
      BY <1>1 DEF TryPushCall
    <2>1. CASE UNCHANGED queueVars
      BY <1>1, <2>1, MoreAwake
         DEF TryPushCall, queueVars, AwakeConsumers, AwakeProducers
    <2>2. CASE ~shutdown /\ Enqueue(t)
      <3>1. NoLostTaskWakeup'
        BY <1>1, <2>2, EnqueueWakes DEF TryPushCall, WakeupInv
      <3>2. AwakeProducers' = AwakeProducers
        BY <1>1, <2>2 DEF TryPushCall, Enqueue, AwakeProducers
      <3>3. NoLostRoomWakeup'
        <4>1. Cardinality(AwakeProducers) \in Nat
          BY AwakeFinite
        <4>. QED
          BY <1>0, <2>2, <3>2, <4>1 DEF Enqueue, WakeupInv, NoLostRoomWakeup
      <3>4. NobodySleepsAfterShutdown'
        BY <2>2 DEF Enqueue, NobodySleepsAfterShutdown
      <3>. QED  BY <3>1, <3>3, <3>4 DEF WakeupInv
    <2>. QED  BY <2>1, <2>2 DEF TryPush
  <1>2. ASSUME NEW p \in Producers, PushCall(p) PROVE WakeupInv'
    <2>1. AwakeProducers \subseteq AwakeProducers'
      BY <1>2 DEF PushCall, queueVars, AwakeProducers, TypeOK
    <2>. QED  BY <1>2, <2>1, MoreAwake DEF PushCall, queueVars, AwakeConsumers
  <1>3. ASSUME NEW p \in Producers, PushWait(p) PROVE WakeupInv'
    <2>1. /\ ~shutdown /\ shutdown' = shutdown
          /\ count = Capacity /\ count' = count
          /\ notEmpty' = notEmpty /\ cstate' = cstate
      BY <1>3 DEF PushWait, Push, ring
    <2>2. NoLostTaskWakeup'
      BY <2>1 DEF WakeupInv, NoLostTaskWakeup, AwakeConsumers
    <2>3. NoLostRoomWakeup'
      <3>1. AwakeProducers' \in SUBSET Producers
        BY DEF AwakeProducers
      <3>2. Cardinality(AwakeProducers') \in Nat
        BY <3>1, ThreadsAssumption, FS_Subset, FS_CardinalityType
      <3>. QED  BY <1>0, <2>1, <3>2 DEF NoLostRoomWakeup
    <2>. QED  BY <2>1, <2>2, <2>3 DEF WakeupInv, NobodySleepsAfterShutdown
  <1>4. ASSUME NEW p \in Producers, PushReturn(p) PROVE WakeupInv'
    <2>. PICK r \in {"ok", "closed"} : Push(p, ptask[p], r)
      BY <1>4 DEF PushReturn
    <2>1. CASE shutdown /\ UNCHANGED queueVars
      <3>1. notEmpty' = {} /\ notFull' = {}
        BY <2>1 DEF WakeupInv, NobodySleepsAfterShutdown, queueVars
      <3>. QED
        BY <3>1 DEF WakeupInv, NobodySleepsAfterShutdown, NoLostTaskWakeup, NoLostRoomWakeup
    <2>2. CASE ~shutdown /\ Enqueue(ptask[p])
      <3>1. NoLostTaskWakeup'
        BY <1>4, <2>2, EnqueueWakes DEF PushReturn, WakeupInv
      <3>2. AwakeProducers' = AwakeProducers \ {p} /\ p \in AwakeProducers
        BY <1>4, <2>2 DEF PushReturn, Enqueue, AwakeProducers, TypeOK
      <3>3. NoLostRoomWakeup'
        <4>1. Cardinality(AwakeProducers) \in Nat
          BY AwakeFinite
        <4>2. Cardinality(AwakeProducers') = Cardinality(AwakeProducers) - 1
          BY <3>2, AwakeFinite, FS_RemoveElement
        <4>. QED
          BY <1>0, <2>2, <4>1, <4>2 DEF Enqueue, WakeupInv, NoLostRoomWakeup
      <3>4. NobodySleepsAfterShutdown'
        BY <2>2 DEF Enqueue, NobodySleepsAfterShutdown
      <3>. QED  BY <3>1, <3>3, <3>4 DEF WakeupInv
    <2>. QED  BY <2>1, <2>2 DEF Push
  <1>5. ASSUME NEW c \in Consumers, PopWait(c) PROVE WakeupInv'
    <2>1. /\ ~shutdown /\ shutdown' = shutdown
          /\ count = 0 /\ count' = count
          /\ notFull' = notFull /\ pstate' = pstate
      BY <1>5 DEF PopWait, Pop, ring
    <2>2. NoLostRoomWakeup'
      BY <2>1 DEF WakeupInv, NoLostRoomWakeup, AwakeProducers
    <2>3. NoLostTaskWakeup'
      <3>1. AwakeConsumers' \in SUBSET Consumers
        BY DEF AwakeConsumers
      <3>2. Cardinality(AwakeConsumers') \in Nat
        BY <3>1, ThreadsAssumption, FS_Subset, FS_CardinalityType
      <3>. QED  BY <1>0, <2>1, <3>2 DEF NoLostTaskWakeup
    <2>. QED  BY <2>1, <2>2, <2>3 DEF WakeupInv, NobodySleepsAfterShutdown
  <1>6. ASSUME NEW c \in Consumers, PopReturn(c) PROVE WakeupInv'
    <2>1. Pop(c, "ok") /\ pstate' = pstate
      BY <1>6 DEF PopReturn
    <2>2. NoLostRoomWakeup'
      BY <2>1, DequeueWakes DEF WakeupInv
    <2>3. AwakeConsumers' = AwakeConsumers \ {c} /\ c \in AwakeConsumers
      BY <1>6 DEF PopReturn, Pop, AwakeConsumers, TypeOK
    <2>4. NoLostTaskWakeup'
      <3>1. Cardinality(AwakeConsumers) \in Nat
        BY AwakeFinite
      <3>2. Cardinality(AwakeConsumers') = Cardinality(AwakeConsumers) - 1
        BY <2>3, AwakeFinite, FS_RemoveElement
      <3>. QED
        BY <1>0, <2>1, <3>1, <3>2 DEF Pop, WakeupInv, NoLostTaskWakeup
    <2>5. NobodySleepsAfterShutdown'
      <3>1. shutdown' = shutdown /\ notEmpty' = notEmpty /\ notFull' \subseteq notFull
        BY <2>1, SignalledSubset DEF Pop
      <3>. QED  BY <3>1 DEF WakeupInv, NobodySleepsAfterShutdown
    <2>. QED  BY <2>2, <2>4, <2>5 DEF WakeupInv
  <1>7. ASSUME NEW c \in Consumers, PopClosed(c) PROVE WakeupInv'
    <2>1. notEmpty' = {} /\ notFull' = {}
      BY <1>7 DEF PopClosed, Pop, queueVars, WakeupInv, NobodySleepsAfterShutdown
    <2>. QED
      BY <2>1 DEF WakeupInv, NobodySleepsAfterShutdown, NoLostTaskWakeup, NoLostRoomWakeup
  <1>8. ASSUME NEW c \in Consumers, HandlerDone(c) PROVE WakeupInv'
    <2>1. AwakeConsumers \subseteq AwakeConsumers'
      BY <1>8 DEF HandlerDone, queueVars, AwakeConsumers, TypeOK
    <2>. QED  BY <1>8, <2>1, MoreAwake DEF HandlerDone, queueVars, AwakeProducers
  <1>9. ASSUME ShutdownCall PROVE WakeupInv'
    BY <1>9 DEF ShutdownCall, Shutdown, WakeupInv, NobodySleepsAfterShutdown,
                NoLostTaskWakeup, NoLostRoomWakeup
  <1>10. ASSUME Wakeup PROVE WakeupInv'
    <2>1. /\ notEmpty' \subseteq notEmpty /\ notFull' \subseteq notFull
          /\ count' = count /\ shutdown' = shutdown
          /\ cstate' = cstate /\ pstate' = pstate
      BY <1>10 DEF Wakeup, SpuriousWakeup, ring
    <2>. QED  BY <2>1, MoreAwake DEF AwakeConsumers, AwakeProducers
  <1>11. ASSUME UNCHANGED vars PROVE WakeupInv'
    BY <1>11, MoreAwake DEF vars, queueVars, AwakeConsumers, AwakeProducers
  <1>. QED
    BY <1>1, <1>2, <1>3, <1>4, <1>5, <1>6, <1>7, <1>8, <1>9, <1>10, <1>11 DEF Next

\* No signal of task_queue.c is lost, for any number of threads: a sleeping
\* worker always has enough awake workers ahead of it for the queued tasks, a
\* sleeping producer enough awake producers for the free slots, and after
\* task_queue_shutdown nobody sleeps at all.
THEOREM NoLostWakeup ==
    Spec => [](NoLostTaskWakeup /\ NoLostRoomWakeup /\ NobodySleepsAfterShutdown)
  <1>1. Init => WakeupInv
    BY DEF Init, QueueInit, WakeupInv, NobodySleepsAfterShutdown,
           NoLostTaskWakeup, NoLostRoomWakeup
  <1>2. TypeOK /\ TypeOK' /\ WakeupInv /\ [Next]_vars => WakeupInv'
    BY WakeupStep
  <1>3. WakeupInv => NoLostTaskWakeup /\ NoLostRoomWakeup /\ NobodySleepsAfterShutdown
    BY DEF WakeupInv
  <1>. QED  BY <1>1, <1>2, <1>3, TypeCorrect, PTL DEF Spec

\* A producer that task_queue_push put to sleep is never forgotten: while one
\* sleeps, every free slot has an awake producer on its way to it.
THEOREM NoRoomWakeupIsLost == Spec => []NoLostRoomWakeup
  BY NoLostWakeup, PTL
=============================================================================
