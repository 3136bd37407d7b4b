------------------------- MODULE TaskQueueTheorems -------------------------
(***************************************************************************)
(* What the critical sections of src/task_queue.c do to the ring, for      *)
(* every capacity and whoever calls them: the lemmas that the proofs about *)
(* the queue's threads (QueueProofs) and about the server (ServerProofs)   *)
(* have in common.                                                         *)
(***************************************************************************)
EXTENDS TaskQueue, Sequences, FiniteSetTheorems, SequenceTheorems, TLAPS

-----------------------------------------------------------------------------
(* Slot arithmetic.                                                        *)

\* An index that ran at most once past the end of the ring wraps around.
LEMMA ModCases ==
    ASSUME NEW a \in Nat, a < 2 * Capacity
    PROVE  a % Capacity = IF a < Capacity THEN a ELSE a - Capacity
  BY CapacityAssumption

\* (i + 1) % capacity stays inside the ring.
LEMMA AdvanceType ==
    ASSUME NEW i \in Slots
    PROVE  Advance(i) \in Slots
  BY ModCases, CapacityAssumption DEF Advance, Slots

\* The k-th slot from head, for k up to a full lap.
LEMMA SlotType ==
    ASSUME NEW h \in Slots, NEW k \in 0..Capacity
    PROVE  /\ (h + k) % Capacity \in Slots
           /\ (h + k) % Capacity = IF h + k < Capacity THEN h + k ELSE h + k - Capacity
  <1>1. h + k \in Nat /\ h + k < 2 * Capacity
    BY CapacityAssumption DEF Slots
  <1>. QED  BY <1>1, ModCases, CapacityAssumption DEF Slots

\* A signal leaves a subset of the waiters, and at most one is gone.
LEMMA SignalledSubset ==
    ASSUME NEW W, NEW V \in Signalled(W)
    PROVE  /\ V \subseteq W
           /\ W # {} => \E w \in W : V = W \ {w}
  BY DEF Signalled

-----------------------------------------------------------------------------
(* Types.                                                                  *)

\* Storing a task keeps the queue's variables in their types.
LEMMA EnqueueType ==
    ASSUME QueueTypeOK, NEW t \in Tasks, count # Capacity, Enqueue(t)
    PROVE  /\ QueueTypeOK'
           /\ notEmpty' \subseteq notEmpty
           /\ notFull' = notFull
  <1>1. tail' \in Slots
    BY AdvanceType DEF Enqueue, QueueTypeOK
  <1>2. items' \in [Slots -> Tasks \cup {NoTask}]
    BY DEF Enqueue, QueueTypeOK
  <1>3. count' \in 0..Capacity
    BY CapacityAssumption DEF Enqueue, QueueTypeOK
  <1>4. notEmpty' \subseteq notEmpty
    BY SignalledSubset DEF Enqueue
  <1>. QED  BY <1>1, <1>2, <1>3, <1>4 DEF Enqueue, QueueTypeOK

\* task_queue_init leaves an empty, coherent ring.
LEMMA QueueInitCoherent ==
    ASSUME QueueInit
    PROVE  QueueTypeOK /\ RingCoherent /\ Contents = <<>>
  <1>1. head \in Slots /\ tail \in Slots /\ count \in 0..Capacity
    BY CapacityAssumption DEF QueueInit, Slots
  <1>2. items \in [Slots -> Tasks \cup {NoTask}] /\ shutdown \in BOOLEAN
    BY DEF QueueInit
  <1>3. 0 % Capacity = 0
    BY ModCases, CapacityAssumption
  <1>. QED  BY <1>1, <1>2, <1>3 DEF QueueInit, QueueTypeOK, RingCoherent, Contents

\* task_queue_destroy does the same.
LEMMA DestroyCoherent ==
    ASSUME Destroy
    PROVE  QueueTypeOK' /\ RingCoherent' /\ Contents' = <<>>
  <1>1. head' \in Slots /\ tail' \in Slots /\ count' \in 0..Capacity
    BY CapacityAssumption DEF Destroy, Slots
  <1>2. items' \in [Slots -> Tasks \cup {NoTask}] /\ shutdown' \in BOOLEAN
    BY DEF Destroy
  <1>3. 0 % Capacity = 0
    BY ModCases, CapacityAssumption
  <1>. QED  BY <1>1, <1>2, <1>3 DEF Destroy, QueueTypeOK, RingCoherent, Contents

\* Taking a task keeps the queue's variables in their types.
LEMMA DequeueType ==
    ASSUME QueueTypeOK, NEW c, Pop(c, "ok")
    PROVE  QueueTypeOK' /\ notEmpty' = notEmpty /\ notFull' \subseteq notFull
  <1>1. head' \in Slots
    BY AdvanceType DEF Pop, QueueTypeOK
  <1>2. count' \in 0..Capacity
    BY CapacityAssumption DEF Pop, QueueTypeOK
  <1>3. notFull' \subseteq notFull
    BY SignalledSubset DEF Pop
  <1>. QED  BY <1>1, <1>2, <1>3 DEF Pop, QueueTypeOK

-----------------------------------------------------------------------------
(* The ring.                                                               *)

\* Two tasks less than a lap apart are in different slots.
LEMMA SlotInjective ==
    ASSUME NEW h \in Slots, NEW j \in 0..(Capacity - 1), NEW k \in 0..(Capacity - 1),
           j # k
    PROVE  (h + j) % Capacity # (h + k) % Capacity
  <1>1. j \in 0..Capacity /\ k \in 0..Capacity
    BY CapacityAssumption
  <1>2. (h + j) % Capacity = IF h + j < Capacity THEN h + j ELSE h + j - Capacity
    BY <1>1, SlotType
  <1>3. (h + k) % Capacity = IF h + k < Capacity THEN h + k ELSE h + k - Capacity
    BY <1>1, SlotType
  <1>. QED  BY <1>2, <1>3, CapacityAssumption DEF Slots

\* Moving head by one shifts every position by one.
LEMMA SlotShift ==
    ASSUME NEW h \in Slots, NEW k \in 0..(Capacity - 1)
    PROVE  (Advance(h) + k) % Capacity = (h + (k + 1)) % Capacity
  <1>1. k \in 0..Capacity /\ k + 1 \in 0..Capacity /\ 1 \in 0..Capacity
    BY CapacityAssumption
  <1>2. Advance(h) = IF h + 1 < Capacity THEN h + 1 ELSE h + 1 - Capacity
    BY <1>1, SlotType DEF Advance
  <1>3. Advance(h) \in Slots
    BY AdvanceType
  <1>4. (h + (k + 1)) % Capacity
          = IF h + (k + 1) < Capacity THEN h + (k + 1) ELSE h + (k + 1) - Capacity
    BY <1>1, SlotType
  <1>5. (Advance(h) + k) % Capacity
          = IF Advance(h) + k < Capacity THEN Advance(h) + k ELSE Advance(h) + k - Capacity
    BY <1>1, <1>3, SlotType
  <1>. QED  BY <1>2, <1>3, <1>4, <1>5, CapacityAssumption DEF Slots

\* Append and Tail as functions, the form in which Contents is written.
LEMMA AppendAsFunction ==
    ASSUME NEW S, NEW s \in Seq(S), NEW e \in S
    PROVE  Append(s, e) = [k \in 1..(Len(s) + 1) |-> IF k = Len(s) + 1 THEN e ELSE s[k]]
  <1>1. /\ Append(s, e) \in Seq(S)
        /\ Len(Append(s, e)) = Len(s) + 1
        /\ \A i \in 1..Len(s) : Append(s, e)[i] = s[i]
        /\ Append(s, e)[Len(s) + 1] = e
    BY AppendProperties
  <1>2. Append(s, e) \in [1..(Len(s) + 1) -> S]
    BY <1>1, LenProperties
  <1>3. Len(s) \in Nat
    BY LenProperties
  <1>4. \A k \in 1..(Len(s) + 1) :
           Append(s, e)[k] = IF k = Len(s) + 1 THEN e ELSE s[k]
    BY <1>1, <1>3
  <1>. QED  BY <1>2, <1>4

LEMMA TailAsFunction ==
    ASSUME NEW S, NEW s \in Seq(S), s # <<>>
    PROVE  Tail(s) = [k \in 1..(Len(s) - 1) |-> s[k + 1]]
  <1>1. /\ Tail(s) \in Seq(S)
        /\ Len(Tail(s)) = Len(s) - 1
        /\ \A i \in 1..Len(Tail(s)) : Tail(s)[i] = s[i + 1]
    BY HeadTailProperties
  <1>2. Tail(s) \in [1..(Len(s) - 1) -> S]
    BY <1>1, LenProperties
  <1>. QED  BY <1>1, <1>2

\* What is queued is a sequence of count submitted tasks.
LEMMA ContentsType ==
    ASSUME QueueTypeOK, RingCoherent
    PROVE  Contents \in Seq(Tasks) /\ Len(Contents) = count
  <1>1. count \in Nat /\ head \in Nat
    BY CapacityAssumption DEF QueueTypeOK, Slots
  <1>2. ASSUME NEW k \in 1..count PROVE items[(head + k - 1) % Capacity] \in Tasks
    <2>1. k - 1 \in 0..(count - 1) /\ head + k - 1 = head + (k - 1)
      BY <1>1
    <2>. QED  BY <2>1 DEF RingCoherent
  <1>. QED  BY <1>1, <1>2 DEF Contents

\* Storing a task keeps the ring coherent and puts the task at the back.
LEMMA EnqueueEffect ==
    ASSUME QueueTypeOK, RingCoherent, NEW t \in Tasks, count # Capacity, Enqueue(t)
    PROVE  /\ RingCoherent'
           /\ Contents' = Append(Contents, t)
  <1>. DEFINE Slot(k) == (head + k) % Capacity
  <1>1. /\ head \in Slots /\ head' = head
        /\ tail \in Slots /\ tail = Slot(count)
        /\ count \in 0..(Capacity - 1) /\ count' = count + 1
        /\ items \in [Slots -> Tasks \cup {NoTask}]
        /\ items' = [items EXCEPT ![tail] = t]
    BY CapacityAssumption DEF QueueTypeOK, RingCoherent, Enqueue
  <1>2. tail' = Slot(count')
    <2>1. Advance(tail) = IF tail + 1 < Capacity THEN tail + 1 ELSE tail + 1 - Capacity
      <3>1. 1 \in 0..Capacity
        BY CapacityAssumption
      <3>. QED  BY <1>1, <3>1, SlotType DEF Advance
    <2>2. count \in 0..Capacity /\ count + 1 \in 0..Capacity
      BY <1>1, CapacityAssumption
    <2>3. Slot(count) = IF head + count < Capacity THEN head + count
                                                   ELSE head + count - Capacity
      BY <1>1, <2>2, SlotType
    <2>4. Slot(count + 1) = IF head + (count + 1) < Capacity
                              THEN head + (count + 1)
                              ELSE head + (count + 1) - Capacity
      BY <1>1, <2>2, SlotType
    <2>5. tail' = Advance(tail)
      BY DEF Enqueue
    <2>. HIDE DEF Slot
    <2>. QED  BY <1>1, <2>1, <2>3, <2>4, <2>5, CapacityAssumption DEF Slots
  <1>3. items'[Slot(count)] = t
    BY <1>1
  <1>4. ASSUME NEW k \in 0..(count - 1)
        PROVE  items'[Slot(k)] = items[Slot(k)]
    <2>1. Slot(k) # Slot(count)
      <3>1. k \in 0..(Capacity - 1) /\ k # count
        BY <1>1, CapacityAssumption
      <3>. QED  BY <1>1, <3>1, SlotInjective
    <2>2. Slot(k) \in Slots
      <3>1. k \in 0..Capacity
        BY <1>1, CapacityAssumption
      <3>. QED  BY <1>1, <3>1, SlotType
    <2>. QED  BY <1>1, <2>1, <2>2
  <1>5. \A k \in 0..(count - 1) : items[Slot(k)] \in Tasks
    BY DEF RingCoherent
  <1>6. RingCoherent'
    <2>1. ASSUME NEW k \in 0..count PROVE items'[Slot(k)] \in Tasks
      <3>1. CASE k = count
        BY <1>3, <3>1
      <3>2. CASE k # count
        <4>1. k \in 0..(count - 1)
          BY <1>1, <3>2
        <4>. QED  BY <1>4, <1>5, <4>1
      <3>. QED  BY <3>1, <3>2
    <2>. QED  BY <1>1, <1>2, <2>1 DEF RingCoherent
  <1>. HIDE DEF Slot
  <1>7. Contents = [k \in 1..count |-> items[Slot(k - 1)]]
    <2>1. \A k \in 1..count : head + k - 1 = head + (k - 1)
      BY <1>1 DEF Slots
    <2>. QED  BY <2>1 DEF Contents, Slot
  <1>8. Contents' = [k \in 1..(count + 1) |-> items'[Slot(k - 1)]]
    <2>1. \A k \in 1..(count + 1) : head + k - 1 = head + (k - 1)
      BY <1>1 DEF Slots
    <2>. QED  BY <1>1, <2>1 DEF Contents, Slot
  <1>9. Contents \in Seq(Tasks) /\ Len(Contents) = count
    BY ContentsType
  <1>10. Contents' = Append(Contents, t)
    <2>1. Append(Contents, t)
            = [k \in 1..(count + 1) |-> IF k = count + 1 THEN t ELSE Contents[k]]
      BY <1>9, AppendAsFunction
    <2>2. ASSUME NEW k \in 1..(count + 1)
          PROVE  items'[Slot(k - 1)] = IF k = count + 1 THEN t ELSE Contents[k]
      <3>1. CASE k = count + 1
        <4>1. k - 1 = count
          BY <3>1, <1>1
        <4>. QED  BY <3>1, <4>1, <1>3 DEF Slot
      <3>2. CASE k # count + 1
        <4>1. k \in 1..count /\ k - 1 \in 0..(count - 1)
          BY <3>2, <1>1
        <4>2. items'[Slot(k - 1)] = items[Slot(k - 1)]
          BY <1>4, <4>1 DEF Slot
        <4>. QED  BY <1>7, <3>2, <4>1, <4>2
      <3>. QED  BY <3>1, <3>2
    <2>. QED  BY <1>8, <2>1, <2>2
  <1>. QED  BY <1>6, <1>10

\* Taking a task keeps the ring coherent and takes the one at the front.
LEMMA DequeueEffect ==
    ASSUME QueueTypeOK, RingCoherent, NEW c, Pop(c, "ok")
    PROVE  /\ RingCoherent'
           /\ Contents # <<>>
           /\ items[head] = Head(Contents)
           /\ Contents' = Tail(Contents)
  <1>. DEFINE Slot(h, k) == (h + k) % Capacity
  <1>1. /\ head \in Slots /\ head' = Advance(head)
        /\ tail' = tail /\ tail = Slot(head, count)
        /\ count \in 1..Capacity /\ count' = count - 1
        /\ items' = items
    BY CapacityAssumption DEF QueueTypeOK, RingCoherent, Pop
  <1>2. \A k \in 0..(Capacity - 1) : Slot(head', k) = Slot(head, k + 1)
    BY <1>1, SlotShift
  <1>3. \A k \in 0..(count - 1) : items[Slot(head, k)] \in Tasks
    BY DEF RingCoherent
  <1>4. RingCoherent'
    <2>1. tail' = Slot(head', count')
      <3>1. count - 1 \in 0..(Capacity - 1) /\ (count - 1) + 1 = count
        BY <1>1, CapacityAssumption
      <3>. QED  BY <1>1, <1>2, <3>1
    <2>2. ASSUME NEW k \in 0..(count' - 1) PROVE items'[Slot(head', k)] \in Tasks
      <3>1. k \in 0..(Capacity - 1) /\ k + 1 \in 0..(count - 1)
        BY <1>1, CapacityAssumption
      <3>. QED  BY <1>1, <1>2, <1>3, <3>1
    <2>. QED  BY <2>1, <2>2 DEF RingCoherent
  <1>. HIDE DEF Slot
  <1>5. Contents = [k \in 1..count |-> items[Slot(head, k - 1)]]
    <2>1. \A k \in 1..count : head + k - 1 = head + (k - 1)
      BY <1>1 DEF Slots
    <2>. QED  BY <2>1 DEF Contents, Slot
  <1>6. Contents' = [k \in 1..(count - 1) |-> items[Slot(head', k - 1)]]
    <2>1. head' \in Slots
      BY <1>1, AdvanceType
    <2>2. \A k \in 1..(count - 1) : head' + k - 1 = head' + (k - 1)
      BY <2>1 DEF Slots
    <2>. QED  BY <1>1, <2>2 DEF Contents, Slot
  <1>7. Contents \in Seq(Tasks) /\ Len(Contents) = count
    BY ContentsType
  <1>8. items[head] = Head(Contents) /\ Contents # <<>>
    <2>1. Slot(head, 0) = head
      BY <1>1, ModCases, CapacityAssumption DEF Slots, Slot
    <2>. QED  BY <1>1, <1>5, <1>7, <2>1
  <1>9. Contents' = Tail(Contents)
    <2>1. Tail(Contents) = [k \in 1..(count - 1) |-> Contents[k + 1]]
      BY <1>7, <1>8, TailAsFunction
    <2>2. ASSUME NEW k \in 1..(count - 1)
          PROVE  items[Slot(head', k - 1)] = Contents[k + 1]
      <3>1. k - 1 \in 0..(Capacity - 1) /\ (k - 1) + 1 = k /\ (k + 1) - 1 = k
            /\ k + 1 \in 1..count
        BY <1>1, CapacityAssumption
      <3>2. Slot(head', k - 1) = Slot(head, k)
        BY <1>2, <3>1 DEF Slot
      <3>. QED  BY <1>5, <3>1, <3>2
    <2>. QED  BY <1>6, <2>1, <2>2
  <1>. QED  BY <1>4, <1>8, <1>9

\* A step that leaves the ring alone leaves the queued tasks alone.
LEMMA RingUnchanged ==
    ASSUME RingCoherent, UNCHANGED ring
    PROVE  RingCoherent' /\ Contents' = Contents
  BY DEF ring, RingCoherent, Contents
=============================================================================
