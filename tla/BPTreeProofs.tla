---------------------------- MODULE BPTreeProofs ----------------------------
(***************************************************************************)
(* Proofs about the B+ tree of BPTree, for every order, every set of keys, *)
(* any number of nodes and any number of insertions that fail halfway.     *)
(*                                                                         *)
(* That the pointers in the heap form a search tree is a statement about   *)
(* all paths from the root. The inductive invariant states it node by      *)
(* node instead, with a shape s that says of every node in which range its *)
(* keys are and how high it stands: s.lo, s.hi and s.ht. s.in is a set of  *)
(* nodes closed under going to a child and going to the parent.            *)
(***************************************************************************)
EXTENDS BPTree, SetInduction, SequenceTheorems, FiniteSetTheorems, FunctionTheorems, TLAPS

\* The separators q divide the range from lo to hi; the ends of part i.
Lower(lo, q, i) == IF i = 1 THEN lo ELSE q[i - 1]
Upper(hi, q, i) == IF i = Len(q) + 1 THEN hi ELSE q[i]

\* The range child i of node a has, as the keys of a divide its range.
Left(s, a, i) == Lower(s.lo[a], heap[a].keys, i)
Right(s, a, i) == Upper(s.hi[a], heap[a].keys, i)

Shape(s) ==
    /\ s.in \subseteq DOMAIN heap
    /\ s.lo \in [DOMAIN heap -> Nat]
    /\ s.hi \in [DOMAIN heap -> Nat]
    /\ s.ht \in [DOMAIN heap -> Nat]

\* The keys of node a ascend and are in its range; as separators, strictly.
Ordered(s, a) ==
    /\ \A i, j \in DOMAIN heap[a].keys : i < j => heap[a].keys[i] < heap[a].keys[j]
    /\ \A i \in DOMAIN heap[a].keys :
          /\ s.lo[a] <= heap[a].keys[i] /\ heap[a].keys[i] < s.hi[a]
          /\ ~heap[a].leaf => s.lo[a] < heap[a].keys[i]
    /\ s.hi[a] <= Above
    /\ heap[a].leaf <=> s.ht[a] = 0

\* Child i of node a knows its parent and stays within the range it has there.
ChildFits(s, a, i) ==
    LET c == heap[a].ptrs[i] IN
    /\ c \in DOMAIN heap
    /\ heap[c].parent = a
    /\ s.ht[c] + 1 = s.ht[a]
    /\ Left(s, a, i) <= s.lo[c]
    /\ s.hi[c] <= Right(s, a, i)

Sound(s) ==
    \A a \in DOMAIN heap :
        /\ Ordered(s, a)
        /\ ~heap[a].leaf => \A i \in DOMAIN heap[a].ptrs : ChildFits(s, a, i)

IsChild(a, p) == ~heap[p].leaf /\ \E i \in DOMAIN heap[p].ptrs : heap[p].ptrs[i] = a

\* The right half of a node that was split is in nobody's list yet.
Unlinked == IF pc = "parent" THEN {promo.right} ELSE {}

\* The nodes in use, from the root down and back.
Linked(s) ==
    IF root = Null
      THEN heap = <<>>
      ELSE /\ root \in s.in /\ heap[root].parent = Null
           /\ \A a \in s.in : ~heap[a].leaf =>
                 \A i \in DOMAIN heap[a].ptrs : heap[a].ptrs[i] \in s.in
           /\ \A a \in s.in \ ({root} \cup Unlinked) :
                 heap[a].parent \in s.in /\ IsChild(a, heap[a].parent)
           /\ \A a \in s.in : s.ht[a] <= s.ht[root]
           /\ s.ht[root] < Len(heap)

\* Where the operation under way is.
Underway(s) ==
    /\ pc = "idle" => node = Null /\ promo = NoPromo
    /\ pc = "descend" =>
          /\ root # Null /\ node \in s.in /\ call.op \in {"insert", "search"}
          /\ call.key \in Keys
          /\ s.lo[node] <= call.key /\ call.key < s.hi[node]
    /\ pc = "parent" =>
          /\ root # Null /\ node \in s.in /\ promo.right \in s.in /\ call.key \in Keys
          /\ promo.right # root
          /\ \A a \in DOMAIN heap : ~IsChild(promo.right, a)
          /\ promo.key \in Keys /\ s.hi[node] = promo.key /\ s.lo[promo.right] = promo.key
          /\ s.ht[promo.right] = s.ht[node]
          /\ Parent # Null =>
                \A i \in DOMAIN heap[Parent].ptrs :
                    heap[Parent].ptrs[i] = node => s.hi[promo.right] <= Right(s, Parent, i)

\* The upper end of what node a had before it was split.
Whole(s, a) == IF pc = "parent" /\ a = node THEN s.hi[promo.right] ELSE s.hi[a]

\* As long as no insertion has failed halfway, the children of a node divide its
\* range without gaps, ...
Exact(s) ==
    /\ s.in = DOMAIN heap
    /\ root # Null => s.lo[root] = 0 /\ Whole(s, root) = Above
    /\ \A a \in DOMAIN heap : ~heap[a].leaf =>
          \A i \in DOMAIN heap[a].ptrs :
              /\ s.lo[heap[a].ptrs[i]] = Left(s, a, i)
              /\ Whole(s, heap[a].ptrs[i]) = Right(s, a, i)
    /\ \A a, b \in DOMAIN heap :
          a # b /\ s.ht[a] = s.ht[b] => s.hi[a] <= s.lo[b] \/ s.hi[b] <= s.lo[a]

\* ... the leaves are chained in the order of their ranges, ...
Chained(s) ==
    \A a \in DOMAIN heap : heap[a].leaf =>
        IF heap[a].next = Null
          THEN s.hi[a] = Above
          ELSE /\ heap[a].next \in DOMAIN heap /\ heap[heap[a].next].leaf
               /\ s.lo[heap[a].next] = s.hi[a]

\* ... and hold what was inserted, with the insertion that is on its way up.
Arriving == IF pc = "parent" THEN {call.key} ELSE {}
OffsetOf(k) == IF k \in Arriving THEN call.offset ELSE stored[k]
Filled ==
    /\ count = Cardinality(DOMAIN stored)
    /\ Arriving \cap DOMAIN stored = {}
    /\ \A a \in DOMAIN heap : heap[a].leaf =>
          \A i \in DOMAIN heap[a].keys :
              /\ heap[a].keys[i] \in DOMAIN stored \cup Arriving
              /\ heap[a].ptrs[i] = OffsetOf(heap[a].keys[i])
    /\ \A k \in DOMAIN stored \cup Arriving :
          \E a \in DOMAIN heap : heap[a].leaf /\ \E i \in DOMAIN heap[a].keys : heap[a].keys[i] = k

Tree(s) ==
    /\ Shape(s) /\ Sound(s) /\ Linked(s) /\ Underway(s)
    /\ failures = 0 => Exact(s) /\ Chained(s) /\ Filled

HasTree == \E s : Tree(s)

IInv == TypeOK /\ HasTree

-----------------------------------------------------------------------------
(* The operators the model is built from.                                  *)

LEMMA LeastOf ==
    ASSUME NEW S, S \subseteq Nat, S # {}
    PROVE  Min(S) \in S /\ \A y \in S : Min(S) <= y
  <1>1. \E x \in S : \A y \in S : x <= y
    BY NatMin
  <1>. QED
    BY <1>1 DEF Min

LEMMA KeysAreNat == Keys \subseteq Nat /\ 0 \notin Keys
  BY KeysAssumption

\* A finite set of keys has a largest one.
LEMMA AboveAll ==
    Above \in Nat /\ \A k \in Keys : k \in Nat \ {0} /\ k < Above
  <1>1. PICK q \in Seq(Keys) : \A k \in Keys : \E n \in 1..Len(q) : q[n] = k
    BY KeysAssumption DEF IsFiniteSet
  <1>0. \A i \in 1..Len(q) : q[i] \in Keys
    BY ElementOfSeq
  <1>2. Len(q) \in Nat /\ \A i \in 1..Len(q) : q[i] \in Nat
    <2>1. Len(q) \in Nat
      OBVIOUS
    <2>. QED
      BY <1>0, <2>1, KeysAreNat
  <1>. DEFINE Bounded(n) == \E b \in Nat : \A i \in 1..Len(q) : i <= n => q[i] <= b
              B == {n \in Nat : Bounded(n)}
  <1>3. 0 \in B
    BY <1>2
  <1>4. ASSUME NEW n \in Nat, n \in B PROVE n + 1 \in B
    <2>1. PICK b \in Nat : \A i \in 1..Len(q) : i <= n => q[i] <= b
      BY <1>4
    <2>2. CASE n + 1 \in 1..Len(q)
      <3>1. q[n + 1] \in Nat
        BY <1>2, <2>2
      <3>2. PICK c \in Nat : b <= c /\ q[n + 1] <= c
        <4>1. b + q[n + 1] \in Nat /\ b <= b + q[n + 1] /\ q[n + 1] <= b + q[n + 1]
          BY <3>1
        <4>. QED
          BY <4>1
      <3>3. \A i \in 1..Len(q) : i <= n + 1 => q[i] <= c
        BY <1>2, <2>1, <3>2
      <3>. QED
        BY <3>3
    <2>3. CASE n + 1 \notin 1..Len(q)
      <3>1. \A i \in 1..Len(q) : i <= n + 1 => q[i] <= b
        BY <1>2, <2>1, <2>3
      <3>. QED
        BY <3>1
    <2>. QED
      BY <2>2, <2>3
  <1>5. Nat \subseteq B
    <2>. HIDE DEF B
    <2>. QED
      BY <1>3, <1>4, NatInductive
  <1>6. PICK b \in Nat : \A i \in 1..Len(q) : i <= Len(q) => q[i] <= b
    BY <1>2, <1>5
  <1>7. Keys \subseteq Nat /\ Keys # {} /\ \A k \in Keys : k <= b
    BY <1>1, <1>2, <1>6, KeysAssumption
  <1>8. \E x \in Keys : \A y \in Keys : x >= y
    BY <1>7, NatMax
  <1>9. Max(Keys) \in Keys /\ \A y \in Keys : Max(Keys) >= y
    BY <1>8 DEF Max
  <1>10. PICK m \in Keys : m = Max(Keys) /\ \A y \in Keys : m >= y
    BY <1>9
  <1>11. Above = m + 1
    BY <1>10 DEF Above
  <1>12. m \in Nat /\ \A k \in Keys : k \in Nat \ {0}
    BY <1>10, KeysAreNat
  <1>. QED
    BY <1>10, <1>11, <1>12

LEMMA HalfOf ==
    /\ Order \in Nat /\ Order \div 2 \in Nat
    /\ 1 <= Order \div 2 /\ Order \div 2 + 2 <= Order
    /\ MaxKeys = Order - 1
  BY OrderAssumption DEF MaxKeys

LEMMA PartOf ==
    ASSUME NEW S, NEW q \in Seq(S), NEW m \in Nat \ {0}, NEW n \in Nat, m <= n + 1, n <= Len(q)
    PROVE  /\ SubSeq(q, m, n) \in Seq(S) /\ Len(SubSeq(q, m, n)) = n - m + 1
           /\ \A i \in 1..(n - m + 1) : SubSeq(q, m, n)[i] = q[m + i - 1]
  <1>1. \A i \in m..n : q[i] \in S
    BY ElementOfSeq
  <1>. QED
    BY <1>1, SubSeqProperties

LEMMA Inserted ==
    ASSUME NEW S, NEW q \in Seq(S), NEW p \in 1..(Len(q) + 1), NEW e \in S
    PROVE  /\ InsertAt(q, p, e) \in Seq(S) /\ Len(InsertAt(q, p, e)) = Len(q) + 1
           /\ \A i \in 1..(Len(q) + 1) :
                 InsertAt(q, p, e)[i] = IF i < p THEN q[i] ELSE IF i = p THEN e ELSE q[i - 1]
  <1>. DEFINE front == SubSeq(q, 1, p - 1)
              back == SubSeq(q, p, Len(q))
  <1>1. Len(q) \in Nat /\ p \in Nat \ {0} /\ p - 1 \in Nat
    OBVIOUS
  <1>2. /\ front \in Seq(S) /\ Len(front) = p - 1
        /\ \A i \in 1..(p - 1) : front[i] = q[i]
    BY <1>1, PartOf
  <1>3. /\ back \in Seq(S) /\ Len(back) = Len(q) - p + 1
        /\ \A i \in 1..(Len(q) - p + 1) : back[i] = q[p + i - 1]
    BY <1>1, PartOf
  <1>. HIDE DEF front, back
  <1>4. <<e>> \in Seq(S) /\ Len(<<e>>) = 1 /\ <<e>>[1] = e
    OBVIOUS
  <1>. DEFINE left == front \o <<e>>
              whole == left \o back
  <1>5. left \in Seq(S) /\ Len(left) = p
    BY <1>1, <1>2, <1>4, ConcatProperties
  <1>6. \A i \in 1..p : left[i] = IF i < p THEN q[i] ELSE e
    <2>1. \A i \in 1..(Len(front) + Len(<<e>>)) :
            left[i] = IF i <= Len(front) THEN front[i] ELSE <<e>>[i - Len(front)]
      BY <1>2, <1>4, ConcatProperties
    <2>. QED
      BY <1>1, <1>2, <1>4, <2>1
  <1>. HIDE DEF left
  <1>7. whole \in Seq(S) /\ Len(whole) = Len(q) + 1
    <2>1. whole \in Seq(S) /\ Len(whole) = Len(left) + Len(back)
      BY <1>3, <1>5, ConcatProperties
    <2>. QED
      BY <1>1, <1>3, <1>5, <2>1
  <1>8. \A i \in 1..(Len(left) + Len(back)) :
          whole[i] = IF i <= Len(left) THEN left[i] ELSE back[i - Len(left)]
    BY <1>3, <1>5, ConcatProperties
  <1>9. InsertAt(q, p, e) = whole
    BY DEF InsertAt, front, back, left
  <1>. HIDE DEF whole
  <1>10. ASSUME NEW i \in 1..(Len(q) + 1)
         PROVE  whole[i] = IF i < p THEN q[i] ELSE IF i = p THEN e ELSE q[i - 1]
    <2>1. i <= p => whole[i] = left[i]
      BY <1>1, <1>3, <1>5, <1>8
    <2>2. i > p => i - p \in 1..(Len(q) - p + 1) /\ whole[i] = back[i - p]
      BY <1>1, <1>3, <1>5, <1>8
    <2>3. i > p => back[i - p] = q[p + (i - p) - 1] /\ p + (i - p) - 1 = i - 1
      BY <1>1, <1>3, <2>2
    <2>. QED
      BY <1>1, <1>6, <2>1, <2>2, <2>3
  <1>. QED
    BY <1>7, <1>9, <1>10

Ascending(q) == \A i, j \in DOMAIN q : i < j => q[i] < q[j]

\* A number put at its place among ascending ones.
LEMMA InsertedAscending ==
    ASSUME NEW q \in Seq(Nat), Ascending(q), NEW p \in 1..(Len(q) + 1), NEW e \in Nat,
           p > 1 => q[p - 1] < e, p <= Len(q) => e < q[p]
    PROVE  Ascending(InsertAt(q, p, e))
  <1>. DEFINE w == InsertAt(q, p, e)
  <1>1. /\ w \in Seq(Nat) /\ Len(w) = Len(q) + 1
        /\ \A i \in 1..(Len(q) + 1) : w[i] = IF i < p THEN q[i] ELSE IF i = p THEN e ELSE q[i - 1]
    BY Inserted
  <1>0. Len(q) \in Nat /\ DOMAIN q = 1..Len(q) /\ \A i \in 1..Len(q) : q[i] \in Nat
    BY ElementOfSeq
  <1>3. \A i, j \in 1..Len(q) : i < j => q[i] < q[j]
    BY <1>0 DEF Ascending
  <1>2. ASSUME NEW i \in 1..Len(q)
        PROVE  q[i] \in Nat /\ (i < p => q[i] < e) /\ (i >= p => e < q[i])
    <2>1. i < p => i <= p - 1 /\ p - 1 \in 1..Len(q)
      BY <1>0
    <2>2. i < p => q[i] <= q[p - 1]
      BY <1>0, <1>3, <2>1
    <2>3. i >= p => p \in 1..Len(q) /\ (p = i \/ p < i)
      BY <1>0
    <2>4. i >= p => q[p] <= q[i]
      BY <1>0, <1>3, <2>3
    <2>. QED
      BY <1>0, <2>1, <2>2, <2>3, <2>4
  <1>. HIDE DEF w
  <1>. SUFFICES ASSUME NEW i \in 1..(Len(q) + 1), NEW j \in 1..(Len(q) + 1), i < j
                 PROVE  w[i] < w[j]
    BY <1>1 DEF Ascending, w
  <1>4. CASE j < p
    BY <1>0, <1>1, <1>3, <1>4
  <1>5. CASE j = p
    BY <1>0, <1>1, <1>2, <1>5
  <1>6. CASE j > p
    <2>1. j - 1 \in 1..Len(q) /\ w[j] = q[j - 1] /\ j - 1 >= p
      BY <1>0, <1>1, <1>6
    <2>4. e < q[j - 1] /\ q[j - 1] \in Nat
      BY <1>2, <2>1
    <2>5. i < p => i \in 1..Len(q) /\ w[i] = q[i] /\ q[i] < e /\ q[i] \in Nat
      BY <1>0, <1>1, <1>2
    <2>6. i = p => w[i] = e
      BY <1>1
    <2>2. i <= p => w[i] < w[j]
      BY <1>0, <2>1, <2>4, <2>5, <2>6
    <2>3. i > p => i - 1 \in 1..Len(q) /\ w[i] = q[i - 1] /\ i - 1 < j - 1
      BY <1>0, <1>1
    <2>7. i > p => q[i - 1] < q[j - 1]
      BY <1>3, <2>1, <2>3
    <2>. QED
      BY <1>0, <2>1, <2>2, <2>3, <2>7
  <1>. QED
    BY <1>4, <1>5, <1>6

LEMMA PartAscending ==
    ASSUME NEW q \in Seq(Nat), Ascending(q), NEW m \in Nat \ {0}, NEW n \in Nat,
           m <= n + 1, n <= Len(q)
    PROVE  Ascending(SubSeq(q, m, n))
  <1>1. /\ SubSeq(q, m, n) \in Seq(Nat) /\ Len(SubSeq(q, m, n)) = n - m + 1
        /\ \A i \in 1..(n - m + 1) : SubSeq(q, m, n)[i] = q[m + i - 1]
    BY PartOf
  <1>2. DOMAIN SubSeq(q, m, n) = 1..(n - m + 1) /\ DOMAIN q = 1..Len(q)
    BY <1>1
  <1>3. \A i \in 1..(n - m + 1) : m + i - 1 \in 1..Len(q)
    OBVIOUS
  <1>4. \A i, j \in 1..(n - m + 1) : i < j => m + i - 1 < m + j - 1
    OBVIOUS
  <1>. QED
    BY <1>1, <1>2, <1>3, <1>4 DEF Ascending

\* Where find_leaf_node and insert_into_leaf look for a key.
LEMMA LeafIndexIs ==
    ASSUME NEW q \in Seq(Nat), Ascending(q), NEW k \in Nat
    PROVE  LET p == LeafIndex(q, k) IN
           /\ p \in 1..(Len(q) + 1)
           /\ \A i \in DOMAIN q : (i < p => q[i] < k) /\ (i >= p => q[i] >= k)
  <1>. DEFINE S == {i \in DOMAIN q : q[i] >= k} \cup {Len(q) + 1}
  <1>1. S \subseteq Nat /\ S # {} /\ DOMAIN q = 1..Len(q) /\ Len(q) \in Nat
    OBVIOUS
  <1>2. LeafIndex(q, k) \in S /\ \A y \in S : LeafIndex(q, k) <= y
    BY <1>1, LeastOf DEF LeafIndex
  <1>3. \A i \in DOMAIN q : q[i] \in Nat
    BY ElementOfSeq
  <1>. QED
    BY <1>1, <1>2, <1>3, SMTT(30) DEF Ascending

LEMMA ChildIndexIs ==
    ASSUME NEW q \in Seq(Nat), Ascending(q), NEW k \in Nat
    PROVE  LET p == ChildIndex(q, k) IN
           /\ p \in 1..(Len(q) + 1)
           /\ p > 1 => q[p - 1] <= k
           /\ p <= Len(q) => k < q[p]
  <1>. DEFINE S == {i \in DOMAIN q : k < q[i]} \cup {Len(q) + 1}
  <1>1. S \subseteq Nat /\ S # {} /\ DOMAIN q = 1..Len(q) /\ Len(q) \in Nat
    OBVIOUS
  <1>2. ChildIndex(q, k) \in S /\ \A y \in S : ChildIndex(q, k) <= y
    BY <1>1, LeastOf DEF ChildIndex
  <1>3. \A i \in DOMAIN q : q[i] \in Nat
    BY ElementOfSeq
  <1>. QED
    BY <1>1, <1>2, <1>3, SMTT(30)

\* Where insert_into_parent finds the node that was split.
LEMMA PositionIs ==
    ASSUME NEW p, NEW c, heap[p].ptrs \in Seq(Nat), \E i \in DOMAIN heap[p].ptrs : heap[p].ptrs[i] = c
    PROVE  Position(p, c) \in DOMAIN heap[p].ptrs /\ heap[p].ptrs[Position(p, c)] = c
  <1>. DEFINE S == {i \in DOMAIN heap[p].ptrs : heap[p].ptrs[i] = c}
  <1>1. S \subseteq Nat /\ S # {}
    OBVIOUS
  <1>2. Min(S) \in S
    BY <1>1, LeastOf
  <1>. QED
    BY <1>2 DEF Position

-----------------------------------------------------------------------------
(* Types.                                                                  *)

LEMMA NodeIs ==
    ASSUME TypeOK, NEW a \in DOMAIN heap
    PROVE  /\ heap[a] \in Node /\ heap[a].leaf \in BOOLEAN
           /\ heap[a].keys \in Seq(Keys) /\ heap[a].keys \in Seq(Nat) /\ heap[a].ptrs \in Seq(Nat)
           /\ heap[a].parent \in Nat /\ heap[a].next \in Nat
           /\ DOMAIN heap[a].keys = 1..Len(heap[a].keys) /\ Len(heap[a].keys) \in 1..MaxKeys
           /\ DOMAIN heap[a].ptrs = 1..Len(heap[a].ptrs) /\ Len(heap[a].ptrs) \in Nat
           /\ Len(heap[a].ptrs) = IF heap[a].leaf THEN Len(heap[a].keys) ELSE Len(heap[a].keys) + 1
           /\ \A i \in 1..Len(heap[a].keys) : heap[a].keys[i] \in Keys /\ heap[a].keys[i] \in Nat
  <1>1. heap[a] \in Node
    BY ElementOfSeq DEF TypeOK
  <1>2. /\ heap[a].leaf \in BOOLEAN /\ heap[a].keys \in Seq(Keys) /\ heap[a].ptrs \in Seq(Nat)
        /\ heap[a].parent \in Nat /\ heap[a].next \in Nat
    BY <1>1 DEF Node
  <1>3. heap[a].keys \in Seq(Nat)
    BY <1>2, KeysAreNat, SeqMonotonic
  <1>4. \A i \in 1..Len(heap[a].keys) : heap[a].keys[i] \in Keys /\ heap[a].keys[i] \in Nat
    BY <1>2, KeysAreNat, ElementOfSeq
  <1>5. /\ Len(heap[a].keys) \in 1..MaxKeys
        /\ Len(heap[a].ptrs) = IF heap[a].leaf THEN Len(heap[a].keys) ELSE Len(heap[a].keys) + 1
    BY DEF TypeOK
  <1>6. /\ DOMAIN heap[a].keys = 1..Len(heap[a].keys)
        /\ DOMAIN heap[a].ptrs = 1..Len(heap[a].ptrs) /\ Len(heap[a].ptrs) \in Nat
    BY <1>2, LenProperties
  <1>. QED
    BY <1>1, <1>2, <1>3, <1>4, <1>5, <1>6

LEMMA HeapIs ==
    ASSUME TypeOK
    PROVE  heap \in Seq(Node) /\ Len(heap) \in Nat /\ DOMAIN heap = 1..Len(heap)
  BY LenProperties DEF TypeOK

\* A node with another list of keys, and so on, is a node.
LEMMA LeafType ==
    ASSUME NEW k \in Seq(Keys), NEW o \in Seq(Nat), NEW p \in Nat, NEW n \in Nat
    PROVE  Leaf(k, o, p, n) \in Node
  BY DEF Leaf, Node

LEMMA InternalType ==
    ASSUME NEW k \in Seq(Keys), NEW c \in Seq(Nat), NEW p \in Nat
    PROVE  Internal(k, c, p) \in Node
  BY DEF Internal, Node, Null

LEMMA Appended ==
    ASSUME NEW S, NEW q \in Seq(S), NEW e \in S
    PROVE  /\ Append(q, e) \in Seq(S) /\ Len(Append(q, e)) = Len(q) + 1
           /\ DOMAIN Append(q, e) = 1..(Len(q) + 1) /\ Len(q) \in Nat
           /\ \A i \in 1..Len(q) : Append(q, e)[i] = q[i]
           /\ Append(q, e)[Len(q) + 1] = e
  BY AppendProperties, LenProperties

\* The keys of a leaf, with the new one in its place, and their offsets.
LEMMA WideLeaf ==
    ASSUME NEW s, TypeOK, Tree(s), AtLeaf("insert"), ~Holds(heap[node], call.key)
    PROVE  LET n == Len(heap[node].keys) IN
           /\ node \in DOMAIN heap /\ heap[node].leaf /\ call.key \in Keys /\ call.offset \in Nat
           /\ LeafKeys \in Seq(Keys) /\ Len(LeafKeys) = n + 1 /\ Ascending(LeafKeys)
           /\ LeafOffsets \in Seq(Nat) /\ Len(LeafOffsets) = n + 1
           /\ \A i \in 1..(n + 1) : s.lo[node] <= LeafKeys[i] /\ LeafKeys[i] < s.hi[node]
           /\ \A i \in 1..(n + 1) :
                 \/ LeafKeys[i] = call.key /\ LeafOffsets[i] = call.offset
                 \/ \E j \in 1..n : LeafKeys[i] = heap[node].keys[j] /\ LeafOffsets[i] = heap[node].ptrs[j]
           /\ \A j \in 1..n : \E i \in 1..(n + 1) : LeafKeys[i] = heap[node].keys[j]
           /\ \E i \in 1..(n + 1) : LeafKeys[i] = call.key
  <1>. DEFINE q == heap[node].keys
              o == heap[node].ptrs
              k == call.key
              p == LeafIndex(q, k)
  <1>1. /\ node \in DOMAIN heap /\ heap[node].leaf /\ k \in Keys /\ k \in Nat
        /\ s.lo[node] <= k /\ k < s.hi[node]
    BY KeysAreNat DEF AtLeaf, Tree, Underway, Shape
  <1>2. /\ q \in Seq(Keys) /\ q \in Seq(Nat) /\ DOMAIN q = 1..Len(q) /\ Len(q) \in Nat
        /\ o \in Seq(Nat) /\ Len(o) = Len(q) /\ \A i \in 1..Len(q) : q[i] \in Keys /\ q[i] \in Nat
    BY <1>1, NodeIs
  <1>3. Ascending(q) /\ \A i \in 1..Len(q) : s.lo[node] <= q[i] /\ q[i] < s.hi[node] /\ q[i] # k
    BY <1>1, <1>2 DEF Tree, Sound, Ordered, Ascending, Holds
  <1>4. call.offset \in Nat
    BY DEF TypeOK
  <1>5. /\ p \in 1..(Len(q) + 1)
        /\ \A i \in DOMAIN q : (i < p => q[i] < k) /\ (i >= p => q[i] >= k)
    BY <1>1, <1>2, <1>3, LeafIndexIs
  <1>0. LeafKeys = InsertAt(q, p, k) /\ LeafOffsets = InsertAt(o, p, call.offset)
    BY DEF LeafKeys, LeafOffsets
  <1>. HIDE DEF q, o, p, k
  <1>6. /\ LeafKeys \in Seq(Keys) /\ Len(LeafKeys) = Len(q) + 1
        /\ \A i \in 1..(Len(q) + 1) : LeafKeys[i] = IF i < p THEN q[i] ELSE IF i = p THEN k ELSE q[i - 1]
    <2>1. q \in Seq(Keys) /\ p \in 1..(Len(q) + 1) /\ k \in Keys
      BY <1>1, <1>2, <1>5
    <2>2. /\ InsertAt(q, p, k) \in Seq(Keys) /\ Len(InsertAt(q, p, k)) = Len(q) + 1
          /\ \A i \in 1..(Len(q) + 1) :
                InsertAt(q, p, k)[i] = IF i < p THEN q[i] ELSE IF i = p THEN k ELSE q[i - 1]
      BY <2>1, Inserted
    <2>. QED
      BY <1>0, <2>2
  <1>7. /\ LeafOffsets \in Seq(Nat) /\ Len(LeafOffsets) = Len(q) + 1
        /\ \A i \in 1..(Len(q) + 1) :
              LeafOffsets[i] = IF i < p THEN o[i] ELSE IF i = p THEN call.offset ELSE o[i - 1]
    <2>. DEFINE e == call.offset
    <2>1. o \in Seq(Nat) /\ p \in 1..(Len(o) + 1) /\ e \in Nat
      BY <1>2, <1>4, <1>5
    <2>. HIDE DEF e
    <2>2. /\ InsertAt(o, p, e) \in Seq(Nat) /\ Len(InsertAt(o, p, e)) = Len(o) + 1
          /\ \A i \in 1..(Len(o) + 1) :
                InsertAt(o, p, e)[i] = IF i < p THEN o[i] ELSE IF i = p THEN e ELSE o[i - 1]
      BY <2>1, Inserted, SMTT(30)
    <2>. QED
      BY <1>0, <1>2, <2>2 DEF e
  <1>8. Ascending(LeafKeys)
    <2>1. (p > 1 => q[p - 1] < k) /\ (p <= Len(q) => k < q[p])
      <3>1. p > 1 => p - 1 \in 1..Len(q) /\ p - 1 < p
        BY <1>2, <1>5
      <3>2. p <= Len(q) => p \in 1..Len(q)
        BY <1>5
      <3>. QED
        <4>1. p > 1 => q[p - 1] < k
          BY <1>2, <1>5, <3>1
        <4>2. p <= Len(q) => q[p] >= k /\ q[p] # k /\ q[p] \in Nat
          BY <1>2, <1>3, <1>5, <3>2
        <4>. QED
          BY <1>1, <4>1, <4>2
    <2>. QED
      BY <1>0, <1>1, <1>2, <1>3, <1>5, <2>1, InsertedAscending
  <1>9. ASSUME NEW i \in 1..(Len(q) + 1)
        PROVE  \/ i = p /\ LeafKeys[i] = k /\ LeafOffsets[i] = call.offset
               \/ \E j \in 1..Len(q) : LeafKeys[i] = q[j] /\ LeafOffsets[i] = o[j]
    <2>1. CASE i < p
      <3>1. i \in 1..Len(q) /\ LeafKeys[i] = q[i] /\ LeafOffsets[i] = o[i]
        BY <1>2, <1>5, <1>6, <1>7, <2>1
      <3>. QED
        BY <3>1
    <2>2. CASE i > p
      <3>1. i - 1 \in 1..Len(q) /\ LeafKeys[i] = q[i - 1] /\ LeafOffsets[i] = o[i - 1]
        BY <1>2, <1>5, <1>6, <1>7, <2>2
      <3>. QED
        BY <3>1
    <2>3. CASE i = p
      BY <1>6, <1>7, <2>3
    <2>. QED
      BY <1>2, <1>5, <2>1, <2>2, <2>3
  <1>10. \A i \in 1..(Len(q) + 1) : s.lo[node] <= LeafKeys[i] /\ LeafKeys[i] < s.hi[node]
    BY <1>1, <1>3, <1>9
  <1>11. ASSUME NEW j \in 1..Len(q) PROVE \E i \in 1..(Len(q) + 1) : LeafKeys[i] = q[j]
    <2>1. CASE j < p
      <3>1. j \in 1..(Len(q) + 1) /\ LeafKeys[j] = q[j]
        BY <1>2, <1>5, <1>6, <2>1
      <3>. QED
        BY <3>1
    <2>2. CASE j >= p
      <3>1. j + 1 \in 1..(Len(q) + 1) /\ LeafKeys[j + 1] = q[(j + 1) - 1] /\ (j + 1) - 1 = j
        BY <1>2, <1>5, <1>6, <2>2
      <3>. QED
        BY <3>1
    <2>. QED
      BY <1>2, <1>5, <2>1, <2>2
  <1>12. \E i \in 1..(Len(q) + 1) : LeafKeys[i] = k
    BY <1>5, <1>6
  <1>. QED
    BY <1>1, <1>4, <1>6, <1>7, <1>8, <1>9, <1>10, <1>11, <1>12 DEF q, o, k

LEMMA InsertedNumber ==
    ASSUME NEW q \in Seq(Nat), NEW p \in 1..(Len(q) + 1), NEW e \in Nat
    PROVE  /\ InsertAt(q, p, e) \in Seq(Nat) /\ Len(InsertAt(q, p, e)) = Len(q) + 1
           /\ \A i \in 1..(Len(q) + 1) :
                 InsertAt(q, p, e)[i] = IF i < p THEN q[i] ELSE IF i = p THEN e ELSE q[i - 1]
  <1>1. PICK S : S = Nat
    OBVIOUS
  <1>2. q \in Seq(S) /\ e \in S
    BY <1>1
  <1>3. /\ InsertAt(q, p, e) \in Seq(S) /\ Len(InsertAt(q, p, e)) = Len(q) + 1
        /\ \A i \in 1..(Len(q) + 1) :
              InsertAt(q, p, e)[i] = IF i < p THEN q[i] ELSE IF i = p THEN e ELSE q[i - 1]
    BY ONLY <1>2, p \in 1..(Len(q) + 1), Inserted
  <1>. QED
    BY <1>1, <1>3

\* How the parts are renumbered when part p is divided at e.
LEMMA Divided ==
    ASSUME NEW q \in Seq(Nat), NEW p \in 1..(Len(q) + 1), NEW e \in Nat, NEW lo \in Nat, NEW hi \in Nat,
           NEW i \in 1..(Len(q) + 2)
    PROVE  LET w == InsertAt(q, p, e) IN
           /\ i <= p => Lower(lo, w, i) = Lower(lo, q, i)
           /\ i < p => Upper(hi, w, i) = Upper(hi, q, i)
           /\ i = p => Upper(hi, w, i) = e
           /\ i = p + 1 => Lower(lo, w, i) = e /\ Upper(hi, w, i) = Upper(hi, q, p)
           /\ i > p + 1 => /\ Lower(lo, w, i) = Lower(lo, q, i - 1)
                           /\ Upper(hi, w, i) = Upper(hi, q, i - 1)
  <1>. DEFINE w == InsertAt(q, p, e)
  <1>1. Len(q) \in Nat
    OBVIOUS
  <1>2. /\ w \in Seq(Nat) /\ Len(w) = Len(q) + 1
        /\ \A j \in 1..(Len(q) + 1) : w[j] = IF j < p THEN q[j] ELSE IF j = p THEN e ELSE q[j - 1]
    BY Inserted
  <1>. HIDE DEF w
  <1>3. i > 1 => i - 1 \in 1..(Len(q) + 1)
    BY <1>1
  <1>4. i # Len(w) + 1 => i \in 1..(Len(q) + 1)
    BY <1>1, <1>2
  <1>5. i <= p => Lower(lo, w, i) = Lower(lo, q, i)
    BY <1>1, <1>2, <1>3, SMTT(30) DEF Lower
  <1>6. i < p => Upper(hi, w, i) = Upper(hi, q, i)
    BY <1>1, <1>2, <1>4 DEF Upper
  <1>7. i = p => Upper(hi, w, i) = e
    BY <1>1, <1>2, <1>4 DEF Upper
  <1>8. i = p + 1 => Lower(lo, w, i) = e /\ Upper(hi, w, i) = Upper(hi, q, p)
    BY <1>1, <1>2, <1>3, <1>4, SMTT(30) DEF Lower, Upper
  <1>9. i > p + 1 => Lower(lo, w, i) = Lower(lo, q, i - 1)
    <2>. SUFFICES ASSUME i > p + 1 PROVE Lower(lo, w, i) = Lower(lo, q, i - 1)
      OBVIOUS
    <2>1. i # 1 /\ i - 1 # 1 /\ i - 1 > p
      BY <1>1
    <2>2. w[i - 1] = q[(i - 1) - 1]
      <3>1. i - 1 \in 1..(Len(q) + 1) /\ ~(i - 1 < p) /\ i - 1 # p
        BY <1>1, <1>3, <2>1
      <3>. HIDE DEF w
      <3>2. \A j \in 1..(Len(q) + 1) : w[j] = IF j < p THEN q[j] ELSE IF j = p THEN e ELSE q[j - 1]
        BY <1>2
      <3>. QED
        BY <3>1, <3>2
    <2>. QED
      BY <2>1, <2>2 DEF Lower
  <1>10. i > p + 1 => Upper(hi, w, i) = Upper(hi, q, i - 1)
    <2>. SUFFICES ASSUME i > p + 1 PROVE Upper(hi, w, i) = Upper(hi, q, i - 1)
      OBVIOUS
    <2>1. i = Len(w) + 1 <=> i - 1 = Len(q) + 1
      BY <1>1, <1>2
    <2>2. i # Len(w) + 1 => w[i] = q[i - 1]
      BY <1>1, <1>2, <1>4
    <2>. QED
      BY <2>1, <2>2 DEF Upper
  <1>. QED
    BY <1>5, <1>6, <1>7, <1>8, <1>9, <1>10 DEF w

LEMMA ShapeIs ==
    ASSUME NEW s, TypeOK, Tree(s), NEW a \in DOMAIN heap
    PROVE  /\ s.lo[a] \in Nat /\ s.hi[a] \in Nat /\ s.ht[a] \in Nat
           /\ s.lo[a] < s.hi[a] /\ s.hi[a] <= Above
           /\ Ascending(heap[a].keys)
           /\ \A i \in 1..Len(heap[a].keys) :
                 /\ s.lo[a] <= heap[a].keys[i] /\ heap[a].keys[i] < s.hi[a]
                 /\ ~heap[a].leaf => s.lo[a] < heap[a].keys[i]
           /\ heap[a].leaf <=> s.ht[a] = 0
  <1>1. s.lo[a] \in Nat /\ s.hi[a] \in Nat /\ s.ht[a] \in Nat
    BY DEF Tree, Shape
  <1>2. /\ DOMAIN heap[a].keys = 1..Len(heap[a].keys) /\ Len(heap[a].keys) \in 1..MaxKeys
        /\ \A i \in 1..Len(heap[a].keys) : heap[a].keys[i] \in Nat
    BY NodeIs
  <1>3. Ordered(s, a)
    BY DEF Tree, Sound
  <1>4. 1 \in 1..Len(heap[a].keys)
    BY <1>2, HalfOf
  <1>5. s.lo[a] < s.hi[a]
    BY <1>1, <1>2, <1>3, <1>4 DEF Ordered
  <1>. QED
    BY <1>1, <1>2, <1>3, <1>5 DEF Ordered, Ascending

\* The node that is split has its place in its parent.
LEMMA SplitNodeIs ==
    ASSUME NEW s, TypeOK, Tree(s), pc = "parent"
    PROVE  /\ node \in s.in /\ node \in DOMAIN heap /\ root # Null /\ root \in DOMAIN heap
           /\ promo.right \in s.in /\ promo.right \in DOMAIN heap /\ node # promo.right
           /\ Parent = Null => node = root
           /\ Parent # Null => Parent \in s.in /\ Parent \in DOMAIN heap /\ IsChild(node, Parent)
  <1>1. /\ node \in s.in /\ promo.right \in s.in /\ root # Null
        /\ s.hi[node] = promo.key /\ s.lo[promo.right] = promo.key
    BY DEF Tree, Underway
  <1>2. node \in DOMAIN heap /\ promo.right \in DOMAIN heap
    BY <1>1 DEF Tree, Shape
  <1>3. node # promo.right
    BY <1>1, <1>2, ShapeIs
  <1>4. /\ root \in s.in /\ heap[root].parent = Null
        /\ \A a \in s.in \ ({root} \cup {promo.right}) :
                 heap[a].parent \in s.in /\ IsChild(a, heap[a].parent)
    BY <1>1 DEF Tree, Linked, Unlinked
  <1>5. 0 \notin DOMAIN heap
    BY HeapIs
  <1>. QED
    BY <1>1, <1>2, <1>3, <1>4, <1>5 DEF Tree, Shape, Parent, Null

\* The keys and the children of the parent, with the new ones in their places:
\* still every child has its part of the range, and has it once.
LEMMA WideParent ==
    ASSUME NEW s, TypeOK, Tree(s), pc = "parent", Parent # Null
    PROVE  LET n == Len(heap[Parent].keys) IN
           /\ ParentKeys \in Seq(Keys) /\ Len(ParentKeys) = n + 1 /\ Ascending(ParentKeys)
           /\ ParentChildren \in Seq(Nat) /\ Len(ParentChildren) = n + 2
           /\ \A i \in 1..(n + 1) : s.lo[Parent] < ParentKeys[i] /\ ParentKeys[i] < s.hi[Parent]
           /\ \A i \in 1..(n + 2) : LET c == ParentChildren[i] IN
                 /\ c \in DOMAIN heap /\ s.ht[c] + 1 = s.ht[Parent]
                 /\ c # promo.right => heap[c].parent = Parent /\ IsChild(c, Parent)
                 /\ Lower(s.lo[Parent], ParentKeys, i) <= s.lo[c]
                 /\ s.hi[c] <= Upper(s.hi[Parent], ParentKeys, i)
           /\ \A i, j \in 1..(n + 2) : ParentChildren[i] = ParentChildren[j] => i = j
           /\ \A c : c = promo.right \/ IsChild(c, Parent) =>
                 \E i \in 1..(n + 2) : ParentChildren[i] = c
           /\ failures = 0 => \A i \in 1..(n + 2) : LET c == ParentChildren[i] IN
                 /\ s.lo[c] = Lower(s.lo[Parent], ParentKeys, i)
                 /\ s.hi[c] = Upper(s.hi[Parent], ParentKeys, i)
  <1>. DEFINE P == Parent
              q == heap[P].keys
              o == heap[P].ptrs
              n == Len(q)
              p == Position(P, node)
              e == promo.key
              r == promo.right
              lo == s.lo[P]
              hi == s.hi[P]
              K == ParentKeys
              C == ParentChildren
  <1>1. /\ node \in DOMAIN heap /\ r \in DOMAIN heap /\ node # r
        /\ P \in s.in /\ P \in DOMAIN heap /\ IsChild(node, P)
    BY SplitNodeIs
  <1>2. /\ q \in Seq(Keys) /\ q \in Seq(Nat) /\ n \in Nat /\ DOMAIN q = 1..n
        /\ o \in Seq(Nat) /\ Len(o) = n + 1 /\ DOMAIN o = 1..(n + 1)
        /\ \A i \in 1..n : q[i] \in Keys /\ q[i] \in Nat
    BY <1>1, NodeIs DEF IsChild
  <1>3. /\ lo \in Nat /\ hi \in Nat /\ lo < hi /\ Ascending(q)
        /\ \A i \in 1..n : lo < q[i] /\ q[i] < hi
    BY <1>1, ShapeIs DEF IsChild
  <1>4. p \in 1..(n + 1) /\ o[p] = node
    <2>1. \E i \in DOMAIN o : o[i] = node
      BY <1>1 DEF IsChild
    <2>. QED
      BY <1>2, <2>1, PositionIs
  <1>5. /\ e \in Keys /\ e \in Nat /\ s.hi[node] = e /\ s.lo[r] = e /\ s.ht[r] = s.ht[node]
        /\ \A i \in 1..(n + 1) : o[i] = node => s.hi[r] <= Upper(hi, q, i)
        /\ \A a \in DOMAIN heap : ~IsChild(r, a)
    BY <1>2, KeysAreNat DEF Tree, Underway, Right
  <1>6. \A i \in 1..(n + 1) :
          /\ o[i] \in DOMAIN heap /\ heap[o[i]].parent = P /\ s.ht[o[i]] + 1 = s.ht[P]
          /\ Lower(lo, q, i) <= s.lo[o[i]] /\ s.hi[o[i]] <= Upper(hi, q, i)
          /\ IsChild(o[i], P) /\ o[i] # r
    <2>. SUFFICES ASSUME NEW i \in 1..(n + 1)
                  PROVE  /\ o[i] \in DOMAIN heap /\ heap[o[i]].parent = P /\ s.ht[o[i]] + 1 = s.ht[P]
                         /\ Lower(lo, q, i) <= s.lo[o[i]] /\ s.hi[o[i]] <= Upper(hi, q, i)
                         /\ IsChild(o[i], P) /\ o[i] # r
      OBVIOUS
    <2>1. ChildFits(s, P, i)
      BY <1>1, <1>2 DEF Tree, Sound, IsChild
    <2>2. IsChild(o[i], P)
      BY <1>1, <1>2 DEF IsChild
    <2>. QED
      BY <1>1, <1>5, <2>1, <2>2 DEF ChildFits, Left, Right
  <1>7. \A a \in DOMAIN heap : s.lo[a] \in Nat /\ s.hi[a] \in Nat /\ s.lo[a] < s.hi[a]
    BY ShapeIs
  <1>8. K = InsertAt(q, p, e) /\ C = InsertAt(o, p + 1, r)
    BY DEF ParentKeys, ParentChildren
  <1>9. failures = 0 => \A i \in 1..(n + 1) :
          /\ s.lo[o[i]] = Lower(lo, q, i)
          /\ Whole(s, o[i]) = Upper(hi, q, i)
    BY <1>1, <1>2 DEF Tree, Exact, Left, Right, IsChild
  <1>10. Whole(s, node) = s.hi[r] /\ \A a : a # node => Whole(s, a) = s.hi[a]
    BY DEF Whole
  <1>. HIDE DEF P, q, o, n, p, e, r, lo, hi, K, C
  <1>11. K \in Seq(Keys) /\ K \in Seq(Nat) /\ Len(K) = n + 1
    <2>1. K \in Seq(Keys) /\ Len(K) = Len(q) + 1
      BY <1>2, <1>4, <1>5, <1>8, Inserted DEF n
    <2>. QED
      BY <2>1, KeysAreNat, SeqMonotonic DEF n
  <1>12. /\ C \in Seq(Nat) /\ Len(C) = n + 2
         /\ \A i \in 1..(n + 2) : C[i] = IF i < p + 1 THEN o[i] ELSE IF i = p + 1 THEN r ELSE o[i - 1]
    <2>1. p + 1 \in 1..(Len(o) + 1) /\ r \in Nat /\ Len(o) + 1 = n + 2
      BY <1>1, <1>2, <1>4, HeapIs
    <2>2. /\ C \in Seq(Nat) /\ Len(C) = Len(o) + 1
          /\ \A i \in 1..(Len(o) + 1) :
                C[i] = IF i < p + 1 THEN o[i] ELSE IF i = p + 1 THEN r ELSE o[i - 1]
      <3>. DEFINE m == p + 1
      <3>1. /\ InsertAt(o, m, r) \in Seq(Nat) /\ Len(InsertAt(o, m, r)) = Len(o) + 1
            /\ \A i \in 1..(Len(o) + 1) :
                  InsertAt(o, m, r)[i] = IF i < m THEN o[i] ELSE IF i = m THEN r ELSE o[i - 1]
        <4>1. o \in Seq(Nat) /\ m \in 1..(Len(o) + 1) /\ r \in Nat
          BY <1>2, <2>1
        <4>. HIDE DEF m
        <4>. QED
          BY <4>1, InsertedNumber, ZenonT(60)
      <3>. QED
        BY <1>8, <3>1
    <2>. QED
      BY <2>1, <2>2
  <1>13. \A i \in 1..(n + 2) :
           /\ i <= p => Lower(lo, K, i) = Lower(lo, q, i)
           /\ i < p => Upper(hi, K, i) = Upper(hi, q, i)
           /\ i = p => Upper(hi, K, i) = e
           /\ i = p + 1 => Lower(lo, K, i) = e /\ Upper(hi, K, i) = Upper(hi, q, p)
           /\ i > p + 1 => /\ Lower(lo, K, i) = Lower(lo, q, i - 1)
                           /\ Upper(hi, K, i) = Upper(hi, q, i - 1)
    <2>. SUFFICES ASSUME NEW i \in 1..(Len(q) + 2)
                  PROVE  /\ i <= p => Lower(lo, K, i) = Lower(lo, q, i)
                         /\ i < p => Upper(hi, K, i) = Upper(hi, q, i)
                         /\ i = p => Upper(hi, K, i) = e
                         /\ i = p + 1 => Lower(lo, K, i) = e /\ Upper(hi, K, i) = Upper(hi, q, p)
                         /\ i > p + 1 => /\ Lower(lo, K, i) = Lower(lo, q, i - 1)
                                         /\ Upper(hi, K, i) = Upper(hi, q, i - 1)
      BY DEF n
    <2>1. q \in Seq(Nat) /\ p \in 1..(Len(q) + 1) /\ e \in Nat /\ lo \in Nat /\ hi \in Nat
      BY <1>2, <1>3, <1>4, <1>5 DEF n
    <2>. DEFINE w == InsertAt(q, p, e)
    <2>2. /\ i <= p => Lower(lo, w, i) = Lower(lo, q, i)
          /\ i < p => Upper(hi, w, i) = Upper(hi, q, i)
          /\ i = p => Upper(hi, w, i) = e
          /\ i = p + 1 => Lower(lo, w, i) = e /\ Upper(hi, w, i) = Upper(hi, q, p)
          /\ i > p + 1 => /\ Lower(lo, w, i) = Lower(lo, q, i - 1)
                          /\ Upper(hi, w, i) = Upper(hi, q, i - 1)
      BY <2>1, Divided, SMTT(30)
    <2>. QED
      BY <1>8, <2>2
  <1>14. Lower(lo, q, p) < e /\ e < Upper(hi, q, p)
    <2>1. /\ Lower(lo, q, p) <= s.lo[node] /\ s.lo[node] < e /\ s.lo[node] \in Nat
          /\ e < s.hi[r] /\ s.hi[r] <= Upper(hi, q, p) /\ s.hi[r] \in Nat
      BY <1>1, <1>4, <1>5, <1>6, <1>7
    <2>2. Lower(lo, q, p) \in Nat /\ Upper(hi, q, p) \in Nat
      BY <1>2, <1>3, <1>4 DEF Lower, Upper, n
    <2>. QED
      BY <1>5, <2>1, <2>2
  <1>15. Ascending(K)
    <2>1. (p > 1 => q[p - 1] < e) /\ (p <= Len(q) => e < q[p])
      BY <1>2, <1>4, <1>14 DEF Lower, Upper, n
    <2>. QED
      BY <1>2, <1>3, <1>4, <1>5, <1>8, <2>1, InsertedAscending DEF n
  <1>16. \A i \in 1..(n + 1) : lo < K[i] /\ K[i] < hi
    <2>1. \A i \in 1..(n + 1) : K[i] = IF i < p THEN q[i] ELSE IF i = p THEN e ELSE q[i - 1]
      <3>1. /\ InsertAt(q, p, e) \in Seq(Keys) /\ Len(InsertAt(q, p, e)) = Len(q) + 1
            /\ \A i \in 1..(Len(q) + 1) :
                  InsertAt(q, p, e)[i] = IF i < p THEN q[i] ELSE IF i = p THEN e ELSE q[i - 1]
        <4>1. q \in Seq(Keys) /\ e \in Keys /\ p \in 1..(Len(q) + 1)
          BY <1>2, <1>4, <1>5 DEF n
        <4>. QED
          BY <4>1, Inserted
      <3>. QED
        BY <1>8, <3>1 DEF n
    <2>2. lo < e /\ e < hi
      <3>1. p > 1 => p - 1 \in 1..n
        BY <1>2, <1>4
      <3>2. p # n + 1 => p \in 1..n
        BY <1>2, <1>4
      <3>3. lo <= Lower(lo, q, p) /\ Lower(lo, q, p) \in Nat
        BY <1>2, <1>3, <3>1, <1>4 DEF Lower
      <3>4. Upper(hi, q, p) <= hi /\ Upper(hi, q, p) \in Nat
        BY <1>2, <1>3, <3>2, <1>4 DEF Upper, n
      <3>. QED
        BY <1>3, <1>5, <1>14, <3>3, <3>4
    <2>3. \A i \in 1..(n + 1) : (i < p => i \in 1..n) /\ (i > p => i - 1 \in 1..n)
      BY <1>2, <1>4
    <2>4. \A i \in 1..(n + 1) : i < p \/ i = p \/ i > p
      BY <1>2, <1>4
    <2>5. ASSUME NEW i \in 1..(n + 1) PROVE lo < K[i] /\ K[i] < hi
      <3>1. CASE i < p
        BY <1>3, <2>1, <2>3, <3>1
      <3>2. CASE i = p
        BY <1>4, <2>1, <2>2, <3>2
      <3>3. CASE i > p
        <4>1. K[i] = q[i - 1] /\ i - 1 \in 1..n
          BY <1>2, <1>4, <2>1, <2>3, <3>3
        <4>. QED
          BY <1>3, <4>1
      <3>. QED
        BY <2>4, <3>1, <3>2, <3>3
    <2>. QED
      BY <2>5
  <1>17. ASSUME NEW i \in 1..(n + 2)
         PROVE  /\ C[i] \in DOMAIN heap /\ s.ht[C[i]] + 1 = s.ht[P]
                /\ C[i] # r => heap[C[i]].parent = P /\ IsChild(C[i], P)
                /\ Lower(lo, K, i) <= s.lo[C[i]]
                /\ s.hi[C[i]] <= Upper(hi, K, i)
    <2>1. CASE i < p
      <3>1. i \in 1..(n + 1) /\ C[i] = o[i]
        BY <1>2, <1>4, <1>12, <2>1
      <3>. QED
        BY <1>4, <1>6, <1>13, <2>1, <3>1
    <2>2. CASE i = p
      <3>1. i \in 1..(n + 1) /\ C[i] = o[i] /\ C[i] = node
        BY <1>2, <1>4, <1>12, <2>2
      <3>2. Upper(hi, K, i) = e /\ Lower(lo, K, i) = Lower(lo, q, i)
        BY <1>4, <1>13, <2>2
      <3>3. s.hi[node] <= e
        BY <1>5
      <3>. QED
        BY <1>6, <3>1, <3>2, <3>3
    <2>3. CASE i = p + 1
      <3>1. C[i] = r /\ Lower(lo, K, i) = e /\ Upper(hi, K, i) = Upper(hi, q, p)
        BY <1>4, <1>12, <1>13, <2>3
      <3>2. s.ht[r] + 1 = s.ht[P]
        BY <1>4, <1>5, <1>6
      <3>. QED
        BY <1>1, <1>4, <1>5, <3>1, <3>2
    <2>4. CASE i > p + 1
      <3>0. i - 1 \in 1..(n + 1) /\ ~(i < p + 1) /\ i # p + 1
        BY <1>2, <1>4, <2>4
      <3>1. i - 1 \in 1..(n + 1) /\ C[i] = o[i - 1]
        BY <1>12, <3>0
      <3>. QED
        BY <1>6, <1>13, <2>4, <3>1
    <2>. QED
      BY <1>2, <1>4, <2>1, <2>2, <2>3, <2>4
  <1>18. ASSUME NEW i \in 1..(n + 2), NEW j \in 1..(n + 2), i < j
         PROVE  C[i] # C[j]
    <2>1. i \in 1..(n + 1) /\ j - 1 \in 1..(n + 1) /\ i <= j - 1
      BY <1>2, <1>18
    <2>2. Upper(hi, K, i) = K[i] /\ Lower(lo, K, j) = K[j - 1]
      BY <1>2, <1>11, <1>18, <2>1 DEF Upper, Lower
    <2>3. K[i] \in Nat /\ K[j - 1] \in Nat
      BY <1>11, <2>1, ElementOfSeq
    <2>6. i = j - 1 \/ i < j - 1
      BY <1>2, <2>1
    <2>7. DOMAIN K = 1..(n + 1)
      BY <1>11
    <2>4. K[i] <= K[j - 1]
      BY <1>15, <2>1, <2>3, <2>6, <2>7 DEF Ascending
    <2>5. s.hi[C[i]] <= K[i] /\ K[j - 1] <= s.lo[C[j]] /\ C[i] \in DOMAIN heap /\ C[j] \in DOMAIN heap
      BY <1>17, <2>2
    <2>. QED
      BY <1>7, <2>3, <2>4, <2>5
  <1>19. \A i, j \in 1..(n + 2) : C[i] = C[j] => i = j
    BY <1>2, <1>18
  <1>20. ASSUME NEW c, c = r \/ IsChild(c, P)
         PROVE  \E i \in 1..(n + 2) : C[i] = c
    <2>1. CASE c = r
      <3>0. p + 1 \in 1..(n + 2) /\ ~(p + 1 < p + 1)
        BY <1>2, <1>4
      <3>1. p + 1 \in 1..(n + 2) /\ C[p + 1] = r
        BY <1>12, <3>0
      <3>. QED
        BY <2>1, <3>1
    <2>2. CASE IsChild(c, P)
      <3>1. PICK j \in 1..(n + 1) : o[j] = c
        BY <1>2, <2>2 DEF IsChild, o
      <3>2. j <= p => j \in 1..(n + 2) /\ C[j] = o[j]
        BY <1>2, <1>4, <1>12
      <3>3. j > p => j + 1 \in 1..(n + 2) /\ C[j + 1] = o[j]
        <4>1. j > p => j + 1 \in 1..(n + 2) /\ ~(j + 1 < p + 1) /\ j + 1 # p + 1 /\ (j + 1) - 1 = j
          BY <1>2, <1>4
        <4>. QED
          BY <1>12, <4>1
      <3>. QED
        BY <1>2, <1>4, <3>1, <3>2, <3>3
    <2>. QED
      BY <1>20, <2>1, <2>2
  <1>21. ASSUME failures = 0, NEW i \in 1..(n + 2)
         PROVE  s.lo[C[i]] = Lower(lo, K, i) /\ s.hi[C[i]] = Upper(hi, K, i)
    <2>0. C[p] = node /\ p \in 1..(n + 2)
      BY <1>2, <1>4, <1>12, SMTT(30)
    <2>1. CASE i < p
      <3>1. i \in 1..(n + 1) /\ C[i] = o[i] /\ C[i] # node
        BY <1>2, <1>4, <1>12, <1>19, <2>0, <2>1, SMTT(30)
      <3>. QED
        BY <1>4, <1>9, <1>10, <1>13, <1>21, <2>1, <3>1
    <2>2. CASE i = p
      BY <1>4, <1>5, <1>9, <1>13, <1>21, <2>0, <2>2
    <2>3. CASE i = p + 1
      <3>1. C[i] = r /\ Lower(lo, K, i) = e /\ Upper(hi, K, i) = Upper(hi, q, p)
        BY <1>4, <1>12, <1>13, <2>3
      <3>. QED
        BY <1>4, <1>5, <1>9, <1>10, <1>21, <3>1
    <2>4. CASE i > p + 1
      <3>0. i - 1 \in 1..(n + 1) /\ ~(i < p + 1) /\ i # p + 1 /\ i # p
        BY <1>2, <1>4, <2>4
      <3>1. i - 1 \in 1..(n + 1) /\ C[i] = o[i - 1] /\ C[i] # node
        BY <1>12, <1>19, <2>0, <3>0
      <3>. QED
        BY <1>9, <1>10, <1>13, <1>21, <2>4, <3>1
    <2>. QED
      BY <1>2, <1>4, <2>1, <2>2, <2>3, <2>4
  <1>. QED
    BY <1>11, <1>12, <1>15, <1>16, <1>17, <1>19, <1>20, <1>21 DEF P, q, n, r, lo, hi, K, C

-----------------------------------------------------------------------------
(* What the operations do to the heap, node by node.                       *)

\* A heap in which some nodes were replaced by nodes.
LEMMA Rewritten ==
    ASSUME NEW h \in Seq(Node), NEW g, DOMAIN g = DOMAIN h, g = [a \in DOMAIN h |-> g[a]],
           \A a \in DOMAIN h : g[a] \in Node
    PROVE  g \in Seq(Node) /\ Len(g) = Len(h)
  <1>1. Len(h) \in Nat /\ DOMAIN h = 1..Len(h)
    BY LenProperties
  <1>2. g \in [1..Len(h) -> Node]
    BY <1>1
  <1>3. g \in Seq(Node)
    BY <1>1, <1>2
  <1>. QED
    BY <1>1, <1>3, LenProperties

LEMMA InsertIntoLeafEffect ==
    ASSUME NEW s, TypeOK, Tree(s), InsertIntoLeaf
    PROVE  /\ node \in DOMAIN heap /\ DOMAIN heap' = DOMAIN heap /\ Len(heap') = Len(heap)
           /\ heap' \in Seq(Node)
           /\ \A a \in DOMAIN heap : a # node => heap'[a] = heap[a]
           /\ heap'[node].keys = LeafKeys /\ heap'[node].ptrs = LeafOffsets
           /\ heap'[node].leaf /\ heap'[node].parent = heap[node].parent
           /\ heap'[node].next = heap[node].next
  <1>1. /\ node \in DOMAIN heap /\ heap[node].leaf /\ LeafKeys \in Seq(Keys) /\ LeafOffsets \in Seq(Nat)
    BY WideLeaf DEF InsertIntoLeaf
  <1>2. heap' = [heap EXCEPT ![node].keys = LeafKeys, ![node].ptrs = LeafOffsets]
    BY DEF InsertIntoLeaf
  <1>3. heap \in Seq(Node) /\ \A a \in DOMAIN heap : heap[a] \in Node
    BY HeapIs, NodeIs
  <1>. HIDE DEF Node
  <1>4. DOMAIN heap' = DOMAIN heap /\ \A a \in DOMAIN heap : a # node => heap'[a] = heap[a]
    BY <1>1, <1>2
  <1>5. heap'[node] = [[heap[node] EXCEPT !.keys = LeafKeys] EXCEPT !.ptrs = LeafOffsets]
    BY <1>1, <1>2
  <1>6. /\ heap'[node].keys = LeafKeys /\ heap'[node].ptrs = LeafOffsets
        /\ heap'[node].leaf = heap[node].leaf /\ heap'[node].parent = heap[node].parent
        /\ heap'[node].next = heap[node].next /\ heap'[node] \in Node
    BY <1>1, <1>3, <1>5 DEF Node
  <1>7. heap' = [a \in DOMAIN heap |-> heap'[a]] /\ \A a \in DOMAIN heap : heap'[a] \in Node
    BY <1>2, <1>3, <1>4, <1>6
  <1>8. heap' \in Seq(Node) /\ Len(heap') = Len(heap)
    BY <1>3, <1>4, <1>7, Rewritten
  <1>. QED
    BY <1>1, <1>4, <1>6, <1>8

LEMMA SplitLeafEffect ==
    ASSUME NEW s, TypeOK, Tree(s), SplitLeaf
    PROVE  LET half == Order \div 2
               new == Len(heap) + 1
           IN
           /\ node \in DOMAIN heap /\ DOMAIN heap' = 1..(Len(heap) + 1) /\ Len(heap') = Len(heap) + 1
           /\ heap' \in Seq(Node)
           /\ \A a \in DOMAIN heap : a # node => heap'[a] = heap[a]
           /\ heap'[node].keys = SubSeq(LeafKeys, 1, half)
           /\ heap'[node].ptrs = SubSeq(LeafOffsets, 1, half)
           /\ heap'[node].leaf /\ heap'[node].parent = heap[node].parent
           /\ heap'[node].next = new
           /\ heap'[new] = Leaf(SubSeq(LeafKeys, half + 1, Order), SubSeq(LeafOffsets, half + 1, Order),
                                heap[node].parent, heap[node].next)
  <1>. DEFINE half == Order \div 2
              k1 == SubSeq(LeafKeys, 1, half)
              o1 == SubSeq(LeafOffsets, 1, half)
              k2 == SubSeq(LeafKeys, half + 1, Order)
              o2 == SubSeq(LeafOffsets, half + 1, Order)
              h == [heap EXCEPT ![node].keys = k1, ![node].ptrs = o1, ![node].next = NewNode]
              new == Leaf(k2, o2, heap[node].parent, heap[node].next)
  <1>1. /\ node \in DOMAIN heap /\ heap[node].leaf /\ LeafKeys \in Seq(Keys) /\ LeafOffsets \in Seq(Nat)
        /\ Len(LeafKeys) = Order /\ Len(LeafOffsets) = Order
    BY WideLeaf, HalfOf DEF SplitLeaf, LeafIsFull
  <1>2. k1 \in Seq(Keys) /\ o1 \in Seq(Nat) /\ k2 \in Seq(Keys) /\ o2 \in Seq(Nat)
    BY <1>1, HalfOf, PartOf
  <1>3. heap' = Append(h, new)
    BY DEF SplitLeaf
  <1>4. heap \in Seq(Node) /\ Len(heap) \in Nat /\ \A a \in DOMAIN heap : heap[a] \in Node
    BY HeapIs, NodeIs
  <1>5. new \in Node
    BY <1>1, <1>2, NodeIs, LeafType
  <1>. HIDE DEF k1, k2, o1, o2, new
  <1>6. DOMAIN h = DOMAIN heap /\ \A a \in DOMAIN heap : a # node => h[a] = heap[a]
    BY <1>1
  <1>7. h[node] = [[[heap[node] EXCEPT !.keys = k1] EXCEPT !.ptrs = o1] EXCEPT !.next = NewNode]
    BY <1>1
  <1>8. /\ h[node].keys = k1 /\ h[node].ptrs = o1 /\ h[node].next = NewNode
        /\ h[node].leaf = heap[node].leaf /\ h[node].parent = heap[node].parent
        /\ h[node] \in Node
    <2>. HIDE DEF h
    <2>1. NewNode \in Nat
      BY <1>4 DEF NewNode
    <2>. QED
      BY <1>1, <1>2, <1>4, <1>7, <2>1 DEF Node
  <1>9. h = [a \in DOMAIN heap |-> h[a]] /\ \A a \in DOMAIN heap : h[a] \in Node
    BY <1>4, <1>6, <1>8
  <1>. HIDE DEF h
  <1>10. h \in Seq(Node) /\ Len(h) = Len(heap)
    BY <1>4, <1>6, <1>9, Rewritten
  <1>11. /\ heap' \in Seq(Node) /\ Len(heap') = Len(heap) + 1
         /\ DOMAIN heap' = 1..(Len(heap) + 1)
         /\ \A i \in 1..Len(heap) : heap'[i] = h[i]
         /\ heap'[Len(heap) + 1] = new
    BY <1>3, <1>5, <1>10, Appended
  <1>12. DOMAIN heap = 1..Len(heap)
    BY HeapIs
  <1>. QED
    BY <1>1, <1>6, <1>8, <1>11, <1>12 DEF k1, k2, o1, o2, new, NewNode

LEMMA NewRootEffect ==
    ASSUME NEW s, TypeOK, Tree(s), NewRoot
    PROVE  LET new == Len(heap) + 1 IN
           /\ DOMAIN heap' = 1..(Len(heap) + 1) /\ Len(heap') = Len(heap) + 1 /\ heap' \in Seq(Node)
           /\ \A a \in DOMAIN heap :
                 /\ heap'[a].leaf = heap[a].leaf /\ heap'[a].keys = heap[a].keys
                 /\ heap'[a].ptrs = heap[a].ptrs /\ heap'[a].next = heap[a].next
                 /\ heap'[a].parent = IF a \in {node, promo.right} THEN new ELSE heap[a].parent
           /\ heap'[new] = Internal(<<promo.key>>, <<node, promo.right>>, Null)
  <1>. DEFINE h == [heap EXCEPT ![node].parent = NewNode, ![promo.right].parent = NewNode]
              new == Internal(<<promo.key>>, <<node, promo.right>>, Null)
  <1>1. node \in DOMAIN heap /\ promo.right \in DOMAIN heap /\ node # promo.right
    BY SplitNodeIs DEF NewRoot
  <1>2. heap' = Append(h, new)
    BY DEF NewRoot
  <1>3. heap \in Seq(Node) /\ Len(heap) \in Nat /\ \A a \in DOMAIN heap : heap[a] \in Node
    BY HeapIs, NodeIs
  <1>4. new \in Node
    <2>1. promo.key \in Keys /\ node \in Nat /\ promo.right \in Nat
      BY <1>1, HeapIs DEF NewRoot, Tree, Underway
    <2>2. <<promo.key>> \in Seq(Keys) /\ <<node, promo.right>> \in Seq(Nat) /\ Null \in Nat
      BY <2>1 DEF Null
    <2>. QED
      BY <2>2, InternalType
  <1>. HIDE DEF new
  <1>5. DOMAIN h = DOMAIN heap
    OBVIOUS
  <1>6. \A a \in DOMAIN heap :
          h[a] = IF a \in {node, promo.right} THEN [heap[a] EXCEPT !.parent = NewNode] ELSE heap[a]
    BY <1>1
  <1>7. h = [a \in DOMAIN heap |-> h[a]]
    OBVIOUS
  <1>. HIDE DEF h
  <1>8. NewNode \in Nat /\ NewNode = Len(heap) + 1
    BY <1>3 DEF NewNode
  <1>9. \A a \in DOMAIN heap :
          /\ h[a].leaf = heap[a].leaf /\ h[a].keys = heap[a].keys
          /\ h[a].ptrs = heap[a].ptrs /\ h[a].next = heap[a].next
          /\ h[a].parent = IF a \in {node, promo.right} THEN NewNode ELSE heap[a].parent
          /\ h[a] \in Node
    BY <1>3, <1>6, <1>8, ZenonT(60) DEF Node
  <1>10. h \in Seq(Node) /\ Len(h) = Len(heap)
    BY <1>3, <1>5, <1>7, <1>9, Rewritten
  <1>11. /\ heap' \in Seq(Node) /\ Len(heap') = Len(heap) + 1
         /\ DOMAIN heap' = 1..(Len(heap) + 1)
         /\ \A i \in 1..Len(heap) : heap'[i] = h[i]
         /\ heap'[Len(heap) + 1] = new
    BY <1>2, <1>4, <1>10, Appended
  <1>12. DOMAIN heap = 1..Len(heap)
    BY HeapIs
  <1>. QED
    BY <1>8, <1>9, <1>11, <1>12 DEF new

LEMMA InsertIntoInternalEffect ==
    ASSUME NEW s, TypeOK, Tree(s), InsertIntoInternal
    PROVE  /\ DOMAIN heap' = DOMAIN heap /\ Len(heap') = Len(heap) /\ heap' \in Seq(Node)
           /\ Parent \in DOMAIN heap /\ Parent # promo.right
           /\ \A a \in DOMAIN heap :
                 /\ heap'[a].leaf = heap[a].leaf /\ heap'[a].next = heap[a].next
                 /\ heap'[a].keys = IF a = Parent THEN ParentKeys ELSE heap[a].keys
                 /\ heap'[a].ptrs = IF a = Parent THEN ParentChildren ELSE heap[a].ptrs
                 /\ heap'[a].parent = IF a = promo.right THEN Parent ELSE heap[a].parent
  <1>1. /\ Parent \in DOMAIN heap /\ promo.right \in DOMAIN heap /\ node \in DOMAIN heap
        /\ IsChild(node, Parent)
    BY SplitNodeIs DEF InsertIntoInternal
  <1>2. ParentKeys \in Seq(Keys) /\ ParentChildren \in Seq(Nat)
    BY WideParent DEF InsertIntoInternal
  <1>3. Parent # promo.right
    <2>1. s.ht[promo.right] = s.ht[node] /\ s.ht[node] + 1 = s.ht[Parent] /\ s.ht[node] \in Nat
      BY <1>1, ShapeIs DEF Tree, Sound, ChildFits, IsChild, InsertIntoInternal, Underway
    <2>. QED
      BY <2>1
  <1>4. heap \in Seq(Node) /\ \A a \in DOMAIN heap : heap[a] \in Node
    BY HeapIs, NodeIs
  <1>. DEFINE P == Parent
              K == ParentKeys
              C == ParentChildren
              r == promo.right
  <1>5. heap' = [heap EXCEPT ![P].keys = K, ![P].ptrs = C, ![r].parent = P]
    BY DEF InsertIntoInternal
  <1>6. P \in Nat
    BY <1>1, HeapIs
  <1>. HIDE DEF P, K, C, r
  <1>7. DOMAIN heap' = DOMAIN heap /\ heap' = [a \in DOMAIN heap |-> heap'[a]]
    BY <1>5
  <1>8. heap'[P] = [[heap[P] EXCEPT !.keys = K] EXCEPT !.ptrs = C]
    BY <1>1, <1>3, <1>5 DEF P, r
  <1>9. heap'[r] = [heap[r] EXCEPT !.parent = P]
    BY <1>1, <1>3, <1>5 DEF P, r
  <1>10. \A a \in DOMAIN heap : a # P /\ a # r => heap'[a] = heap[a]
    BY <1>5
  <1>11. \A a \in DOMAIN heap :
           /\ heap'[a].leaf = heap[a].leaf /\ heap'[a].next = heap[a].next
           /\ heap'[a].keys = IF a = P THEN K ELSE heap[a].keys
           /\ heap'[a].ptrs = IF a = P THEN C ELSE heap[a].ptrs
           /\ heap'[a].parent = IF a = r THEN P ELSE heap[a].parent
           /\ heap'[a] \in Node
    <2>1. P # r /\ P \in DOMAIN heap /\ r \in DOMAIN heap /\ K \in Seq(Keys) /\ C \in Seq(Nat)
      BY <1>1, <1>2, <1>3 DEF P, r, K, C
    <2>2. \A a \in DOMAIN heap : heap[a] \in Node
      BY <1>4
    <2>. SUFFICES ASSUME NEW a \in DOMAIN heap
                  PROVE  /\ heap'[a].leaf = heap[a].leaf /\ heap'[a].next = heap[a].next
                         /\ heap'[a].keys = IF a = P THEN K ELSE heap[a].keys
                         /\ heap'[a].ptrs = IF a = P THEN C ELSE heap[a].ptrs
                         /\ heap'[a].parent = IF a = r THEN P ELSE heap[a].parent
                         /\ heap'[a] \in Node
      OBVIOUS
    <2>3. CASE a = P
      BY <1>8, <2>1, <2>2, <2>3 DEF Node
    <2>4. CASE a = r
      BY <1>6, <1>9, <2>1, <2>2, <2>4 DEF Node
    <2>. QED
      BY <1>10, <2>2, <2>3, <2>4
  <1>12. heap' \in Seq(Node) /\ Len(heap') = Len(heap)
    BY <1>4, <1>7, <1>11, Rewritten
  <1>. QED
    BY <1>1, <1>3, <1>7, <1>11, <1>12 DEF P, K, C, r

\* A full parent: what the split leaves in it and what it moves.
LEMMA FullParent ==
    ASSUME NEW s, TypeOK, Tree(s), ParentIsFull
    PROVE  LET half == Order \div 2 IN
           /\ Len(ParentKeys) = Order /\ Len(ParentChildren) = Order + 1
           /\ SubSeq(ParentKeys, 1, half) \in Seq(Keys) /\ Len(SubSeq(ParentKeys, 1, half)) = half
           /\ \A i \in 1..half : SubSeq(ParentKeys, 1, half)[i] = ParentKeys[i]
           /\ SubSeq(ParentKeys, half + 2, Order) \in Seq(Keys)
           /\ Len(SubSeq(ParentKeys, half + 2, Order)) = Order - half - 1
           /\ \A i \in 1..(Order - half - 1) :
                 SubSeq(ParentKeys, half + 2, Order)[i] = ParentKeys[half + 1 + i]
           /\ SubSeq(ParentChildren, 1, half + 1) \in Seq(Nat)
           /\ Len(SubSeq(ParentChildren, 1, half + 1)) = half + 1
           /\ \A i \in 1..(half + 1) : SubSeq(ParentChildren, 1, half + 1)[i] = ParentChildren[i]
           /\ SubSeq(ParentChildren, half + 2, Order + 1) \in Seq(Nat)
           /\ Len(SubSeq(ParentChildren, half + 2, Order + 1)) = Order - half
           /\ \A i \in 1..(Order - half) :
                 SubSeq(ParentChildren, half + 2, Order + 1)[i] = ParentChildren[half + 1 + i]
  <1>. DEFINE half == Order \div 2
              K == ParentKeys
              C == ParentChildren
  <1>1. pc = "parent" /\ Parent # Null /\ Len(heap[Parent].keys) = Order - 1
    BY HalfOf DEF ParentIsFull
  <1>2. /\ K \in Seq(Keys) /\ Len(K) = (Order - 1) + 1
        /\ C \in Seq(Nat) /\ Len(C) = (Order - 1) + 2
    BY <1>1, WideParent
  <1>3. Order \in Nat /\ half \in Nat /\ 1 <= half /\ half + 2 <= Order
    BY HalfOf
  <1>4. Len(K) = Order /\ Len(C) = Order + 1
    BY <1>2, <1>3
  <1>. HIDE DEF K, C, half
  <1>5. /\ SubSeq(K, 1, half) \in Seq(Keys) /\ Len(SubSeq(K, 1, half)) = half - 1 + 1
        /\ \A i \in 1..(half - 1 + 1) : SubSeq(K, 1, half)[i] = K[1 + i - 1]
    <2>1. K \in Seq(Keys) /\ 1 \in Nat \ {0} /\ half \in Nat /\ 1 <= half + 1 /\ half <= Len(K)
      BY <1>2, <1>3, <1>4
    <2>. QED
      BY <2>1, PartOf
  <1>6. /\ SubSeq(K, half + 2, Order) \in Seq(Keys)
        /\ Len(SubSeq(K, half + 2, Order)) = Order - (half + 2) + 1
        /\ \A i \in 1..(Order - (half + 2) + 1) : SubSeq(K, half + 2, Order)[i] = K[(half + 2) + i - 1]
    <2>1. /\ K \in Seq(Keys) /\ half + 2 \in Nat \ {0} /\ Order \in Nat
          /\ half + 2 <= Order + 1 /\ Order <= Len(K)
      BY <1>2, <1>3, <1>4
    <2>. QED
      BY <2>1, PartOf
  <1>7. PICK S : S = Nat
    OBVIOUS
  <1>8. C \in Seq(S)
    BY <1>2, <1>7
  <1>9. /\ SubSeq(C, 1, half + 1) \in Seq(S) /\ Len(SubSeq(C, 1, half + 1)) = (half + 1) - 1 + 1
        /\ \A i \in 1..((half + 1) - 1 + 1) : SubSeq(C, 1, half + 1)[i] = C[1 + i - 1]
    BY <1>3, <1>4, <1>8, PartOf
  <1>10. /\ SubSeq(C, half + 2, Order + 1) \in Seq(S)
         /\ Len(SubSeq(C, half + 2, Order + 1)) = (Order + 1) - (half + 2) + 1
         /\ \A i \in 1..((Order + 1) - (half + 2) + 1) :
               SubSeq(C, half + 2, Order + 1)[i] = C[(half + 2) + i - 1]
    BY <1>3, <1>4, <1>8, PartOf
  <1>11. /\ half - 1 + 1 = half /\ \A i \in 1..half : 1 + i - 1 = i
         /\ Order - (half + 2) + 1 = Order - half - 1
         /\ \A i \in 1..(Order - half - 1) : (half + 2) + i - 1 = half + 1 + i
    BY <1>3
  <1>12. /\ (half + 1) - 1 + 1 = half + 1 /\ \A i \in 1..(half + 1) : 1 + i - 1 = i
         /\ (Order + 1) - (half + 2) + 1 = Order - half
         /\ \A i \in 1..(Order - half) : (half + 2) + i - 1 = half + 1 + i
    BY <1>3
  <1>13. /\ SubSeq(K, 1, half) \in Seq(Keys) /\ Len(SubSeq(K, 1, half)) = half
         /\ \A i \in 1..half : SubSeq(K, 1, half)[i] = K[i]
    BY <1>5, <1>11
  <1>14. /\ SubSeq(K, half + 2, Order) \in Seq(Keys)
         /\ Len(SubSeq(K, half + 2, Order)) = Order - half - 1
         /\ \A i \in 1..(Order - half - 1) : SubSeq(K, half + 2, Order)[i] = K[half + 1 + i]
    BY <1>6, <1>11
  <1>15. /\ SubSeq(C, 1, half + 1) \in Seq(Nat) /\ Len(SubSeq(C, 1, half + 1)) = half + 1
         /\ \A i \in 1..(half + 1) : SubSeq(C, 1, half + 1)[i] = C[i]
    BY <1>7, <1>9, <1>12
  <1>16. /\ SubSeq(C, half + 2, Order + 1) \in Seq(Nat)
         /\ Len(SubSeq(C, half + 2, Order + 1)) = Order - half
         /\ \A i \in 1..(Order - half) : SubSeq(C, half + 2, Order + 1)[i] = C[half + 1 + i]
    BY <1>7, <1>10, <1>12
  <1>. QED
    BY <1>4, <1>13, <1>14, <1>15, <1>16 DEF K, C, half

LEMMA SplitInternalEffect ==
    ASSUME NEW s, TypeOK, Tree(s), SplitInternal
    PROVE  LET half == Order \div 2
               new == Len(heap) + 1
               left == SubSeq(ParentChildren, 1, half + 1)
               right == SubSeq(ParentChildren, half + 2, Order + 1)
           IN
           /\ DOMAIN heap' = 1..(Len(heap) + 1) /\ Len(heap') = Len(heap) + 1 /\ heap' \in Seq(Node)
           /\ Parent \in DOMAIN heap /\ ~heap[Parent].leaf
           /\ \A a \in DOMAIN heap :
                 /\ heap'[a].leaf = heap[a].leaf
                 /\ heap'[a].keys = IF a = Parent THEN SubSeq(ParentKeys, 1, half) ELSE heap[a].keys
                 /\ heap'[a].ptrs = IF a = Parent THEN left ELSE heap[a].ptrs
                 /\ a # Parent => heap'[a].next = heap[a].next
                 /\ heap'[a].parent = IF a = Parent THEN heap[a].parent
                                        ELSE IF a \in ToSet(left) THEN Parent
                                        ELSE IF a \in ToSet(right) THEN new ELSE heap[a].parent
           /\ heap'[new] = Internal(SubSeq(ParentKeys, half + 2, Order), right, heap[Parent].parent)
  <1>. DEFINE half == Order \div 2
              P == Parent
              k1 == SubSeq(ParentKeys, 1, half)
              k2 == SubSeq(ParentKeys, half + 2, Order)
              left == SubSeq(ParentChildren, 1, half + 1)
              right == SubSeq(ParentChildren, half + 2, Order + 1)
              up(a) == IF a \in ToSet(left) THEN P ELSE IF a \in ToSet(right) THEN NewNode ELSE heap[a].parent
              h == [a \in DOMAIN heap |->
                      IF a = P THEN Internal(k1, left, heap[a].parent)
                        ELSE [heap[a] EXCEPT !.parent = up(a)]]
              new == Internal(k2, right, heap[P].parent)
  <1>0. ParentIsFull /\ pc = "parent" /\ P # Null
    BY DEF SplitInternal, ParentIsFull
  <1>1. P \in DOMAIN heap /\ ~heap[P].leaf /\ P \in Nat
    BY <1>0, SplitNodeIs, HeapIs DEF IsChild
  <1>2. k1 \in Seq(Keys) /\ k2 \in Seq(Keys) /\ left \in Seq(Nat) /\ right \in Seq(Nat)
    BY <1>0, FullParent
  <1>3. heap' = Append(h, new)
    BY DEF SplitInternal, SplitAt
  <1>4. heap \in Seq(Node) /\ Len(heap) \in Nat /\ \A a \in DOMAIN heap : heap[a] \in Node
    BY HeapIs, NodeIs
  <1>5. heap[P].parent \in Nat
    BY <1>1, NodeIs
  <1>6. new \in Node /\ Internal(k1, left, heap[P].parent) \in Node
    BY <1>2, <1>5, InternalType
  <1>7. NewNode \in Nat /\ NewNode = Len(heap) + 1
    BY <1>4 DEF NewNode
  <1>8. \A a \in DOMAIN heap : up(a) \in Nat
    <2>1. \A a \in DOMAIN heap : heap[a].parent \in Nat
      BY NodeIs
    <2>. QED
      BY <1>1, <1>7, <2>1
  <1>. HIDE DEF k1, k2, left, right, new, P, up
  <1>9. /\ h[P].leaf = heap[P].leaf /\ h[P].keys = k1 /\ h[P].ptrs = left
        /\ h[P].parent = heap[P].parent /\ h[P] \in Node
    <2>1. h[P] = Internal(k1, left, heap[P].parent)
      BY <1>1
    <2>2. h[P].leaf = FALSE /\ h[P].keys = k1 /\ h[P].ptrs = left /\ h[P].parent = heap[P].parent
      BY <2>1 DEF Internal
    <2>3. heap[P].leaf = FALSE
      BY <1>1, NodeIs
    <2>. QED
      BY <1>6, <2>1, <2>2, <2>3
  <1>10. ASSUME NEW a \in DOMAIN heap, a # P
         PROVE  /\ h[a].leaf = heap[a].leaf /\ h[a].keys = heap[a].keys /\ h[a].ptrs = heap[a].ptrs
                /\ h[a].next = heap[a].next /\ h[a].parent = up(a) /\ h[a] \in Node
    <2>1. h[a] = [heap[a] EXCEPT !.parent = up(a)]
      BY <1>10
    <2>2. heap[a] \in Node /\ up(a) \in Nat
      BY <1>4, <1>8
    <2>. QED
      BY <2>1, <2>2 DEF Node
  <1>11. DOMAIN h = DOMAIN heap /\ h = [a \in DOMAIN heap |-> h[a]] /\ \A a \in DOMAIN heap : h[a] \in Node
    BY <1>9, <1>10
  <1>. HIDE DEF h
  <1>12. h \in Seq(Node) /\ Len(h) = Len(heap)
    BY <1>4, <1>11, Rewritten
  <1>13. /\ heap' \in Seq(Node) /\ Len(heap') = Len(heap) + 1
         /\ DOMAIN heap' = 1..(Len(heap) + 1)
         /\ \A i \in 1..Len(heap) : heap'[i] = h[i]
         /\ heap'[Len(heap) + 1] = new
    BY <1>3, <1>6, <1>12, Appended
  <1>14. DOMAIN heap = 1..Len(heap)
    BY HeapIs
  <1>15. \A a \in DOMAIN heap : heap'[a] = h[a]
    BY <1>13, <1>14
  <1>16. ASSUME NEW a \in DOMAIN heap
         PROVE  /\ heap'[a].leaf = heap[a].leaf
                /\ heap'[a].keys = IF a = P THEN k1 ELSE heap[a].keys
                /\ heap'[a].ptrs = IF a = P THEN left ELSE heap[a].ptrs
                /\ a # P => heap'[a].next = heap[a].next
                /\ heap'[a].parent = IF a = P THEN heap[a].parent ELSE up(a)
    BY <1>9, <1>10, <1>15
  <1>. QED
    BY <1>1, <1>7, <1>13, <1>16 DEF k1, k2, left, right, new, P, up

-----------------------------------------------------------------------------
(* Type correctness.                                                       *)

\* What TypeOK says of the nodes.
SizesFit(h) ==
    \A a \in DOMAIN h :
        /\ Len(h[a].keys) \in 1..MaxKeys
        /\ Len(h[a].ptrs) = IF h[a].leaf THEN Len(h[a].keys) ELSE Len(h[a].keys) + 1

LEMMA FinishTyped ==
    ASSUME Finish, Len(heap') \in Nat
    PROVE  /\ pc' \in {"idle", "descend", "parent"}
           /\ call' \in [op : {"none", "insert", "search"}, key : Keys \cup {0}, offset : Nat]
           /\ node' \in 0..Len(heap')
           /\ promo' \in [key : Keys \cup {0}, right : 0..Len(heap')]
  BY DEF Finish, NoCall, NoPromo, Null

\* The heaps an insertion leaves.
LEMMA InsertIntoLeafSizes ==
    ASSUME NEW s, TypeOK, Tree(s), InsertIntoLeaf
    PROVE  SizesFit(heap')
  <1>1. /\ node \in DOMAIN heap /\ heap[node].leaf
        /\ Len(LeafKeys) = Len(heap[node].keys) + 1 /\ Len(LeafOffsets) = Len(heap[node].keys) + 1
    BY WideLeaf DEF InsertIntoLeaf
  <1>2. Len(heap[node].keys) < MaxKeys /\ Len(heap[node].keys) \in 1..MaxKeys /\ MaxKeys \in Nat
    BY <1>1, NodeIs, HalfOf DEF InsertIntoLeaf
  <1>3. SizesFit(heap)
    BY DEF TypeOK, SizesFit
  <1>4. /\ DOMAIN heap' = DOMAIN heap /\ \A a \in DOMAIN heap : a # node => heap'[a] = heap[a]
        /\ heap'[node].keys = LeafKeys /\ heap'[node].ptrs = LeafOffsets /\ heap'[node].leaf
    BY InsertIntoLeafEffect
  <1>. QED
    BY <1>1, <1>2, <1>3, <1>4 DEF SizesFit

LEMMA SplitLeafSizes ==
    ASSUME NEW s, TypeOK, Tree(s), SplitLeaf
    PROVE  SizesFit(heap')
  <1>. DEFINE half == Order \div 2
              new == Len(heap) + 1
              k1 == SubSeq(LeafKeys, 1, half)
              o1 == SubSeq(LeafOffsets, 1, half)
              k2 == SubSeq(LeafKeys, half + 1, Order)
              o2 == SubSeq(LeafOffsets, half + 1, Order)
  <1>1. /\ node \in DOMAIN heap /\ LeafKeys \in Seq(Keys) /\ LeafOffsets \in Seq(Nat)
        /\ Len(LeafKeys) = Order /\ Len(LeafOffsets) = Order
    BY WideLeaf, HalfOf DEF SplitLeaf, LeafIsFull
  <1>2. half \in Nat /\ Order \in Nat /\ 1 <= half /\ half + 2 <= Order /\ MaxKeys = Order - 1
    BY HalfOf
  <1>3. Len(k1) = half /\ Len(o1) = half
    BY <1>1, <1>2, PartOf
  <1>4. Len(k2) = Order - half /\ Len(o2) = Order - half
    BY <1>1, <1>2, PartOf
  <1>5. /\ DOMAIN heap' = 1..(Len(heap) + 1) /\ \A a \in DOMAIN heap : a # node => heap'[a] = heap[a]
        /\ heap'[node].keys = k1 /\ heap'[node].ptrs = o1 /\ heap'[node].leaf
        /\ heap'[new] = Leaf(k2, o2, heap[node].parent, heap[node].next)
    BY SplitLeafEffect
  <1>. HIDE DEF k1, k2, o1, o2, half
  <1>6. heap'[new].keys = k2 /\ heap'[new].ptrs = o2 /\ heap'[new].leaf
    BY <1>5 DEF Leaf
  <1>7. SizesFit(heap)
    BY DEF TypeOK, SizesFit
  <1>8. \A a \in DOMAIN heap' : a \in DOMAIN heap \/ a = new
    BY <1>5, HeapIs
  <1>9. half \in 1..MaxKeys /\ Order - half \in 1..MaxKeys
    BY <1>2
  <1>. QED
    BY <1>3, <1>4, <1>5, <1>6, <1>7, <1>8, <1>9 DEF SizesFit

LEMMA NewRootSizes ==
    ASSUME NEW s, TypeOK, Tree(s), NewRoot
    PROVE  SizesFit(heap')
  <1>. DEFINE new == Len(heap) + 1
  <1>1. /\ DOMAIN heap' = 1..(Len(heap) + 1)
        /\ \A a \in DOMAIN heap :
              /\ heap'[a].leaf = heap[a].leaf /\ heap'[a].keys = heap[a].keys
              /\ heap'[a].ptrs = heap[a].ptrs
        /\ heap'[new] = Internal(<<promo.key>>, <<node, promo.right>>, Null)
    BY NewRootEffect
  <1>2. Len(heap'[new].keys) = 1 /\ Len(heap'[new].ptrs) = 2 /\ ~heap'[new].leaf
    BY <1>1 DEF Internal
  <1>3. SizesFit(heap)
    BY DEF TypeOK, SizesFit
  <1>4. \A a \in DOMAIN heap' : a \in DOMAIN heap \/ a = new
    BY <1>1, HeapIs
  <1>5. 1 \in 1..MaxKeys
    BY HalfOf
  <1>. QED
    <2>. SUFFICES ASSUME NEW a \in DOMAIN heap'
                  PROVE  /\ Len(heap'[a].keys) \in 1..MaxKeys
                         /\ Len(heap'[a].ptrs) = IF heap'[a].leaf THEN Len(heap'[a].keys)
                                                                  ELSE Len(heap'[a].keys) + 1
      BY DEF SizesFit
    <2>1. CASE a \in DOMAIN heap
      BY <1>1, <1>3, <2>1 DEF SizesFit
    <2>2. CASE a = new
      <3>1. Len(heap'[new].ptrs) = Len(heap'[new].keys) + 1 /\ Len(heap'[new].keys) \in 1..MaxKeys
        <4>. HIDE DEF new
        <4>1. Len(heap'[new].keys) = 1 /\ Len(heap'[new].ptrs) = 2 /\ 2 = 1 + 1
          BY <1>2
        <4>. QED
          BY <1>5, <4>1
      <3>. QED
        BY <1>2, <2>2, <3>1
    <2>. QED
      BY <1>4, <2>1, <2>2

LEMMA InsertIntoInternalSizes ==
    ASSUME NEW s, TypeOK, Tree(s), InsertIntoInternal
    PROVE  SizesFit(heap')
  <1>1. /\ Parent \in DOMAIN heap /\ ~heap[Parent].leaf
        /\ Len(ParentKeys) = Len(heap[Parent].keys) + 1 /\ Len(ParentChildren) = Len(heap[Parent].keys) + 2
    BY WideParent, SplitNodeIs DEF InsertIntoInternal, IsChild
  <1>2. Len(heap[Parent].keys) < MaxKeys /\ Len(heap[Parent].keys) \in 1..MaxKeys /\ MaxKeys \in Nat
    BY <1>1, NodeIs, HalfOf DEF InsertIntoInternal
  <1>3. SizesFit(heap)
    BY DEF TypeOK, SizesFit
  <1>4. /\ DOMAIN heap' = DOMAIN heap
        /\ \A a \in DOMAIN heap :
              /\ heap'[a].leaf = heap[a].leaf
              /\ heap'[a].keys = IF a = Parent THEN ParentKeys ELSE heap[a].keys
              /\ heap'[a].ptrs = IF a = Parent THEN ParentChildren ELSE heap[a].ptrs
    BY InsertIntoInternalEffect
  <1>. QED
    <2>. SUFFICES ASSUME NEW a \in DOMAIN heap'
                  PROVE  /\ Len(heap'[a].keys) \in 1..MaxKeys
                         /\ Len(heap'[a].ptrs) = IF heap'[a].leaf THEN Len(heap'[a].keys)
                                                                  ELSE Len(heap'[a].keys) + 1
      BY DEF SizesFit
    <2>1. CASE a = Parent
      <3>1. Len(heap[Parent].keys) + 1 \in 1..MaxKeys /\ Len(heap[Parent].keys) + 2 = (Len(heap[Parent].keys) + 1) + 1
        BY <1>2
      <3>. QED
        BY <1>1, <1>4, <2>1, <3>1
    <2>2. CASE a # Parent
      BY <1>3, <1>4, <2>2 DEF SizesFit
    <2>. QED
      BY <2>1, <2>2

LEMMA SplitInternalSizes ==
    ASSUME NEW s, TypeOK, Tree(s), SplitInternal
    PROVE  SizesFit(heap')
  <1>. DEFINE half == Order \div 2
              new == Len(heap) + 1
              k1 == SubSeq(ParentKeys, 1, half)
              k2 == SubSeq(ParentKeys, half + 2, Order)
              left == SubSeq(ParentChildren, 1, half + 1)
              right == SubSeq(ParentChildren, half + 2, Order + 1)
  <1>1. /\ Len(k1) = half /\ Len(k2) = Order - half - 1
        /\ Len(left) = half + 1 /\ Len(right) = Order - half
    BY FullParent DEF SplitInternal
  <1>2. half \in Nat /\ Order \in Nat /\ 1 <= half /\ half + 2 <= Order /\ MaxKeys = Order - 1
    BY HalfOf
  <1>3. /\ DOMAIN heap' = 1..(Len(heap) + 1)
        /\ Parent \in DOMAIN heap /\ ~heap[Parent].leaf
        /\ \A a \in DOMAIN heap :
              /\ heap'[a].leaf = heap[a].leaf
              /\ heap'[a].keys = IF a = Parent THEN k1 ELSE heap[a].keys
              /\ heap'[a].ptrs = IF a = Parent THEN left ELSE heap[a].ptrs
        /\ heap'[new] = Internal(k2, right, heap[Parent].parent)
    BY SplitInternalEffect
  <1>. HIDE DEF k1, k2, left, right, half
  <1>4. heap'[new].keys = k2 /\ heap'[new].ptrs = right /\ ~heap'[new].leaf
    BY <1>3 DEF Internal
  <1>5. SizesFit(heap)
    BY DEF TypeOK, SizesFit
  <1>6. \A a \in DOMAIN heap' : a \in DOMAIN heap \/ a = new
    BY <1>3, HeapIs
  <1>7. half \in 1..MaxKeys /\ Order - half - 1 \in 1..MaxKeys /\ Order - half = (Order - half - 1) + 1
    BY <1>2
  <1>. QED
    BY <1>1, <1>3, <1>4, <1>5, <1>6, <1>7 DEF SizesFit

LEMMA SucceedTyped ==
    ASSUME TypeOK, NEW k \in Keys, NEW o, Succeed(k, o), Len(heap') \in Nat
    PROVE  /\ pc' \in {"idle", "descend", "parent"}
           /\ call' \in [op : {"none", "insert", "search"}, key : Keys \cup {0}, offset : Nat]
           /\ node' \in 0..Len(heap')
           /\ promo' \in [key : Keys \cup {0}, right : 0..Len(heap')]
           /\ count' \in Nat /\ DOMAIN stored' \subseteq Keys /\ failures' \in 0..MaxFailures
  <1>1. Finish /\ count' = count + 1 /\ failures' = failures /\ DOMAIN stored' = DOMAIN stored \cup {k}
    BY DEF Succeed
  <1>2. count \in Nat /\ DOMAIN stored \subseteq Keys /\ failures \in 0..MaxFailures
    BY DEF TypeOK
  <1>3. count' \in Nat /\ DOMAIN stored' \subseteq Keys /\ failures' \in 0..MaxFailures
    BY <1>1, <1>2
  <1>. QED
    BY <1>1, <1>3, FinishTyped

LEMMA TypeStep ==
    ASSUME NEW s, TypeOK, Tree(s), [Next]_vars
    PROVE  TypeOK'
  <1>. SUFFICES /\ heap' \in Seq(Node) /\ SizesFit(heap')
                /\ root' \in 0..Len(heap')
                /\ count' \in Nat
                /\ pc' \in {"idle", "descend", "parent"}
                /\ call' \in [op : {"none", "insert", "search"}, key : Keys \cup {0}, offset : Nat]
                /\ node' \in 0..Len(heap')
                /\ promo' \in [key : Keys \cup {0}, right : 0..Len(heap')]
                /\ DOMAIN stored' \subseteq Keys
                /\ failures' \in 0..MaxFailures
    BY DEF TypeOK, SizesFit
  <1>1. /\ heap \in Seq(Node) /\ Len(heap) \in Nat /\ DOMAIN heap = 1..Len(heap) /\ SizesFit(heap)
        /\ root \in 0..Len(heap) /\ count \in Nat /\ pc \in {"idle", "descend", "parent"}
        /\ call \in [op : {"none", "insert", "search"}, key : Keys \cup {0}, offset : Nat]
        /\ node \in 0..Len(heap) /\ promo \in [key : Keys \cup {0}, right : 0..Len(heap)]
        /\ DOMAIN stored \subseteq Keys /\ failures \in 0..MaxFailures
    BY HeapIs DEF TypeOK, SizesFit
  <1>2. ASSUME NEW k \in Keys, InsertFirst(k) PROVE TypeOK'
    <2>1. k \in Nat /\ RowOffset(k) \in Nat
      BY KeysAreNat DEF RowOffset
    <2>. DEFINE n == Leaf(<<k>>, <<RowOffset(k)>>, Null, Null)
    <2>2. n \in Node
      <3>1. <<k>> \in Seq(Keys) /\ <<RowOffset(k)>> \in Seq(Nat) /\ Null \in Nat
        BY <2>1 DEF Null
      <3>. QED
        BY <3>1, LeafType
    <2>3. n.leaf /\ n.keys = <<k>> /\ n.ptrs = <<RowOffset(k)>>
      BY DEF Leaf
    <2>4. heap' = <<n>>
      BY <1>2 DEF InsertFirst
    <2>. HIDE DEF n
    <2>5. heap' \in Seq(Node) /\ Len(heap') = 1 /\ DOMAIN heap' = {1} /\ heap'[1] = n
      BY <2>2, <2>4
    <2>6. Len(<<k>>) = 1 /\ Len(<<RowOffset(k)>>) = 1 /\ 1 \in 1..MaxKeys
      BY HalfOf
    <2>7. SizesFit(heap')
      BY <2>3, <2>5, <2>6 DEF SizesFit
    <2>8. root' \in 0..Len(heap')
      BY <1>2, <2>5 DEF InsertFirst
    <2>9. Succeed(k, RowOffset(k)) /\ Len(heap') \in Nat
      BY <1>2, <2>5 DEF InsertFirst
    <2>. QED
      BY <2>5, <2>7, <2>8, <2>9, SucceedTyped DEF TypeOK, SizesFit
  <1>3. ASSUME NEW k \in Keys, Insert(k) \/ Search(k) PROVE TypeOK'
    <2>1. k \in Nat /\ RowOffset(k) \in Nat
      BY KeysAreNat DEF RowOffset
    <2>2. call' \in [op : {"none", "insert", "search"}, key : Keys \cup {0}, offset : Nat]
      BY <1>3, <2>1 DEF Insert, Search
    <2>3. /\ heap' = heap /\ root' = root /\ count' = count /\ promo' = promo
          /\ stored' = stored /\ failures' = failures /\ node' = root /\ pc' = "descend"
      BY <1>3 DEF Insert, Search
    <2>. QED
      BY <1>1, <2>2, <2>3 DEF TypeOK, SizesFit
  <1>4. CASE Descend
    <2>1. node \in DOMAIN heap /\ call.key \in Keys /\ call.key \in Nat /\ ~heap[node].leaf
      BY <1>4, KeysAreNat DEF Descend, Tree, Underway, Shape
    <2>2. ChildIndex(heap[node].keys, call.key) \in 1..(Len(heap[node].keys) + 1)
      BY <2>1, NodeIs, ShapeIs, ChildIndexIs
    <2>3. ChildIndex(heap[node].keys, call.key) \in DOMAIN heap[node].ptrs
      BY <2>1, <2>2, NodeIs
    <2>4. node' \in DOMAIN heap
      BY <1>4, <2>1, <2>3 DEF Descend, Tree, Sound, ChildFits
    <2>5. heap' = heap /\ UNCHANGED <<root, count, pc, call, promo, stored, failures>>
      BY <1>4 DEF Descend
    <2>6. node' \in 0..Len(heap')
      BY <1>1, <2>4, <2>5
    <2>. QED
      BY <1>1, <2>5, <2>6 DEF TypeOK, SizesFit
  <1>5. CASE Answer \/ SplitLeafFails \/ InsertIntoParentFails
    <2>1. Finish /\ heap' = heap /\ root' = root /\ count' = count /\ stored' = stored
      BY <1>5 DEF Answer, SplitLeafFails, InsertIntoParentFails
    <2>2. failures' \in 0..MaxFailures
      BY <1>1, <1>5, MaxFailuresAssumption DEF Answer, SplitLeafFails, InsertIntoParentFails
    <2>3. Len(heap') \in Nat
      BY <1>1, <2>1
    <2>. QED
      BY <1>1, <2>1, <2>2, <2>3, FinishTyped DEF TypeOK, SizesFit
  <1>6. CASE InsertIntoLeaf
    <2>1. heap' \in Seq(Node) /\ Len(heap') = Len(heap) /\ SizesFit(heap')
      BY <1>6, InsertIntoLeafEffect, InsertIntoLeafSizes
    <2>2. call.key \in Keys /\ Succeed(call.key, call.offset) /\ root' = root
      BY <1>6, WideLeaf DEF InsertIntoLeaf
    <2>. QED
      BY <1>1, <2>1, <2>2, SucceedTyped DEF TypeOK, SizesFit
  <1>7. CASE SplitLeaf
    <2>1. heap' \in Seq(Node) /\ Len(heap') = Len(heap) + 1 /\ SizesFit(heap')
      BY <1>7, SplitLeafEffect, SplitLeafSizes
    <2>2. LeafKeys[Order \div 2 + 1] \in Keys
      <3>1. LeafKeys \in Seq(Keys) /\ Len(LeafKeys) = Order
        BY <1>7, WideLeaf, HalfOf DEF SplitLeaf, LeafIsFull
      <3>2. Order \div 2 + 1 \in 1..Order
        BY HalfOf
      <3>. QED
        BY <3>1, <3>2, ElementOfSeq
    <2>3. /\ promo' = [key |-> LeafKeys[Order \div 2 + 1], right |-> Len(heap) + 1] /\ pc' = "parent"
          /\ UNCHANGED <<root, count, call, node, stored, failures>>
      BY <1>7 DEF SplitLeaf, NewNode
    <2>4. promo' \in [key : Keys \cup {0}, right : 0..Len(heap')]
      BY <1>1, <2>1, <2>2, <2>3
    <2>. QED
      BY <1>1, <2>1, <2>3, <2>4 DEF TypeOK, SizesFit
  <1>8. CASE NewRoot
    <2>1. heap' \in Seq(Node) /\ Len(heap') = Len(heap) + 1 /\ SizesFit(heap')
      BY <1>8, NewRootEffect, NewRootSizes
    <2>2. call.key \in Keys /\ Succeed(call.key, call.offset) /\ root' = Len(heap) + 1
      BY <1>8 DEF NewRoot, NewNode, Tree, Underway
    <2>3. Len(heap') \in Nat /\ root' \in 0..Len(heap')
      BY <1>1, <2>1, <2>2
    <2>. QED
      BY <1>1, <2>1, <2>2, <2>3, SucceedTyped DEF TypeOK, SizesFit
  <1>9. CASE InsertIntoInternal
    <2>1. heap' \in Seq(Node) /\ Len(heap') = Len(heap) /\ SizesFit(heap')
      BY <1>9, InsertIntoInternalEffect, InsertIntoInternalSizes
    <2>2. call.key \in Keys /\ Succeed(call.key, call.offset) /\ root' = root
      BY <1>9 DEF InsertIntoInternal, Tree, Underway
    <2>. QED
      BY <1>1, <2>1, <2>2, SucceedTyped DEF TypeOK, SizesFit
  <1>10. CASE SplitInternal
    <2>1. heap' \in Seq(Node) /\ Len(heap') = Len(heap) + 1 /\ SizesFit(heap') /\ Parent \in DOMAIN heap
      BY <1>10, SplitInternalEffect, SplitInternalSizes
    <2>2. ParentKeys[Order \div 2 + 1] \in Keys
      <3>1. ParentKeys \in Seq(Keys)
        BY <1>10, WideParent DEF SplitInternal, ParentIsFull
      <3>2. Order \div 2 + 1 \in 1..Len(ParentKeys)
        <4>1. Len(ParentKeys) = Order
          BY <1>10, FullParent DEF SplitInternal
        <4>. QED
          BY <4>1, HalfOf
      <3>. QED
        BY <3>1, <3>2, ElementOfSeq
    <2>3. /\ promo' = [key |-> ParentKeys[Order \div 2 + 1], right |-> Len(heap) + 1] /\ node' = Parent
          /\ UNCHANGED <<root, count, pc, call, stored, failures>>
      BY <1>10 DEF SplitInternal, NewNode
    <2>4. promo' \in [key : Keys \cup {0}, right : 0..Len(heap')]
      BY <1>1, <2>1, <2>2, <2>3
    <2>5. node' \in 0..Len(heap')
      BY <1>1, <2>1, <2>3
    <2>. QED
      BY <1>1, <2>1, <2>3, <2>4, <2>5 DEF TypeOK, SizesFit
  <1>11. CASE Destroy
    <2>1. /\ heap' = <<>> /\ root' = 0 /\ count' = 0 /\ stored' = <<>> /\ failures' = 0
          /\ UNCHANGED <<pc, call, node, promo>> /\ pc = "idle"
      BY <1>11 DEF Destroy, Null
    <2>2. node' = 0 /\ promo' = [key |-> 0, right |-> 0]
      BY <2>1 DEF Tree, Underway, Null, NoPromo
    <2>3. Len(<<>>) = 0 /\ <<>> \in Seq(Node) /\ DOMAIN <<>> = {}
      OBVIOUS
    <2>4. SizesFit(heap') /\ heap' \in Seq(Node) /\ Len(heap') = 0 /\ DOMAIN stored' = {}
      BY <2>1, <2>3 DEF SizesFit
    <2>5. /\ root' \in 0..Len(heap') /\ node' \in 0..Len(heap') /\ count' \in Nat
          /\ promo' \in [key : Keys \cup {0}, right : 0..Len(heap')]
          /\ failures' \in 0..MaxFailures
      BY <2>1, <2>2, <2>4, MaxFailuresAssumption
    <2>. QED
      BY <1>1, <2>1, <2>4, <2>5 DEF TypeOK, SizesFit
  <1>12. CASE UNCHANGED vars
    BY <1>1, <1>12 DEF vars, TypeOK, SizesFit
  <1>. QED
    BY <1>2, <1>3, <1>4, <1>5, <1>6, <1>7, <1>8, <1>9, <1>10, <1>11, <1>12
    DEF Next, TypeOK, SizesFit

-----------------------------------------------------------------------------
(* The steps that leave the heap as it is.                                 *)

LEMMA Quiet ==
    ASSUME NEW s, NEW s2, TypeOK, Tree(s),
           UNCHANGED <<heap, root, count, stored, failures>>, pc # "parent", pc' # "parent",
           Shape(s2), Sound(s2), s2.in = s.in, s2.ht = s.ht,
           failures = 0 => s2.lo = s.lo /\ s2.hi = s.hi,
           Underway(s2)'
    PROVE  Tree(s2)'
  <1>1. Shape(s2)'
    BY DEF Shape
  <1>2. Sound(s2)'
    BY DEF Sound, Ordered, ChildFits, Left, Right
  <1>3. Linked(s2)'
    <2>1. Linked(s) /\ Unlinked = {} /\ Unlinked' = {}
      BY DEF Tree, Unlinked
    <2>. QED
      BY <2>1 DEF Linked, IsChild
  <1>4. ASSUME failures' = 0 PROVE Exact(s2)' /\ Chained(s2)' /\ Filled'
    <2>1. failures = 0 /\ s2.lo = s.lo /\ s2.hi = s.hi /\ Exact(s) /\ Chained(s) /\ Filled
      BY <1>4 DEF Tree
    <2>2. \A a : Whole(s, a) = s.hi[a] /\ Whole(s2, a)' = s.hi[a]
      BY <2>1 DEF Whole
    <2>3. Exact(s2)'
      BY <2>1, <2>2 DEF Exact, Left, Right
    <2>4. Chained(s2)'
      BY <2>1 DEF Chained
    <2>5. Arriving = {} /\ Arriving' = {}
      BY DEF Arriving
    <2>6. Filled'
      BY <2>1, <2>5 DEF Filled, OffsetOf
    <2>. QED
      BY <2>3, <2>4, <2>6
  <1>. QED
    BY <1>1, <1>2, <1>3, <1>4 DEF Tree

\* The range of one node may be widened to what its parent grants.
LEMMA Widened ==
    ASSUME NEW s, TypeOK, Tree(s), NEW c \in DOMAIN heap, NEW l \in Nat, NEW h \in Nat,
           l <= s.lo[c], s.hi[c] <= h, h <= Above,
           \A a \in DOMAIN heap : ~heap[a].leaf => \A i \in DOMAIN heap[a].ptrs :
               heap[a].ptrs[i] = c => Left(s, a, i) <= l /\ h <= Right(s, a, i),
           NEW s2, s2 = [in |-> s.in, lo |-> [s.lo EXCEPT ![c] = l],
                         hi |-> [s.hi EXCEPT ![c] = h], ht |-> s.ht]
    PROVE  Shape(s2) /\ Sound(s2)
  <1>0. /\ s.in \subseteq DOMAIN heap /\ s.lo \in [DOMAIN heap -> Nat]
        /\ s.hi \in [DOMAIN heap -> Nat] /\ s.ht \in [DOMAIN heap -> Nat]
    BY DEF Tree, Shape
  <1>1. /\ s2.in = s.in /\ s2.ht = s.ht
        /\ s2.lo = [s.lo EXCEPT ![c] = l] /\ s2.hi = [s.hi EXCEPT ![c] = h]
    OBVIOUS
  <1>2. s2.lo[c] = l /\ s2.hi[c] = h /\ \A a \in DOMAIN heap : a # c => s2.lo[a] = s.lo[a] /\ s2.hi[a] = s.hi[a]
    BY <1>0, <1>1
  <1>3. Shape(s2)
    BY <1>0, <1>1 DEF Shape
  <1>4. \A a \in DOMAIN heap :
          /\ s2.lo[a] \in Nat /\ s2.hi[a] \in Nat /\ s2.lo[a] <= s.lo[a] /\ s.hi[a] <= s2.hi[a]
          /\ s2.hi[a] <= Above
    BY <1>0, <1>2, ShapeIs
  <1>5. ASSUME NEW a \in DOMAIN heap PROVE Ordered(s2, a)
    <2>1. /\ s.lo[a] \in Nat /\ s.hi[a] \in Nat /\ Ordered(s, a) /\ s2.ht[a] = s.ht[a]
          /\ s2.lo[a] \in Nat /\ s2.hi[a] \in Nat /\ s2.lo[a] <= s.lo[a] /\ s.hi[a] <= s2.hi[a]
          /\ s2.hi[a] <= Above
      BY <1>0, <1>1, <1>4 DEF Tree, Sound
    <2>2. \A i \in DOMAIN heap[a].keys : heap[a].keys[i] \in Nat
      BY NodeIs
    <2>. QED
      BY <2>1, <2>2 DEF Ordered
  <1>6. ASSUME NEW a \in DOMAIN heap, ~heap[a].leaf, NEW i \in DOMAIN heap[a].ptrs
        PROVE  ChildFits(s2, a, i)
    <2>. DEFINE d == heap[a].ptrs[i]
    <2>1. ChildFits(s, a, i)
      BY <1>6 DEF Tree, Sound
    <2>2. /\ d \in DOMAIN heap /\ heap[d].parent = a /\ s2.ht[d] + 1 = s2.ht[a]
          /\ Left(s, a, i) <= s.lo[d] /\ s.hi[d] <= Right(s, a, i)
      BY <1>1, <2>1 DEF ChildFits
    <2>3. /\ i \in 1..(Len(heap[a].keys) + 1) /\ Len(heap[a].keys) \in Nat
          /\ \A j \in 1..Len(heap[a].keys) : heap[a].keys[j] \in Nat
      <3>1. /\ DOMAIN heap[a].ptrs = 1..Len(heap[a].ptrs) /\ Len(heap[a].ptrs) = Len(heap[a].keys) + 1
            /\ Len(heap[a].keys) \in 1..MaxKeys /\ \A j \in 1..Len(heap[a].keys) : heap[a].keys[j] \in Nat
        BY <1>6, NodeIs
      <3>2. i \in 1..(Len(heap[a].keys) + 1)
        BY <3>1
      <3>. QED
        BY <3>1, <3>2
    <2>4. Left(s, a, i) \in Nat /\ Left(s2, a, i) \in Nat /\ Left(s2, a, i) <= Left(s, a, i)
      <3>1. i # 1 => i - 1 \in 1..Len(heap[a].keys)
        BY <2>3
      <3>. QED
        BY <1>0, <1>4, <2>3, <3>1 DEF Left, Lower
    <2>5. Right(s, a, i) \in Nat /\ Right(s2, a, i) \in Nat /\ Right(s, a, i) <= Right(s2, a, i)
      <3>1. i # Len(heap[a].keys) + 1 => i \in 1..Len(heap[a].keys)
        BY <2>3
      <3>. QED
        BY <1>0, <1>4, <2>3, <3>1 DEF Right, Upper
    <2>6. /\ s.lo[d] \in Nat /\ s.hi[d] \in Nat /\ s2.lo[d] \in Nat /\ s2.hi[d] \in Nat
      BY <1>0, <1>4, <2>2
    <2>7. CASE d = c
      <3>1. Left(s, a, i) <= l /\ h <= Right(s, a, i)
        BY <1>6, <2>7
      <3>2. Left(s2, a, i) <= s2.lo[d] /\ s2.hi[d] <= Right(s2, a, i)
        BY <1>2, <2>4, <2>5, <2>7, <3>1
      <3>. QED
        BY <2>2, <3>2 DEF ChildFits
    <2>8. CASE d # c
      <3>1. s2.lo[d] = s.lo[d] /\ s2.hi[d] = s.hi[d]
        BY <1>2, <2>2, <2>8
      <3>2. Left(s2, a, i) <= s2.lo[d] /\ s2.hi[d] <= Right(s2, a, i)
        BY <2>2, <2>4, <2>5, <2>6, <3>1
      <3>. QED
        BY <2>2, <3>2 DEF ChildFits
    <2>. QED
      BY <2>7, <2>8
  <1>. QED
    BY <1>3, <1>5, <1>6 DEF Sound

\* Only its parent has a child.
LEMMA ParentIs ==
    ASSUME NEW s, TypeOK, Tree(s), NEW a \in DOMAIN heap, NEW c, IsChild(c, a)
    PROVE  c \in DOMAIN heap /\ heap[c].parent = a /\ s.ht[c] + 1 = s.ht[a] /\ c # a
  <1>1. c \in DOMAIN heap /\ heap[c].parent = a /\ s.ht[c] + 1 = s.ht[a]
    BY DEF IsChild, Tree, Sound, ChildFits
  <1>. QED
    BY <1>1, ShapeIs

LEMMA RootIs ==
    ASSUME NEW s, TypeOK, Tree(s), root # Null
    PROVE  root \in s.in /\ root \in DOMAIN heap /\ \A a \in DOMAIN heap : ~IsChild(root, a)
  <1>1. root \in s.in /\ root \in DOMAIN heap /\ heap[root].parent = Null
    BY DEF Tree, Linked, Shape
  <1>2. \A a \in DOMAIN heap : a # Null
    BY HeapIs DEF Null
  <1>. QED
    BY <1>1, <1>2, ParentIs

LEMMA StartStep ==
    ASSUME NEW s, TypeOK, Tree(s), NEW k \in Keys, Insert(k) \/ Search(k)
    PROVE  \E s2 : Tree(s2)'
  <1>1. PICK s2 : s2 = [in |-> s.in, lo |-> [s.lo EXCEPT ![root] = 0],
                        hi |-> [s.hi EXCEPT ![root] = Above], ht |-> s.ht]
    OBVIOUS
  <1>2. /\ pc = "idle" /\ pc' = "descend" /\ root # Null /\ node' = root
        /\ call'.op \in {"insert", "search"} /\ call'.key = k
        /\ UNCHANGED <<heap, root, count, promo, stored, failures>>
    BY DEF Insert, Search
  <1>3. root \in s.in /\ root \in DOMAIN heap /\ \A a \in DOMAIN heap : ~IsChild(root, a)
    BY <1>2, RootIs
  <1>4. /\ s.lo \in [DOMAIN heap -> Nat] /\ s.hi \in [DOMAIN heap -> Nat]
        /\ s.lo[root] \in Nat /\ s.hi[root] <= Above
    BY <1>3, ShapeIs DEF Tree, Shape
  <1>5. \A a \in DOMAIN heap : ~heap[a].leaf => \A i \in DOMAIN heap[a].ptrs : heap[a].ptrs[i] # root
    BY <1>3 DEF IsChild
  <1>6. Shape(s2) /\ Sound(s2)
    <2>1. 0 \in Nat /\ Above \in Nat /\ 0 <= s.lo[root] /\ Above <= Above
      BY <1>4, AboveAll
    <2>. QED
      BY <1>1, <1>3, <1>4, <1>5, <2>1, Widened
  <1>7. s2.in = s.in /\ s2.ht = s.ht /\ s2.lo[root] = 0 /\ s2.hi[root] = Above
    BY <1>1, <1>3, <1>4
  <1>8. failures = 0 => s2.lo = s.lo /\ s2.hi = s.hi
    <2>1. failures = 0 => s.lo[root] = 0 /\ s.hi[root] = Above
      BY <1>2 DEF Tree, Exact, Whole
    <2>. QED
      BY <1>1, <1>3, <1>4, <2>1
  <1>9. Underway(s2)'
    <2>1. 0 <= k /\ k < Above
      BY AboveAll
    <2>. QED
      BY <1>2, <1>3, <1>7, <2>1 DEF Underway
  <1>10. Tree(s2)'
    BY <1>2, <1>6, <1>7, <1>8, <1>9, Quiet
  <1>. QED
    BY <1>10

\* The parts of a range that the keys of a node make.
LEMMA PartIs ==
    ASSUME NEW s, TypeOK, Tree(s), NEW a \in DOMAIN heap, ~heap[a].leaf, NEW i \in DOMAIN heap[a].ptrs
    PROVE  /\ i \in 1..(Len(heap[a].keys) + 1) /\ Len(heap[a].keys) \in Nat
           /\ Left(s, a, i) \in Nat /\ Right(s, a, i) \in Nat
           /\ s.lo[a] <= Left(s, a, i) /\ Right(s, a, i) <= s.hi[a]
           /\ \A j \in DOMAIN heap[a].ptrs : i < j => Right(s, a, i) <= Left(s, a, j)
  <1>. DEFINE q == heap[a].keys
              n == Len(q)
  <1>1. /\ DOMAIN heap[a].ptrs = 1..Len(heap[a].ptrs) /\ Len(heap[a].ptrs) = n + 1 /\ n \in 1..MaxKeys
        /\ DOMAIN q = 1..n
    BY NodeIs
  <1>2. n \in Nat /\ DOMAIN heap[a].ptrs = 1..(n + 1)
    BY <1>1
  <1>3. \A j \in 1..n : q[j] \in Nat /\ s.lo[a] < q[j] /\ q[j] < s.hi[a]
    BY NodeIs, ShapeIs
  <1>4. s.lo[a] \in Nat /\ s.hi[a] \in Nat /\ \A j, k \in 1..n : j < k => q[j] < q[k]
    BY <1>1, ShapeIs DEF Ascending
  <1>5. i # 1 => i - 1 \in 1..n
    BY <1>2
  <1>6. i # n + 1 => i \in 1..n
    BY <1>2
  <1>. HIDE DEF q, n
  <1>7. Left(s, a, i) = (IF i = 1 THEN s.lo[a] ELSE q[i - 1])
    BY DEF Left, Lower, q
  <1>8. Right(s, a, i) = (IF i = n + 1 THEN s.hi[a] ELSE q[i])
    BY DEF Right, Upper, q, n
  <1>9. ASSUME NEW j \in DOMAIN heap[a].ptrs, i < j PROVE Right(s, a, i) <= Left(s, a, j)
    <2>1. i \in 1..n /\ j - 1 \in 1..n /\ j # 1 /\ i # n + 1 /\ (i = j - 1 \/ i < j - 1)
      BY <1>2, <1>9
    <2>2. Left(s, a, j) = q[j - 1] /\ Right(s, a, i) = q[i]
      BY <1>8, <2>1 DEF Left, Lower, q
    <2>. QED
      BY <1>3, <1>4, <2>1, <2>2
  <1>. QED
    BY <1>2, <1>3, <1>4, <1>5, <1>6, <1>7, <1>8, <1>9 DEF q, n

\* No node is twice a child.
LEMMA ChildrenApart ==
    ASSUME NEW s, TypeOK, Tree(s), NEW a \in DOMAIN heap, ~heap[a].leaf,
           NEW i \in DOMAIN heap[a].ptrs, NEW j \in DOMAIN heap[a].ptrs, heap[a].ptrs[i] = heap[a].ptrs[j]
    PROVE  i = j
  <1>1. ASSUME NEW k \in DOMAIN heap[a].ptrs, NEW l \in DOMAIN heap[a].ptrs, k < l
        PROVE  heap[a].ptrs[k] # heap[a].ptrs[l]
    <2>1. ChildFits(s, a, k) /\ ChildFits(s, a, l)
      BY DEF Tree, Sound
    <2>2. Right(s, a, k) <= Left(s, a, l) /\ Right(s, a, k) \in Nat /\ Left(s, a, l) \in Nat
      BY <1>1, PartIs
    <2>3. /\ heap[a].ptrs[k] \in DOMAIN heap /\ s.hi[heap[a].ptrs[k]] <= Right(s, a, k)
          /\ heap[a].ptrs[l] \in DOMAIN heap /\ Left(s, a, l) <= s.lo[heap[a].ptrs[l]]
      BY <2>1 DEF ChildFits
    <2>4. \A b \in DOMAIN heap : s.lo[b] \in Nat /\ s.hi[b] \in Nat /\ s.lo[b] < s.hi[b]
      BY ShapeIs
    <2>. QED
      BY <2>2, <2>3, <2>4
  <1>2. i \in Nat /\ j \in Nat
    BY PartIs
  <1>. QED
    BY <1>1, <1>2

LEMMA DescendStep ==
    ASSUME NEW s, TypeOK, Tree(s), Descend
    PROVE  \E s2 : Tree(s2)'
  <1>. DEFINE q == heap[node].keys
              i == ChildIndex(q, call.key)
              c == heap[node].ptrs[i]
              l == Left(s, node, i)
              h == Right(s, node, i)
  <1>1. PICK s2 : s2 = [in |-> s.in, lo |-> [s.lo EXCEPT ![c] = l],
                        hi |-> [s.hi EXCEPT ![c] = h], ht |-> s.ht]
    OBVIOUS
  <1>2. /\ pc = "descend" /\ ~heap[node].leaf /\ node' = c
        /\ UNCHANGED <<heap, root, count, pc, call, promo, stored, failures>>
    BY DEF Descend
  <1>3. /\ root # Null /\ node \in s.in /\ node \in DOMAIN heap /\ call.op \in {"insert", "search"}
        /\ call.key \in Keys /\ call.key \in Nat /\ s.lo[node] <= call.key /\ call.key < s.hi[node]
    BY <1>2, KeysAreNat DEF Tree, Underway, Shape
  <1>4. /\ i \in 1..(Len(q) + 1) /\ (i > 1 => q[i - 1] <= call.key) /\ (i <= Len(q) => call.key < q[i])
    BY <1>3, NodeIs, ShapeIs, ChildIndexIs
  <1>5. i \in DOMAIN heap[node].ptrs /\ Len(q) \in Nat
    <2>1. DOMAIN heap[node].ptrs = 1..Len(heap[node].ptrs) /\ Len(heap[node].ptrs) = Len(q) + 1
      BY <1>2, <1>3, NodeIs
    <2>2. Len(q) \in 1..MaxKeys
      BY <1>3, NodeIs
    <2>. QED
      BY <1>4, <2>1, <2>2
  <1>6. l <= call.key /\ call.key < h
    BY <1>3, <1>4, <1>5 DEF Left, Right, Lower, Upper
  <1>7. ChildFits(s, node, i)
    BY <1>2, <1>3, <1>5 DEF Tree, Sound
  <1>8. c \in DOMAIN heap /\ heap[c].parent = node /\ l <= s.lo[c] /\ s.hi[c] <= h
    BY <1>7 DEF ChildFits
  <1>9. l \in Nat /\ h \in Nat /\ h <= s.hi[node] /\ s.hi[node] \in Nat /\ s.hi[node] <= Above
    BY <1>2, <1>3, <1>5, PartIs, ShapeIs
  <1>10. c \in s.in
    BY <1>2, <1>3, <1>5 DEF Tree, Linked
  <1>11. failures = 0 => l = s.lo[c] /\ h = s.hi[c]
    BY <1>2, <1>3, <1>5 DEF Tree, Exact, Whole
  <1>12. s.lo \in [DOMAIN heap -> Nat] /\ s.hi \in [DOMAIN heap -> Nat]
    BY DEF Tree, Shape
  <1>13. ASSUME NEW a \in DOMAIN heap, ~heap[a].leaf, NEW j \in DOMAIN heap[a].ptrs, heap[a].ptrs[j] = c
         PROVE  a = node /\ j = i
    <2>1. IsChild(c, a)
      BY <1>13 DEF IsChild
    <2>2. a = node
      BY <1>8, <2>1, ParentIs
    <2>. QED
      BY <1>3, <1>5, <1>13, <2>2, ChildrenApart
  <1>. HIDE DEF q, i, c, l, h
  <1>14. ASSUME NEW a \in DOMAIN heap, ~heap[a].leaf, NEW j \in DOMAIN heap[a].ptrs, heap[a].ptrs[j] = c
         PROVE  Left(s, a, j) <= l /\ h <= Right(s, a, j)
    <2>1. Left(s, a, j) = l /\ Right(s, a, j) = h
      BY <1>13, <1>14 DEF l, h
    <2>. QED
      BY <1>9, <2>1
  <1>15. Shape(s2) /\ Sound(s2)
    <2>1. h <= Above
      BY <1>9, AboveAll
    <2>. QED
      BY <1>1, <1>8, <1>9, <1>14, <2>1, Widened
  <1>16. s2.in = s.in /\ s2.ht = s.ht /\ s2.lo[c] = l /\ s2.hi[c] = h
    BY <1>1, <1>8, <1>12
  <1>17. failures = 0 => s2.lo = s.lo /\ s2.hi = s.hi
    BY <1>1, <1>8, <1>11, <1>12
  <1>18. Underway(s2)'
    BY <1>2, <1>3, <1>6, <1>10, <1>16 DEF Underway
  <1>19. Tree(s2)'
    BY <1>2, <1>15, <1>16, <1>17, <1>18, Quiet
  <1>. QED
    BY <1>19

LEMMA RefuseStep ==
    ASSUME NEW s, TypeOK, Tree(s), Answer \/ SplitLeafFails
    PROVE  \E s2 : Tree(s2)'
  <1>1. pc = "descend" /\ Finish /\ UNCHANGED <<heap, root, count, stored, failures>>
    BY DEF Answer, SplitLeafFails, LeafIsFull, AtLeaf
  <1>2. Underway(s)'
    BY <1>1 DEF Finish, Underway
  <1>3. Tree(s)'
    BY <1>1, <1>2, Quiet DEF Tree, Finish
  <1>. QED
    BY <1>3

-----------------------------------------------------------------------------
(* The tree appears, and disappears.                                       *)

LEMMA SucceedStores ==
    ASSUME TypeOK, NEW k \in Keys, NEW o, Succeed(k, o), k \notin DOMAIN stored,
           count = Cardinality(DOMAIN stored)
    PROVE  /\ count' = Cardinality(DOMAIN stored') /\ DOMAIN stored' = DOMAIN stored \cup {k}
           /\ stored'[k] = o /\ \A j \in DOMAIN stored : stored'[j] = stored[j]
  <1>1. /\ count' = count + 1
        /\ stored' = [j \in DOMAIN stored \cup {k} |-> IF j = k THEN o ELSE stored[j]]
    BY DEF Succeed
  <1>2. IsFiniteSet(DOMAIN stored)
    BY KeysAssumption, FS_Subset DEF TypeOK
  <1>3. DOMAIN stored' = DOMAIN stored \cup {k}
    BY <1>1
  <1>4. Cardinality(DOMAIN stored \cup {k}) = Cardinality(DOMAIN stored) + 1
    BY <1>2, FS_AddElement
  <1>. QED
    BY <1>1, <1>3, <1>4

LEMMA InsertFirstStep ==
    ASSUME NEW s, TypeOK, Tree(s), NEW k \in Keys, InsertFirst(k)
    PROVE  \E s2 : Tree(s2)'
  <1>. DEFINE n == Leaf(<<k>>, <<RowOffset(k)>>, Null, Null)
  <1>1. /\ pc = "idle" /\ root = Null /\ heap' = <<n>> /\ root' = 1 /\ Succeed(k, RowOffset(k))
        /\ pc' = "idle" /\ node' = Null /\ promo' = NoPromo /\ failures' = failures
    BY DEF InsertFirst, Succeed, Finish
  <1>2. /\ n.leaf /\ n.keys = <<k>> /\ n.ptrs = <<RowOffset(k)>> /\ n.parent = Null /\ n.next = Null
    BY DEF Leaf
  <1>. HIDE DEF n
  <1>3. DOMAIN heap' = {1} /\ heap'[1] = n /\ Len(heap') = 1
    BY <1>1
  <1>4. DOMAIN n.keys = {1} /\ n.keys[1] = k /\ n.ptrs[1] = RowOffset(k)
    BY <1>2
  <1>5. k \in Nat /\ k < Above /\ Above \in Nat /\ Above <= Above /\ 0 <= k
    BY AboveAll
  <1>6. PICK s2 : s2 = [in |-> {1}, lo |-> <<0>>, hi |-> <<Above>>, ht |-> <<0>>]
    OBVIOUS
  <1>7. /\ s2.in = {1} /\ s2.lo[1] = 0 /\ s2.hi[1] = Above /\ s2.ht[1] = 0
        /\ s2.lo \in [{1} -> Nat] /\ s2.hi \in [{1} -> Nat] /\ s2.ht \in [{1} -> Nat]
    BY <1>5, <1>6
  <1>8. Shape(s2)'
    BY <1>3, <1>7 DEF Shape
  <1>9. Sound(s2)'
    BY <1>2, <1>3, <1>4, <1>5, <1>7 DEF Sound, Ordered
  <1>10. Linked(s2)'
    BY <1>1, <1>2, <1>3, <1>7 DEF Linked, Null
  <1>11. Underway(s2)'
    BY <1>1 DEF Underway
  <1>12. ASSUME failures' = 0 PROVE Exact(s2)' /\ Chained(s2)' /\ Filled'
    <2>1. Filled /\ heap = <<>>
      BY <1>1, <1>12 DEF Tree, Linked
    <2>2. DOMAIN stored = {} /\ count = Cardinality(DOMAIN stored)
      <3>1. DOMAIN heap = {}
        BY <2>1
      <3>. QED
        BY <2>1, <3>1 DEF Filled
    <2>3. /\ count' = Cardinality(DOMAIN stored') /\ DOMAIN stored' = {k} /\ stored'[k] = RowOffset(k)
      BY <1>1, <2>2, SucceedStores
    <2>4. Exact(s2)'
      BY <1>1, <1>2, <1>3, <1>7 DEF Exact, Whole
    <2>5. Chained(s2)'
      BY <1>2, <1>3, <1>7 DEF Chained
    <2>6. Arriving' = {}
      BY <1>1 DEF Arriving
    <2>7. Filled'
      BY <1>2, <1>3, <1>4, <2>3, <2>6 DEF Filled, OffsetOf
    <2>. QED
      BY <2>4, <2>5, <2>7
  <1>13. Tree(s2)'
    BY <1>8, <1>9, <1>10, <1>11, <1>12 DEF Tree
  <1>. QED
    BY <1>13

\* The empty tree, of bptree_init and of bptree_destroy.
Empty ==
    /\ heap = <<>> /\ root = Null /\ count = 0 /\ stored = <<>>
    /\ pc = "idle" /\ node = Null /\ promo = NoPromo

LEMMA EmptyTree == Empty => HasTree
  <1>. SUFFICES ASSUME Empty PROVE \E s : Tree(s)
    BY DEF HasTree
  <1>. USE DEF Empty
  <1>1. PICK s : s = [in |-> {}, lo |-> <<>>, hi |-> <<>>, ht |-> <<>>]
    OBVIOUS
  <1>2. DOMAIN heap = {} /\ DOMAIN stored = {}
    OBVIOUS
  <1>3. <<>> \in [{} -> Nat]
    OBVIOUS
  <1>4. Shape(s)
    BY <1>1, <1>2, <1>3 DEF Shape
  <1>5. Sound(s) /\ Linked(s) /\ Underway(s)
    BY <1>2 DEF Sound, Linked, Underway
  <1>6. Exact(s)
    BY <1>1, <1>2 DEF Exact
  <1>7. Chained(s)
    BY <1>2 DEF Chained
  <1>8. Filled
    <2>1. Arriving = {}
      BY DEF Arriving
    <2>2. Cardinality({}) = 0
      BY FS_EmptySet
    <2>. QED
      BY <1>2, <2>1, <2>2 DEF Filled
  <1>9. Tree(s)
    BY <1>4, <1>5, <1>6, <1>7, <1>8 DEF Tree
  <1>. QED
    BY <1>9

LEMMA DestroyStep ==
    ASSUME NEW s, TypeOK, Tree(s), Destroy
    PROVE  HasTree'
  <1>1. Empty'
    BY DEF Destroy, Tree, Underway, Empty
  <1>. QED
    BY <1>1, EmptyTree, PTL

-----------------------------------------------------------------------------
(* A leaf gets a key.                                                      *)

\* The descent ends at the only leaf that may have the key.
LEMMA LeafOfKey ==
    ASSUME NEW s, TypeOK, Tree(s), failures = 0, pc = "descend", heap[node].leaf,
           NEW a \in DOMAIN heap, heap[a].leaf,
           NEW i \in DOMAIN heap[a].keys, heap[a].keys[i] = call.key
    PROVE  a = node
  <1>1. node \in DOMAIN heap /\ call.key \in Nat /\ s.lo[node] <= call.key /\ call.key < s.hi[node]
    BY KeysAreNat DEF Tree, Underway, Shape
  <1>2. i \in 1..Len(heap[a].keys)
    BY NodeIs
  <1>3. s.lo[a] <= call.key /\ call.key < s.hi[a]
    BY <1>2, ShapeIs
  <1>4. s.ht[a] = 0 /\ s.ht[node] = 0
    BY <1>1, ShapeIs
  <1>5. /\ s.lo[a] \in Nat /\ s.hi[a] \in Nat /\ s.lo[node] \in Nat /\ s.hi[node] \in Nat
    BY <1>1, ShapeIs
  <1>6. a # node => s.hi[a] <= s.lo[node] \/ s.hi[node] <= s.lo[a]
    BY <1>1, <1>4 DEF Tree, Exact
  <1>. QED
    BY <1>1, <1>3, <1>5, <1>6

LEMMA NotYetStored ==
    ASSUME NEW s, TypeOK, Tree(s), failures = 0, AtLeaf("insert"), ~Holds(heap[node], call.key)
    PROVE  call.key \notin DOMAIN stored
  <1>. SUFFICES ASSUME call.key \in DOMAIN stored PROVE FALSE
    OBVIOUS
  <1>1. pc = "descend" /\ heap[node].leaf /\ Filled
    BY DEF AtLeaf, Tree
  <1>2. PICK a \in DOMAIN heap : heap[a].leaf /\ \E i \in DOMAIN heap[a].keys : heap[a].keys[i] = call.key
    BY <1>1 DEF Filled
  <1>3. PICK i \in DOMAIN heap[a].keys : heap[a].keys[i] = call.key
    BY <1>2
  <1>4. a = node
    BY <1>1, <1>2, <1>3, LeafOfKey
  <1>. QED
    BY <1>3, <1>4 DEF Holds

LEMMA InsertIntoLeafStep ==
    ASSUME NEW s, TypeOK, Tree(s), InsertIntoLeaf
    PROVE  Tree(s)'
  <1>. DEFINE n == Len(heap[node].keys)
              k == call.key
  <1>1. /\ AtLeaf("insert") /\ ~Holds(heap[node], k) /\ pc = "descend" /\ Succeed(k, call.offset)
        /\ pc' = "idle" /\ node' = Null /\ promo' = NoPromo /\ root' = root /\ failures' = failures
    BY DEF InsertIntoLeaf, AtLeaf, Succeed, Finish
  <1>2. /\ node \in DOMAIN heap /\ heap[node].leaf /\ k \in Keys
        /\ LeafKeys \in Seq(Keys) /\ Len(LeafKeys) = n + 1 /\ Ascending(LeafKeys)
        /\ \A i \in 1..(n + 1) : s.lo[node] <= LeafKeys[i] /\ LeafKeys[i] < s.hi[node]
        /\ \A i \in 1..(n + 1) :
              \/ LeafKeys[i] = k /\ LeafOffsets[i] = call.offset
              \/ \E j \in 1..n : LeafKeys[i] = heap[node].keys[j] /\ LeafOffsets[i] = heap[node].ptrs[j]
        /\ \A j \in 1..n : \E i \in 1..(n + 1) : LeafKeys[i] = heap[node].keys[j]
        /\ \E i \in 1..(n + 1) : LeafKeys[i] = k
    BY <1>1, WideLeaf
  <1>3. DOMAIN heap[node].keys = 1..n /\ n \in Nat /\ DOMAIN LeafKeys = 1..(n + 1)
    <2>1. n \in 1..MaxKeys /\ DOMAIN heap[node].keys = 1..n
      BY <1>2, NodeIs
    <2>. QED
      BY <1>2, <2>1
  <1>4. /\ DOMAIN heap' = DOMAIN heap /\ Len(heap') = Len(heap)
        /\ \A a \in DOMAIN heap : a # node => heap'[a] = heap[a]
        /\ heap'[node].keys = LeafKeys /\ heap'[node].ptrs = LeafOffsets
        /\ heap'[node].leaf /\ heap'[node].parent = heap[node].parent
        /\ heap'[node].next = heap[node].next
    BY InsertIntoLeafEffect
  <1>. HIDE DEF n, k
  <1>5. \A a \in DOMAIN heap :
          /\ heap'[a].leaf <=> heap[a].leaf
          /\ heap'[a].parent = heap[a].parent /\ heap'[a].next = heap[a].next
          /\ ~heap[a].leaf => heap'[a] = heap[a]
    BY <1>2, <1>4
  <1>6. Shape(s) /\ Sound(s) /\ Linked(s)
    BY DEF Tree
  <1>7. Shape(s)'
    BY <1>4, <1>6 DEF Shape
  <1>8. Sound(s)'
    <2>1. ASSUME NEW a \in DOMAIN heap PROVE Ordered(s, a)'
      <3>1. CASE a # node
        BY <1>4, <1>6, <3>1 DEF Sound, Ordered
      <3>2. CASE a = node
        <4>1. Ordered(s, node)
          BY <1>2, <1>6 DEF Sound
        <4>2. \A i, j \in DOMAIN LeafKeys : i < j => LeafKeys[i] < LeafKeys[j]
          BY <1>2 DEF Ascending
        <4>. QED
          BY <1>2, <1>3, <1>4, <3>2, <4>1, <4>2 DEF Ordered
      <3>. QED
        BY <3>1, <3>2
    <2>2. ASSUME NEW a \in DOMAIN heap, ~heap[a].leaf, NEW i \in DOMAIN heap[a].ptrs
          PROVE  ChildFits(s, a, i)'
      <3>1. heap'[a] = heap[a] /\ ChildFits(s, a, i)
        BY <1>5, <1>6, <2>2 DEF Sound
      <3>. QED
        BY <1>4, <1>5, <3>1 DEF ChildFits, Left, Right
    <2>. QED
      BY <1>4, <1>5, <2>1, <2>2 DEF Sound
  <1>9. Linked(s)'
    <2>1. Unlinked = {} /\ Unlinked' = {}
      BY <1>1 DEF Unlinked
    <2>2. \A a \in DOMAIN heap : \A c : IsChild(c, a)' <=> IsChild(c, a)
      BY <1>5 DEF IsChild
    <2>3. s.in \subseteq DOMAIN heap /\ heap # <<>> /\ root # Null
      BY <1>2, <1>6, <1>1 DEF Shape, Tree, Underway
    <2>4. /\ root \in s.in /\ heap[root].parent = Null
          /\ \A a \in s.in : ~heap[a].leaf => \A i \in DOMAIN heap[a].ptrs : heap[a].ptrs[i] \in s.in
          /\ \A a \in s.in \ {root} : heap[a].parent \in s.in /\ IsChild(a, heap[a].parent)
          /\ \A a \in s.in : s.ht[a] <= s.ht[root]
          /\ s.ht[root] < Len(heap)
      BY <1>6, <2>1, <2>3 DEF Linked
    <2>5. \A a \in s.in : ~heap'[a].leaf => \A i \in DOMAIN heap'[a].ptrs : heap'[a].ptrs[i] \in s.in
      BY <1>5, <2>3, <2>4
    <2>6. ASSUME NEW a \in s.in \ {root} PROVE (heap[a].parent \in s.in /\ IsChild(a, heap[a].parent))'
      <3>1. PICK p \in DOMAIN heap : p = heap[a].parent /\ heap'[a].parent = p /\ p \in s.in /\ IsChild(a, p)
        BY <1>5, <2>3, <2>4
      <3>2. IsChild(a, p)'
        BY <2>2, <3>1
      <3>. QED
        BY <3>1, <3>2 DEF IsChild
    <2>. QED
      BY <1>1, <1>4, <1>5, <2>1, <2>3, <2>4, <2>5, <2>6 DEF Linked
  <1>10. Underway(s)'
    BY <1>1 DEF Underway
  <1>11. ASSUME failures' = 0 PROVE Exact(s)' /\ Chained(s)' /\ Filled'
    <2>1. failures = 0 /\ Exact(s) /\ Chained(s) /\ Filled
      BY <1>1, <1>11 DEF Tree
    <2>2. \A a : Whole(s, a) = s.hi[a] /\ Whole(s, a)' = s.hi[a]
      BY <1>1 DEF Whole
    <2>3. Exact(s)'
      BY <1>1, <1>4, <1>5, <2>1, <2>2 DEF Exact, Left, Right
    <2>4. Chained(s)'
      BY <1>4, <1>5, <2>1 DEF Chained
    <2>5. k \notin DOMAIN stored /\ count = Cardinality(DOMAIN stored) /\ Arriving = {} /\ Arriving' = {}
      BY <1>1, <2>1, NotYetStored DEF k, Filled, Arriving
    <2>6. /\ count' = Cardinality(DOMAIN stored') /\ DOMAIN stored' = DOMAIN stored \cup {k}
          /\ stored'[k] = call.offset /\ \A j \in DOMAIN stored : stored'[j] = stored[j]
      BY <1>1, <1>2, <2>5, SucceedStores
    <2>7. \A a \in DOMAIN heap : heap[a].leaf => \A i \in DOMAIN heap[a].keys :
            /\ heap[a].keys[i] \in DOMAIN stored /\ heap[a].ptrs[i] = stored[heap[a].keys[i]]
      BY <2>1, <2>5 DEF Filled, OffsetOf
    <2>8. ASSUME NEW a \in DOMAIN heap, heap'[a].leaf, NEW i \in DOMAIN heap'[a].keys
          PROVE  heap'[a].keys[i] \in DOMAIN stored' /\ heap'[a].ptrs[i] = stored'[heap'[a].keys[i]]
      <3>1. CASE a # node
        BY <1>4, <2>6, <2>7, <2>8, <3>1
      <3>2. CASE a = node
        <4>1. i \in 1..(n + 1) /\ heap'[a].keys[i] = LeafKeys[i] /\ heap'[a].ptrs[i] = LeafOffsets[i]
          BY <1>3, <1>4, <2>8, <3>2
        <4>2. CASE LeafKeys[i] = k /\ LeafOffsets[i] = call.offset
          BY <2>6, <4>1, <4>2
        <4>3. CASE \E j \in 1..n : LeafKeys[i] = heap[node].keys[j] /\ LeafOffsets[i] = heap[node].ptrs[j]
          <5>1. PICK j \in 1..n : LeafKeys[i] = heap[node].keys[j] /\ LeafOffsets[i] = heap[node].ptrs[j]
            BY <4>3
          <5>. QED
            BY <1>2, <1>3, <2>6, <2>7, <4>1, <5>1
        <4>. QED
          BY <1>2, <4>1, <4>2, <4>3
      <3>. QED
        BY <3>1, <3>2
    <2>9. ASSUME NEW j \in DOMAIN stored'
          PROVE  \E a \in DOMAIN heap : heap'[a].leaf /\ \E i \in DOMAIN heap'[a].keys : heap'[a].keys[i] = j
      <3>1. CASE j = k
        <4>1. PICK m \in 1..(n + 1) : LeafKeys[m] = k
          BY <1>2
        <4>. QED
          BY <1>2, <1>3, <1>4, <3>1, <4>1
      <3>2. CASE j \in DOMAIN stored
        <4>1. PICK a \in DOMAIN heap : heap[a].leaf /\ \E i \in DOMAIN heap[a].keys : heap[a].keys[i] = j
          BY <2>1, <3>2 DEF Filled
        <4>2. CASE a = node
          <5>1. PICK i \in 1..n : heap[node].keys[i] = j
            BY <1>3, <4>1, <4>2
          <5>2. PICK m \in 1..(n + 1) : LeafKeys[m] = j
            BY <1>2, <5>1
          <5>. QED
            BY <1>2, <1>3, <1>4, <5>2
        <4>3. CASE a # node
          BY <1>4, <4>1, <4>3
        <4>. QED
          BY <4>2, <4>3
      <3>. QED
        BY <2>6, <3>1, <3>2
    <2>10. Filled'
      BY <1>4, <2>5, <2>6, <2>8, <2>9 DEF Filled, OffsetOf
    <2>. QED
      BY <2>3, <2>4, <2>10
  <1>. QED
    BY <1>7, <1>8, <1>9, <1>10, <1>11 DEF Tree

-----------------------------------------------------------------------------
(* A node is split.                                                        *)

\* No two nodes of the same height have keys in common.
Apart(D, lo, hi, ht) ==
    \A a, b \in D : a # b /\ ht[a] = ht[b] => hi[a] <= lo[b] \/ hi[b] <= lo[a]

\* The shape after node x gave its range from m on to a new node.
Halved(s, x, m) ==
    LET new == Len(heap) + 1 IN
    [in |-> s.in \cup {new},
     lo |-> [a \in 1..new |-> IF a = new THEN m ELSE s.lo[a]],
     hi |-> [a \in 1..new |-> IF a = new THEN s.hi[x] ELSE IF a = x THEN m ELSE s.hi[a]],
     ht |-> [a \in 1..new |-> IF a = new THEN s.ht[x] ELSE s.ht[a]]]

LEMMA HalvedIs ==
    ASSUME NEW s, TypeOK, Tree(s), NEW x \in DOMAIN heap, NEW m \in Nat, s.lo[x] < m, m < s.hi[x],
           NEW s2, s2 = Halved(s, x, m)
    PROVE  LET new == Len(heap) + 1 IN
           /\ new \notin DOMAIN heap /\ 1..new = DOMAIN heap \cup {new} /\ new # Null /\ new \in Nat
           /\ s2.in = s.in \cup {new}
           /\ s2.lo \in [1..new -> Nat] /\ s2.hi \in [1..new -> Nat] /\ s2.ht \in [1..new -> Nat]
           /\ \A a \in DOMAIN heap :
                 /\ s2.lo[a] = s.lo[a] /\ s2.ht[a] = s.ht[a]
                 /\ a # x => s2.hi[a] = s.hi[a]
                 /\ s2.hi[a] <= s.hi[a]
           /\ s2.hi[x] = m /\ s2.lo[new] = m /\ s2.hi[new] = s.hi[x] /\ s2.ht[new] = s.ht[x]
           /\ Apart(DOMAIN heap, s.lo, s.hi, s.ht) => Apart(1..new, s2.lo, s2.hi, s2.ht)
  <1>. DEFINE new == Len(heap) + 1
              D == DOMAIN heap
  <1>1. new \notin D /\ 1..new = D \cup {new} /\ new # Null /\ new \in Nat
    BY HeapIs DEF Null
  <1>2. /\ s2.in = s.in \cup {new}
        /\ s2.lo = [a \in 1..new |-> IF a = new THEN m ELSE s.lo[a]]
        /\ s2.hi = [a \in 1..new |-> IF a = new THEN s.hi[x] ELSE IF a = x THEN m ELSE s.hi[a]]
        /\ s2.ht = [a \in 1..new |-> IF a = new THEN s.ht[x] ELSE s.ht[a]]
    BY DEF Halved
  <1>3. \A a \in D : s.lo[a] \in Nat /\ s.hi[a] \in Nat /\ s.ht[a] \in Nat /\ s.lo[a] < s.hi[a]
    BY ShapeIs
  <1>. HIDE DEF new, D
  <1>4. x \in D /\ x # new
    BY <1>1 DEF D
  <1>5. s2.lo \in [1..new -> Nat] /\ s2.hi \in [1..new -> Nat] /\ s2.ht \in [1..new -> Nat]
    BY <1>1, <1>2, <1>3, <1>4
  <1>6. /\ \A a \in D : s2.lo[a] = s.lo[a] /\ s2.ht[a] = s.ht[a] /\ (a # x => s2.hi[a] = s.hi[a])
        /\ s2.hi[x] = m /\ s2.lo[new] = m /\ s2.hi[new] = s.hi[x] /\ s2.ht[new] = s.ht[x]
    BY <1>1, <1>2, <1>4
  <1>7. \A a \in D : s2.hi[a] <= s.hi[a]
    BY <1>3, <1>4, <1>6
  <1>8. ASSUME Apart(D, s.lo, s.hi, s.ht) PROVE Apart(1..new, s2.lo, s2.hi, s2.ht)
    <2>1. ASSUME NEW a \in D, NEW b \in D, a # b, s2.ht[a] = s2.ht[b]
          PROVE  s2.hi[a] <= s2.lo[b] \/ s2.hi[b] <= s2.lo[a]
      <3>1. s.hi[a] <= s.lo[b] \/ s.hi[b] <= s.lo[a]
        BY <1>6, <1>8, <2>1 DEF Apart
      <3>2. s2.hi[a] \in Nat /\ s2.hi[b] \in Nat
        BY <1>1, <1>5
      <3>. QED
        BY <1>3, <1>6, <1>7, <3>1, <3>2
    <2>2. ASSUME NEW b \in D, s2.ht[new] = s2.ht[b]
          PROVE  s2.hi[new] <= s2.lo[b] \/ s2.hi[b] <= s2.lo[new]
      <3>1. CASE b = x
        BY <1>6, <3>1
      <3>2. CASE b # x
        <4>1. s.hi[x] <= s.lo[b] \/ s.hi[b] <= s.lo[x]
          BY <1>4, <1>6, <1>8, <2>2, <3>2 DEF Apart
        <4>. QED
          BY <1>3, <1>4, <1>6, <3>2, <4>1
      <3>. QED
        BY <3>1, <3>2
    <2>. QED
      BY <1>1, <2>1, <2>2 DEF Apart
  <1>. QED
    BY <1>1, <1>2, <1>5, <1>6, <1>7, <1>8 DEF new, D

\* The leaf is full: its keys with the new one, and what they divide into.
LEMMA FullLeaf ==
    ASSUME NEW s, TypeOK, Tree(s), LeafIsFull
    PROVE  LET half == Order \div 2
               k1 == SubSeq(LeafKeys, 1, half)
               k2 == SubSeq(LeafKeys, half + 1, Order)
               o1 == SubSeq(LeafOffsets, 1, half)
               o2 == SubSeq(LeafOffsets, half + 1, Order)
               m == LeafKeys[half + 1]
           IN
           /\ node \in DOMAIN heap /\ heap[node].leaf /\ Len(heap[node].keys) = Order - 1
           /\ m \in Keys /\ m \in Nat /\ s.lo[node] < m /\ m < s.hi[node]
           /\ DOMAIN k1 = 1..half /\ Ascending(k1)
           /\ \A i \in 1..half : /\ k1[i] = LeafKeys[i] /\ o1[i] = LeafOffsets[i]
                                 /\ s.lo[node] <= k1[i] /\ k1[i] < m
           /\ DOMAIN k2 = 1..(Order - half) /\ Ascending(k2)
           /\ \A i \in 1..(Order - half) :
                 /\ k2[i] = LeafKeys[half + i] /\ o2[i] = LeafOffsets[half + i]
                 /\ m <= k2[i] /\ k2[i] < s.hi[node]
  <1>. DEFINE half == Order \div 2
              K == LeafKeys
              O == LeafOffsets
              k1 == SubSeq(K, 1, half)
              k2 == SubSeq(K, half + 1, Order)
              o1 == SubSeq(O, 1, half)
              o2 == SubSeq(O, half + 1, Order)
              m == K[half + 1]
  <1>1. Order \in Nat /\ half \in Nat /\ 1 <= half /\ half + 2 <= Order
    BY HalfOf
  <1>2. AtLeaf("insert") /\ ~Holds(heap[node], call.key) /\ Len(heap[node].keys) = Order - 1
    BY HalfOf DEF LeafIsFull
  <1>3. /\ node \in DOMAIN heap /\ heap[node].leaf /\ K \in Seq(Keys) /\ Len(K) = (Order - 1) + 1
        /\ Ascending(K) /\ O \in Seq(Nat) /\ Len(O) = (Order - 1) + 1
        /\ \A i \in 1..((Order - 1) + 1) : s.lo[node] <= K[i] /\ K[i] < s.hi[node]
    BY <1>2, WideLeaf
  <1>. HIDE DEF K, O, half
  <1>4. /\ Len(K) = Order /\ Len(O) = Order /\ DOMAIN K = 1..Order
        /\ \A i \in 1..Order : s.lo[node] <= K[i] /\ K[i] < s.hi[node]
    BY <1>1, <1>3
  <1>5. \A i \in 1..Order : K[i] \in Keys /\ K[i] \in Nat
    BY <1>3, <1>4, KeysAreNat, ElementOfSeq
  <1>6. \A i, j \in 1..Order : i < j => K[i] < K[j]
    BY <1>3, <1>4 DEF Ascending
  <1>7. 1 \in 1..Order /\ half + 1 \in 1..Order /\ 1 < half + 1
    BY <1>1
  <1>8. K \in Seq(Nat)
    BY <1>3, KeysAreNat, SeqMonotonic
  <1>9. s.lo[node] \in Nat /\ s.hi[node] \in Nat
    BY <1>3, ShapeIs
  <1>10. m \in Keys /\ m \in Nat /\ s.lo[node] < m /\ m < s.hi[node]
    BY <1>4, <1>5, <1>6, <1>7, <1>9
  <1>11. k1 \in Seq(Nat) /\ Len(k1) = half /\ \A i \in 1..half : k1[i] = K[i]
    <2>1. /\ Len(k1) = half - 1 + 1 /\ k1 \in Seq(Nat)
          /\ \A i \in 1..(half - 1 + 1) : k1[i] = K[1 + i - 1]
      <3>1. 1 \in Nat \ {0} /\ half \in Nat /\ 1 <= half + 1 /\ half <= Len(K)
        BY <1>1, <1>4
      <3>. QED
        BY <1>8, <3>1, PartOf
    <2>2. half - 1 + 1 = half /\ \A i \in 1..half : 1 + i - 1 = i
      BY <1>1
    <2>. QED
      BY <2>1, <2>2
  <1>12. \A i \in 1..half : o1[i] = O[i]
    <2>0. PICK S : S = Nat
      OBVIOUS
    <2>1. \A i \in 1..(half - 1 + 1) : o1[i] = O[1 + i - 1]
      <3>1. O \in Seq(S) /\ 1 \in Nat \ {0} /\ half \in Nat /\ 1 <= half + 1 /\ half <= Len(O)
        BY <1>1, <1>3, <1>4, <2>0
      <3>. QED
        BY <3>1, PartOf
    <2>2. half - 1 + 1 = half /\ \A i \in 1..half : 1 + i - 1 = i
      BY <1>1
    <2>. QED
      BY <2>1, <2>2
  <1>13. /\ k2 \in Seq(Nat) /\ Len(k2) = Order - half
         /\ \A i \in 1..(Order - half) : k2[i] = K[half + i]
    <2>1. /\ Len(k2) = Order - (half + 1) + 1 /\ k2 \in Seq(Nat)
          /\ \A i \in 1..(Order - (half + 1) + 1) : k2[i] = K[(half + 1) + i - 1]
      <3>1. half + 1 \in Nat \ {0} /\ Order \in Nat /\ half + 1 <= Order + 1 /\ Order <= Len(K)
        BY <1>1, <1>4
      <3>. QED
        BY <1>8, <3>1, PartOf, SMTT(30)
    <2>2. /\ Order - (half + 1) + 1 = Order - half
          /\ \A i \in 1..(Order - half) : (half + 1) + i - 1 = half + i
      BY <1>1
    <2>. QED
      BY <2>1, <2>2
  <1>14. \A i \in 1..(Order - half) : o2[i] = O[half + i]
    <2>0. PICK S : S = Nat
      OBVIOUS
    <2>1. \A i \in 1..(Order - (half + 1) + 1) : o2[i] = O[(half + 1) + i - 1]
      <3>1. /\ O \in Seq(S) /\ half + 1 \in Nat \ {0} /\ Order \in Nat /\ half + 1 <= Order + 1
            /\ Order <= Len(O)
        BY <1>1, <1>3, <1>4, <2>0
      <3>. QED
        BY <3>1, PartOf
    <2>2. /\ Order - (half + 1) + 1 = Order - half
          /\ \A i \in 1..(Order - half) : (half + 1) + i - 1 = half + i
      BY <1>1
    <2>. QED
      BY <2>1, <2>2
  <1>15. DOMAIN k1 = 1..half /\ DOMAIN k2 = 1..(Order - half)
    BY <1>11, <1>13, LenProperties
  <1>. HIDE DEF k1, k2, o1, o2
  <1>16. \A i \in 1..half : i \in 1..Order /\ i < half + 1
    BY <1>1
  <1>17. \A i \in 1..(Order - half) : half + i \in 1..Order /\ (half + i = half + 1 \/ half + 1 < half + i)
    BY <1>1
  <1>18. \A i \in 1..half : s.lo[node] <= k1[i] /\ k1[i] < m
    BY <1>4, <1>6, <1>7, <1>11, <1>16
  <1>19. \A i \in 1..(Order - half) : m <= k2[i] /\ k2[i] < s.hi[node]
    BY <1>4, <1>5, <1>6, <1>7, <1>13, <1>17, SMTT(30)
  <1>20. Ascending(k1)
    BY <1>6, <1>11, <1>15, <1>16 DEF Ascending
  <1>21. Ascending(k2)
    <2>1. \A i, j \in 1..(Order - half) : i < j => half + i < half + j
      BY <1>1
    <2>. QED
      BY <1>6, <1>13, <1>15, <1>17, <2>1 DEF Ascending
  <1>. QED
    BY <1>2, <1>3, <1>10, <1>11, <1>12, <1>13, <1>14, <1>15, <1>18, <1>19, <1>20, <1>21
    DEF K, O, k1, k2, o1, o2, half

LEMMA SplitLeafStep ==
    ASSUME NEW s, TypeOK, Tree(s), SplitLeaf
    PROVE  \E s2 : Tree(s2)'
  <1>1. PICK half, new, x, k, m, K, O, k1, k2, o1, o2 :
          /\ half = Order \div 2 /\ new = Len(heap) + 1 /\ x = node /\ k = call.key
          /\ K = LeafKeys /\ O = LeafOffsets /\ m = K[half + 1]
          /\ k1 = SubSeq(K, 1, half) /\ k2 = SubSeq(K, half + 1, Order)
          /\ o1 = SubSeq(O, 1, half) /\ o2 = SubSeq(O, half + 1, Order)
    OBVIOUS
  <1>2. PICK s2 : s2 = Halved(s, x, m)
    OBVIOUS
  <1>3. /\ LeafIsFull /\ AtLeaf("insert") /\ ~Holds(heap[x], k) /\ pc = "descend"
        /\ pc' = "parent" /\ promo' = [key |-> m, right |-> new]
        /\ node' = x /\ call' = call /\ call.key = k /\ node = x
        /\ UNCHANGED <<root, count, stored, failures>>
    BY <1>1 DEF SplitLeaf, LeafIsFull, AtLeaf, NewNode
  <1>4. /\ x \in DOMAIN heap /\ heap[x].leaf /\ Len(heap[x].keys) = Order - 1
        /\ m \in Keys /\ m \in Nat /\ s.lo[x] < m /\ m < s.hi[x]
        /\ DOMAIN k1 = 1..half /\ Ascending(k1)
        /\ \A i \in 1..half : /\ k1[i] = K[i] /\ o1[i] = O[i]
                              /\ s.lo[x] <= k1[i] /\ k1[i] < m
        /\ DOMAIN k2 = 1..(Order - half) /\ Ascending(k2)
        /\ \A i \in 1..(Order - half) :
              /\ k2[i] = K[half + i] /\ o2[i] = O[half + i]
              /\ m <= k2[i] /\ k2[i] < s.hi[x]
    BY <1>1, <1>3, FullLeaf
  <1>5. /\ new \notin DOMAIN heap /\ 1..new = DOMAIN heap \cup {new} /\ new # Null /\ new \in Nat
        /\ s2.in = s.in \cup {new}
        /\ s2.lo \in [1..new -> Nat] /\ s2.hi \in [1..new -> Nat] /\ s2.ht \in [1..new -> Nat]
        /\ \A a \in DOMAIN heap :
              /\ s2.lo[a] = s.lo[a] /\ s2.ht[a] = s.ht[a]
              /\ a # x => s2.hi[a] = s.hi[a]
              /\ s2.hi[a] <= s.hi[a]
        /\ s2.hi[x] = m /\ s2.lo[new] = m /\ s2.hi[new] = s.hi[x] /\ s2.ht[new] = s.ht[x]
        /\ Apart(DOMAIN heap, s.lo, s.hi, s.ht) => Apart(1..new, s2.lo, s2.hi, s2.ht)
    <2>1. x \in DOMAIN heap /\ m \in Nat /\ s.lo[x] < m /\ m < s.hi[x] /\ new = Len(heap) + 1
      BY <1>1, <1>4
    <2>. QED
      BY <1>2, <2>1, HalvedIs, SMTT(60)
  <1>6. /\ DOMAIN heap' = 1..new /\ Len(heap') = new
        /\ \A a \in DOMAIN heap : a # x => heap'[a] = heap[a]
        /\ heap'[x].keys = k1 /\ heap'[x].ptrs = o1
        /\ heap'[x].leaf /\ heap'[x].parent = heap[x].parent
        /\ heap'[x].next = new
        /\ heap'[new] = Leaf(k2, o2, heap[x].parent, heap[x].next)
    BY <1>1, SplitLeafEffect
  <1>7. /\ heap'[new].leaf /\ heap'[new].keys = k2 /\ heap'[new].ptrs = o2
        /\ heap'[new].parent = heap[x].parent /\ heap'[new].next = heap[x].next
    BY <1>6 DEF Leaf
  <1>8. LET n == Order - 1 IN
         /\ \A i \in 1..(n + 1) :
               \/ K[i] = k /\ O[i] = call.offset
               \/ \E j \in 1..n : K[i] = heap[x].keys[j] /\ O[i] = heap[x].ptrs[j]
         /\ \A j \in 1..n : \E i \in 1..(n + 1) : K[i] = heap[x].keys[j]
         /\ \E i \in 1..(n + 1) : K[i] = k
    <2>1. Len(heap[node].keys) = Order - 1 /\ ~Holds(heap[node], call.key)
      BY <1>1, <1>3, <1>4
    <2>. DEFINE n == Len(heap[node].keys)
    <2>2. /\ \A i \in 1..(n + 1) :
                \/ LeafKeys[i] = call.key /\ LeafOffsets[i] = call.offset
                \/ \E j \in 1..n : LeafKeys[i] = heap[node].keys[j] /\ LeafOffsets[i] = heap[node].ptrs[j]
          /\ \A j \in 1..n : \E i \in 1..(n + 1) : LeafKeys[i] = heap[node].keys[j]
          /\ \E i \in 1..(n + 1) : LeafKeys[i] = call.key
      BY <1>3, <2>1, WideLeaf
    <2>. QED
      BY <1>1, <2>1, <2>2
  <1>9. promo'.right = new /\ promo'.key = m
    BY <1>3
  <1>10. k \in Keys /\ root # Null /\ x \in s.in /\ s.in \subseteq DOMAIN heap
    BY <1>3 DEF Tree, Underway, Shape
  <1>11. /\ root \in s.in /\ heap[root].parent = Null /\ root \in DOMAIN heap
         /\ \A a \in s.in : ~heap[a].leaf => \A i \in DOMAIN heap[a].ptrs : heap[a].ptrs[i] \in s.in
         /\ \A a \in s.in \ {root} : heap[a].parent \in s.in /\ IsChild(a, heap[a].parent)
         /\ \A a \in s.in : s.ht[a] <= s.ht[root]
         /\ s.ht[root] < Len(heap)
    BY <1>3, <1>10 DEF Tree, Linked, Unlinked
  <1>12. /\ Order - half \in Nat /\ half \in Nat /\ Order \in Nat /\ Order = half + (Order - half)
         /\ Len(heap) \in Nat /\ new = Len(heap) + 1
    BY <1>1, HalfOf, HeapIs
  <1>13. \A a \in DOMAIN heap :
           /\ heap'[a].leaf <=> heap[a].leaf
           /\ heap'[a].parent = heap[a].parent
           /\ ~heap[a].leaf => a # x /\ heap'[a] = heap[a]
    BY <1>4, <1>6
  <1>14. \A a \in DOMAIN heap' : a \in DOMAIN heap \/ a = new
    BY <1>5, <1>6
  <1>15. \A a \in DOMAIN heap : a \in DOMAIN heap' /\ a # new
    BY <1>5, <1>6
  <1>16. \A a \in DOMAIN heap : \A c : IsChild(c, a)' <=> IsChild(c, a)
    BY <1>13 DEF IsChild
  <1>17. \A c : ~IsChild(c, new)'
    BY <1>7 DEF IsChild
  <1>18. \A a \in DOMAIN heap : s.lo[a] \in Nat /\ s.hi[a] \in Nat /\ s.ht[a] \in Nat /\ s.hi[a] <= Above
    BY ShapeIs
  <1>19. Shape(s2)'
    BY <1>5, <1>6, <1>10 DEF Shape
  <1>20. Sound(s2)'
    <2>1. ASSUME NEW a \in DOMAIN heap, a # x PROVE Ordered(s2, a)'
      <3>1. Ordered(s, a) /\ heap'[a] = heap[a] /\ s2.lo[a] = s.lo[a] /\ s2.hi[a] = s.hi[a] /\ s2.ht[a] = s.ht[a]
        BY <1>5, <1>6, <2>1 DEF Tree, Sound
      <3>. QED
        BY <3>1 DEF Ordered
    <2>2. Ordered(s2, x)'
      <3>1. s2.hi[x] <= Above /\ (heap[x].leaf <=> s.ht[x] = 0)
        BY <1>4, <1>5, <1>18, ShapeIs, AboveAll
      <3>2. \A i, j \in DOMAIN k1 : i < j => k1[i] < k1[j]
        BY <1>4 DEF Ascending
      <3>3. s2.lo[x] = s.lo[x] /\ s2.ht[x] = s.ht[x] /\ s2.hi[x] = m
        BY <1>4, <1>5
      <3>. QED
        BY <1>4, <1>6, <3>1, <3>2, <3>3 DEF Ordered
    <2>3. Ordered(s2, new)'
      <3>1. s2.hi[new] <= Above /\ (heap[x].leaf <=> s.ht[x] = 0)
        BY <1>4, <1>5, <1>18, ShapeIs
      <3>2. \A i, j \in DOMAIN k2 : i < j => k2[i] < k2[j]
        BY <1>4 DEF Ascending
      <3>. QED
        BY <1>4, <1>5, <1>7, <3>1, <3>2 DEF Ordered
    <2>4. ASSUME NEW a \in DOMAIN heap, ~heap[a].leaf, NEW i \in DOMAIN heap[a].ptrs
          PROVE  ChildFits(s2, a, i)'
      <3>0. PICK c : c = heap[a].ptrs[i]
        OBVIOUS
      <3>1. a # x /\ heap'[a] = heap[a] /\ ChildFits(s, a, i)
        BY <1>13, <2>4 DEF Tree, Sound
      <3>2. /\ c \in DOMAIN heap /\ heap[c].parent = a /\ s.ht[c] + 1 = s.ht[a]
            /\ Left(s, a, i) <= s.lo[c] /\ s.hi[c] <= Right(s, a, i)
        BY <3>0, <3>1 DEF ChildFits
      <3>3. Left(s2, a, i)' = Left(s, a, i) /\ Right(s2, a, i)' = Right(s, a, i) /\ Right(s, a, i) \in Nat
        BY <1>5, <2>4, <3>1, PartIs DEF Left, Right
      <3>4. s2.hi[c] \in Nat /\ s2.hi[c] <= s.hi[c] /\ s.hi[c] \in Nat
        BY <1>5, <1>18, <3>2
      <3>5. s2.hi[c] <= Right(s, a, i)
        BY <3>2, <3>3, <3>4
      <3>. QED
        <4>1. /\ heap'[a].ptrs[i] = c /\ c \in DOMAIN heap' /\ heap'[c].parent = a
              /\ s2.ht[c] + 1 = s2.ht[a] /\ s2.lo[c] = s.lo[c]
          BY <1>5, <1>13, <1>15, <3>0, <3>1, <3>2
        <4>. QED
          BY <3>2, <3>3, <3>5, <4>1 DEF ChildFits
    <2>. QED
      BY <1>7, <1>13, <1>14, <2>1, <2>2, <2>3, <2>4 DEF Sound
  <1>21. Linked(s2)'
    <2>1. Unlinked' = {new} /\ root' = root /\ root # Null
      BY <1>3, <1>9, <1>10 DEF Unlinked
    <2>2. root \in s2.in /\ heap'[root].parent = Null
      BY <1>5, <1>11, <1>13
    <2>3. \A a \in s2.in : ~heap'[a].leaf => \A i \in DOMAIN heap'[a].ptrs : heap'[a].ptrs[i] \in s2.in
      BY <1>5, <1>7, <1>10, <1>11, <1>13
    <2>4. ASSUME NEW a \in s2.in \ {root, new} PROVE (heap[a].parent \in s2.in /\ IsChild(a, heap[a].parent))'
      <3>1. PICK p \in DOMAIN heap : p = heap[a].parent /\ heap'[a].parent = p /\ p \in s.in /\ IsChild(a, p)
        BY <1>5, <1>10, <1>11, <1>13
      <3>2. IsChild(a, p)'
        BY <1>16, <3>1
      <3>. QED
        BY <1>5, <3>1, <3>2 DEF IsChild
    <2>5. \A a \in s2.in : s2.ht[a] <= s2.ht[root]
      BY <1>4, <1>5, <1>10, <1>11, ZenonT(60)
    <2>6. s2.ht[root] < Len(heap')
      <3>1. s2.ht[root] = s.ht[root] /\ s.ht[root] \in Nat /\ Len(heap') = Len(heap) + 1
        BY <1>5, <1>6, <1>11, <1>12, <1>18
      <3>. QED
        BY <1>11, <1>12, <3>1
    <2>. QED
      BY <2>1, <2>2, <2>3, <2>4, <2>5, <2>6 DEF Linked
  <1>22. Underway(s2)'
    <2>1. ASSUME NEW a \in DOMAIN heap' PROVE ~IsChild(new, a)'
      <3>1. CASE a \in DOMAIN heap
        BY <1>5, <1>16, <3>1, ParentIs
      <3>. QED
        BY <1>14, <1>17, <3>1
    <2>2. ASSUME Parent' # Null, NEW i \in DOMAIN heap'[Parent'].ptrs, heap'[Parent'].ptrs[i] = x
          PROVE  s2.hi[new] <= Right(s2, heap[x].parent, i)'
      <3>1. PICK p : p = heap[x].parent
        OBVIOUS
      <3>2. Parent' = p
        BY <1>3, <1>6, <3>1 DEF Parent
      <3>3. p \in DOMAIN heap /\ IsChild(x, p) /\ ~heap[p].leaf /\ p # x /\ heap'[p] = heap[p]
        BY <1>10, <1>11, <1>13, <2>2, <3>1, <3>2 DEF IsChild
      <3>4. i \in DOMAIN heap[p].ptrs /\ heap[p].ptrs[i] = x
        BY <2>2, <3>2, <3>3
      <3>5. s.hi[x] <= Right(s, p, i)
        BY <3>3, <3>4 DEF Tree, Sound, ChildFits
      <3>6. Right(s2, p, i)' = Right(s, p, i)
        BY <1>5, <3>3 DEF Right
      <3>7. heap'[x].parent = p
        BY <1>6, <3>1
      <3>. QED
        BY <1>5, <3>5, <3>6, <3>7 DEF Right
    <2>3. s2.ht[new] = s2.ht[x]
      BY <1>4, <1>5
    <2>. QED
      BY <1>3, <1>4, <1>5, <1>9, <1>10, <1>11, <2>1, <2>2, <2>3 DEF Underway, Parent
  <1>23. ASSUME failures' = 0 PROVE Exact(s2)' /\ Chained(s2)' /\ Filled'
    <2>1. failures = 0 /\ Exact(s) /\ Chained(s) /\ Filled
      BY <1>3, <1>23 DEF Tree
    <2>2. \A a : Whole(s, a) = s.hi[a]
      BY <1>3 DEF Whole
    <2>3. \A a \in DOMAIN heap : Whole(s2, a)' = s.hi[a]
      BY <1>3, <1>5, <1>9 DEF Whole
    <2>4. Exact(s2)'
      <3>1. s2.in = DOMAIN heap'
        BY <1>5, <1>6, <2>1 DEF Exact
      <3>2. (s2.lo[root] = 0 /\ Whole(s2, root) = Above)'
        <4>1. PICK z \in DOMAIN heap : z = root /\ root' = z
          BY <1>3, <1>11
        <4>2. s.lo[z] = 0 /\ s.hi[z] = Above
          BY <1>10, <2>1, <2>2, <4>1 DEF Exact
        <4>3. s2.lo[z] = 0 /\ Whole(s2, z)' = Above
          BY <1>5, <2>3, <4>2
        <4>. QED
          BY <4>1, <4>3 DEF Whole
      <3>3. ASSUME NEW a \in DOMAIN heap, ~heap[a].leaf, NEW i \in DOMAIN heap[a].ptrs
            PROVE  /\ s2.lo[heap[a].ptrs[i]] = Left(s2, a, i)'
                   /\ Whole(s2, heap[a].ptrs[i])' = Right(s2, a, i)'
                   /\ heap'[a] = heap[a]
        <4>1. PICK c \in DOMAIN heap : c = heap[a].ptrs[i]
          BY <3>3 DEF Tree, Sound, ChildFits
        <4>2. s.lo[c] = Left(s, a, i) /\ s.hi[c] = Right(s, a, i)
          BY <2>1, <2>2, <3>3, <4>1 DEF Exact
        <4>3. heap'[a] = heap[a] /\ Left(s2, a, i)' = Left(s, a, i) /\ Right(s2, a, i)' = Right(s, a, i)
          BY <1>5, <1>13, <3>3 DEF Left, Right
        <4>4. s2.lo[c] = s.lo[c] /\ Whole(s2, c)' = s.hi[c]
          BY <1>5, <2>3
        <4>5. heap'[a].ptrs[i] = c
          BY <4>1, <4>3
        <4>. QED
          BY <4>1, <4>2, <4>3, <4>4, <4>5
      <3>4. Apart(DOMAIN heap', s2.lo, s2.hi, s2.ht)
        BY <1>5, <1>6, <2>1 DEF Exact, Apart
      <3>5. root' = root
        BY <1>3
      <3>6. ASSUME NEW a \in DOMAIN heap', ~heap'[a].leaf, NEW i \in DOMAIN heap'[a].ptrs
            PROVE  (s2.lo[heap[a].ptrs[i]] = Left(s2, a, i) /\ Whole(s2, heap[a].ptrs[i]) = Right(s2, a, i))'
        <4>1. a \in DOMAIN heap /\ ~heap[a].leaf /\ heap'[a] = heap[a]
          BY <1>7, <1>13, <1>14, <3>6
        <4>2. i \in DOMAIN heap[a].ptrs
          BY <3>6, <4>1
        <4>. QED
          BY <3>3, <4>1, <4>2 DEF Whole
      <3>. QED
        BY <3>1, <3>2, <3>4, <3>5, <3>6 DEF Exact, Apart
    <2>5. Chained(s2)'
      <3>1. ASSUME NEW a \in DOMAIN heap, heap[a].leaf, NEW b, b = heap[a].next
            PROVE  IF b = Null THEN s.hi[a] = Above
                     ELSE b \in DOMAIN heap' /\ heap'[b].leaf /\ s2.lo[b] = s.hi[a]
        <4>1. IF b = Null THEN s.hi[a] = Above
                ELSE b \in DOMAIN heap /\ heap[b].leaf /\ s.lo[b] = s.hi[a]
          BY <2>1, <3>1 DEF Chained
        <4>. QED
          BY <1>5, <1>13, <1>15, <4>1
      <3>2. ASSUME NEW a \in DOMAIN heap', heap'[a].leaf, NEW b, b = heap'[a].next
            PROVE  IF b = Null THEN s2.hi[a] = Above
                     ELSE b \in DOMAIN heap' /\ heap'[b].leaf /\ s2.lo[b] = s2.hi[a]
        <4>1. CASE a = x
          <5>1. b = new /\ b # Null /\ new \in DOMAIN heap'
            BY <1>5, <1>6, <3>2, <4>1
          <5>. QED
            BY <1>5, <1>7, <4>1, <5>1
        <4>2. CASE a = new
          <5>1. b = heap[x].next /\ s2.hi[a] = s.hi[x]
            BY <1>5, <1>7, <3>2, <4>2
          <5>. QED
            BY <1>4, <3>1, <5>1
        <4>3. CASE a \in DOMAIN heap /\ a # x
          <5>1. b = heap[a].next /\ s2.hi[a] = s.hi[a] /\ heap[a].leaf
            BY <1>5, <1>6, <3>2, <4>3
          <5>. QED
            BY <3>1, <4>3, <5>1
        <4>. QED
          BY <1>14, <4>1, <4>2, <4>3
      <3>. QED
        BY <3>2 DEF Chained
    <2>6. k \notin DOMAIN stored /\ count = Cardinality(DOMAIN stored) /\ Arriving = {} /\ Arriving' = {k}
      BY <1>3, <2>1, NotYetStored DEF Filled, Arriving
    <2>7. \A a \in DOMAIN heap : heap[a].leaf => \A i \in DOMAIN heap[a].keys :
            /\ heap[a].keys[i] \in DOMAIN stored /\ heap[a].ptrs[i] = stored[heap[a].keys[i]]
      BY <2>1, <2>6 DEF Filled, OffsetOf
    <2>8. /\ \A j : j \in DOMAIN stored => OffsetOf(j)' = stored[j]
          /\ OffsetOf(k)' = call.offset
      BY <1>3, <2>6 DEF OffsetOf
    <2>9. ASSUME NEW i \in 1..Order
          PROVE  K[i] \in DOMAIN stored \cup {k} /\ O[i] = OffsetOf(K[i])'
      <3>1. \/ K[i] = k /\ O[i] = call.offset
            \/ \E j \in DOMAIN heap[x].keys :
                  K[i] = heap[x].keys[j] /\ O[i] = heap[x].ptrs[j]
        <4>1. (Order - 1) + 1 = Order
          BY HalfOf
        <4>2. DOMAIN heap[x].keys = 1..(Order - 1)
          BY <1>4, NodeIs
        <4>. QED
          BY <1>8, <4>1, <4>2
      <3>. QED
        BY <1>4, <2>7, <2>8, <3>1
    <2>10. ASSUME NEW a \in DOMAIN heap', heap'[a].leaf, NEW i \in DOMAIN heap'[a].keys
           PROVE  heap'[a].keys[i] \in DOMAIN stored \cup {k} /\ heap'[a].ptrs[i] = OffsetOf(heap[a].keys[i])'
      <3>1. CASE a = x
        <4>1. i \in 1..half /\ heap'[a].keys[i] = K[i] /\ heap'[a].ptrs[i] = O[i]
          BY <1>4, <1>6, <2>10, <3>1
        <4>2. i \in 1..Order
          BY <1>12, <4>1
        <4>. QED
          BY <2>9, <4>1, <4>2 DEF OffsetOf
      <3>2. CASE a = new
        <4>1. /\ i \in 1..(Order - half)
              /\ heap'[a].keys[i] = K[half + i] /\ heap'[a].ptrs[i] = O[half + i]
          BY <1>4, <1>7, <2>10, <3>2
        <4>2. half + i \in 1..Order
          BY <1>12, <4>1
        <4>. QED
          BY <2>9, <4>1, <4>2 DEF OffsetOf
      <3>3. CASE a \in DOMAIN heap /\ a # x
        <4>1. heap'[a] = heap[a]
          BY <1>6, <3>3
        <4>2. heap[a].keys[i] \in DOMAIN stored /\ heap[a].ptrs[i] = stored[heap[a].keys[i]]
          BY <2>7, <2>10, <3>3, <4>1
        <4>. QED
          BY <2>8, <4>1, <4>2 DEF OffsetOf
      <3>. QED
        BY <1>14, <3>1, <3>2, <3>3
    <2>11. ASSUME NEW i \in 1..Order
           PROVE  \E a \in DOMAIN heap' : heap'[a].leaf /\ \E j \in DOMAIN heap'[a].keys :
                     heap'[a].keys[j] = K[i]
      <3>1. CASE i <= half
        <4>1. i \in 1..half /\ x \in DOMAIN heap'
          BY <1>4, <1>12, <1>15, <3>1
        <4>. QED
          BY <1>4, <1>6, <4>1
      <3>2. CASE i > half
        <4>1. PICK j \in 1..(Order - half) : half + j = i
          <5>1. i - half \in 1..(Order - half) /\ half + (i - half) = i
            BY <1>12, <3>2
          <5>. QED
            BY <5>1
        <4>2. new \in DOMAIN heap' /\ k2[j] = K[i] /\ j \in DOMAIN k2
          BY <1>4, <1>5, <1>6, <4>1
        <4>. QED
          BY <1>7, <4>2
      <3>. QED
        BY <1>12, <3>1, <3>2
    <2>12. ASSUME NEW j \in DOMAIN stored \cup {k}
           PROVE  \E a \in DOMAIN heap' : heap'[a].leaf /\ \E i \in DOMAIN heap'[a].keys : heap'[a].keys[i] = j
      <3>1. (Order - 1) + 1 = Order /\ DOMAIN heap[x].keys = 1..(Order - 1)
        BY <1>4, NodeIs, HalfOf
      <3>2. CASE j = k
        <4>1. PICK i \in 1..Order : K[i] = k
          BY <1>8, <3>1
        <4>. QED
          BY <2>11, <3>2, <4>1
      <3>3. CASE j \in DOMAIN stored
        <4>1. PICK a \in DOMAIN heap : heap[a].leaf /\ \E i \in DOMAIN heap[a].keys : heap[a].keys[i] = j
          BY <2>1, <3>3 DEF Filled
        <4>2. CASE a = x
          <5>1. PICK l \in 1..(Order - 1) : heap[x].keys[l] = j
            BY <3>1, <4>1, <4>2
          <5>2. PICK i \in 1..Order : K[i] = j
            BY <1>8, <3>1, <5>1
          <5>. QED
            BY <2>11, <5>2
        <4>3. CASE a # x
          BY <1>6, <1>15, <4>1, <4>3
        <4>. QED
          BY <4>2, <4>3
      <3>. QED
        BY <3>2, <3>3
    <2>13. count' = count /\ stored' = stored /\ Arriving' \cap DOMAIN stored = {}
      BY <1>3, <2>6
    <2>14. Filled'
      BY <2>6, <2>10, <2>12, <2>13 DEF Filled
    <2>. QED
      BY <2>4, <2>5, <2>14
  <1>24. Tree(s2)'
    BY <1>19, <1>20, <1>21, <1>22, <1>23 DEF Tree
  <1>. QED
    BY <1>24

-----------------------------------------------------------------------------
(* The insertion ends at a new root or at a parent with room.              *)

\* The key that was on its way up is stored; the leaves have it already.
LEMMA ArrivalFilled ==
    ASSUME TypeOK, pc = "parent", call.key \in Keys, Succeed(call.key, call.offset), Filled,
           \A a \in DOMAIN heap : a \in DOMAIN heap' /\ heap'[a].leaf = heap[a].leaf,
           \A a \in DOMAIN heap' : heap'[a].leaf => a \in DOMAIN heap,
           \A a \in DOMAIN heap : heap[a].leaf => heap'[a].keys = heap[a].keys /\ heap'[a].ptrs = heap[a].ptrs
    PROVE  Filled'
  <1>1. PICK k, o : k = call.key /\ o = call.offset
    OBVIOUS
  <1>2. Arriving = {k} /\ Arriving' = {}
    BY <1>1 DEF Arriving, Succeed, Finish
  <1>3. k \notin DOMAIN stored /\ count = Cardinality(DOMAIN stored)
    BY <1>2 DEF Filled
  <1>4. /\ count' = Cardinality(DOMAIN stored') /\ DOMAIN stored' = DOMAIN stored \cup {k}
        /\ stored'[k] = o /\ \A j \in DOMAIN stored : stored'[j] = stored[j]
    BY <1>1, <1>3, SucceedStores
  <1>5. \A j \in DOMAIN stored \cup {k} : OffsetOf(j) = stored'[j] /\ OffsetOf(j)' = stored'[j]
    BY <1>1, <1>2, <1>3, <1>4 DEF OffsetOf
  <1>6. ASSUME NEW a \in DOMAIN heap', heap'[a].leaf, NEW i \in DOMAIN heap'[a].keys
        PROVE  heap'[a].keys[i] \in DOMAIN stored' /\ heap'[a].ptrs[i] = OffsetOf(heap[a].keys[i])'
    <2>1. PICK v : v = heap'[a].keys[i]
      OBVIOUS
    <2>2. a \in DOMAIN heap /\ heap[a].leaf /\ i \in DOMAIN heap[a].keys /\ heap[a].keys[i] = v
      BY <1>6, <2>1
    <2>3. v \in DOMAIN stored \cup {k} /\ heap[a].ptrs[i] = OffsetOf(v)
      BY <1>2, <2>2 DEF Filled
    <2>4. OffsetOf(v)' = heap'[a].ptrs[i]
      BY <1>5, <2>2, <2>3
    <2>. QED
      BY <1>4, <2>1, <2>3, <2>4 DEF OffsetOf
  <1>7. ASSUME NEW j \in DOMAIN stored'
        PROVE  \E a \in DOMAIN heap' : heap'[a].leaf /\ \E i \in DOMAIN heap'[a].keys : heap'[a].keys[i] = j
    <2>1. PICK a \in DOMAIN heap : heap[a].leaf /\ \E i \in DOMAIN heap[a].keys : heap[a].keys[i] = j
      BY <1>2, <1>4 DEF Filled
    <2>. QED
      BY <2>1
  <1>. QED
    BY <1>2, <1>4, <1>6, <1>7 DEF Filled

LEMMA NewRootStep ==
    ASSUME NEW s, TypeOK, Tree(s), NewRoot
    PROVE  \E s2 : Tree(s2)'
  <1>0. PICK new, x, r, e : new = Len(heap) + 1 /\ x = node /\ r = promo.right /\ e = promo.key
    OBVIOUS
  <1>1. PICK s2 : s2 = [in |-> s.in \cup {new},
                        lo |-> [a \in 1..new |-> IF a = new THEN 0 ELSE s.lo[a]],
                        hi |-> [a \in 1..new |-> IF a = new THEN Above ELSE s.hi[a]],
                        ht |-> [a \in 1..new |-> IF a = new THEN s.ht[x] + 1 ELSE s.ht[a]]]
    OBVIOUS
  <1>2. /\ pc = "parent" /\ Parent = Null /\ root' = new /\ Succeed(call.key, call.offset)
        /\ pc' = "idle" /\ node' = Null /\ promo' = NoPromo /\ failures' = failures
    BY <1>0 DEF NewRoot, NewNode, Succeed, Finish
  <1>3. /\ x \in s.in /\ x \in DOMAIN heap /\ r \in s.in /\ r \in DOMAIN heap /\ x # r /\ x = root
        /\ root # Null
    BY <1>0, <1>2, SplitNodeIs
  <1>4. /\ e \in Keys /\ s.hi[x] = e /\ s.lo[r] = e /\ s.ht[r] = s.ht[x] /\ call.key \in Keys
        /\ \A a \in DOMAIN heap : ~IsChild(r, a)
    BY <1>0, <1>2 DEF Tree, Underway
  <1>5. /\ new \notin DOMAIN heap /\ 1..new = DOMAIN heap \cup {new} /\ new # Null /\ new \in Nat
        /\ Len(heap) \in Nat
    BY <1>0, HeapIs DEF Null
  <1>6. \A a \in DOMAIN heap :
          s.lo[a] \in Nat /\ s.hi[a] \in Nat /\ s.ht[a] \in Nat /\ s.lo[a] < s.hi[a] /\ s.hi[a] <= Above
    BY ShapeIs
  <1>7. Above \in Nat /\ e \in Nat /\ 0 < e /\ e < Above
    BY <1>4, AboveAll
  <1>8. /\ s2.in = s.in \cup {new}
        /\ s2.lo \in [1..new -> Nat] /\ s2.hi \in [1..new -> Nat] /\ s2.ht \in [1..new -> Nat]
        /\ s2.lo[new] = 0 /\ s2.hi[new] = Above /\ s2.ht[new] = s.ht[x] + 1
        /\ \A a \in DOMAIN heap : s2.lo[a] = s.lo[a] /\ s2.hi[a] = s.hi[a] /\ s2.ht[a] = s.ht[a]
    <2>1. s.ht[x] + 1 \in Nat
      BY <1>3, <1>6
    <2>. QED
      BY <1>1, <1>5, <1>6, <1>7, <2>1
  <1>9. /\ DOMAIN heap' = 1..new /\ Len(heap') = new
        /\ \A a \in DOMAIN heap :
              /\ heap'[a].leaf = heap[a].leaf /\ heap'[a].keys = heap[a].keys
              /\ heap'[a].ptrs = heap[a].ptrs /\ heap'[a].next = heap[a].next
              /\ heap'[a].parent = IF a \in {x, r} THEN new ELSE heap[a].parent
        /\ heap'[new] = Internal(<<e>>, <<x, r>>, Null)
    BY <1>0, NewRootEffect
  <1>10. /\ ~heap'[new].leaf /\ heap'[new].keys = <<e>> /\ heap'[new].ptrs = <<x, r>>
         /\ heap'[new].parent = Null
    BY <1>9 DEF Internal
  <1>11. /\ DOMAIN <<e>> = {1} /\ Len(<<e>>) = 1 /\ <<e>>[1] = e
         /\ DOMAIN <<x, r>> = {1, 2} /\ <<x, r>>[1] = x /\ <<x, r>>[2] = r
    OBVIOUS
  <1>12. \A a \in DOMAIN heap' : a \in DOMAIN heap \/ a = new
    BY <1>5, <1>9
  <1>13. \A a \in DOMAIN heap : a \in DOMAIN heap' /\ a # new
    BY <1>5, <1>9
  <1>14. \A a \in DOMAIN heap : \A c : IsChild(c, a)' <=> IsChild(c, a)
    BY <1>9 DEF IsChild
  <1>15. \A a \in DOMAIN heap : ~IsChild(x, a)
    BY <1>3, RootIs
  <1>16. s.in \subseteq DOMAIN heap
    BY DEF Tree, Shape
  <1>17. /\ \A a \in s.in : ~heap[a].leaf => \A i \in DOMAIN heap[a].ptrs : heap[a].ptrs[i] \in s.in
         /\ \A a \in s.in \ {x, r} : heap[a].parent \in s.in /\ IsChild(a, heap[a].parent)
         /\ \A a \in s.in : s.ht[a] <= s.ht[x]
         /\ s.ht[x] < Len(heap)
    BY <1>0, <1>2, <1>3 DEF Tree, Linked, Unlinked
  <1>18. Shape(s2)'
    BY <1>8, <1>9, <1>5, <1>16 DEF Shape
  <1>19. Sound(s2)'
    <2>1. ASSUME NEW a \in DOMAIN heap PROVE Ordered(s2, a)'
      <3>1. Ordered(s, a)
        BY DEF Tree, Sound
      <3>. QED
        BY <1>8, <1>9, <3>1 DEF Ordered
    <2>2. Ordered(s2, new)'
      <3>1. s2.ht[new] # 0 /\ Above <= Above
        BY <1>3, <1>6, <1>7, <1>8
      <3>. QED
        BY <1>7, <1>8, <1>10, <1>11, <3>1 DEF Ordered
    <2>3. ASSUME NEW a \in DOMAIN heap, ~heap[a].leaf, NEW i \in DOMAIN heap[a].ptrs
          PROVE  ChildFits(s2, a, i)'
      <3>0. PICK c : c = heap[a].ptrs[i]
        OBVIOUS
      <3>1. ChildFits(s, a, i) /\ IsChild(c, a)
        BY <2>3, <3>0 DEF Tree, Sound, IsChild
      <3>2. /\ c \in DOMAIN heap /\ heap[c].parent = a /\ s.ht[c] + 1 = s.ht[a] /\ c # x /\ c # r
            /\ Left(s, a, i) <= s.lo[c] /\ s.hi[c] <= Right(s, a, i)
        BY <1>4, <1>15, <3>0, <3>1 DEF ChildFits
      <3>3. Left(s2, a, i)' = Left(s, a, i) /\ Right(s2, a, i)' = Right(s, a, i)
        BY <1>8, <1>9 DEF Left, Right
      <3>4. /\ heap'[a].ptrs[i] = c /\ c \in DOMAIN heap' /\ heap'[c].parent = a
            /\ s2.ht[c] + 1 = s2.ht[a] /\ s2.lo[c] = s.lo[c] /\ s2.hi[c] = s.hi[c]
        BY <1>8, <1>9, <1>13, <3>0, <3>2
      <3>. QED
        BY <3>2, <3>3, <3>4 DEF ChildFits
    <2>4. ChildFits(s2, new, 1)' /\ ChildFits(s2, new, 2)'
      <3>1. Left(s2, new, 1)' = 0 /\ Right(s2, new, 1)' = e /\ Left(s2, new, 2)' = e /\ Right(s2, new, 2)' = Above
        BY <1>8, <1>10, <1>11 DEF Left, Right, Lower, Upper
      <3>2. heap'[new].ptrs[1] = x /\ heap'[new].ptrs[2] = r /\ heap'[x].parent = new /\ heap'[r].parent = new
        BY <1>3, <1>9, <1>10, <1>11
      <3>3. /\ s2.lo[x] \in Nat /\ s2.hi[x] = e /\ s2.lo[r] = e /\ s2.hi[r] <= Above
            /\ s2.ht[x] + 1 = s2.ht[new] /\ s2.ht[r] + 1 = s2.ht[new]
        BY <1>3, <1>4, <1>6, <1>8
      <3>4. x \in DOMAIN heap' /\ r \in DOMAIN heap' /\ 0 <= s2.lo[x] /\ e <= e
        BY <1>3, <1>7, <1>13, <3>3
      <3>. QED
        BY <3>1, <3>2, <3>3, <3>4 DEF ChildFits
    <2>5. ASSUME NEW a \in DOMAIN heap', ~heap'[a].leaf, NEW i \in DOMAIN heap'[a].ptrs
          PROVE  ChildFits(s2, a, i)'
      <3>1. CASE a = new
        <4>1. i = 1 \/ i = 2
          BY <1>10, <1>11, <2>5, <3>1
        <4>. QED
          BY <2>4, <3>1, <4>1
      <3>2. CASE a \in DOMAIN heap
        BY <1>9, <2>3, <2>5, <3>2
      <3>. QED
        BY <1>12, <3>1, <3>2
    <2>. QED
      BY <1>12, <2>1, <2>2, <2>5 DEF Sound
  <1>20. Linked(s2)'
    <2>1. Unlinked' = {} /\ root' = new /\ new # Null /\ new \in s2.in /\ heap'[new].parent = Null
      BY <1>2, <1>5, <1>8, <1>10 DEF Unlinked
    <2>2. \A a \in s2.in : ~heap'[a].leaf => \A i \in DOMAIN heap'[a].ptrs : heap'[a].ptrs[i] \in s2.in
      <3>1. \A i \in DOMAIN heap'[new].ptrs : heap'[new].ptrs[i] \in s2.in
        BY <1>3, <1>8, <1>10, <1>11
      <3>. QED
        BY <1>8, <1>9, <1>16, <1>17, <3>1
    <2>3. ASSUME NEW a \in s2.in \ {new} PROVE (heap[a].parent \in s2.in /\ IsChild(a, heap[a].parent))'
      <3>1. CASE a \in {x, r}
        <4>1. heap'[a].parent = new /\ new \in s2.in
          BY <1>3, <1>8, <1>9, <3>1
        <4>2. IsChild(a, new)'
          BY <1>10, <1>11, <3>1 DEF IsChild
        <4>. QED
          BY <4>1, <4>2 DEF IsChild
      <3>2. CASE a \notin {x, r}
        <4>1. PICK p \in DOMAIN heap : p = heap[a].parent /\ heap'[a].parent = p /\ p \in s.in /\ IsChild(a, p)
          BY <1>8, <1>9, <1>16, <1>17, <3>2
        <4>2. IsChild(a, p)'
          BY <1>14, <4>1
        <4>. QED
          BY <1>8, <4>1, <4>2 DEF IsChild
      <3>. QED
        BY <3>1, <3>2
    <2>4. \A a \in s2.in : s2.ht[a] <= s2.ht[new]
      BY <1>3, <1>6, <1>8, <1>16, <1>17
    <2>5. s2.ht[new] < Len(heap')
      BY <1>0, <1>3, <1>5, <1>6, <1>8, <1>9, <1>17
    <2>. QED
      BY <2>1, <2>2, <2>3, <2>4, <2>5 DEF Linked
  <1>21. Underway(s2)'
    BY <1>2 DEF Underway
  <1>22. ASSUME failures' = 0 PROVE Exact(s2)' /\ Chained(s2)' /\ Filled'
    <2>1. failures = 0 /\ Exact(s) /\ Chained(s) /\ Filled
      BY <1>2, <1>22 DEF Tree
    <2>2. /\ \A a : a # x => Whole(s, a) = s.hi[a]
          /\ Whole(s, x) = s.hi[r] /\ \A a : Whole(s2, a)' = s2.hi[a]
      BY <1>0, <1>2 DEF Whole
    <2>3. s.in = DOMAIN heap /\ s.lo[x] = 0 /\ s.hi[r] = Above
      BY <1>3, <2>1, <2>2 DEF Exact
    <2>4. Exact(s2)'
      <3>1. s2.in = DOMAIN heap' /\ (s2.lo[root] = 0 /\ Whole(s2, root) = Above)'
        <4>1. Whole(s2, new)' = Above
          BY <1>8, <2>2
        <4>. QED
          BY <1>2, <1>5, <1>8, <1>9, <2>3, <4>1 DEF Whole
      <3>2. ASSUME NEW a \in DOMAIN heap', ~heap'[a].leaf, NEW i \in DOMAIN heap'[a].ptrs
            PROVE  (s2.lo[heap[a].ptrs[i]] = Left(s2, a, i) /\ Whole(s2, heap[a].ptrs[i]) = Right(s2, a, i))'
        <4>1. PICK c : c = heap'[a].ptrs[i]
          OBVIOUS
        <4>2. CASE a \in DOMAIN heap
          <5>1. ~heap[a].leaf /\ i \in DOMAIN heap[a].ptrs /\ c = heap[a].ptrs[i]
            BY <1>9, <3>2, <4>1, <4>2
          <5>2. IsChild(c, a)
            BY <5>1 DEF IsChild
          <5>3. c \in DOMAIN heap /\ c # x
            BY <1>15, <4>2, <5>2, ParentIs
          <5>4. s.lo[c] = Left(s, a, i) /\ s.hi[c] = Right(s, a, i)
            BY <2>1, <2>2, <4>2, <5>1, <5>3 DEF Exact
          <5>5. Left(s2, a, i)' = Left(s, a, i) /\ Right(s2, a, i)' = Right(s, a, i)
            BY <1>8, <1>9, <4>2 DEF Left, Right
          <5>6. s2.lo[c] = s.lo[c] /\ Whole(s2, c)' = s.hi[c]
            BY <1>8, <2>2, <5>3
          <5>. QED
            BY <4>1, <5>4, <5>5, <5>6 DEF Whole
        <4>3. CASE a = new
          <5>1. /\ Left(s2, new, 1)' = 0 /\ Right(s2, new, 1)' = e
                /\ Left(s2, new, 2)' = e /\ Right(s2, new, 2)' = Above
            BY <1>8, <1>10, <1>11 DEF Left, Right, Lower, Upper
          <5>2. /\ s2.lo[x] = 0 /\ Whole(s2, x)' = e /\ s2.lo[r] = e /\ Whole(s2, r)' = Above
            BY <1>3, <1>4, <1>8, <2>2, <2>3
          <5>3. (i = 1 /\ c = x) \/ (i = 2 /\ c = r)
            BY <1>10, <1>11, <3>2, <4>1, <4>3
          <5>. QED
            BY <4>1, <4>3, <5>1, <5>2, <5>3 DEF Whole
        <4>. QED
          BY <1>12, <4>2, <4>3
      <3>3. ASSUME NEW a \in DOMAIN heap', NEW b \in DOMAIN heap', a # b, s2.ht[a] = s2.ht[b]
            PROVE  s2.hi[a] <= s2.lo[b] \/ s2.hi[b] <= s2.lo[a]
        <4>1. \A c \in DOMAIN heap : s2.ht[c] # s2.ht[new]
          BY <1>3, <1>6, <1>8, <1>17, <2>3
        <4>2. a \in DOMAIN heap /\ b \in DOMAIN heap
          BY <1>12, <3>3, <4>1
        <4>. QED
          BY <1>8, <2>1, <3>3, <4>2 DEF Exact
      <3>. QED
        BY <3>1, <3>2, <3>3 DEF Exact
    <2>5. Chained(s2)'
      <3>1. ASSUME NEW a \in DOMAIN heap', heap'[a].leaf, NEW b, b = heap'[a].next
            PROVE  IF b = Null THEN s2.hi[a] = Above
                     ELSE b \in DOMAIN heap' /\ heap'[b].leaf /\ s2.lo[b] = s2.hi[a]
        <4>1. a \in DOMAIN heap /\ heap[a].leaf /\ b = heap[a].next
          BY <1>9, <1>10, <1>12, <3>1
        <4>2. IF b = Null THEN s.hi[a] = Above
                ELSE b \in DOMAIN heap /\ heap[b].leaf /\ s.lo[b] = s.hi[a]
          BY <2>1, <4>1 DEF Chained
        <4>. QED
          BY <1>8, <1>9, <1>13, <4>1, <4>2
      <3>. QED
        BY <3>1 DEF Chained
    <2>6. Filled'
      <3>1. \A a \in DOMAIN heap : a \in DOMAIN heap' /\ heap'[a].leaf = heap[a].leaf
        BY <1>9, <1>13
      <3>2. \A a \in DOMAIN heap' : heap'[a].leaf => a \in DOMAIN heap
        BY <1>10, <1>12
      <3>3. \A a \in DOMAIN heap : heap[a].leaf => heap'[a].keys = heap[a].keys /\ heap'[a].ptrs = heap[a].ptrs
        BY <1>9
      <3>. QED
        BY <1>2, <1>4, <2>1, <3>1, <3>2, <3>3, ArrivalFilled
    <2>. QED
      BY <2>4, <2>5, <2>6
  <1>23. Tree(s2)'
    BY <1>18, <1>19, <1>20, <1>21, <1>22 DEF Tree
  <1>. QED
    BY <1>23

LEMMA InsertIntoInternalStep ==
    ASSUME NEW s, TypeOK, Tree(s), InsertIntoInternal
    PROVE  Tree(s)'
  <1>0. PICK x, r, e, P, K, C, n :
          /\ x = node /\ r = promo.right /\ e = promo.key /\ P = Parent
          /\ K = ParentKeys /\ C = ParentChildren /\ n = Len(heap[P].keys)
    OBVIOUS
  <1>2. /\ pc = "parent" /\ Parent # Null /\ root' = root /\ Succeed(call.key, call.offset)
        /\ pc' = "idle" /\ node' = Null /\ promo' = NoPromo /\ failures' = failures
    BY DEF InsertIntoInternal, Succeed, Finish
  <1>3. /\ x \in s.in /\ x \in DOMAIN heap /\ r \in s.in /\ r \in DOMAIN heap /\ x # r
        /\ root # Null /\ root \in DOMAIN heap /\ P \in s.in /\ P \in DOMAIN heap /\ IsChild(x, P)
        /\ P = heap[x].parent /\ ~heap[P].leaf
    BY <1>0, <1>2, SplitNodeIs DEF Parent, IsChild
  <1>4. /\ call.key \in Keys /\ r # root /\ \A a \in DOMAIN heap : ~IsChild(r, a)
    BY <1>0, <1>2 DEF Tree, Underway
  <1>5. x # root
    BY <1>3, RootIs
  <1>6. /\ K \in Seq(Keys) /\ Len(K) = n + 1 /\ Ascending(K)
        /\ C \in Seq(Nat) /\ Len(C) = n + 2
        /\ \A i \in 1..(n + 1) : s.lo[P] < K[i] /\ K[i] < s.hi[P]
        /\ \A i \in 1..(n + 2) :
              /\ C[i] \in DOMAIN heap /\ s.ht[C[i]] + 1 = s.ht[P]
              /\ C[i] # r => heap[C[i]].parent = P /\ IsChild(C[i], P)
              /\ Lower(s.lo[P], K, i) <= s.lo[C[i]]
              /\ s.hi[C[i]] <= Upper(s.hi[P], K, i)
        /\ \A c : c = r \/ IsChild(c, P) => \E i \in 1..(n + 2) : C[i] = c
        /\ failures = 0 => \A i \in 1..(n + 2) :
              s.lo[C[i]] = Lower(s.lo[P], K, i) /\ s.hi[C[i]] = Upper(s.hi[P], K, i)
    BY <1>0, <1>2, WideParent
  <1>7. DOMAIN K = 1..(n + 1) /\ DOMAIN C = 1..(n + 2)
    BY <1>6, LenProperties
  <1>8. /\ DOMAIN heap' = DOMAIN heap /\ Len(heap') = Len(heap) /\ P # r
        /\ \A a \in DOMAIN heap :
              /\ heap'[a].leaf = heap[a].leaf /\ heap'[a].next = heap[a].next
              /\ heap'[a].keys = IF a = P THEN K ELSE heap[a].keys
              /\ heap'[a].ptrs = IF a = P THEN C ELSE heap[a].ptrs
              /\ heap'[a].parent = IF a = r THEN P ELSE heap[a].parent
    BY <1>0, InsertIntoInternalEffect
  <1>9. \A a \in DOMAIN heap : a # P => heap'[a].keys = heap[a].keys /\ heap'[a].ptrs = heap[a].ptrs
    BY <1>8
  <1>10. \A a \in DOMAIN heap : \A c : a # P => (IsChild(c, a)' <=> IsChild(c, a))
    BY <1>8, <1>9 DEF IsChild
  <1>11. \A c : (c = r \/ IsChild(c, P)) => IsChild(c, P)'
    <2>. SUFFICES ASSUME NEW c, c = r \/ IsChild(c, P) PROVE IsChild(c, P)'
      OBVIOUS
    <2>1. PICK i \in DOMAIN C : C[i] = c
      BY <1>6, <1>7
    <2>2. heap'[P].ptrs = C /\ ~heap'[P].leaf
      BY <1>3, <1>8
    <2>. QED
      BY <2>1, <2>2 DEF IsChild
  <1>12. s.in \subseteq DOMAIN heap /\ Shape(s) /\ Sound(s)
    BY DEF Tree, Shape
  <1>13. /\ root \in s.in /\ heap[root].parent = Null
         /\ \A a \in s.in : ~heap[a].leaf => \A i \in DOMAIN heap[a].ptrs : heap[a].ptrs[i] \in s.in
         /\ \A a \in s.in \ {root, r} : heap[a].parent \in s.in /\ IsChild(a, heap[a].parent)
         /\ \A a \in s.in : s.ht[a] <= s.ht[root]
         /\ s.ht[root] < Len(heap)
    BY <1>0, <1>2, <1>3 DEF Tree, Linked, Unlinked
  <1>14. Shape(s)'
    BY <1>8, <1>12 DEF Shape
  <1>15. Sound(s)'
    <2>1. ASSUME NEW a \in DOMAIN heap, a # P PROVE Ordered(s, a)'
      BY <1>8, <1>9, <1>12, <2>1 DEF Sound, Ordered
    <2>2. Ordered(s, P)'
      <3>1. Ordered(s, P) /\ heap'[P].keys = K /\ heap'[P].leaf = heap[P].leaf
        BY <1>3, <1>8, <1>12 DEF Sound
      <3>2. \A i, j \in DOMAIN K : i < j => K[i] < K[j]
        BY <1>6 DEF Ascending
      <3>3. \A i \in DOMAIN K : s.lo[P] <= K[i] /\ K[i] < s.hi[P] /\ s.lo[P] < K[i]
        <4>1. \A i \in 1..(n + 1) : K[i] \in Nat
          BY <1>6, KeysAreNat, ElementOfSeq
        <4>2. s.lo[P] \in Nat
          BY <1>3, ShapeIs
        <4>. QED
          BY <1>6, <1>7, <4>1, <4>2
      <3>. QED
        BY <3>1, <3>2, <3>3 DEF Ordered
    <2>3. ASSUME NEW a \in DOMAIN heap, ~heap[a].leaf, NEW i \in DOMAIN heap[a].ptrs, a # P
          PROVE  ChildFits(s, a, i)'
      <3>0. PICK c : c = heap[a].ptrs[i]
        OBVIOUS
      <3>1. ChildFits(s, a, i) /\ IsChild(c, a)
        BY <1>12, <2>3, <3>0 DEF Sound, IsChild
      <3>2. /\ c \in DOMAIN heap /\ heap[c].parent = a /\ s.ht[c] + 1 = s.ht[a] /\ c # r
            /\ Left(s, a, i) <= s.lo[c] /\ s.hi[c] <= Right(s, a, i)
        BY <1>4, <3>0, <3>1 DEF ChildFits
      <3>3. Left(s, a, i)' = Left(s, a, i) /\ Right(s, a, i)' = Right(s, a, i)
        BY <1>9, <2>3 DEF Left, Right
      <3>4. heap'[a].ptrs[i] = c /\ c \in DOMAIN heap' /\ heap'[c].parent = a
        BY <1>8, <1>9, <2>3, <3>0, <3>2
      <3>. QED
        BY <3>2, <3>3, <3>4 DEF ChildFits
    <2>4. ASSUME NEW i \in DOMAIN C PROVE ChildFits(s, P, i)'
      <3>1. /\ C[i] \in DOMAIN heap /\ s.ht[C[i]] + 1 = s.ht[P]
            /\ C[i] # r => heap[C[i]].parent = P
            /\ Lower(s.lo[P], K, i) <= s.lo[C[i]]
            /\ s.hi[C[i]] <= Upper(s.hi[P], K, i)
        BY <1>6, <1>7
      <3>2. Left(s, P, i)' = Lower(s.lo[P], K, i) /\ Right(s, P, i)' = Upper(s.hi[P], K, i)
        BY <1>3, <1>8 DEF Left, Right
      <3>3. heap'[P].ptrs[i] = C[i] /\ heap'[C[i]].parent = P
        BY <1>3, <1>8, <3>1
      <3>. QED
        BY <1>8, <3>1, <3>2, <3>3 DEF ChildFits
    <2>5. ASSUME NEW a \in DOMAIN heap', ~heap'[a].leaf, NEW i \in DOMAIN heap'[a].ptrs
          PROVE  ChildFits(s, a, i)'
      BY <1>8, <1>9, <2>3, <2>4, <2>5
    <2>. QED
      BY <1>8, <2>1, <2>2, <2>5 DEF Sound
  <1>16. Linked(s)'
    <2>1. Unlinked' = {} /\ root' = root
      BY <1>2 DEF Unlinked
    <2>2. root \in s.in /\ heap'[root].parent = Null
      BY <1>3, <1>4, <1>8, <1>13
    <2>3. \A a \in s.in : ~heap'[a].leaf => \A i \in DOMAIN heap'[a].ptrs : heap'[a].ptrs[i] \in s.in
      <3>1. \A i \in DOMAIN C : C[i] \in s.in
        <4>1. \A c : IsChild(c, P) => c \in s.in
          BY <1>3, <1>13 DEF IsChild
        <4>. QED
          BY <1>3, <1>6, <1>7, <4>1
      <3>. QED
        BY <1>8, <1>9, <1>12, <1>13, <3>1
    <2>4. ASSUME NEW a \in s.in \ {root} PROVE (heap[a].parent \in s.in /\ IsChild(a, heap[a].parent))'
      <3>1. PICK p : p = heap'[a].parent
        OBVIOUS
      <3>2. p \in s.in /\ (IF a = r THEN p = P ELSE IsChild(a, p))
        BY <1>3, <1>8, <1>12, <1>13, <3>1
      <3>3. IsChild(a, p)'
        BY <1>10, <1>11, <1>12, <3>2
      <3>. QED
        BY <3>1, <3>2, <3>3 DEF IsChild
    <2>. QED
      BY <1>3, <1>8, <1>13, <2>1, <2>2, <2>3, <2>4 DEF Linked
  <1>17. Underway(s)'
    BY <1>2 DEF Underway
  <1>18. ASSUME failures' = 0 PROVE Exact(s)' /\ Chained(s)' /\ Filled'
    <2>1. failures = 0 /\ Exact(s) /\ Chained(s) /\ Filled
      BY <1>2, <1>18 DEF Tree
    <2>2. /\ \A a : a # x => Whole(s, a) = s.hi[a]
          /\ \A a : Whole(s, a)' = s.hi[a]
      BY <1>0, <1>2 DEF Whole
    <2>3. Exact(s)'
      <3>1. (s.lo[root] = 0 /\ Whole(s, root) = Above)'
        <4>1. s.lo[root] = 0 /\ s.hi[root] = Above
          BY <1>3, <1>5, <2>1, <2>2 DEF Exact
        <4>. QED
          BY <1>2, <4>1 DEF Whole
      <3>2. ASSUME NEW a \in DOMAIN heap', ~heap'[a].leaf, NEW i \in DOMAIN heap'[a].ptrs
            PROVE  (s.lo[heap[a].ptrs[i]] = Left(s, a, i) /\ Whole(s, heap[a].ptrs[i]) = Right(s, a, i))'
        <4>1. PICK c : c = heap'[a].ptrs[i]
          OBVIOUS
        <4>2. CASE a # P
          <5>1. a \in DOMAIN heap /\ ~heap[a].leaf /\ i \in DOMAIN heap[a].ptrs /\ c = heap[a].ptrs[i]
            BY <1>8, <1>9, <3>2, <4>1, <4>2
          <5>2. IsChild(c, a)
            BY <5>1 DEF IsChild
          <5>3. c # x
            BY <1>3, <4>2, <5>1, <5>2, ParentIs
          <5>4. s.lo[c] = Left(s, a, i) /\ s.hi[c] = Right(s, a, i)
            BY <2>1, <2>2, <5>1, <5>3 DEF Exact
          <5>5. Left(s, a, i)' = Left(s, a, i) /\ Right(s, a, i)' = Right(s, a, i)
            BY <1>9, <4>2, <5>1 DEF Left, Right
          <5>. QED
            BY <2>2, <4>1, <5>4, <5>5 DEF Whole
        <4>3. CASE a = P
          <5>1. i \in DOMAIN C /\ c = C[i]
            BY <1>3, <1>8, <3>2, <4>1, <4>3
          <5>2. s.lo[c] = Lower(s.lo[P], K, i) /\ s.hi[c] = Upper(s.hi[P], K, i)
            BY <1>6, <1>7, <2>1, <5>1
          <5>3. Left(s, P, i)' = Lower(s.lo[P], K, i) /\ Right(s, P, i)' = Upper(s.hi[P], K, i)
            BY <1>3, <1>8 DEF Left, Right
          <5>. QED
            BY <2>2, <4>1, <4>3, <5>2, <5>3 DEF Whole
        <4>. QED
          BY <4>2, <4>3
      <3>. QED
        BY <1>8, <2>1, <3>1, <3>2 DEF Exact
    <2>4. Chained(s)'
      BY <1>8, <2>1 DEF Chained
    <2>5. Filled'
      <3>1. \A a \in DOMAIN heap : a \in DOMAIN heap' /\ heap'[a].leaf = heap[a].leaf
        BY <1>8
      <3>2. \A a \in DOMAIN heap' : heap'[a].leaf => a \in DOMAIN heap
        BY <1>8
      <3>3. \A a \in DOMAIN heap : heap[a].leaf => heap'[a].keys = heap[a].keys /\ heap'[a].ptrs = heap[a].ptrs
        BY <1>3, <1>9
      <3>. QED
        BY <1>2, <1>4, <2>1, <3>1, <3>2, <3>3, ArrivalFilled
    <2>. QED
      BY <2>3, <2>4, <2>5
  <1>. QED
    BY <1>14, <1>15, <1>16, <1>17, <1>18 DEF Tree

\* The parts of the range, when the parent is full and is divided.
LEMMA DividedParent ==
    ASSUME NEW s, TypeOK, Tree(s), ParentIsFull
    PROVE  LET half == Order \div 2
               K == ParentKeys
               k1 == SubSeq(K, 1, half)
               k2 == SubSeq(K, half + 2, Order)
               lo == s.lo[Parent]
               hi == s.hi[Parent]
               m == K[half + 1]
           IN
           /\ m \in Keys /\ m \in Nat /\ lo < m /\ m < hi
           /\ DOMAIN k1 = 1..half /\ Ascending(k1) /\ \A i \in 1..half : lo < k1[i] /\ k1[i] < m
           /\ DOMAIN k2 = 1..(Order - half - 1) /\ Ascending(k2)
           /\ \A i \in 1..(Order - half - 1) : m < k2[i] /\ k2[i] < hi
           /\ \A i \in 1..(half + 1) :
                 Lower(lo, k1, i) = Lower(lo, K, i) /\ Upper(m, k1, i) = Upper(hi, K, i)
           /\ \A i \in 1..(Order - half) :
                 /\ Lower(m, k2, i) = Lower(lo, K, half + 1 + i)
                 /\ Upper(hi, k2, i) = Upper(hi, K, half + 1 + i)
  <1>0. PICK half, K, k1, k2, lo, hi, m :
          /\ half = Order \div 2 /\ K = ParentKeys /\ k1 = SubSeq(K, 1, half)
          /\ k2 = SubSeq(K, half + 2, Order) /\ lo = s.lo[Parent] /\ hi = s.hi[Parent]
          /\ m = K[half + 1]
    OBVIOUS
  <1>1. Order \in Nat /\ half \in Nat /\ 1 <= half /\ half + 2 <= Order
    BY <1>0, HalfOf
  <1>2. pc = "parent" /\ Parent # Null /\ Len(heap[Parent].keys) = Order - 1
    BY HalfOf DEF ParentIsFull
  <1>3. /\ K \in Seq(Keys) /\ Ascending(K)
        /\ \A i \in 1..((Order - 1) + 1) : lo < K[i] /\ K[i] < hi
    BY <1>0, <1>2, WideParent
  <1>4. /\ Len(K) = Order /\ k1 \in Seq(Keys) /\ Len(k1) = half /\ \A i \in 1..half : k1[i] = K[i]
        /\ k2 \in Seq(Keys) /\ Len(k2) = Order - half - 1
        /\ \A i \in 1..(Order - half - 1) : k2[i] = K[half + 1 + i]
    BY <1>0, FullParent
  <1>5. \A i \in 1..Order : K[i] \in Keys /\ K[i] \in Nat
    BY <1>3, <1>4, KeysAreNat, ElementOfSeq
  <1>6. /\ DOMAIN K = 1..Order /\ DOMAIN k1 = 1..half /\ DOMAIN k2 = 1..(Order - half - 1)
    BY <1>3, <1>4, LenProperties
  <1>7. \A i, j \in 1..Order : i < j => K[i] < K[j]
    BY <1>3, <1>6 DEF Ascending
  <1>8. \A i \in 1..Order : lo < K[i] /\ K[i] < hi
    <2>1. (Order - 1) + 1 = Order
      BY <1>1
    <2>. QED
      BY <1>3, <2>1
  <1>9. half + 1 \in 1..Order
    BY <1>1
  <1>10. m \in Keys /\ m \in Nat /\ lo < m /\ m < hi
    BY <1>0, <1>5, <1>8, <1>9
  <1>11. \A i \in 1..half : i \in 1..Order /\ i < half + 1
    BY <1>1
  <1>12. \A i \in 1..(Order - half - 1) : half + 1 + i \in 1..Order /\ half + 1 < half + 1 + i
    BY <1>1
  <1>13. \A i \in 1..half : lo < k1[i] /\ k1[i] < m
    BY <1>0, <1>4, <1>7, <1>8, <1>9, <1>11
  <1>14. \A i \in 1..(Order - half - 1) : m < k2[i] /\ k2[i] < hi
    <2>. SUFFICES ASSUME NEW i \in 1..(Order - half - 1) PROVE m < k2[i] /\ k2[i] < hi
      OBVIOUS
    <2>1. PICK j \in 1..Order : j = half + 1 + i /\ half + 1 < j /\ k2[i] = K[j]
      BY <1>4, <1>12
    <2>. QED
      BY <1>0, <1>7, <1>8, <1>9, <2>1
  <1>15. Ascending(k1)
    BY <1>4, <1>6, <1>7, <1>11 DEF Ascending
  <1>16. Ascending(k2)
    <2>1. \A i, j \in 1..(Order - half - 1) : i < j => half + 1 + i < half + 1 + j
      BY <1>1
    <2>. QED
      BY <1>4, <1>6, <1>7, <1>12, <2>1 DEF Ascending
  <1>17. ASSUME NEW i \in 1..(half + 1)
         PROVE  Lower(lo, k1, i) = Lower(lo, K, i) /\ Upper(m, k1, i) = Upper(hi, K, i)
    <2>1. i # 1 => i - 1 \in 1..half
      BY <1>1
    <2>2. i # half + 1 => i \in 1..half
      BY <1>1
    <2>3. i # Order + 1
      BY <1>1
    <2>4. Lower(lo, k1, i) = Lower(lo, K, i)
      BY <1>4, <2>1 DEF Lower
    <2>5. Upper(m, k1, i) = Upper(hi, K, i)
      BY <1>0, <1>4, <2>2, <2>3 DEF Upper
    <2>. QED
      BY <2>4, <2>5
  <1>18. ASSUME NEW i \in 1..(Order - half)
         PROVE  /\ Lower(m, k2, i) = Lower(lo, K, half + 1 + i)
                /\ Upper(hi, k2, i) = Upper(hi, K, half + 1 + i)
    <2>1. i # 1 => i - 1 \in 1..(Order - half - 1) /\ half + 1 + (i - 1) = (half + 1 + i) - 1
      BY <1>1
    <2>2. half + 1 + i # 1 /\ (i = 1 => (half + 1 + i) - 1 = half + 1)
      BY <1>1
    <2>3. (half + 1 + i = Order + 1) <=> (i = (Order - half - 1) + 1)
      BY <1>1
    <2>4. i # (Order - half - 1) + 1 => i \in 1..(Order - half - 1)
      BY <1>1
    <2>5. Lower(m, k2, i) = Lower(lo, K, half + 1 + i)
      <3>1. Lower(lo, K, half + 1 + i) = K[(half + 1 + i) - 1]
        BY <2>2 DEF Lower
      <3>2. CASE i = 1
        BY <1>0, <2>2, <3>1, <3>2 DEF Lower
      <3>3. CASE i # 1
        <4>1. k2[i - 1] = K[half + 1 + (i - 1)]
          BY <1>4, <2>1, <3>3
        <4>. QED
          BY <2>1, <3>1, <3>3, <4>1 DEF Lower
      <3>. QED
        BY <3>2, <3>3
    <2>6. Upper(hi, k2, i) = Upper(hi, K, half + 1 + i)
      BY <1>4, <2>3, <2>4 DEF Upper
    <2>. QED
      BY <2>5, <2>6
  <1>19. /\ m \in Keys /\ m \in Nat /\ lo < m /\ m < hi
         /\ DOMAIN k1 = 1..half /\ Ascending(k1) /\ \A i \in 1..half : lo < k1[i] /\ k1[i] < m
         /\ DOMAIN k2 = 1..(Order - half - 1) /\ Ascending(k2)
         /\ \A i \in 1..(Order - half - 1) : m < k2[i] /\ k2[i] < hi
         /\ \A i \in 1..(half + 1) :
               Lower(lo, k1, i) = Lower(lo, K, i) /\ Upper(m, k1, i) = Upper(hi, K, i)
         /\ \A i \in 1..(Order - half) :
               /\ Lower(m, k2, i) = Lower(lo, K, half + 1 + i)
               /\ Upper(hi, k2, i) = Upper(hi, K, half + 1 + i)
    BY <1>6, <1>10, <1>13, <1>14, <1>15, <1>16, <1>17, <1>18
  <1>. QED
    BY <1>0, <1>19

LEMMA SplitInternalStep ==
    ASSUME NEW s, TypeOK, Tree(s), SplitInternal
    PROVE  \E s2 : Tree(s2)'
  <1>0. PICK half, new, x, r, P, K, C, k1, k2, left, right, m :
          /\ half = Order \div 2 /\ new = Len(heap) + 1
          /\ x = node /\ r = promo.right /\ P = Parent
          /\ K = ParentKeys /\ C = ParentChildren
          /\ k1 = SubSeq(K, 1, half) /\ k2 = SubSeq(K, half + 2, Order)
          /\ left = SubSeq(C, 1, half + 1) /\ right = SubSeq(C, half + 2, Order + 1)
          /\ m = K[half + 1]
    OBVIOUS
  <1>1. PICK s2 : s2 = Halved(s, P, m)
    OBVIOUS
  <1>2. /\ ParentIsFull /\ pc = "parent" /\ Parent # Null /\ Len(heap[P].keys) = Order - 1
        /\ promo' = [key |-> m, right |-> new] /\ node' = P
        /\ UNCHANGED <<root, count, pc, call, stored, failures>>
    BY <1>0, HalfOf DEF SplitInternal, ParentIsFull, NewNode
  <1>3. /\ x \in s.in /\ x \in DOMAIN heap /\ r \in s.in /\ r \in DOMAIN heap /\ x # r
        /\ root # Null /\ root \in DOMAIN heap /\ P \in s.in /\ P \in DOMAIN heap /\ IsChild(x, P)
        /\ P = heap[x].parent /\ ~heap[P].leaf
    BY <1>0, <1>2, SplitNodeIs DEF Parent, IsChild
  <1>4. /\ call.key \in Keys /\ r # root /\ \A a \in DOMAIN heap : ~IsChild(r, a)
        /\ s.ht[r] = s.ht[x]
    BY <1>0, <1>2 DEF Tree, Underway
  <1>5. \A a \in DOMAIN heap : ~IsChild(root, a)
    BY <1>3, RootIs
  <1>6. /\ Order \in Nat /\ half \in Nat /\ 1 <= half /\ half + 2 <= Order
        /\ (Order - 1) + 2 = Order + 1 /\ Len(heap) \in Nat /\ new = Len(heap) + 1
    BY <1>0, HalfOf, HeapIs
  <1>7. /\ \A i \in 1..(Order + 1) :
              /\ C[i] \in DOMAIN heap /\ s.ht[C[i]] + 1 = s.ht[P]
              /\ C[i] # r => heap[C[i]].parent = P /\ IsChild(C[i], P)
              /\ Lower(s.lo[P], K, i) <= s.lo[C[i]]
              /\ s.hi[C[i]] <= Upper(s.hi[P], K, i)
        /\ \A i, j \in 1..(Order + 1) : C[i] = C[j] => i = j
        /\ \A c : c = r \/ IsChild(c, P) => \E i \in 1..(Order + 1) : C[i] = c
        /\ failures = 0 => \A i \in 1..(Order + 1) :
              s.lo[C[i]] = Lower(s.lo[P], K, i) /\ s.hi[C[i]] = Upper(s.hi[P], K, i)
    <2>1. /\ \A i \in 1..((Order - 1) + 2) :
              /\ C[i] \in DOMAIN heap /\ s.ht[C[i]] + 1 = s.ht[P]
              /\ C[i] # r => heap[C[i]].parent = P /\ IsChild(C[i], P)
              /\ Lower(s.lo[P], K, i) <= s.lo[C[i]]
              /\ s.hi[C[i]] <= Upper(s.hi[P], K, i)
          /\ \A i, j \in 1..((Order - 1) + 2) : C[i] = C[j] => i = j
          /\ \A c : c = r \/ IsChild(c, P) => \E i \in 1..((Order - 1) + 2) : C[i] = c
          /\ failures = 0 => \A i \in 1..((Order - 1) + 2) :
                s.lo[C[i]] = Lower(s.lo[P], K, i) /\ s.hi[C[i]] = Upper(s.hi[P], K, i)
      BY <1>0, <1>2, WideParent
    <2>. QED
      BY <1>6, <2>1
  <1>8. /\ left \in Seq(Nat) /\ Len(left) = half + 1 /\ \A i \in 1..(half + 1) : left[i] = C[i]
        /\ right \in Seq(Nat) /\ Len(right) = Order - half
        /\ \A i \in 1..(Order - half) : right[i] = C[half + 1 + i]
    BY <1>0, <1>2, FullParent
  <1>9. DOMAIN left = 1..(half + 1) /\ DOMAIN right = 1..(Order - half)
    BY <1>8, LenProperties
  <1>10. /\ m \in Keys /\ m \in Nat /\ s.lo[P] < m /\ m < s.hi[P]
         /\ DOMAIN k1 = 1..half /\ Ascending(k1) /\ \A i \in 1..half : s.lo[P] < k1[i] /\ k1[i] < m
         /\ DOMAIN k2 = 1..(Order - half - 1) /\ Ascending(k2)
         /\ \A i \in 1..(Order - half - 1) : m < k2[i] /\ k2[i] < s.hi[P]
         /\ \A i \in 1..(half + 1) :
               Lower(s.lo[P], k1, i) = Lower(s.lo[P], K, i) /\ Upper(m, k1, i) = Upper(s.hi[P], K, i)
         /\ \A i \in 1..(Order - half) :
               /\ Lower(m, k2, i) = Lower(s.lo[P], K, half + 1 + i)
               /\ Upper(s.hi[P], k2, i) = Upper(s.hi[P], K, half + 1 + i)
    BY <1>0, <1>2, DividedParent
  <1>11. /\ new \notin DOMAIN heap /\ 1..new = DOMAIN heap \cup {new} /\ new # Null /\ new \in Nat
         /\ s2.in = s.in \cup {new}
         /\ s2.lo \in [1..new -> Nat] /\ s2.hi \in [1..new -> Nat] /\ s2.ht \in [1..new -> Nat]
         /\ \A a \in DOMAIN heap :
               /\ s2.lo[a] = s.lo[a] /\ s2.ht[a] = s.ht[a]
               /\ a # P => s2.hi[a] = s.hi[a]
               /\ s2.hi[a] <= s.hi[a]
         /\ s2.hi[P] = m /\ s2.lo[new] = m /\ s2.hi[new] = s.hi[P] /\ s2.ht[new] = s.ht[P]
         /\ Apart(DOMAIN heap, s.lo, s.hi, s.ht) => Apart(1..new, s2.lo, s2.hi, s2.ht)
    <2>1. P \in DOMAIN heap /\ m \in Nat /\ s.lo[P] < m /\ m < s.hi[P] /\ new = Len(heap) + 1
      BY <1>0, <1>3, <1>10
    <2>. QED
      BY <1>1, <2>1, HalvedIs
  <1>12. /\ DOMAIN heap' = 1..new /\ Len(heap') = new
         /\ \A a \in DOMAIN heap :
               /\ heap'[a].leaf = heap[a].leaf
               /\ heap'[a].keys = IF a = P THEN k1 ELSE heap[a].keys
               /\ heap'[a].ptrs = IF a = P THEN left ELSE heap[a].ptrs
               /\ a # P => heap'[a].next = heap[a].next
               /\ heap'[a].parent = IF a = P THEN heap[a].parent
                                      ELSE IF a \in ToSet(left) THEN P
                                      ELSE IF a \in ToSet(right) THEN new ELSE heap[a].parent
         /\ heap'[new] = Internal(k2, right, heap[P].parent)
    BY <1>0, SplitInternalEffect
  <1>13. /\ ~heap'[new].leaf /\ heap'[new].keys = k2 /\ heap'[new].ptrs = right
         /\ heap'[new].parent = heap[P].parent
    BY <1>12 DEF Internal
  <1>14. promo'.right = new /\ promo'.key = m
    BY <1>2
  <1>15. \A a \in DOMAIN heap :
           /\ s.lo[a] \in Nat /\ s.hi[a] \in Nat /\ s.ht[a] \in Nat /\ s.hi[a] <= Above
           /\ heap[a].leaf <=> s.ht[a] = 0
    BY ShapeIs
  <1>16. \A i \in 1..(Order + 1) : C[i] # P
    BY <1>3, <1>7, <1>15
  \* Whose parent is whom, afterwards.
  <1>17. /\ \A a : a \in ToSet(left) <=> \E i \in 1..(half + 1) : a = C[i]
         /\ \A a : a \in ToSet(right) <=> \E i \in 1..(Order - half) : a = C[half + 1 + i]
    <2>1. ToSet(left) = {left[i] : i \in 1..(half + 1)} /\ ToSet(right) = {right[i] : i \in 1..(Order - half)}
      BY <1>9 DEF ToSet
    <2>2. ASSUME NEW a PROVE a \in ToSet(left) <=> \E i \in 1..(half + 1) : a = C[i]
      BY <1>8, <2>1
    <2>3. ASSUME NEW a PROVE a \in ToSet(right) <=> \E i \in 1..(Order - half) : a = C[half + 1 + i]
      BY <1>8, <2>1
    <2>. QED
      BY <2>2, <2>3
  <1>18. ASSUME NEW i \in 1..(half + 1)
         PROVE  i \in 1..(Order + 1) /\ heap'[C[i]].parent = P
    <2>1. i \in 1..(Order + 1)
      BY <1>6
    <2>. QED
      BY <1>7, <1>12, <1>16, <1>17, <2>1
  <1>19. ASSUME NEW i \in 1..(Order - half)
         PROVE  half + 1 + i \in 1..(Order + 1) /\ heap'[C[half + 1 + i]].parent = new
    <2>1. half + 1 + i \in 1..(Order + 1)
      BY <1>6
    <2>2. \A j \in 1..(half + 1) : j \in 1..(Order + 1) /\ j # half + 1 + i
      BY <1>6
    <2>3. PICK c \in DOMAIN heap : c = C[half + 1 + i] /\ c # P
      BY <1>7, <1>16, <2>1
    <2>4. c \notin ToSet(left)
      BY <1>7, <1>17, <2>1, <2>2, <2>3
    <2>5. c \in ToSet(right)
      BY <1>17, <2>3
    <2>. QED
      BY <1>12, <2>1, <2>3, <2>4, <2>5
  <1>20. ASSUME NEW a \in DOMAIN heap, ~\E i \in 1..(Order + 1) : C[i] = a
         PROVE  heap'[a].parent = heap[a].parent
    <2>1. a \notin ToSet(left)
      BY <1>17, <1>18, <1>20
    <2>2. a \notin ToSet(right)
      BY <1>17, <1>19, <1>20
    <2>. QED
      BY <1>12, <2>1, <2>2
  <1>21. ASSUME NEW i \in 1..(Order + 1)
         PROVE  i \in 1..(half + 1) \/ \E j \in 1..(Order - half) : i = half + 1 + j
    <2>1. i > half + 1 => i - (half + 1) \in 1..(Order - half) /\ i = half + 1 + (i - (half + 1))
      BY <1>6
    <2>. QED
      BY <1>6, <2>1
  <1>22. \A a \in DOMAIN heap' : a \in DOMAIN heap \/ a = new
    BY <1>11, <1>12
  <1>23. \A a \in DOMAIN heap : a \in DOMAIN heap' /\ a # new
    BY <1>11, <1>12
  <1>24. \A a \in DOMAIN heap : a # P => heap'[a].keys = heap[a].keys /\ heap'[a].ptrs = heap[a].ptrs
    BY <1>12
  <1>25. heap'[P].keys = k1 /\ heap'[P].ptrs = left /\ ~heap'[P].leaf
    BY <1>3, <1>12
  <1>26. \A a \in DOMAIN heap : \A c : a # P => (IsChild(c, a)' <=> IsChild(c, a))
    BY <1>12, <1>24 DEF IsChild
  <1>27. ASSUME NEW a \in DOMAIN heap, a # P, NEW c, IsChild(c, a)
         PROVE  c # x /\ ~\E i \in 1..(Order + 1) : C[i] = c
    <2>1. c \in DOMAIN heap /\ heap[c].parent = a /\ c # r
      BY <1>4, <1>27, ParentIs
    <2>. QED
      BY <1>3, <1>7, <1>27, <2>1
  <1>28. s.in \subseteq DOMAIN heap /\ Sound(s)
    BY DEF Tree, Shape
  <1>29. /\ root \in s.in /\ heap[root].parent = Null
         /\ \A a \in s.in : ~heap[a].leaf => \A i \in DOMAIN heap[a].ptrs : heap[a].ptrs[i] \in s.in
         /\ \A a \in s.in \ {root, r} : heap[a].parent \in s.in /\ IsChild(a, heap[a].parent)
         /\ \A a \in s.in : s.ht[a] <= s.ht[root]
         /\ s.ht[root] < Len(heap)
    BY <1>0, <1>2, <1>3 DEF Tree, Linked, Unlinked
  <1>30. Shape(s2)'
    BY <1>11, <1>12, <1>28 DEF Shape
  <1>31. Sound(s2)'
    <2>1. ASSUME NEW a \in DOMAIN heap, a # P PROVE Ordered(s2, a)'
      BY <1>11, <1>12, <1>24, <1>28, <2>1 DEF Sound, Ordered
    <2>2. Ordered(s2, P)'
      <3>1. s2.lo[P] = s.lo[P] /\ s2.hi[P] = m /\ m <= Above /\ s2.ht[P] = s.ht[P] /\ s.ht[P] # 0
        <4>1. m < s.hi[P] /\ s.hi[P] <= Above /\ s.hi[P] \in Nat /\ m \in Nat /\ Above \in Nat
          BY <1>3, <1>10, <1>15, AboveAll
        <4>2. m <= Above
          BY <4>1
        <4>. QED
          BY <1>3, <1>11, <1>15, <4>2
      <3>2. \A i, j \in DOMAIN k1 : i < j => k1[i] < k1[j]
        BY <1>10 DEF Ascending
      <3>3. \A i \in DOMAIN k1 : s.lo[P] <= k1[i] /\ s.lo[P] < k1[i] /\ k1[i] < m
        <4>1. k1 \in Seq(Keys) /\ Len(k1) = half
          BY <1>0, <1>2, FullParent
        <4>2. \A i \in 1..half : k1[i] \in Nat
          BY <4>1, KeysAreNat, ElementOfSeq
        <4>. QED
          BY <1>3, <1>10, <1>15, <4>2
      <3>. QED
        BY <1>25, <3>1, <3>2, <3>3 DEF Ordered
    <2>3. Ordered(s2, new)'
      <3>1. s.hi[P] <= Above /\ s.ht[P] # 0
        BY <1>3, <1>15
      <3>2. \A i, j \in DOMAIN k2 : i < j => k2[i] < k2[j]
        BY <1>10 DEF Ascending
      <3>3. \A i \in DOMAIN k2 : m <= k2[i] /\ m < k2[i] /\ k2[i] < s.hi[P]
        <4>1. k2 \in Seq(Keys) /\ Len(k2) = Order - half - 1
          BY <1>0, <1>2, FullParent
        <4>2. \A i \in 1..(Order - half - 1) : k2[i] \in Nat
          BY <4>1, KeysAreNat, ElementOfSeq
        <4>. QED
          BY <1>10, <4>2
      <3>. QED
        BY <1>11, <1>13, <3>1, <3>2, <3>3 DEF Ordered
    <2>4. ASSUME NEW a \in DOMAIN heap, ~heap[a].leaf, NEW i \in DOMAIN heap[a].ptrs, a # P
          PROVE  ChildFits(s2, a, i)'
      <3>0. PICK c : c = heap[a].ptrs[i]
        OBVIOUS
      <3>1. ChildFits(s, a, i) /\ IsChild(c, a)
        BY <1>28, <2>4, <3>0 DEF Sound, IsChild
      <3>2. /\ c \in DOMAIN heap /\ heap[c].parent = a /\ s.ht[c] + 1 = s.ht[a]
            /\ Left(s, a, i) <= s.lo[c] /\ s.hi[c] <= Right(s, a, i)
        BY <3>0, <3>1 DEF ChildFits
      <3>3. Left(s2, a, i)' = Left(s, a, i) /\ Right(s2, a, i)' = Right(s, a, i) /\ Right(s, a, i) \in Nat
        BY <1>11, <1>24, <2>4, PartIs DEF Left, Right
      <3>4. ~\E j \in 1..(Order + 1) : C[j] = c
        BY <1>27, <2>4, <3>1
      <3>5. heap'[c].parent = a
        BY <1>20, <3>2, <3>4
      <3>6. s2.hi[c] <= Right(s, a, i)
        <4>1. s2.hi[c] \in Nat /\ s2.hi[c] <= s.hi[c] /\ s.hi[c] \in Nat
          BY <1>11, <1>15, <3>2
        <4>. QED
          BY <3>2, <3>3, <4>1
      <3>7. /\ heap'[a].ptrs[i] = c /\ c \in DOMAIN heap'
            /\ s2.ht[c] + 1 = s2.ht[a] /\ s2.lo[c] = s.lo[c]
        BY <1>11, <1>23, <1>24, <2>4, <3>0, <3>2
      <3>. QED
        BY <3>2, <3>3, <3>5, <3>6, <3>7 DEF ChildFits
    <2>5. ASSUME NEW i \in 1..(Order + 1)
          PROVE  /\ C[i] \in DOMAIN heap' /\ s2.ht[C[i]] + 1 = s.ht[P]
                 /\ Lower(s.lo[P], K, i) <= s2.lo[C[i]] /\ s2.hi[C[i]] <= Upper(s.hi[P], K, i)
      BY <1>7, <1>11, <1>16, <1>23
    <2>6. ASSUME NEW i \in 1..(half + 1) PROVE ChildFits(s2, P, i)'
      <3>1. i \in 1..(Order + 1) /\ heap'[C[i]].parent = P
        BY <1>18
      <3>2. heap'[P].ptrs[i] = C[i] /\ s2.ht[P] = s.ht[P]
        BY <1>3, <1>8, <1>11, <1>25
      <3>3. Left(s2, P, i)' = Lower(s.lo[P], K, i) /\ Right(s2, P, i)' = Upper(s.hi[P], K, i)
        BY <1>3, <1>10, <1>11, <1>25 DEF Left, Right
      <3>. QED
        BY <2>5, <3>1, <3>2, <3>3 DEF ChildFits
    <2>7. ASSUME NEW i \in 1..(Order - half) PROVE ChildFits(s2, new, i)'
      <3>1. PICK j \in 1..(Order + 1) : j = half + 1 + i /\ heap'[C[j]].parent = new
        BY <1>19
      <3>2. heap'[new].ptrs[i] = C[j] /\ s2.ht[new] = s.ht[P]
        BY <1>8, <1>11, <1>13, <3>1
      <3>3. Left(s2, new, i)' = Lower(s.lo[P], K, j) /\ Right(s2, new, i)' = Upper(s.hi[P], K, j)
        BY <1>10, <1>11, <1>13, <3>1 DEF Left, Right
      <3>. QED
        BY <2>5, <3>1, <3>2, <3>3 DEF ChildFits
    <2>8. ASSUME NEW a \in DOMAIN heap', ~heap'[a].leaf, NEW i \in DOMAIN heap'[a].ptrs
          PROVE  ChildFits(s2, a, i)'
      <3>1. CASE a = P
        BY <1>9, <1>25, <2>6, <2>8, <3>1
      <3>2. CASE a = new
        BY <1>9, <1>13, <2>7, <2>8, <3>2
      <3>3. CASE a \in DOMAIN heap /\ a # P
        BY <1>12, <1>24, <2>4, <2>8, <3>3
      <3>. QED
        BY <1>22, <3>1, <3>2, <3>3
    <2>. QED
      BY <1>22, <2>1, <2>2, <2>3, <2>8 DEF Sound
  <1>32. Linked(s2)'
    <2>1. Unlinked' = {new} /\ root' = root
      BY <1>2, <1>14 DEF Unlinked
    <2>2. root \in s2.in /\ heap'[root].parent = Null
      <3>1. ~\E i \in 1..(Order + 1) : C[i] = root
        BY <1>3, <1>4, <1>5, <1>7
      <3>. QED
        BY <1>3, <1>11, <1>20, <1>29, <3>1
    <2>3. \A i \in 1..(Order + 1) : C[i] \in s2.in
      <3>1. \A c : IsChild(c, P) => c \in s.in
        BY <1>3, <1>29 DEF IsChild
      <3>. QED
        BY <1>3, <1>7, <1>11, <3>1
    <2>4. ASSUME NEW a \in s2.in, ~heap'[a].leaf, NEW i \in DOMAIN heap'[a].ptrs
          PROVE  heap'[a].ptrs[i] \in s2.in
      <3>1. CASE a = P
        <4>1. i \in 1..(half + 1) /\ heap'[a].ptrs[i] = C[i]
          BY <1>8, <1>9, <1>25, <2>4, <3>1
        <4>. QED
          BY <1>18, <2>3, <4>1
      <3>2. CASE a = new
        <4>1. i \in 1..(Order - half) /\ heap'[a].ptrs[i] = C[half + 1 + i]
          BY <1>8, <1>9, <1>13, <2>4, <3>2
        <4>. QED
          BY <1>19, <2>3, <4>1
      <3>3. CASE a \in s.in /\ a # P
        <4>1. a \in DOMAIN heap /\ ~heap[a].leaf /\ heap'[a].ptrs = heap[a].ptrs
          BY <1>12, <1>24, <1>28, <2>4, <3>3
        <4>2. heap[a].ptrs[i] \in s.in
          BY <1>29, <2>4, <3>3, <4>1
        <4>. QED
          BY <1>11, <4>1, <4>2
      <3>. QED
        BY <1>11, <3>1, <3>2, <3>3
    <2>5. ASSUME NEW a \in s2.in \ {root, new} PROVE (heap[a].parent \in s2.in /\ IsChild(a, heap[a].parent))'
      <3>0. a \in s.in /\ a \in DOMAIN heap
        BY <1>11, <1>28
      <3>1. CASE \E i \in 1..(Order + 1) : C[i] = a
        <4>1. PICK i \in 1..(Order + 1) : C[i] = a
          BY <3>1
        <4>2. CASE i \in 1..(half + 1)
          <5>1. IsChild(a, P)'
            BY <1>8, <1>9, <1>25, <4>1, <4>2 DEF IsChild
          <5>2. heap'[a].parent = P /\ P \in s2.in
            BY <1>3, <1>11, <1>18, <4>1, <4>2
          <5>. QED
            BY <5>1, <5>2 DEF IsChild
        <4>3. CASE \E j \in 1..(Order - half) : i = half + 1 + j
          <5>0. PICK j \in 1..(Order - half) : i = half + 1 + j
            BY <4>3
          <5>1. IsChild(a, new)'
            BY <1>8, <1>9, <1>13, <4>1, <5>0 DEF IsChild
          <5>2. heap'[a].parent = new /\ new \in s2.in
            BY <1>11, <1>19, <4>1, <5>0
          <5>. QED
            BY <5>1, <5>2 DEF IsChild
        <4>. QED
          BY <1>21, <4>2, <4>3
      <3>2. CASE ~\E i \in 1..(Order + 1) : C[i] = a
        <4>1. a # r
          BY <1>7, <3>2
        <4>2. PICK p \in DOMAIN heap : p = heap[a].parent /\ p \in s.in /\ IsChild(a, p)
          BY <1>28, <1>29, <3>0, <4>1
        <4>3. p # P /\ heap'[a].parent = p
          BY <1>7, <1>20, <3>0, <3>2, <4>2
        <4>4. IsChild(a, p)'
          BY <1>26, <4>2, <4>3
        <4>. QED
          BY <1>11, <4>2, <4>3, <4>4 DEF IsChild
      <3>. QED
        BY <3>1, <3>2
    <2>6. \A a \in s2.in : s2.ht[a] <= s2.ht[root]
      BY <1>3, <1>11, <1>28, <1>29, ZenonT(30)
    <2>7. s2.ht[root] < Len(heap')
      BY <1>3, <1>6, <1>11, <1>12, <1>15, <1>29
    <2>. QED
      BY <1>3, <2>1, <2>2, <2>4, <2>5, <2>6, <2>7 DEF Linked
  <1>33. Underway(s2)'
    <2>1. ASSUME NEW a \in DOMAIN heap' PROVE ~IsChild(new, a)'
      <3>1. CASE a = P
        <4>1. \A i \in DOMAIN left : left[i] # new
          BY <1>7, <1>8, <1>9, <1>18, <1>23
        <4>. QED
          BY <1>25, <3>1, <4>1 DEF IsChild
      <3>2. CASE a = new
        <4>1. \A i \in DOMAIN right : right[i] # new
          BY <1>7, <1>8, <1>9, <1>19, <1>23
        <4>. QED
          BY <1>13, <3>2, <4>1 DEF IsChild
      <3>3. CASE a \in DOMAIN heap /\ a # P
        BY <1>23, <1>26, <3>3, ParentIs
      <3>. QED
        BY <1>22, <3>1, <3>2, <3>3
    <2>2. ASSUME Parent' # Null, NEW i \in DOMAIN heap'[Parent'].ptrs, heap'[Parent'].ptrs[i] = P
          PROVE  s2.hi[new] <= Right(s2, Parent, i)'
      <3>1. PICK g : g = heap[P].parent
        OBVIOUS
      <3>2. heap'[P].parent = g /\ Parent' = g
        BY <1>2, <1>3, <1>12, <3>1 DEF Parent
      <3>3. P # root /\ P # r
        <4>1. s.ht[r] + 1 = s.ht[P] /\ s.ht[r] \in Nat
          BY <1>3, <1>4, <1>15, ParentIs
        <4>. QED
          BY <1>29, <2>2, <3>1, <3>2, <4>1
      <3>4. g \in DOMAIN heap /\ IsChild(P, g) /\ ~heap[g].leaf /\ g # P
        BY <1>3, <1>28, <1>29, <3>1, <3>3, ParentIs DEF IsChild
      <3>5. i \in DOMAIN heap[g].ptrs /\ heap[g].ptrs[i] = P
        BY <1>24, <2>2, <3>2, <3>4
      <3>6. s.hi[P] <= Right(s, g, i)
        BY <1>28, <3>4, <3>5 DEF Sound, ChildFits
      <3>7. Right(s2, g, i)' = Right(s, g, i)
        BY <1>11, <1>24, <3>4 DEF Right
      <3>. QED
        BY <1>11, <3>2, <3>6, <3>7 DEF Right
    <2>3. s2.ht[new] = s2.ht[P] /\ new # root /\ P \in s2.in /\ new \in s2.in
      BY <1>3, <1>11
    <2>. QED
      BY <1>2, <1>3, <1>4, <1>10, <1>11, <1>14, <2>1, <2>2, <2>3 DEF Underway
  <1>34. ASSUME failures' = 0 PROVE Exact(s2)' /\ Chained(s2)' /\ Filled'
    <2>1. failures = 0 /\ Exact(s) /\ Chained(s) /\ Filled
      BY <1>2, <1>34 DEF Tree
    <2>2. /\ \A a : a # x => Whole(s, a) = s.hi[a]
          /\ \A a \in DOMAIN heap : Whole(s2, a)' = s.hi[a]
      BY <1>0, <1>2, <1>11, <1>14 DEF Whole
    <2>3. Exact(s2)'
      <3>1. s2.in = DOMAIN heap'
        BY <1>11, <1>12, <2>1 DEF Exact
      <3>2. (s2.lo[root] = 0 /\ Whole(s2, root) = Above)'
        <4>1. PICK z \in DOMAIN heap : z = root /\ root' = z /\ z # x
          BY <1>2, <1>3, <1>5
        <4>2. s.lo[z] = 0 /\ s.hi[z] = Above
          BY <1>3, <2>1, <2>2, <4>1 DEF Exact
        <4>3. s2.lo[z] = 0 /\ Whole(s2, z)' = Above
          BY <1>11, <2>2, <4>2
        <4>. QED
          BY <4>1, <4>3 DEF Whole
      <3>3. \A i \in 1..(Order + 1) :
              s2.lo[C[i]] = Lower(s.lo[P], K, i) /\ Whole(s2, C[i])' = Upper(s.hi[P], K, i)
        BY <1>7, <1>11, <2>1, <2>2
      <3>4. ASSUME NEW a \in DOMAIN heap', ~heap'[a].leaf, NEW i \in DOMAIN heap'[a].ptrs
            PROVE  (s2.lo[heap[a].ptrs[i]] = Left(s2, a, i) /\ Whole(s2, heap[a].ptrs[i]) = Right(s2, a, i))'
        <4>1. PICK c : c = heap'[a].ptrs[i]
          OBVIOUS
        <4>2. CASE a = P
          <5>1. i \in 1..(half + 1) /\ c = C[i]
            BY <1>8, <1>9, <1>25, <3>4, <4>1, <4>2
          <5>2. Left(s2, P, i)' = Lower(s.lo[P], K, i) /\ Right(s2, P, i)' = Upper(s.hi[P], K, i)
            BY <1>3, <1>10, <1>11, <1>25, <5>1 DEF Left, Right
          <5>3. s2.lo[c] = Lower(s.lo[P], K, i) /\ Whole(s2, c)' = Upper(s.hi[P], K, i)
            BY <1>18, <3>3, <5>1
          <5>. QED
            BY <4>1, <4>2, <5>2, <5>3 DEF Whole
        <4>3. CASE a = new
          <5>1. i \in 1..(Order - half) /\ c = C[half + 1 + i]
            BY <1>8, <1>9, <1>13, <3>4, <4>1, <4>3
          <5>2. PICK j \in 1..(Order + 1) : j = half + 1 + i
            BY <1>19, <5>1
          <5>3. Left(s2, new, i)' = Lower(s.lo[P], K, j) /\ Right(s2, new, i)' = Upper(s.hi[P], K, j)
            BY <1>10, <1>11, <1>13, <5>1, <5>2 DEF Left, Right
          <5>4. s2.lo[c] = Lower(s.lo[P], K, j) /\ Whole(s2, c)' = Upper(s.hi[P], K, j)
            BY <3>3, <5>1, <5>2
          <5>. QED
            BY <4>1, <4>3, <5>3, <5>4 DEF Whole
        <4>4. CASE a \in DOMAIN heap /\ a # P
          <5>1. ~heap[a].leaf /\ i \in DOMAIN heap[a].ptrs /\ c = heap[a].ptrs[i]
            BY <1>12, <1>24, <3>4, <4>1, <4>4
          <5>2. IsChild(c, a)
            BY <5>1 DEF IsChild
          <5>3. c # x /\ c \in DOMAIN heap
            BY <1>27, <4>4, <5>2, ParentIs
          <5>4. s.lo[c] = Left(s, a, i) /\ s.hi[c] = Right(s, a, i)
            BY <2>1, <2>2, <4>4, <5>1, <5>3 DEF Exact
          <5>5. Left(s2, a, i)' = Left(s, a, i) /\ Right(s2, a, i)' = Right(s, a, i)
            BY <1>11, <1>24, <4>4 DEF Left, Right
          <5>6. s2.lo[c] = s.lo[c] /\ Whole(s2, c)' = s.hi[c]
            BY <1>11, <2>2, <5>3
          <5>. QED
            BY <4>1, <5>4, <5>5, <5>6 DEF Whole
        <4>. QED
          BY <1>22, <4>2, <4>3, <4>4
      <3>5. Apart(DOMAIN heap', s2.lo, s2.hi, s2.ht)
        BY <1>11, <1>12, <2>1 DEF Exact, Apart
      <3>. QED
        BY <3>1, <3>2, <3>4, <3>5 DEF Exact, Apart
    <2>4. Chained(s2)'
      <3>1. ASSUME NEW a \in DOMAIN heap', heap'[a].leaf, NEW b, b = heap'[a].next
            PROVE  IF b = Null THEN s2.hi[a] = Above
                     ELSE b \in DOMAIN heap' /\ heap'[b].leaf /\ s2.lo[b] = s2.hi[a]
        <4>1. a \in DOMAIN heap /\ heap[a].leaf /\ a # P /\ b = heap[a].next
          BY <1>3, <1>12, <1>13, <1>22, <3>1
        <4>2. IF b = Null THEN s.hi[a] = Above
                ELSE b \in DOMAIN heap /\ heap[b].leaf /\ s.lo[b] = s.hi[a]
          BY <2>1, <4>1 DEF Chained
        <4>. QED
          BY <1>11, <1>12, <1>23, <4>1, <4>2
      <3>. QED
        BY <3>1 DEF Chained
    <2>5. Filled'
      <3>1. Arriving' = Arriving /\ \A k : OffsetOf(k)' = OffsetOf(k)
        BY <1>2 DEF Arriving, OffsetOf
      <3>2. \A a \in DOMAIN heap : a \in DOMAIN heap' /\ heap'[a].leaf = heap[a].leaf
        BY <1>12, <1>23
      <3>3. \A a \in DOMAIN heap' : heap'[a].leaf => a \in DOMAIN heap
        BY <1>13, <1>22
      <3>4. \A a \in DOMAIN heap : heap[a].leaf => heap'[a].keys = heap[a].keys /\ heap'[a].ptrs = heap[a].ptrs
        BY <1>3, <1>24
      <3>5. ASSUME NEW a \in DOMAIN heap', heap'[a].leaf, NEW i \in DOMAIN heap'[a].keys
            PROVE  (heap[a].keys[i] \in DOMAIN stored \cup Arriving /\ heap[a].ptrs[i] = OffsetOf(heap[a].keys[i]))'
        <4>1. PICK v : v = heap'[a].keys[i]
          OBVIOUS
        <4>2. a \in DOMAIN heap /\ heap[a].leaf /\ i \in DOMAIN heap[a].keys /\ heap[a].keys[i] = v
          BY <3>2, <3>3, <3>4, <3>5, <4>1
        <4>3. v \in DOMAIN stored \cup Arriving /\ heap[a].ptrs[i] = OffsetOf(v)
          BY <2>1, <4>2 DEF Filled
        <4>4. heap'[a].ptrs[i] = OffsetOf(v)'
          BY <3>1, <3>4, <4>2, <4>3
        <4>. QED
          BY <1>2, <3>1, <4>1, <4>3, <4>4 DEF OffsetOf
      <3>6. ASSUME NEW j \in DOMAIN stored \cup Arriving
            PROVE  \E a \in DOMAIN heap' : heap'[a].leaf /\ \E i \in DOMAIN heap'[a].keys : heap'[a].keys[i] = j
        <4>1. PICK a \in DOMAIN heap : heap[a].leaf /\ \E i \in DOMAIN heap[a].keys : heap[a].keys[i] = j
          BY <2>1 DEF Filled
        <4>. QED
          BY <3>2, <3>4, <4>1
      <3>. QED
        BY <1>2, <2>1, <3>1, <3>5, <3>6 DEF Filled
    <2>. QED
      BY <2>3, <2>4, <2>5
  <1>35. Tree(s2)'
    BY <1>30, <1>31, <1>32, <1>33, <1>34 DEF Tree
  <1>. QED
    BY <1>35

-----------------------------------------------------------------------------
(* The insertion fails on its way up: the right half is lost.              *)

\* A set of nodes that has the children of its nodes.
ClosedDown(S) == \A a \in S : ~heap[a].leaf => \A i \in DOMAIN heap[a].ptrs : heap[a].ptrs[i] \in S

LEMMA InsertIntoParentFailsStep ==
    ASSUME NEW s, TypeOK, Tree(s), InsertIntoParentFails
    PROVE  \E s2 : Tree(s2)'
  <1>. DEFINE I == {a \in s.in : \A S \in SUBSET s.in : root \in S /\ ClosedDown(S) => a \in S}
  <1>0. PICK J : J = I
    OBVIOUS
  <1>1. PICK s2 : s2 = [in |-> J, lo |-> s.lo, hi |-> s.hi, ht |-> s.ht]
    OBVIOUS
  <1>2. /\ pc = "parent" /\ failures < MaxFailures /\ failures' = failures + 1
        /\ pc' = "idle" /\ node' = Null /\ promo' = NoPromo
        /\ UNCHANGED <<heap, root, count, stored>>
    BY DEF InsertIntoParentFails, ParentIsFull, Finish
  <1>3. PICK r : r = promo.right /\ r # root /\ \A a \in DOMAIN heap : ~IsChild(r, a)
    BY <1>2 DEF Tree, Underway
  <1>4. /\ root # Null /\ root \in s.in /\ root \in DOMAIN heap /\ s.in \subseteq DOMAIN heap
        /\ heap[root].parent = Null /\ ClosedDown(s.in)
        /\ \A a \in s.in \ {root, r} : heap[a].parent \in s.in /\ IsChild(a, heap[a].parent)
        /\ \A a \in s.in : s.ht[a] <= s.ht[root]
        /\ s.ht[root] < Len(heap)
    BY <1>2, <1>3 DEF Tree, Underway, Shape, Linked, Unlinked, ClosedDown
  <1>5. J \subseteq s.in /\ root \in J
    BY <1>0, <1>4
  <1>6. ClosedDown(J)
    <2>. SUFFICES ASSUME NEW a \in J, ~heap[a].leaf, NEW i \in DOMAIN heap[a].ptrs
                  PROVE  heap[a].ptrs[i] \in J
      BY DEF ClosedDown
    <2>1. heap[a].ptrs[i] \in s.in
      BY <1>4, <1>5 DEF ClosedDown
    <2>2. ASSUME NEW S \in SUBSET s.in, root \in S, ClosedDown(S) PROVE heap[a].ptrs[i] \in S
      <3>1. a \in S
        BY <1>0, <2>2
      <3>. QED
        BY <2>2, <3>1 DEF ClosedDown
    <2>. QED
      BY <1>0, <2>1, <2>2
  <1>7. r \notin J
    <2>. DEFINE S == s.in \ {r}
    <2>1. ClosedDown(S)
      <3>1. ASSUME NEW a \in S, ~heap[a].leaf, NEW i \in DOMAIN heap[a].ptrs PROVE heap[a].ptrs[i] \in S
        <4>1. heap[a].ptrs[i] \in s.in /\ a \in DOMAIN heap
          BY <1>4, <3>1 DEF ClosedDown
        <4>2. heap[a].ptrs[i] # r
          BY <1>3, <3>1, <4>1 DEF IsChild
        <4>. QED
          BY <4>1, <4>2
      <3>. QED
        BY <3>1 DEF ClosedDown
    <2>2. root \in S /\ S \in SUBSET s.in /\ r \notin S
      BY <1>3, <1>4
    <2>. HIDE DEF S
    <2>. QED
      BY <1>0, <2>1, <2>2
  <1>8. ASSUME NEW a \in J, a # root
        PROVE  heap[a].parent \in J /\ IsChild(a, heap[a].parent)
    <2>1. PICK p : p = heap[a].parent /\ p \in s.in /\ IsChild(a, p)
      BY <1>4, <1>5, <1>7, <1>8
    <2>2. ASSUME NEW S \in SUBSET s.in, root \in S, ClosedDown(S) PROVE p \in S
      <3>. SUFFICES ASSUME p \notin S PROVE FALSE
        OBVIOUS
      <3>. DEFINE R == S \ {a}
      <3>1. ClosedDown(R)
        <4>1. ASSUME NEW b \in R, ~heap[b].leaf, NEW i \in DOMAIN heap[b].ptrs PROVE heap[b].ptrs[i] \in R
          <5>1. heap[b].ptrs[i] \in S /\ b \in DOMAIN heap /\ b \in S
            BY <1>4, <2>2, <4>1 DEF ClosedDown
          <5>2. heap[b].ptrs[i] = a => heap[a].parent = b
            BY <4>1, <5>1, ParentIs DEF IsChild
          <5>3. heap[b].ptrs[i] # a
            BY <2>1, <5>1, <5>2
          <5>. QED
            BY <5>1, <5>3
        <4>. QED
          BY <4>1 DEF ClosedDown
      <3>2. root \in R /\ R \in SUBSET s.in /\ a \notin R
        BY <1>8, <2>2
      <3>. HIDE DEF R
      <3>. QED
        BY <1>0, <1>8, <3>1, <3>2
    <2>3. p \in J
      BY <1>0, <2>1, <2>2
    <2>. QED
      BY <2>1, <2>3
  <1>9. s2.in = J /\ s2.lo = s.lo /\ s2.hi = s.hi /\ s2.ht = s.ht
    BY <1>1
  <1>10. Shape(s2)'
    BY <1>2, <1>4, <1>5, <1>9 DEF Tree, Shape
  <1>11. Sound(s2)'
    <2>1. Sound(s)
      BY DEF Tree
    <2>. QED
      BY <1>2, <1>9, <2>1 DEF Sound, Ordered, ChildFits, Left, Right
  <1>12. Linked(s2)'
    <2>1. Unlinked' = {}
      BY <1>2 DEF Unlinked
    <2>2. \A a \in J : ~heap'[a].leaf => \A i \in DOMAIN heap'[a].ptrs : heap'[a].ptrs[i] \in J
      BY <1>2, <1>6 DEF ClosedDown
    <2>3. \A a \in J \ {root} : (heap[a].parent \in J /\ IsChild(a, heap[a].parent))'
      BY <1>2, <1>8 DEF IsChild
    <2>. QED
      BY <1>2, <1>4, <1>5, <1>9, <2>1, <2>2, <2>3 DEF Linked
  <1>13. Underway(s2)'
    BY <1>2 DEF Underway
  <1>14. failures' # 0
    BY <1>2 DEF TypeOK
  <1>15. Tree(s2)'
    BY <1>10, <1>11, <1>12, <1>13, <1>14 DEF Tree
  <1>. QED
    BY <1>15

-----------------------------------------------------------------------------
(* The invariant.                                                          *)

LEMMA TreeStep ==
    ASSUME NEW s, TypeOK, Tree(s), [Next]_vars
    PROVE  HasTree'
  <1>. SUFFICES (\E s2 : Tree(s2)') \/ HasTree'
    BY DEF HasTree
  <1>1. ASSUME NEW k \in Keys, InsertFirst(k) \/ Insert(k) \/ Search(k) PROVE \E s2 : Tree(s2)'
    BY <1>1, InsertFirstStep, StartStep
  <1>2. CASE Descend \/ Answer \/ SplitLeafFails
    BY <1>2, DescendStep, RefuseStep
  <1>3. CASE InsertIntoLeaf \/ SplitLeaf
    BY <1>3, InsertIntoLeafStep, SplitLeafStep
  <1>4. CASE NewRoot \/ InsertIntoInternal
    BY <1>4, NewRootStep, InsertIntoInternalStep
  <1>5. CASE SplitInternal \/ InsertIntoParentFails
    BY <1>5, SplitInternalStep, InsertIntoParentFailsStep
  <1>6. CASE Destroy
    BY <1>6, DestroyStep
  <1>7. CASE UNCHANGED vars
    <2>0. /\ heap' = heap /\ root' = root /\ count' = count /\ pc' = pc /\ call' = call
          /\ node' = node /\ promo' = promo /\ stored' = stored /\ failures' = failures
      BY <1>7 DEF vars
    <2>1. Shape(s)' /\ Sound(s)'
      BY <2>0 DEF Tree, Shape, Sound, Ordered, ChildFits, Left, Right
    <2>2. Linked(s)'
      BY <2>0 DEF Tree, Linked, IsChild, Unlinked
    <2>3. Underway(s)'
      BY <2>0 DEF Tree, Underway, Parent, IsChild, Right
    <2>4. ASSUME failures' = 0 PROVE Exact(s)' /\ Chained(s)' /\ Filled'
      <3>1. failures = 0 /\ Exact(s) /\ Chained(s) /\ Filled
        BY <2>0, <2>4 DEF Tree
      <3>2. \A a : Whole(s, a)' = Whole(s, a)
        BY <2>0 DEF Whole
      <3>3. Exact(s)'
        BY <2>0, <3>1, <3>2 DEF Exact, Left, Right
      <3>4. Chained(s)'
        BY <2>0, <3>1 DEF Chained
      <3>5. Arriving' = Arriving /\ \A k : OffsetOf(k)' = OffsetOf(k)
        BY <2>0 DEF Arriving, OffsetOf
      <3>6. Filled'
        BY <2>0, <3>1, <3>5 DEF Filled
      <3>. QED
        BY <3>3, <3>4, <3>6
    <2>5. Tree(s)'
      BY <2>1, <2>2, <2>3, <2>4 DEF Tree
    <2>. QED
      BY <2>5
  <1>. QED
    BY <1>1, <1>2, <1>3, <1>4, <1>5, <1>6, <1>7 DEF Next

LEMMA BPTreeInit == Init => IInv
  <1>. SUFFICES ASSUME Init PROVE IInv
    OBVIOUS
  <1>1. Empty
    BY DEF Init, Empty
  <1>2. HasTree
    BY <1>1, EmptyTree
  <1>3. Len(<<>>) = 0 /\ <<>> \in Seq(Node) /\ DOMAIN <<>> = {}
    OBVIOUS
  <1>4. /\ call \in [op : {"none", "insert", "search"}, key : Keys \cup {0}, offset : Nat]
        /\ promo \in [key : Keys \cup {0}, right : 0..0]
    BY DEF Init, NoCall, NoPromo, Null
  <1>5. TypeOK
    BY <1>3, <1>4, MaxFailuresAssumption DEF Init, TypeOK, Null
  <1>. QED
    BY <1>2, <1>5 DEF IInv

LEMMA BPTreeStep == IInv /\ [Next]_vars => IInv'
  <1>. SUFFICES ASSUME IInv, [Next]_vars PROVE IInv'
    OBVIOUS
  <1>1. PICK s : Tree(s)
    BY DEF IInv, HasTree
  <1>. QED
    BY <1>1, TypeStep, TreeStep DEF IInv

LEMMA BPTreeInductive == Spec => []IInv
  BY BPTreeInit, BPTreeStep, PTL DEF Spec

\* The sizes of the arrays hold: no node ever has more than BPTREE_MAX_KEYS keys
\* or BPTREE_ORDER children, also in the middle of a split and after an
\* insertion that failed halfway.
THEOREM BPTreeTypeCorrect == Spec => []TypeOK
  <1>1. IInv => TypeOK
    BY DEF IInv
  <1>. QED
    BY <1>1, BPTreeInductive, PTL

LEMMA ChildIsKnown == IInv => ParentKnowsChild
  <1>. SUFFICES ASSUME IInv, pc = "parent", Parent # Null PROVE node \in ToSet(heap[Parent].ptrs)
    BY DEF ParentKnowsChild
  <1>1. PICK s : TypeOK /\ Tree(s)
    BY DEF IInv, HasTree
  <1>2. IsChild(node, Parent)
    BY <1>1, SplitNodeIs
  <1>. QED
    BY <1>2 DEF IsChild, ToSet

\* insert_into_parent always finds the node that was split among the children of
\* its parent, whatever was inserted and whichever insertions failed before.
THEOREM BPTreeParentKnowsChild == Spec => []ParentKnowsChild
  BY ChildIsKnown, BPTreeInductive, PTL

LEMMA LeafHasKey == IInv => DescentFindsKey
  <1>. SUFFICES ASSUME IInv, pc = "descend", heap[node].leaf, failures = 0
                PROVE  Lookup(heap[node], call.key) =
                         [found |-> call.key \in DOMAIN stored,
                          offset |-> IF call.key \in DOMAIN stored THEN stored[call.key] ELSE 0]
    BY DEF DescentFindsKey
  <1>1. PICK s : TypeOK /\ Tree(s)
    BY DEF IInv, HasTree
  <1>2. node \in DOMAIN heap /\ call.key \in Nat /\ Filled
    BY <1>1, KeysAreNat DEF Tree, Underway, Shape
  <1>3. Arriving = {}
    BY DEF Arriving
  <1>4. call.key \in DOMAIN stored => Holds(heap[node], call.key)
    <2>. SUFFICES ASSUME call.key \in DOMAIN stored PROVE Holds(heap[node], call.key)
      OBVIOUS
    <2>1. PICK a \in DOMAIN heap : heap[a].leaf /\ \E i \in DOMAIN heap[a].keys : heap[a].keys[i] = call.key
      BY <1>2 DEF Filled
    <2>2. a = node
      BY <1>1, <2>1, LeafOfKey
    <2>. QED
      BY <2>1, <2>2 DEF Holds
  <1>5. CASE Holds(heap[node], call.key)
    <2>1. PICK i \in DOMAIN heap[node].keys : heap[node].keys[i] = call.key
      BY <1>5 DEF Holds
    <2>2. call.key \in DOMAIN stored /\ heap[node].ptrs[i] = stored[call.key]
      BY <1>2, <1>3, <2>1 DEF Filled, OffsetOf
    <2>3. heap[node].keys \in Seq(Nat) /\ DOMAIN heap[node].keys = 1..Len(heap[node].keys)
      BY <1>1, <1>2, NodeIs
    <2>4. Ascending(heap[node].keys)
      BY <1>1, <1>2, ShapeIs
    <2>5. PICK p : p = LeafIndex(heap[node].keys, call.key)
      OBVIOUS
    <2>6. /\ p \in 1..(Len(heap[node].keys) + 1)
          /\ \A j \in DOMAIN heap[node].keys :
                (j < p => heap[node].keys[j] < call.key) /\ (j >= p => heap[node].keys[j] >= call.key)
      BY <1>2, <2>3, <2>4, <2>5, LeafIndexIs
    <2>7. p <= i /\ i \in Nat /\ p \in DOMAIN heap[node].keys
      BY <1>2, <2>1, <2>3, <2>6
    <2>8. p = i
      <3>1. heap[node].keys[p] >= call.key
        BY <2>6, <2>7
      <3>2. p < i => heap[node].keys[p] < heap[node].keys[i]
        BY <2>1, <2>4, <2>7 DEF Ascending
      <3>3. heap[node].keys[p] \in Nat
        BY <2>3, <2>7
      <3>. QED
        BY <1>2, <2>1, <2>3, <2>7, <3>1, <3>2, <3>3
    <2>. QED
      BY <1>5, <2>2, <2>5, <2>8 DEF Lookup
  <1>6. CASE ~Holds(heap[node], call.key)
    <2>1. call.key \notin DOMAIN stored /\ Holds(heap[node], call.key) = FALSE
      BY <1>4, <1>6 DEF Holds
    <2>2. Lookup(heap[node], call.key) = [found |-> FALSE, offset |-> 0]
      BY <2>1 DEF Lookup
    <2>3. (call.key \in DOMAIN stored) = FALSE
      BY <2>1
    <2>4. [found |-> call.key \in DOMAIN stored,
           offset |-> IF call.key \in DOMAIN stored THEN stored[call.key] ELSE 0]
             = [found |-> FALSE, offset |-> 0]
      BY <2>3
    <2>. QED
      BY <2>2, <2>4
  <1>. QED
    BY <1>5, <1>6

\* bptree_search finds every key that was inserted, with its offset, and no
\* other, and bptree_insert refuses a duplicate, however the tree has grown, until
\* an insertion fails halfway.
THEOREM BPTreeDescentFindsKey == Spec => []DescentFindsKey
  BY LeafHasKey, BPTreeInductive, PTL

-----------------------------------------------------------------------------
(* bptree_validate and bptree_destroy walk the tree.                       *)

Below(V) == UNION {ChildVisits(v) : v \in V}
RootVisit == [at |-> root, parent |-> Null, low |-> 0, high |-> Above]

\* The calls of validate_node to a given depth.
LEMMA LevelsExist ==
    ASSUME NEW n \in Nat
    PROVE  \E f : f = [d \in 0..n |-> IF d = 0 THEN {RootVisit} ELSE Below(f[d - 1])]
  <1>. DEFINE IsWalk(f, m) == f = [d \in 0..m |-> IF d = 0 THEN {RootVisit} ELSE Below(f[d - 1])]
              S == {m \in Nat : \E f : IsWalk(f, m)}
  <1>1. 0 \in S
    <2>1. PICK f : f = [d \in 0..0 |-> {RootVisit}]
      OBVIOUS
    <2>2. \A d \in 0..0 : f[d] = IF d = 0 THEN {RootVisit} ELSE Below(f[d - 1])
      BY <2>1
    <2>3. IsWalk(f, 0)
      BY <2>1, <2>2
    <2>. QED
      BY <2>3
  <1>2. ASSUME NEW m \in Nat, m \in S PROVE m + 1 \in S
    <2>1. PICK f : IsWalk(f, m)
      BY <1>2
    <2>2. PICK g : g = [d \in 0..(m + 1) |-> IF d = m + 1 THEN Below(f[m]) ELSE f[d]]
      OBVIOUS
    <2>3. \A d \in 0..m : g[d] = f[d] /\ f[d] = IF d = 0 THEN {RootVisit} ELSE Below(f[d - 1])
      <3>1. \A d \in 0..m : f[d] = IF d = 0 THEN {RootVisit} ELSE Below(f[d - 1])
        BY <2>1
      <3>2. \A d \in 0..m : d # m + 1 /\ d \in 0..(m + 1)
        OBVIOUS
      <3>3. \A d \in 0..m : g[d] = f[d]
        BY <2>2, <3>2
      <3>. QED
        BY <3>1, <3>3
    <2>4. g[m + 1] = Below(f[m])
      BY <2>2
    <2>5. ASSUME NEW d \in 0..(m + 1)
          PROVE  g[d] = IF d = 0 THEN {RootVisit} ELSE Below(g[d - 1])
      <3>1. CASE d = m + 1
        <4>1. d # 0 /\ d - 1 = m /\ m \in 0..m
          BY <3>1
        <4>. QED
          BY <2>3, <2>4, <3>1, <4>1
      <3>2. CASE d # m + 1
        <4>1. d \in 0..m /\ (d # 0 => d - 1 \in 0..m)
          BY <3>2
        <4>. QED
          BY <2>3, <4>1
      <3>. QED
        BY <3>1, <3>2
    <2>6. IsWalk(g, m + 1)
      BY <2>2, <2>5
    <2>. QED
      BY <2>6
  <1>. HIDE DEF S
  <1>3. n \in S
    BY <1>1, <1>2, NatInductive
  <1>. QED
    BY <1>3 DEF S

LEMMA VisitsAre ==
    ASSUME TypeOK
    PROVE  /\ DOMAIN Visits = 0..Len(heap) /\ Visits[0] = {RootVisit}
           /\ \A d \in 0..Len(heap) : d # 0 => Visits[d] = Below(Visits[d - 1])
  <1>1. Len(heap) \in Nat
    BY HeapIs
  <1>2. Visits = CHOOSE f : f = [d \in 0..Len(heap) |-> IF d = 0 THEN {RootVisit} ELSE Below(f[d - 1])]
    BY DEF Visits, RootVisit, Below
  <1>3. Visits = [d \in 0..Len(heap) |-> IF d = 0 THEN {RootVisit} ELSE Below(Visits[d - 1])]
    BY <1>1, <1>2, LevelsExist
  <1>4. 0 \in 0..Len(heap)
    BY <1>1
  <1>. HIDE DEF Visits
  <1>. QED
    BY <1>3, <1>4

\* A call of validate_node at depth d: its bounds leave the node its range.
Reached(s, v, d) ==
    /\ v.at \in s.in /\ v.parent = heap[v.at].parent
    /\ v.low \in Nat /\ v.high \in Nat
    /\ v.low <= s.lo[v.at] /\ s.hi[v.at] <= v.high
    /\ s.ht[v.at] + d = s.ht[root]
    /\ failures = 0 => v.low = s.lo[v.at] /\ v.high = s.hi[v.at]

LEMMA RootReached ==
    ASSUME NEW s, TypeOK, Tree(s), pc = "idle", root # Null
    PROVE  Reached(s, RootVisit, 0)
  <1>1. root \in s.in /\ root \in DOMAIN heap /\ heap[root].parent = Null
    BY RootIs DEF Tree, Linked
  <1>2. failures = 0 => s.lo[root] = 0 /\ s.hi[root] = Above
    BY DEF Tree, Exact, Whole
  <1>3. s.lo[root] \in Nat /\ s.hi[root] <= Above /\ s.ht[root] \in Nat /\ Above \in Nat
    BY <1>1, ShapeIs, AboveAll
  <1>4. /\ RootVisit.at = root /\ RootVisit.parent = Null /\ RootVisit.low = 0
        /\ RootVisit.high = Above
    BY DEF RootVisit
  <1>. QED
    BY <1>1, <1>2, <1>3, <1>4 DEF Reached

\* The call for child i.
VisitOf(v, i) ==
    [at |-> heap[v.at].ptrs[i], parent |-> v.at,
     low |-> IF i = 1 THEN v.low ELSE heap[v.at].keys[i - 1],
     high |-> IF i = Len(heap[v.at].keys) + 1 THEN v.high ELSE heap[v.at].keys[i]]

LEMMA ChildVisitsAre ==
    ASSUME NEW v
    PROVE  /\ heap[v.at].leaf => ChildVisits(v) = {}
           /\ ~heap[v.at].leaf => ChildVisits(v) = {VisitOf(v, i) : i \in DOMAIN heap[v.at].ptrs}
  BY DEF ChildVisits, VisitOf

LEMMA ChildReached ==
    ASSUME NEW s, TypeOK, Tree(s), pc = "idle", root # Null, NEW d \in Nat, NEW v, Reached(s, v, d),
           ~heap[v.at].leaf, NEW i \in DOMAIN heap[v.at].ptrs
    PROVE  Reached(s, VisitOf(v, i), d + 1)
  <1>. DEFINE a == v.at
              c == heap[a].ptrs[i]
  <1>1. PICK u : u = VisitOf(v, i)
    OBVIOUS
  <1>2. /\ u.at = c /\ u.parent = a
        /\ u.low = (IF i = 1 THEN v.low ELSE heap[a].keys[i - 1])
        /\ u.high = (IF i = Len(heap[a].keys) + 1 THEN v.high ELSE heap[a].keys[i])
    BY <1>1 DEF VisitOf
  <1>3. /\ a \in s.in /\ a \in DOMAIN heap /\ v.low \in Nat /\ v.high \in Nat
        /\ v.low <= s.lo[a] /\ s.hi[a] <= v.high /\ s.ht[a] + d = s.ht[root]
        /\ failures = 0 => v.low = s.lo[a] /\ v.high = s.hi[a]
    BY DEF Reached, Tree, Shape
  <1>4. /\ c \in DOMAIN heap /\ heap[c].parent = a /\ s.ht[c] + 1 = s.ht[a]
        /\ Left(s, a, i) <= s.lo[c] /\ s.hi[c] <= Right(s, a, i)
    BY <1>3 DEF Tree, Sound, ChildFits
  <1>5. c \in s.in
    BY <1>3 DEF Tree, Linked
  <1>6. failures = 0 => s.lo[c] = Left(s, a, i) /\ s.hi[c] = Right(s, a, i)
    BY <1>3 DEF Tree, Exact, Whole
  <1>7. /\ i \in 1..(Len(heap[a].keys) + 1) /\ Len(heap[a].keys) \in Nat
        /\ Left(s, a, i) \in Nat /\ Right(s, a, i) \in Nat
    BY <1>3, PartIs
  <1>8. /\ s.lo[a] \in Nat /\ s.hi[a] \in Nat /\ s.ht[a] \in Nat
        /\ s.lo[c] \in Nat /\ s.hi[c] \in Nat /\ s.ht[c] \in Nat
    BY <1>3, <1>4, ShapeIs
  <1>9. /\ Left(s, a, i) = (IF i = 1 THEN s.lo[a] ELSE heap[a].keys[i - 1])
        /\ Right(s, a, i) = (IF i = Len(heap[a].keys) + 1 THEN s.hi[a] ELSE heap[a].keys[i])
    BY DEF Left, Right, Lower, Upper
  <1>10. s.ht[root] \in Nat
    BY <1>3, <1>8
  <1>. HIDE DEF a, c
  <1>11. u.low \in Nat /\ u.low <= s.lo[c] /\ (failures = 0 => u.low = s.lo[c])
    BY <1>2, <1>3, <1>4, <1>6, <1>7, <1>8, <1>9
  <1>12. u.high \in Nat /\ s.hi[c] <= u.high /\ (failures = 0 => u.high = s.hi[c])
    BY <1>2, <1>3, <1>4, <1>6, <1>7, <1>8, <1>9
  <1>13. s.ht[c] + (d + 1) = s.ht[root]
    BY <1>3, <1>4, <1>8, <1>10
  <1>. QED
    BY <1>1, <1>2, <1>4, <1>5, <1>11, <1>12, <1>13 DEF Reached

LEMMA AllReached ==
    ASSUME NEW s, TypeOK, Tree(s), pc = "idle", root # Null, NEW d \in 0..Len(heap), NEW v \in Visits[d]
    PROVE  Reached(s, v, d)
  <1>. DEFINE S == {e \in Nat : e \in 0..Len(heap) => \A u \in Visits[e] : Reached(s, u, e)}
  <1>0. Len(heap) \in Nat
    BY HeapIs
  <1>1. 0 \in S
    BY VisitsAre, RootReached
  <1>2. ASSUME NEW e \in Nat, e \in S PROVE e + 1 \in S
    <2>. SUFFICES ASSUME e + 1 \in 0..Len(heap), NEW u \in Visits[e + 1] PROVE Reached(s, u, e + 1)
      OBVIOUS
    <2>1. e \in 0..Len(heap) /\ e + 1 # 0 /\ (e + 1) - 1 = e
      BY <1>0
    <2>2. u \in Below(Visits[e])
      BY <2>1, VisitsAre
    <2>3. PICK w \in Visits[e] : u \in ChildVisits(w)
      BY <2>2 DEF Below
    <2>4. Reached(s, w, e)
      BY <1>2, <2>1, <2>3
    <2>5. heap[w.at].leaf \in BOOLEAN
      BY <2>4, NodeIs DEF Reached, Tree, Shape
    <2>6. ~heap[w.at].leaf /\ \E i \in DOMAIN heap[w.at].ptrs : u = VisitOf(w, i)
      BY <2>3, <2>5, ChildVisitsAre
    <2>. QED
      BY <2>4, <2>6, ChildReached
  <1>. HIDE DEF S
  <1>3. d \in S
    BY <1>0, <1>1, <1>2, NatInductive
  <1>. QED
    BY <1>3 DEF S

LEMMA WalkIsValid == IInv => NodesValid
  <1>. SUFFICES ASSUME IInv, pc = "idle", root # Null
                PROVE  /\ \A d \in DOMAIN Visits : \A v \in Visits[d] : ValidVisit(v)
                       /\ \A d, e \in DOMAIN Visits : \A v \in Visits[d], u \in Visits[e] :
                             heap[v.at].leaf /\ heap[u.at].leaf => d = e
    BY DEF NodesValid
  <1>1. PICK s : TypeOK /\ Tree(s)
    BY DEF IInv, HasTree
  <1>2. DOMAIN Visits = 0..Len(heap) /\ Len(heap) \in Nat
    BY <1>1, VisitsAre, HeapIs
  <1>3. ASSUME NEW d \in DOMAIN Visits, NEW v \in Visits[d] PROVE ValidVisit(v)
    <2>. DEFINE a == v.at
    <2>1. Reached(s, v, d) /\ d \in Nat
      BY <1>1, <1>2, AllReached
    <2>2. /\ a \in DOMAIN heap /\ v.parent = heap[a].parent /\ v.low \in Nat /\ v.high \in Nat
          /\ v.low <= s.lo[a] /\ s.hi[a] <= v.high
      BY <1>1, <2>1 DEF Reached, Tree, Shape
    <2>3. /\ s.lo[a] \in Nat /\ s.hi[a] \in Nat /\ Ascending(heap[a].keys)
          /\ \A i \in 1..Len(heap[a].keys) : s.lo[a] <= heap[a].keys[i] /\ heap[a].keys[i] < s.hi[a]
      BY <1>1, <2>2, ShapeIs
    <2>4. /\ DOMAIN heap[a].keys = 1..Len(heap[a].keys) /\ Len(heap[a].keys) \in 1..MaxKeys
          /\ Len(heap[a].ptrs) = (IF heap[a].leaf THEN Len(heap[a].keys) ELSE Len(heap[a].keys) + 1)
          /\ \A i \in 1..Len(heap[a].keys) : heap[a].keys[i] \in Nat
      BY <1>1, <2>2, NodeIs
    <2>5. Len(heap[a].keys) <= MaxKeys /\ Len(heap[a].keys) \in Nat
      BY <2>4, HalfOf
    <2>6. \A i \in 2..Len(heap[a].keys) : heap[a].keys[i - 1] < heap[a].keys[i]
      <3>1. \A i \in 2..Len(heap[a].keys) :
               i \in DOMAIN heap[a].keys /\ i - 1 \in DOMAIN heap[a].keys /\ i - 1 < i
        BY <2>4, <2>5
      <3>. QED
        BY <2>3, <3>1 DEF Ascending
    <2>7. \A i \in DOMAIN heap[a].keys : v.low <= heap[a].keys[i] /\ heap[a].keys[i] < v.high
      BY <2>2, <2>3, <2>4
    <2>8. ASSUME ~heap[a].leaf, NEW c \in ChildVisits(v) PROVE c.low < c.high
      <3>1. PICK i \in DOMAIN heap[a].ptrs : c = VisitOf(v, i)
        BY <2>8, ChildVisitsAre
      <3>2. Reached(s, c, d + 1)
        BY <1>1, <2>1, <2>8, <3>1, ChildReached
      <3>3. /\ c.at \in DOMAIN heap /\ c.low \in Nat /\ c.high \in Nat
            /\ c.low <= s.lo[c.at] /\ s.hi[c.at] <= c.high
        BY <1>1, <3>2 DEF Reached, Tree, Shape
      <3>4. s.lo[c.at] \in Nat /\ s.hi[c.at] \in Nat /\ s.lo[c.at] < s.hi[c.at]
        BY <1>1, <3>3, ShapeIs
      <3>. QED
        BY <3>3, <3>4
    <2>. QED
      BY <2>2, <2>4, <2>5, <2>6, <2>7, <2>8 DEF ValidVisit
  <1>4. ASSUME NEW d \in DOMAIN Visits, NEW v \in Visits[d], heap[v.at].leaf
        PROVE  d = s.ht[root]
    <2>1. v.at \in DOMAIN heap /\ s.ht[v.at] + d = s.ht[root]
      BY <1>1, <1>2, AllReached DEF Reached, Tree, Shape
    <2>2. s.ht[v.at] = 0 /\ d \in Nat
      BY <1>1, <1>2, <1>4, <2>1, ShapeIs
    <2>. QED
      BY <2>1, <2>2
  <1>. QED
    BY <1>3, <1>4

\* Between operations validate_node accepts every node below the root, whose
\* leaves all have the same depth: keys in order and between the separators
\* above them, one child more than keys, parents that are right. Also after any
\* number of insertions that failed halfway.
THEOREM BPTreeNodesValid == Spec => []NodesValid
  BY WalkIsValid, BPTreeInductive, PTL

\* The walk comes to every node in use, at the depth its height says.
LEMMA NodeReached ==
    ASSUME NEW s, TypeOK, Tree(s), pc = "idle", root # Null, NEW a \in s.in
    PROVE  \E d \in 0..Len(heap) : \E v \in Visits[d] : v.at = a
  <1>. DEFINE S == {d \in Nat : d \in 0..Len(heap) =>
                      \A b \in s.in : s.ht[b] + d = s.ht[root] => \E v \in Visits[d] : v.at = b}
  <1>0. Len(heap) \in Nat
    BY HeapIs
  <1>1. /\ s.in \subseteq DOMAIN heap /\ root \in DOMAIN heap
        /\ \A b \in s.in \ {root} : heap[b].parent \in s.in /\ IsChild(b, heap[b].parent)
        /\ \A b \in s.in : s.ht[b] <= s.ht[root]
        /\ s.ht[root] < Len(heap)
    BY RootIs DEF Tree, Shape, Linked, Unlinked
  <1>2. \A b \in DOMAIN heap : s.ht[b] \in Nat
    BY ShapeIs
  <1>3. ASSUME NEW b \in s.in, b # root
        PROVE  /\ heap[b].parent \in s.in /\ s.ht[b] + 1 = s.ht[heap[b].parent]
               /\ IsChild(b, heap[b].parent) /\ s.ht[b] < s.ht[root]
    <2>1. heap[b].parent \in s.in /\ heap[b].parent \in DOMAIN heap /\ IsChild(b, heap[b].parent)
      BY <1>1, <1>3
    <2>2. s.ht[b] + 1 = s.ht[heap[b].parent]
      BY <2>1, ParentIs
    <2>. QED
      BY <1>1, <1>2, <2>1, <2>2
  <1>4. 0 \in S
    <2>1. RootVisit \in Visits[0] /\ RootVisit.at = root
      BY VisitsAre DEF RootVisit
    <2>2. \A b \in s.in : s.ht[b] + 0 = s.ht[root] => b = root
      BY <1>1, <1>2, <1>3
    <2>. QED
      BY <2>1, <2>2
  <1>5. ASSUME NEW d \in Nat, d \in S PROVE d + 1 \in S
    <2>. SUFFICES ASSUME d + 1 \in 0..Len(heap), NEW b \in s.in, s.ht[b] + (d + 1) = s.ht[root]
                  PROVE  \E v \in Visits[d + 1] : v.at = b
      OBVIOUS
    <2>1. d \in 0..Len(heap) /\ d + 1 # 0 /\ (d + 1) - 1 = d
      BY <1>0
    <2>2. s.ht[b] \in Nat /\ s.ht[root] \in Nat
      BY <1>1, <1>2
    <2>3. b # root
      BY <2>2
    <2>4. PICK p : p = heap[b].parent
      OBVIOUS
    <2>5. p \in s.in /\ p \in DOMAIN heap /\ s.ht[b] + 1 = s.ht[p] /\ IsChild(b, p)
      BY <1>1, <1>3, <2>3, <2>4
    <2>6. s.ht[p] + d = s.ht[root]
      BY <2>2, <2>5
    <2>7. PICK v \in Visits[d] : v.at = p
      BY <1>5, <2>1, <2>5, <2>6
    <2>8. PICK i \in DOMAIN heap[p].ptrs : heap[p].ptrs[i] = b
      BY <2>5 DEF IsChild
    <2>9. ~heap[p].leaf
      BY <2>5 DEF IsChild
    <2>10. VisitOf(v, i) \in ChildVisits(v)
      BY <2>7, <2>8, <2>9, ChildVisitsAre
    <2>11. VisitOf(v, i) \in Visits[d + 1]
      <3>1. Visits[d + 1] = Below(Visits[d])
        BY <2>1, VisitsAre
      <3>. QED
        BY <2>7, <2>10, <3>1 DEF Below
    <2>12. VisitOf(v, i).at = b
      BY <2>7, <2>8 DEF VisitOf
    <2>. QED
      BY <2>11, <2>12
  <1>. HIDE DEF S
  <1>6. Nat \subseteq S
    BY <1>4, <1>5, NatInductive
  <1>7. s.ht[a] \in Nat /\ s.ht[root] \in Nat /\ s.ht[a] <= s.ht[root] /\ s.ht[root] < Len(heap)
    BY <1>1, <1>2
  <1>8. PICK d : d = s.ht[root] - s.ht[a]
    OBVIOUS
  <1>9. d \in 0..Len(heap) /\ d \in Nat /\ s.ht[a] + d = s.ht[root]
    BY <1>0, <1>7, <1>8
  <1>. QED
    BY <1>6, <1>9 DEF S

LEMMA WalkIsComplete == IInv => DestroyFreesAll
  <1>. SUFFICES ASSUME IInv, pc = "idle", root # Null, failures = 0
                PROVE  {v.at : v \in UNION {Visits[d] : d \in DOMAIN Visits}} = DOMAIN heap
    BY DEF DestroyFreesAll
  <1>1. PICK s : TypeOK /\ Tree(s)
    BY DEF IInv, HasTree
  <1>2. DOMAIN Visits = 0..Len(heap) /\ s.in = DOMAIN heap
    BY <1>1, VisitsAre DEF Tree, Exact
  <1>3. \A a \in DOMAIN heap : \E d \in DOMAIN Visits : \E v \in Visits[d] : v.at = a
    BY <1>1, <1>2, NodeReached
  <1>4. \A d \in DOMAIN Visits : \A v \in Visits[d] : v.at \in DOMAIN heap
    BY <1>1, <1>2, AllReached DEF Reached
  <1>. QED
    BY <1>3, <1>4

\* As long as no insertion has failed halfway, the walk of bptree_destroy comes to
\* every node there is: no node leaks.
THEOREM BPTreeDestroyFreesAll == Spec => []DestroyFreesAll
  BY WalkIsComplete, BPTreeInductive, PTL

-----------------------------------------------------------------------------
(* The chain of the leaves.                                                *)

IsLeftmost(a) ==
    /\ heap[a].leaf
    /\ \E d \in 0..Len(heap) : \E v \in Visits[d] : v.at = a /\ v.low = 0
Leftmost == CHOOSE a \in DOMAIN heap : IsLeftmost(a)
Follow(a) == IF a = Null THEN Null ELSE heap[a].next

LEMMA LinksExist ==
    ASSUME NEW x, NEW n \in Nat
    PROVE  \E f : f = [i \in 1..(n + 1) |-> IF i = 1 THEN x ELSE Follow(f[i - 1])]
  <1>. DEFINE IsLink(f, m) == f = [i \in 1..(m + 1) |-> IF i = 1 THEN x ELSE Follow(f[i - 1])]
              S == {m \in Nat : \E f : IsLink(f, m)}
  <1>1. 0 \in S
    <2>1. PICK f : f = [i \in 1..(0 + 1) |-> x]
      OBVIOUS
    <2>2. \A i \in 1..(0 + 1) : f[i] = IF i = 1 THEN x ELSE Follow(f[i - 1])
      BY <2>1
    <2>3. IsLink(f, 0)
      BY <2>1, <2>2
    <2>. QED
      BY <2>3
  <1>2. ASSUME NEW m \in Nat, m \in S PROVE m + 1 \in S
    <2>1. PICK f : IsLink(f, m)
      BY <1>2
    <2>2. PICK g : g = [i \in 1..((m + 1) + 1) |-> IF i = (m + 1) + 1 THEN Follow(f[m + 1]) ELSE f[i]]
      OBVIOUS
    <2>3. \A i \in 1..(m + 1) : g[i] = f[i] /\ f[i] = IF i = 1 THEN x ELSE Follow(f[i - 1])
      <3>1. \A i \in 1..(m + 1) : f[i] = IF i = 1 THEN x ELSE Follow(f[i - 1])
        BY <2>1
      <3>2. \A i \in 1..(m + 1) : i # (m + 1) + 1 /\ i \in 1..((m + 1) + 1)
        OBVIOUS
      <3>3. \A i \in 1..(m + 1) : g[i] = f[i]
        BY <2>2, <3>2
      <3>. QED
        BY <3>1, <3>3
    <2>4. g[(m + 1) + 1] = Follow(f[m + 1])
      BY <2>2
    <2>5. ASSUME NEW i \in 1..((m + 1) + 1)
          PROVE  g[i] = IF i = 1 THEN x ELSE Follow(g[i - 1])
      <3>1. CASE i = (m + 1) + 1
        <4>1. i # 1 /\ i - 1 = m + 1 /\ m + 1 \in 1..(m + 1)
          BY <3>1
        <4>. QED
          BY <2>3, <2>4, <3>1, <4>1
      <3>2. CASE i # (m + 1) + 1
        <4>1. i \in 1..(m + 1) /\ (i # 1 => i - 1 \in 1..(m + 1))
          BY <3>2
        <4>. QED
          BY <2>3, <4>1
      <3>. QED
        BY <3>1, <3>2
    <2>6. IsLink(g, m + 1)
      BY <2>2, <2>5
    <2>. QED
      BY <2>6
  <1>. HIDE DEF S
  <1>3. n \in S
    BY <1>1, <1>2, NatInductive
  <1>. QED
    BY <1>3 DEF S

LEMMA ChainIs ==
    ASSUME TypeOK
    PROVE  /\ Chain[1] = Leftmost
           /\ \A i \in 1..Len(heap) : Chain[i + 1] = Follow(Chain[i])
  <1>1. Len(heap) \in Nat
    BY HeapIs
  <1>2. Chain = CHOOSE f : f = [i \in 1..(Len(heap) + 1) |-> IF i = 1 THEN Leftmost ELSE Follow(f[i - 1])]
    BY DEF Chain, Leftmost, IsLeftmost, Follow
  <1>3. Chain = [i \in 1..(Len(heap) + 1) |-> IF i = 1 THEN Leftmost ELSE Follow(Chain[i - 1])]
    BY <1>1, <1>2, LinksExist
  <1>4. 1 \in 1..(Len(heap) + 1)
    BY <1>1
  <1>5. \A i \in 1..Len(heap) : i + 1 \in 1..(Len(heap) + 1) /\ i + 1 # 1 /\ (i + 1) - 1 = i
    BY <1>1
  <1>. HIDE DEF Chain
  <1>. QED
    BY <1>3, <1>4, <1>5

\* The keys q with those of leaf a behind them.
Grown(q, a) == IF a = Null THEN q ELSE q \o heap[a].keys

LEMMA KeysExist ==
    ASSUME NEW c, NEW n \in Nat
    PROVE  \E f : f = [i \in 0..n |-> IF i = 0 THEN <<>> ELSE Grown(f[i - 1], c[i])]
  <1>. DEFINE IsGrowth(f, m) == f = [i \in 0..m |-> IF i = 0 THEN <<>> ELSE Grown(f[i - 1], c[i])]
              S == {m \in Nat : \E f : IsGrowth(f, m)}
  <1>1. 0 \in S
    <2>1. PICK f : f = [i \in 0..0 |-> <<>>]
      OBVIOUS
    <2>2. \A i \in 0..0 : f[i] = IF i = 0 THEN <<>> ELSE Grown(f[i - 1], c[i])
      BY <2>1
    <2>3. IsGrowth(f, 0)
      BY <2>1, <2>2
    <2>. QED
      BY <2>3
  <1>2. ASSUME NEW m \in Nat, m \in S PROVE m + 1 \in S
    <2>1. PICK f : IsGrowth(f, m)
      BY <1>2
    <2>2. PICK g : g = [i \in 0..(m + 1) |-> IF i = m + 1 THEN Grown(f[m], c[m + 1]) ELSE f[i]]
      OBVIOUS
    <2>3. \A i \in 0..m : g[i] = f[i] /\ f[i] = IF i = 0 THEN <<>> ELSE Grown(f[i - 1], c[i])
      <3>1. \A i \in 0..m : f[i] = IF i = 0 THEN <<>> ELSE Grown(f[i - 1], c[i])
        BY <2>1
      <3>2. \A i \in 0..m : i # m + 1 /\ i \in 0..(m + 1)
        OBVIOUS
      <3>3. \A i \in 0..m : g[i] = f[i]
        BY <2>2, <3>2
      <3>. QED
        BY <3>1, <3>3
    <2>4. g[m + 1] = Grown(f[m], c[m + 1])
      BY <2>2
    <2>5. ASSUME NEW i \in 0..(m + 1)
          PROVE  g[i] = IF i = 0 THEN <<>> ELSE Grown(g[i - 1], c[i])
      <3>1. CASE i = m + 1
        <4>1. i # 0 /\ i - 1 = m /\ m \in 0..m
          BY <3>1
        <4>. QED
          BY <2>3, <2>4, <3>1, <4>1
      <3>2. CASE i # m + 1
        <4>1. i \in 0..m /\ (i # 0 => i - 1 \in 0..m)
          BY <3>2
        <4>. QED
          BY <2>3, <4>1
      <3>. QED
        BY <3>1, <3>2
    <2>6. IsGrowth(g, m + 1)
      BY <2>2, <2>5
    <2>. QED
      BY <2>6
  <1>. HIDE DEF S
  <1>3. n \in S
    BY <1>1, <1>2, NatInductive
  <1>. QED
    BY <1>3 DEF S

LEMMA ChainKeysAre ==
    ASSUME TypeOK
    PROVE  \E f : /\ f[0] = <<>>
                  /\ \A i \in 0..Len(heap) : f[i + 1] = Grown(f[i], Chain[i + 1])
                  /\ ChainKeys = f[Len(heap) + 1]
  <1>1. Len(heap) \in Nat /\ Len(heap) + 1 \in Nat
    BY HeapIs
  <1>2. PICK c : c = Chain
    OBVIOUS
  <1>3. PICK f : f = CHOOSE g : g = [i \in 0..(Len(heap) + 1) |-> IF i = 0 THEN <<>> ELSE Grown(g[i - 1], c[i])]
    OBVIOUS
  <1>4. ChainKeys = f[Len(heap) + 1]
    BY <1>2, <1>3 DEF ChainKeys, Grown
  <1>5. f = [i \in 0..(Len(heap) + 1) |-> IF i = 0 THEN <<>> ELSE Grown(f[i - 1], c[i])]
    BY <1>1, <1>3, KeysExist
  <1>6. 0 \in 0..(Len(heap) + 1)
    BY <1>1
  <1>7. \A i \in 0..Len(heap) : i + 1 \in 0..(Len(heap) + 1) /\ i + 1 # 0 /\ (i + 1) - 1 = i
    BY <1>1
  <1>. QED
    BY <1>2, <1>4, <1>5, <1>6, <1>7

\* The leftmost leaf is there, and has the lowest part of all.
LEMMA LeftmostIs ==
    ASSUME NEW s, TypeOK, Tree(s), pc = "idle", root # Null, failures = 0
    PROVE  Leftmost \in DOMAIN heap /\ heap[Leftmost].leaf /\ s.lo[Leftmost] = 0
  <1>. DEFINE S == {d \in Nat : d <= s.ht[root] => \E v \in Visits[d] : v.low = 0}
  <1>0. /\ Len(heap) \in Nat /\ root \in DOMAIN heap /\ s.ht[root] \in Nat /\ s.ht[root] < Len(heap)
    <2>1. Len(heap) \in Nat /\ root \in DOMAIN heap /\ s.ht[root] < Len(heap)
      BY HeapIs, RootIs DEF Tree, Linked
    <2>. QED
      BY <2>1, ShapeIs
  <1>1. 0 \in S
    <2>1. RootVisit \in Visits[0]
      BY VisitsAre
    <2>2. RootVisit.low = 0
      BY DEF RootVisit
    <2>. QED
      BY <2>1, <2>2
  <1>2. ASSUME NEW d \in Nat, d \in S PROVE d + 1 \in S
    <2>. SUFFICES ASSUME d + 1 <= s.ht[root] PROVE \E v \in Visits[d + 1] : v.low = 0
      OBVIOUS
    <2>1. d \in 0..Len(heap) /\ d + 1 \in 0..Len(heap) /\ d + 1 # 0 /\ (d + 1) - 1 = d /\ d <= s.ht[root]
      BY <1>0
    <2>2. PICK v \in Visits[d] : v.low = 0
      BY <1>2, <2>1
    <2>3. v.at \in DOMAIN heap /\ s.ht[v.at] + d = s.ht[root]
      BY <2>1, <2>2, AllReached DEF Reached, Tree, Shape
    <2>4. s.ht[v.at] \in Nat /\ (heap[v.at].leaf <=> s.ht[v.at] = 0)
      BY <2>3, ShapeIs
    <2>5. ~heap[v.at].leaf
      BY <1>0, <2>3, <2>4
    <2>6. 1 \in DOMAIN heap[v.at].ptrs
      <3>1. /\ DOMAIN heap[v.at].ptrs = 1..Len(heap[v.at].ptrs) /\ Len(heap[v.at].keys) \in 1..MaxKeys
            /\ Len(heap[v.at].ptrs) = Len(heap[v.at].keys) + 1
        BY <2>3, <2>5, NodeIs
      <3>. QED
        BY <3>1, HalfOf
    <2>7. VisitOf(v, 1) \in ChildVisits(v) /\ VisitOf(v, 1).low = 0
      <3>1. VisitOf(v, 1) \in ChildVisits(v)
        BY <2>5, <2>6, ChildVisitsAre
      <3>2. VisitOf(v, 1).low = v.low
        BY DEF VisitOf
      <3>. QED
        BY <2>2, <3>1, <3>2
    <2>8. Visits[d + 1] = Below(Visits[d])
      BY <2>1, VisitsAre
    <2>. QED
      BY <2>2, <2>7, <2>8 DEF Below
  <1>. HIDE DEF S
  <1>3. s.ht[root] \in S
    BY <1>0, <1>1, <1>2, NatInductive
  <1>4. PICK d : d = s.ht[root]
    OBVIOUS
  <1>5. d \in Nat /\ d \in 0..Len(heap) /\ d <= s.ht[root]
    BY <1>0, <1>4
  <1>6. PICK v \in Visits[d] : v.low = 0
    BY <1>3, <1>4, <1>5 DEF S
  <1>7. v.at \in DOMAIN heap /\ s.ht[v.at] + d = s.ht[root]
    BY <1>5, AllReached DEF Reached, Tree, Shape
  <1>8. heap[v.at].leaf
    <2>1. s.ht[v.at] \in Nat /\ (heap[v.at].leaf <=> s.ht[v.at] = 0)
      BY <1>7, ShapeIs
    <2>. QED
      BY <1>4, <1>5, <1>7, <2>1
  <1>9. IsLeftmost(v.at)
    BY <1>5, <1>6, <1>8 DEF IsLeftmost
  <1>10. Leftmost \in DOMAIN heap /\ IsLeftmost(Leftmost)
    BY <1>7, <1>9 DEF Leftmost
  <1>11. PICK e \in 0..Len(heap) : \E u \in Visits[e] : u.at = Leftmost /\ u.low = 0
    BY <1>10 DEF IsLeftmost
  <1>12. PICK u \in Visits[e] : u.at = Leftmost /\ u.low = 0
    BY <1>11
  <1>13. u.low = s.lo[u.at]
    BY AllReached DEF Reached
  <1>. QED
    BY <1>10, <1>12, <1>13 DEF IsLeftmost

\* Leaf after leaf, each begins where the one before it ends.
LEMMA ChainSteps ==
    ASSUME NEW s, TypeOK, Tree(s), pc = "idle", root # Null, failures = 0
    PROVE  /\ Chain[1] # Null /\ s.lo[Chain[1]] = 0
           /\ \A i \in 1..(Len(heap) + 1) : Chain[i] # Null => Chain[i] \in DOMAIN heap /\ heap[Chain[i]].leaf
           /\ \A i \in 1..Len(heap) :
                 /\ Chain[i] = Null => Chain[i + 1] = Null
                 /\ Chain[i] # Null /\ Chain[i + 1] = Null => s.hi[Chain[i]] = Above
                 /\ Chain[i] # Null /\ Chain[i + 1] # Null => s.lo[Chain[i + 1]] = s.hi[Chain[i]]
  <1>. DEFINE Good(a) == a # Null => a \in DOMAIN heap /\ heap[a].leaf
              S == {i \in Nat : i <= Len(heap) => Good(Chain[i + 1])}
  <1>0. Len(heap) \in Nat /\ DOMAIN heap = 1..Len(heap)
    BY HeapIs
  <1>1. Leftmost \in DOMAIN heap /\ heap[Leftmost].leaf /\ s.lo[Leftmost] = 0
    BY LeftmostIs
  <1>2. Chain[1] = Leftmost /\ \A i \in 1..Len(heap) : Chain[i + 1] = Follow(Chain[i])
    BY ChainIs
  <1>3. Chained(s)
    BY DEF Tree
  <1>4. ASSUME NEW a, Good(a)
        PROVE  /\ Good(Follow(a))
               /\ a = Null => Follow(a) = Null
               /\ a # Null /\ Follow(a) = Null => s.hi[a] = Above
               /\ a # Null /\ Follow(a) # Null => s.lo[Follow(a)] = s.hi[a]
    BY <1>3, <1>4 DEF Chained, Follow
  <1>5. 0 \in S
    BY <1>1, <1>2
  <1>6. ASSUME NEW i \in Nat, i \in S PROVE i + 1 \in S
    <2>. SUFFICES ASSUME i + 1 <= Len(heap) PROVE Good(Chain[(i + 1) + 1])
      OBVIOUS
    <2>1. i <= Len(heap) /\ i + 1 \in 1..Len(heap)
      BY <1>0
    <2>2. Good(Chain[i + 1])
      BY <1>6, <2>1
    <2>3. Chain[(i + 1) + 1] = Follow(Chain[i + 1])
      BY <1>2, <2>1
    <2>. HIDE DEF Good
    <2>. QED
      BY <1>4, <2>2, <2>3
  <1>. HIDE DEF S, Good
  <1>7. Nat \subseteq S
    BY <1>5, <1>6, NatInductive
  <1>8. ASSUME NEW i \in 1..(Len(heap) + 1) PROVE Good(Chain[i])
    <2>1. i - 1 \in Nat /\ i - 1 <= Len(heap) /\ (i - 1) + 1 = i
      BY <1>0
    <2>2. i - 1 \in S
      BY <1>7, <2>1
    <2>. QED
      BY <2>1, <2>2 DEF S
  <1>9. \A i \in 1..Len(heap) : i \in 1..(Len(heap) + 1)
    BY <1>0
  <1>10. \A i \in 1..Len(heap) :
           /\ Chain[i] = Null => Chain[i + 1] = Null
           /\ Chain[i] # Null /\ Chain[i + 1] = Null => s.hi[Chain[i]] = Above
           /\ Chain[i] # Null /\ Chain[i + 1] # Null => s.lo[Chain[i + 1]] = s.hi[Chain[i]]
    BY <1>2, <1>4, <1>8, <1>9
  <1>11. \A i \in 1..(Len(heap) + 1) : Chain[i] # Null => Chain[i] \in DOMAIN heap /\ heap[Chain[i]].leaf
    BY <1>8 DEF Good
  <1>12. Leftmost # Null
    BY <1>0, <1>1 DEF Null
  <1>. QED
    BY <1>1, <1>2, <1>10, <1>11, <1>12

\* There are not more leaves than nodes: the chain has come to its end.
LEMMA ChainEnds ==
    ASSUME NEW s, TypeOK, Tree(s), pc = "idle", root # Null, failures = 0
    PROVE  Chain[Len(heap) + 1] = Null
  <1>. SUFFICES ASSUME Chain[Len(heap) + 1] # Null PROVE FALSE
    OBVIOUS
  <1>. DEFINE n == Len(heap)
              S == {j \in Nat : j \in 1..(n + 1) /\ Chain[j] # Null =>
                      \A i \in 1..(n + 1) : i < j => Chain[i] # Null /\ s.lo[Chain[i]] < s.lo[Chain[j]]}
  <1>0. n \in Nat /\ DOMAIN heap = 1..n
    BY HeapIs
  <1>1. \A i \in 1..(n + 1) : Chain[i] # Null => Chain[i] \in DOMAIN heap
    BY ChainSteps
  <1>2. \A i \in 1..n : /\ Chain[i] = Null => Chain[i + 1] = Null
                        /\ Chain[i] # Null /\ Chain[i + 1] # Null => s.lo[Chain[i + 1]] = s.hi[Chain[i]]
    BY ChainSteps
  <1>3. \A a \in DOMAIN heap : s.lo[a] \in Nat /\ s.hi[a] \in Nat /\ s.lo[a] < s.hi[a]
    BY ShapeIs
  <1>. HIDE DEF n
  <1>4. 0 \in S
    BY <1>0
  <1>5. ASSUME NEW j \in Nat, j \in S PROVE j + 1 \in S
    <2>. SUFFICES ASSUME j + 1 \in 1..(n + 1), Chain[j + 1] # Null, NEW i \in 1..(n + 1), i < j + 1
                  PROVE  Chain[i] # Null /\ s.lo[Chain[i]] < s.lo[Chain[j + 1]]
      OBVIOUS
    <2>1. j \in 1..n /\ j \in 1..(n + 1) /\ (i = j \/ i < j)
      BY <1>0
    <2>2. Chain[j] # Null /\ s.lo[Chain[j + 1]] = s.hi[Chain[j]]
      BY <1>2, <2>1
    <2>3. Chain[j] \in DOMAIN heap /\ s.lo[Chain[j]] < s.lo[Chain[j + 1]]
      BY <1>1, <1>3, <2>1, <2>2
    <2>4. CASE i < j
      <3>1. Chain[i] # Null /\ s.lo[Chain[i]] < s.lo[Chain[j]]
        BY <1>5, <2>1, <2>2, <2>4
      <3>2. Chain[i] \in DOMAIN heap /\ Chain[j + 1] \in DOMAIN heap
        BY <1>1, <3>1
      <3>. QED
        BY <1>3, <2>3, <3>1, <3>2
    <2>. QED
      BY <2>1, <2>2, <2>3, <2>4
  <1>. HIDE DEF S
  <1>6. Nat \subseteq S
    BY <1>4, <1>5, NatInductive
  <1>7. n + 1 \in 1..(n + 1) /\ n + 1 \in Nat /\ Chain[n + 1] # Null
    BY <1>0 DEF n
  <1>8. \A i \in 1..(n + 1) : Chain[i] # Null
    <2>1. \A i \in 1..(n + 1) : i < n + 1 \/ i = n + 1
      BY <1>0
    <2>2. n + 1 \in S
      BY <1>6, <1>7
    <2>3. \A i \in 1..(n + 1) : i < n + 1 => Chain[i] # Null
      BY <1>7, <2>2 DEF S
    <2>. QED
      BY <1>7, <2>1, <2>3
  <1>9. \A i, j \in 1..(n + 1) : i < j => Chain[i] # Chain[j]
    <2>1. ASSUME NEW i \in 1..(n + 1), NEW j \in 1..(n + 1), i < j PROVE Chain[i] # Chain[j]
      <3>1. j \in S
        BY <1>0, <1>6
      <3>2. s.lo[Chain[i]] < s.lo[Chain[j]] /\ Chain[j] \in DOMAIN heap
        BY <1>1, <1>8, <2>1, <3>1 DEF S
      <3>. QED
        BY <1>3, <3>2
    <2>. QED
      BY <2>1
  <1>10. \A i, j \in 1..(n + 1) : i # j => Chain[i] # Chain[j]
    BY <1>0, <1>9
  <1>11. PICK f : f = [i \in 1..(n + 1) |-> Chain[i]]
    OBVIOUS
  <1>12. f \in [1..(n + 1) -> 1..n]
    BY <1>0, <1>1, <1>8, <1>11
  <1>13. /\ IsFiniteSet(1..(n + 1)) /\ Cardinality(1..(n + 1)) = n + 1
         /\ IsFiniteSet(1..n) /\ Cardinality(1..n) = n
    <2>1. ASSUME NEW m \in Nat PROVE IsFiniteSet(1..m) /\ Cardinality(1..m) = m
      <3>1. IsFiniteSet(1..m) /\ Cardinality(1..m) = IF 1 > m THEN 0 ELSE m - 1 + 1
        BY FS_Interval
      <3>. QED
        BY <3>1
    <2>. QED
      BY <1>0, <1>7, <2>1
  <1>14. Cardinality(1..n) < Cardinality(1..(n + 1))
    BY <1>0, <1>13
  <1>15. \E x, y \in 1..(n + 1) : x # y /\ f[x] = f[y]
    BY <1>12, <1>13, <1>14, FS_PigeonHole
  <1>. QED
    BY <1>10, <1>11, <1>15

In(q, k) == \E i \in DOMAIN q : q[i] = k

LEMMA Joined ==
    ASSUME NEW q \in Seq(Nat), NEW r \in Seq(Nat), Ascending(q), Ascending(r),
           \A i \in DOMAIN q, j \in DOMAIN r : q[i] < r[j]
    PROVE  /\ q \o r \in Seq(Nat) /\ Ascending(q \o r)
           /\ \A k : In(q \o r, k) <=> In(q, k) \/ In(r, k)
  <1>1. PICK w : w = q \o r
    OBVIOUS
  <1>2. /\ Len(q) \in Nat /\ Len(r) \in Nat /\ DOMAIN q = 1..Len(q) /\ DOMAIN r = 1..Len(r)
    BY LenProperties
  <1>3. /\ w \in Seq(Nat) /\ Len(w) = Len(q) + Len(r)
        /\ \A i \in 1..(Len(q) + Len(r)) : w[i] = IF i <= Len(q) THEN q[i] ELSE r[i - Len(q)]
    BY <1>1, ConcatProperties
  <1>4. DOMAIN w = 1..(Len(q) + Len(r))
    BY <1>3, LenProperties
  <1>5. \A i \in DOMAIN w : \/ i \in DOMAIN q /\ w[i] = q[i] /\ i <= Len(q)
                            \/ i > Len(q) /\ i - Len(q) \in DOMAIN r /\ w[i] = r[i - Len(q)]
    BY <1>2, <1>3, <1>4
  <1>6. ASSUME NEW i \in DOMAIN w, NEW j \in DOMAIN w, i < j PROVE w[i] < w[j]
    <2>1. i \in Nat /\ j \in Nat
      BY <1>2, <1>4
    <2>2. CASE j <= Len(q)
      <3>1. i \in DOMAIN q /\ j \in DOMAIN q /\ w[i] = q[i] /\ w[j] = q[j]
        BY <1>2, <1>3, <1>4, <1>6, <2>1, <2>2
      <3>. QED
        BY <1>6, <3>1 DEF Ascending
    <2>3. CASE i > Len(q)
      <3>1. /\ i - Len(q) \in DOMAIN r /\ j - Len(q) \in DOMAIN r /\ i - Len(q) < j - Len(q)
            /\ w[i] = r[i - Len(q)] /\ w[j] = r[j - Len(q)]
        <4>1. j > Len(q) /\ i - Len(q) < j - Len(q)
          BY <1>2, <1>6, <2>1, <2>3
        <4>2. i - Len(q) \in DOMAIN r /\ w[i] = r[i - Len(q)]
          BY <1>2, <1>5, <2>1, <2>3
        <4>3. j - Len(q) \in DOMAIN r /\ w[j] = r[j - Len(q)]
          BY <1>2, <1>5, <2>1, <4>1
        <4>. QED
          BY <4>1, <4>2, <4>3
      <3>. QED
        BY <3>1 DEF Ascending
    <2>4. CASE i <= Len(q) /\ j > Len(q)
      <3>1. i \in DOMAIN q /\ j - Len(q) \in DOMAIN r /\ w[i] = q[i] /\ w[j] = r[j - Len(q)]
        <4>1. i \in DOMAIN q /\ w[i] = q[i]
          BY <1>2, <1>5, <2>1, <2>4
        <4>2. j - Len(q) \in DOMAIN r /\ w[j] = r[j - Len(q)]
          BY <1>2, <1>5, <2>1, <2>4
        <4>. QED
          BY <4>1, <4>2
      <3>. QED
        BY <3>1
    <2>. QED
      BY <1>2, <2>1, <2>2, <2>3, <2>4
  <1>7. ASSUME NEW k PROVE In(w, k) <=> In(q, k) \/ In(r, k)
    <2>1. In(w, k) => In(q, k) \/ In(r, k)
      BY <1>5 DEF In
    <2>2. ASSUME NEW i \in DOMAIN q, q[i] = k PROVE In(w, k)
      <3>1. i \in DOMAIN w /\ w[i] = k
        BY <1>2, <1>3, <1>4, <2>2
      <3>. QED
        BY <3>1 DEF In
    <2>3. ASSUME NEW i \in DOMAIN r, r[i] = k PROVE In(w, k)
      <3>1. PICK j : j = Len(q) + i
        OBVIOUS
      <3>2. j \in DOMAIN w /\ j > Len(q) /\ j - Len(q) = i
        BY <1>2, <1>4, <3>1
      <3>3. w[j] = k
        BY <1>2, <1>3, <1>4, <2>3, <3>2
      <3>. QED
        BY <3>2, <3>3 DEF In
    <2>. QED
      BY <2>1, <2>2, <2>3 DEF In
  <1>. QED
    BY <1>1, <1>3, <1>6, <1>7 DEF Ascending

LEMMA AscendingCounts ==
    ASSUME NEW q \in Seq(Nat), Ascending(q), NEW T, \A k : In(q, k) <=> k \in T
    PROVE  Cardinality(T) = Len(q)
  <1>1. Len(q) \in Nat /\ DOMAIN q = 1..Len(q) /\ q \in [1..Len(q) -> Nat]
    BY LenProperties
  <1>2. \A i \in 1..Len(q) : q[i] \in T
    BY <1>1 DEF In
  <1>3. q \in [1..Len(q) -> T]
    BY <1>1, <1>2
  <1>4. \A i, j \in 1..Len(q) : q[i] = q[j] => i = j
    BY <1>1 DEF Ascending
  <1>5. \A k \in T : \E i \in 1..Len(q) : q[i] = k
    BY <1>1 DEF In
  <1>6. q \in Bijection(1..Len(q), T)
    BY <1>3, <1>4, <1>5, Fun_IsBij
  <1>7. ExistsBijection(1..Len(q), T)
    BY <1>6 DEF ExistsBijection
  <1>8. IsFiniteSet(1..Len(q)) /\ Cardinality(1..Len(q)) = IF 1 > Len(q) THEN 0 ELSE Len(q) - 1 + 1
    BY <1>1, FS_Interval
  <1>9. Cardinality(T) = Cardinality(1..Len(q))
    BY <1>7, <1>8, FS_Bijection
  <1>. QED
    BY <1>1, <1>8, <1>9

\* A leaf has the keys of its range.
LEMMA LeafKeysAre ==
    ASSUME NEW s, TypeOK, Tree(s), pc = "idle", failures = 0, NEW a \in DOMAIN heap, heap[a].leaf
    PROVE  \A k : In(heap[a].keys, k) <=> k \in DOMAIN stored /\ s.lo[a] <= k /\ k < s.hi[a]
  <1>. SUFFICES ASSUME NEW k
                PROVE  In(heap[a].keys, k) <=> k \in DOMAIN stored /\ s.lo[a] <= k /\ k < s.hi[a]
    OBVIOUS
  <1>1. Filled /\ Exact(s) /\ Arriving = {}
    BY DEF Tree, Arriving
  <1>2. \A b \in DOMAIN heap : \A i \in DOMAIN heap[b].keys :
           s.lo[b] <= heap[b].keys[i] /\ heap[b].keys[i] < s.hi[b]
    BY DEF Tree, Sound, Ordered
  <1>3. In(heap[a].keys, k) => k \in DOMAIN stored /\ s.lo[a] <= k /\ k < s.hi[a]
    BY <1>1, <1>2 DEF In, Filled
  <1>4. ASSUME k \in DOMAIN stored, s.lo[a] <= k, k < s.hi[a] PROVE In(heap[a].keys, k)
    <2>1. PICK b \in DOMAIN heap : heap[b].leaf /\ \E i \in DOMAIN heap[b].keys : heap[b].keys[i] = k
      BY <1>1, <1>4 DEF Filled
    <2>2. s.lo[b] <= k /\ k < s.hi[b]
      BY <1>2, <2>1
    <2>3. s.ht[a] = 0 /\ s.ht[b] = 0 /\ s.lo[a] \in Nat /\ s.hi[a] \in Nat /\ s.lo[b] \in Nat /\ s.hi[b] \in Nat
      BY <2>1, ShapeIs
    <2>4. k \in Nat
      BY <1>4, KeysAreNat DEF TypeOK
    <2>5. a # b => s.hi[a] <= s.lo[b] \/ s.hi[b] <= s.lo[a]
      BY <1>1, <2>3 DEF Exact
    <2>6. a = b
      BY <1>4, <2>2, <2>3, <2>4, <2>5
    <2>. QED
      BY <2>1, <2>6 DEF In
  <1>. QED
    BY <1>3, <1>4

LEMMA ChainIsValid == IInv => ChainValid
  <1>. SUFFICES ASSUME IInv, pc = "idle", root # Null, failures = 0
                PROVE  /\ \A i \in 2..Len(ChainKeys) : ChainKeys[i - 1] < ChainKeys[i]
                       /\ Len(ChainKeys) = count
    BY DEF ChainValid
  <1>1. PICK s : TypeOK /\ Tree(s)
    BY DEF IInv, HasTree
  <1>2. PICK f : /\ f[0] = <<>>
                 /\ \A i \in 0..Len(heap) : f[i + 1] = Grown(f[i], Chain[i + 1])
                 /\ ChainKeys = f[Len(heap) + 1]
    BY <1>1, ChainKeysAre
  <1>3. Len(heap) \in Nat
    BY <1>1, HeapIs
  <1>4. /\ Chain[1] # Null /\ s.lo[Chain[1]] = 0
        /\ \A i \in 1..(Len(heap) + 1) : Chain[i] # Null => Chain[i] \in DOMAIN heap /\ heap[Chain[i]].leaf
        /\ \A i \in 1..Len(heap) :
              /\ Chain[i] = Null => Chain[i + 1] = Null
              /\ Chain[i] # Null /\ Chain[i + 1] = Null => s.hi[Chain[i]] = Above
              /\ Chain[i] # Null /\ Chain[i + 1] # Null => s.lo[Chain[i + 1]] = s.hi[Chain[i]]
    BY <1>1, ChainSteps
  <1>. DEFINE Bound(i) == IF i = 0 THEN 0 ELSE IF Chain[i] = Null THEN Above ELSE s.hi[Chain[i]]
              Sofar(i) == /\ f[i] \in Seq(Nat) /\ Ascending(f[i])
                          /\ \A k : In(f[i], k) <=> k \in DOMAIN stored /\ k < Bound(i)
              S == {i \in Nat : i <= Len(heap) + 1 => Sofar(i)}
  <1>5. DOMAIN stored \subseteq Nat /\ \A k \in DOMAIN stored : k < Above
    BY <1>1, KeysAreNat, AboveAll DEF TypeOK
  <1>6. 0 \in S
    <2>1. f[0] \in Seq(Nat) /\ DOMAIN f[0] = {}
      BY <1>2
    <2>2. Ascending(f[0]) /\ \A k : ~In(f[0], k)
      BY <2>1 DEF Ascending, In
    <2>3. Bound(0) = 0 /\ \A k \in DOMAIN stored : ~(k < 0)
      BY <1>5
    <2>. QED
      BY <2>1, <2>2, <2>3
  <1>7. ASSUME NEW i \in Nat, i \in S PROVE i + 1 \in S
    <2>. SUFFICES ASSUME i + 1 <= Len(heap) + 1 PROVE Sofar(i + 1)
      OBVIOUS
    <2>1. i \in 0..Len(heap) /\ i <= Len(heap) + 1 /\ i + 1 # 0 /\ i + 1 \in 1..(Len(heap) + 1)
      BY <1>3
    <2>2. Sofar(i)
      BY <1>7, <2>1
    <2>3. f[i + 1] = Grown(f[i], Chain[i + 1])
      BY <1>2, <2>1
    <2>4. CASE Chain[i + 1] = Null
      <3>1. i # 0 /\ i \in 1..Len(heap)
        BY <1>3, <1>4, <2>1, <2>4
      <3>2. Bound(i) = Above
        BY <1>4, <2>4, <3>1
      <3>3. Bound(i + 1) = Above /\ f[i + 1] = f[i]
        BY <2>1, <2>3, <2>4 DEF Grown
      <3>. HIDE DEF Bound
      <3>. QED
        BY <2>2, <3>2, <3>3
    <2>5. CASE Chain[i + 1] # Null
      <3>1. PICK a : a = Chain[i + 1]
        OBVIOUS
      <3>2. a \in DOMAIN heap /\ heap[a].leaf
        BY <1>4, <2>1, <2>5, <3>1
      <3>3. s.lo[a] \in Nat /\ s.hi[a] \in Nat /\ s.lo[a] < s.hi[a] /\ Ascending(heap[a].keys) /\ heap[a].keys \in Seq(Nat)
        BY <1>1, <3>2, ShapeIs, NodeIs
      <3>4. Bound(i) = s.lo[a]
        <4>1. CASE i = 0
          BY <1>4, <3>1, <4>1
        <4>2. CASE i # 0
          <5>1. i \in 1..Len(heap)
            BY <2>1, <4>2
          <5>. QED
            BY <1>4, <2>5, <3>1, <4>2, <5>1
        <4>. QED
          BY <4>1, <4>2
      <3>5. Bound(i + 1) = s.hi[a] /\ f[i + 1] = f[i] \o heap[a].keys
        BY <2>1, <2>3, <2>5, <3>1 DEF Grown
      <3>. HIDE DEF Bound
      <3>6. \A k : In(heap[a].keys, k) <=> k \in DOMAIN stored /\ s.lo[a] <= k /\ k < s.hi[a]
        BY <1>1, <3>2, LeafKeysAre
      <3>7. f[i] \in Seq(Nat) /\ Ascending(f[i]) /\ \A k : In(f[i], k) <=> k \in DOMAIN stored /\ k < s.lo[a]
        BY <2>2, <3>4
      <3>8. ASSUME NEW m \in DOMAIN f[i], NEW j \in DOMAIN heap[a].keys PROVE f[i][m] < heap[a].keys[j]
        <4>1. In(f[i], f[i][m]) /\ In(heap[a].keys, heap[a].keys[j])
          BY DEF In
        <4>2. /\ f[i][m] \in Nat /\ f[i][m] < s.lo[a]
              /\ heap[a].keys[j] \in Nat /\ s.lo[a] <= heap[a].keys[j]
          BY <1>5, <3>6, <3>7, <4>1
        <4>. QED
          BY <3>3, <4>2
      <3>9. /\ f[i + 1] \in Seq(Nat) /\ Ascending(f[i + 1])
            /\ \A k : In(f[i + 1], k) <=> In(f[i], k) \/ In(heap[a].keys, k)
        BY <3>3, <3>5, <3>7, <3>8, Joined
      <3>10. ASSUME NEW k PROVE In(f[i + 1], k) <=> k \in DOMAIN stored /\ k < Bound(i + 1)
        <4>1. k \in DOMAIN stored => k \in Nat
          BY <1>5
        <4>. QED
          BY <3>3, <3>5, <3>6, <3>7, <3>9, <4>1
      <3>. QED
        BY <3>9, <3>10
    <2>. QED
      BY <2>4, <2>5
  <1>8. Bound(Len(heap) + 1) = Above
    BY <1>1, <1>3, ChainEnds
  <1>. HIDE DEF S
  <1>9. Len(heap) + 1 \in S
    BY <1>3, <1>6, <1>7, NatInductive
  <1>10. Sofar(Len(heap) + 1)
    BY <1>3, <1>9 DEF S
  <1>. HIDE DEF Bound
  <1>11. /\ ChainKeys \in Seq(Nat) /\ Ascending(ChainKeys)
         /\ \A k : In(ChainKeys, k) <=> k \in DOMAIN stored
    BY <1>2, <1>5, <1>8, <1>10
  <1>12. Len(ChainKeys) = Cardinality(DOMAIN stored)
    BY <1>11, AscendingCounts
  <1>13. count = Cardinality(DOMAIN stored)
    BY <1>1 DEF Tree, Filled
  <1>14. \A i \in 2..Len(ChainKeys) : ChainKeys[i - 1] < ChainKeys[i]
    <2>1. Len(ChainKeys) \in Nat /\ DOMAIN ChainKeys = 1..Len(ChainKeys)
      BY <1>11, LenProperties
    <2>2. \A i \in 2..Len(ChainKeys) : i \in DOMAIN ChainKeys /\ i - 1 \in DOMAIN ChainKeys /\ i - 1 < i
      BY <2>1
    <2>. QED
      BY <1>11, <2>2 DEF Ascending
  <1>. QED
    BY <1>12, <1>13, <1>14

\* As long as no insertion has failed halfway, bptree_validate's walk along the
\* leaves finds every key once, in ascending order, and tree->key_count of them.
THEOREM BPTreeChainValid == Spec => []ChainValid
  BY ChainIsValid, BPTreeInductive, PTL
=============================================================================
