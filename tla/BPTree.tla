------------------------------- MODULE BPTree -------------------------------
(***************************************************************************)
(* The index of a table: the B+ tree of src/bptree.c, from ids to row      *)
(* offsets. Nodes are cells of a heap that know each other by address; one *)
(* operation is under way at a time (the callers hold the database's write *)
(* lock, or for bptree_search the read lock), and its loops and its        *)
(* recursion up the tree are steps, so that an allocation can fail between *)
(* them.                                                                   *)
(*                                                                         *)
(* bptree_insert gets ids in ascending order from an INSERT, and in the    *)
(* order of the data file, which may be any, when a table is loaded.       *)
(***************************************************************************)
EXTENDS Integers, SequencesExt, FiniteSetsExt

CONSTANTS
    Order,      \* BPTREE_ORDER
    Keys,       \* the ids
    MaxFailures,\* bound: how many insertions may fail halfway; 0 if create_node
                \*        never returns NULL
    MaxNodes    \* bound: no insertion starts with more nodes than this

ASSUME OrderAssumption == Order \in Nat /\ Order >= 3
ASSUME MaxFailuresAssumption == MaxFailures \in Nat
ASSUME KeysAssumption == Keys \subseteq Nat \ {0} /\ IsFiniteSet(Keys) /\ Keys # {}

VARIABLES
    heap,       \* address -> node
    root,       \* tree->root
    count,      \* tree->key_count
    pc,         \* "idle", "descend" or "parent"
    call,       \* the operation under way and its arguments
    node,       \* the node it is at
    promo,      \* what insert_into_parent adds to the right of that node
    stored,     \* key -> offset, for the insertions that returned STATUS_OK
    failures    \* how many insertions have failed after they changed the tree

vars == <<heap, root, count, pc, call, node, promo, stored, failures>>

Null == 0
NoCall == [op |-> "none", key |-> 0, offset |-> 0]
NoPromo == [key |-> 0, right |-> Null]
MaxKeys == Order - 1

Leaf(keys, offsets, parent, next) ==
    [leaf |-> TRUE, keys |-> keys, ptrs |-> offsets, parent |-> parent, next |-> next]
Internal(keys, children, parent) ==
    [leaf |-> FALSE, keys |-> keys, ptrs |-> children, parent |-> parent, next |-> Null]

\* bptree_init
Init ==
    /\ heap = <<>>
    /\ root = Null
    /\ count = 0
    /\ pc = "idle"
    /\ call = NoCall
    /\ node = Null
    /\ promo = NoPromo
    /\ stored = <<>>
    /\ failures = 0

\* The address calloc gives the next node.
NewNode == Len(heap) + 1

-----------------------------------------------------------------------------
(* Looking into one node.                                                  *)

\* Faulty ChildIndex: an equal separator leads to the left.
ChildIndexLeft(keys, k) == Min({i \in DOMAIN keys : k <= keys[i]} \cup {Len(keys) + 1})

\* The child to descend to for key k.
ChildIndex(keys, k) == Min({i \in DOMAIN keys : k < keys[i]} \cup {Len(keys) + 1})

\* Where key k is in a leaf, or belongs.
LeafIndex(keys, k) == Min({i \in DOMAIN keys : keys[i] >= k} \cup {Len(keys) + 1})

Holds(n, k) == \E i \in DOMAIN n.keys : n.keys[i] = k

\* What bptree_search reports when it has come to leaf n.
Lookup(n, k) ==
    [found |-> Holds(n, k),
     offset |-> IF Holds(n, k) THEN n.ptrs[LeafIndex(n.keys, k)] ELSE 0]

\* Where child c is among the children of node p.
Position(p, c) == Min({i \in DOMAIN heap[p].ptrs : heap[p].ptrs[i] = c})

-----------------------------------------------------------------------------
(* The operations.                                                         *)

\* The offset of the row with id k; every row has its own.
RowOffset(k) == 10 * k

Finish ==
    /\ pc' = "idle"
    /\ call' = NoCall
    /\ node' = Null
    /\ promo' = NoPromo

\* The insertion returns STATUS_OK.
Succeed(key, offset) ==
    /\ Finish
    /\ count' = count + 1
    /\ stored' = [k \in DOMAIN stored \cup {key} |-> IF k = key THEN offset ELSE stored[k]]
    /\ UNCHANGED failures

\* bptree_insert into an empty tree.
InsertFirst(k) ==
    /\ pc = "idle" /\ root = Null
    /\ heap' = <<Leaf(<<k>>, <<RowOffset(k)>>, Null, Null)>>
    /\ root' = 1
    /\ Succeed(k, RowOffset(k))

\* bptree_insert and bptree_search start at the root.
Insert(k) ==
    /\ pc = "idle" /\ root # Null /\ Len(heap) <= MaxNodes
    /\ call' = [op |-> "insert", key |-> k, offset |-> RowOffset(k)]
    /\ node' = root
    /\ pc' = "descend"
    /\ UNCHANGED <<heap, root, count, promo, stored, failures>>

Search(k) ==
    /\ pc = "idle" /\ root # Null
    /\ call' = [op |-> "search", key |-> k, offset |-> 0]
    /\ node' = root
    /\ pc' = "descend"
    /\ UNCHANGED <<heap, root, count, promo, stored, failures>>

\* One round of the loop in find_leaf_node.
Descend ==
    /\ pc = "descend" /\ ~heap[node].leaf
    /\ node' = heap[node].ptrs[ChildIndex(heap[node].keys, call.key)]
    /\ UNCHANGED <<heap, root, count, pc, call, promo, stored, failures>>

AtLeaf(op) == pc = "descend" /\ heap[node].leaf /\ call.op = op

\* bptree_search answers; bptree_insert refuses a key it has.
Answer ==
    /\ \/ AtLeaf("search")
       \/ AtLeaf("insert") /\ Holds(heap[node], call.key)
    /\ Finish
    /\ UNCHANGED <<heap, root, count, stored, failures>>

\* The keys and the offsets of the leaf, with the new one at its place.
LeafKeys == InsertAt(heap[node].keys, LeafIndex(heap[node].keys, call.key), call.key)
LeafOffsets == InsertAt(heap[node].ptrs, LeafIndex(heap[node].keys, call.key), call.offset)

\* Faulty InsertIntoLeaf: one key too many for the array.
InsertIntoFullLeaf ==
    /\ AtLeaf("insert") /\ ~Holds(heap[node], call.key)
    /\ Len(heap[node].keys) <= MaxKeys
    /\ heap' = [heap EXCEPT ![node].keys = LeafKeys, ![node].ptrs = LeafOffsets]
    /\ Succeed(call.key, call.offset)
    /\ UNCHANGED root

\* insert_into_leaf
InsertIntoLeaf ==
    /\ AtLeaf("insert") /\ ~Holds(heap[node], call.key)
    /\ Len(heap[node].keys) < MaxKeys
    /\ heap' = [heap EXCEPT ![node].keys = LeafKeys, ![node].ptrs = LeafOffsets]
    /\ Succeed(call.key, call.offset)
    /\ UNCHANGED root

LeafIsFull ==
    /\ AtLeaf("insert") /\ ~Holds(heap[node], call.key)
    /\ Len(heap[node].keys) = MaxKeys

\* Faulty SplitLeaf: the new leaf is not followed by the old one's successor.
SplitLeafDropsNext ==
    LET half == Order \div 2 IN
    /\ LeafIsFull
    /\ heap' = Append(
          [heap EXCEPT ![node].keys = SubSeq(LeafKeys, 1, half),
                       ![node].ptrs = SubSeq(LeafOffsets, 1, half),
                       ![node].next = NewNode],
          Leaf(SubSeq(LeafKeys, half + 1, Order), SubSeq(LeafOffsets, half + 1, Order),
               heap[node].parent, Null))
    /\ promo' = [key |-> LeafKeys[half + 1], right |-> NewNode]
    /\ pc' = "parent"
    /\ UNCHANGED <<root, count, call, node, stored, failures>>

\* split_leaf_and_insert, up to its call of insert_into_parent.
SplitLeaf ==
    LET half == Order \div 2 IN
    /\ LeafIsFull
    /\ heap' = Append(
          [heap EXCEPT ![node].keys = SubSeq(LeafKeys, 1, half),
                       ![node].ptrs = SubSeq(LeafOffsets, 1, half),
                       ![node].next = NewNode],
          Leaf(SubSeq(LeafKeys, half + 1, Order), SubSeq(LeafOffsets, half + 1, Order),
               heap[node].parent, heap[node].next))
    /\ promo' = [key |-> LeafKeys[half + 1], right |-> NewNode]
    /\ pc' = "parent"
    /\ UNCHANGED <<root, count, call, node, stored, failures>>

\* The leaf's sibling cannot be allocated: nothing has changed.
SplitLeafFails ==
    /\ MaxFailures > 0 /\ LeafIsFull
    /\ Finish
    /\ UNCHANGED <<heap, root, count, stored, failures>>

Parent == heap[node].parent

\* Faulty NewRoot: tree->root stays at the left half.
NewRootForgotten ==
    /\ pc = "parent" /\ Parent = Null
    /\ heap' = Append(
          [heap EXCEPT ![node].parent = NewNode, ![promo.right].parent = NewNode],
          Internal(<<promo.key>>, <<node, promo.right>>, Null))
    /\ Succeed(call.key, call.offset)
    /\ UNCHANGED root

\* insert_into_parent, when the root was split.
NewRoot ==
    /\ pc = "parent" /\ Parent = Null
    /\ heap' = Append(
          [heap EXCEPT ![node].parent = NewNode, ![promo.right].parent = NewNode],
          Internal(<<promo.key>>, <<node, promo.right>>, Null))
    /\ root' = NewNode
    /\ Succeed(call.key, call.offset)

\* The keys and the children of the parent, with the new ones at their places.
ParentKeys == InsertAt(heap[Parent].keys, Position(Parent, node), promo.key)
ParentChildren == InsertAt(heap[Parent].ptrs, Position(Parent, node) + 1, promo.right)

\* insert_into_internal_node
InsertIntoInternal ==
    /\ pc = "parent" /\ Parent # Null
    /\ Len(heap[Parent].keys) < MaxKeys
    /\ heap' = [heap EXCEPT ![Parent].keys = ParentKeys,
                            ![Parent].ptrs = ParentChildren,
                            ![promo.right].parent = Parent]
    /\ Succeed(call.key, call.offset)
    /\ UNCHANGED root

ParentIsFull == pc = "parent" /\ Parent # Null /\ Len(heap[Parent].keys) = MaxKeys

\* The heap after the parent was split behind its first half keys, of which the
\* next one is promoted; the right node's children get it as their parent if
\* adopt.
SplitAt(half, adopt) ==
    LET left == SubSeq(ParentChildren, 1, half + 1)
        right == SubSeq(ParentChildren, half + 2, Order + 1)
    IN  Append(
          [a \in DOMAIN heap |->
             IF a = Parent
               THEN Internal(SubSeq(ParentKeys, 1, half), left, heap[a].parent)
               ELSE [heap[a] EXCEPT !.parent =
                       IF a \in ToSet(left) THEN Parent
                         ELSE IF adopt /\ a \in ToSet(right) THEN NewNode ELSE @]],
          Internal(SubSeq(ParentKeys, half + 2, Order), right, heap[Parent].parent))

\* Faulty SplitInternal: the children that move keep their parent.
SplitInternalForgetsParents ==
    LET half == Order \div 2 IN
    /\ ParentIsFull
    /\ heap' = SplitAt(half, FALSE)
    /\ promo' = [key |-> ParentKeys[half + 1], right |-> NewNode]
    /\ node' = Parent
    /\ UNCHANGED <<root, count, pc, call, stored, failures>>

\* split_internal_and_insert, up to its call of insert_into_parent.
SplitInternal ==
    LET half == Order \div 2 IN
    /\ ParentIsFull
    /\ heap' = SplitAt(half, TRUE)
    /\ promo' = [key |-> ParentKeys[half + 1], right |-> NewNode]
    /\ node' = Parent
    /\ UNCHANGED <<root, count, pc, call, stored, failures>>

\* No memory for a new root, or for the parent's sibling: bptree_insert fails,
\* and the node that was split below loses its right half.
InsertIntoParentFails ==
    /\ failures < MaxFailures
    /\ (pc = "parent" /\ Parent = Null) \/ ParentIsFull
    /\ Finish
    /\ failures' = failures + 1
    /\ UNCHANGED <<heap, root, count, stored>>

\* bptree_destroy
Destroy ==
    /\ pc = "idle" /\ root # Null
    /\ heap' = <<>>
    /\ root' = Null
    /\ count' = 0
    /\ stored' = <<>>
    /\ failures' = 0
    /\ UNCHANGED <<pc, call, node, promo>>

Next ==
    \/ \E k \in Keys : InsertFirst(k) \/ Insert(k) \/ Search(k)
    \/ Descend \/ Answer
    \/ InsertIntoLeaf \/ SplitLeaf \/ SplitLeafFails
    \/ NewRoot \/ InsertIntoInternal \/ SplitInternal \/ InsertIntoParentFails
    \/ Destroy

Spec == Init /\ [][Next]_vars

-----------------------------------------------------------------------------
(* bptree_validate.                                                        *)

Above == Max(Keys) + 1

\* The calls of validate_node for the children of the node of call v: each
\* with its parent and with bounds for its keys.
ChildVisits(v) ==
    LET n == heap[v.at] IN
    IF n.leaf
      THEN {}
      ELSE {[at |-> n.ptrs[i], parent |-> v.at,
             low |-> IF i = 1 THEN v.low ELSE n.keys[i - 1],
             high |-> IF i = Len(n.keys) + 1 THEN v.high ELSE n.keys[i]]
                : i \in DOMAIN n.ptrs}

\* The calls of validate_node, by depth.
Visits ==
    LET level[d \in 0..Len(heap)] ==
            IF d = 0
              THEN {[at |-> root, parent |-> Null, low |-> 0, high |-> Above]}
              ELSE UNION {ChildVisits(v) : v \in level[d - 1]}
    IN  level

\* What validate_node tests.
ValidVisit(v) ==
    LET n == heap[v.at] IN
    /\ n.parent = v.parent
    /\ Len(n.keys) <= MaxKeys
    /\ \A i \in 2..Len(n.keys) : n.keys[i - 1] < n.keys[i]
    /\ n.leaf => \A i \in DOMAIN n.keys : v.low <= n.keys[i] /\ n.keys[i] < v.high
    /\ ~n.leaf => /\ Len(n.ptrs) = Len(n.keys) + 1
                  /\ \A c \in ChildVisits(v) : c.low < c.high

\* The leftmost leaf, then leaf after leaf along next; Null past the last.
Chain ==
    LET leftmost == CHOOSE a \in DOMAIN heap :
            /\ heap[a].leaf
            /\ \E d \in 0..Len(heap) :
                  \E v \in Visits[d] : v.at = a /\ v.low = 0
        link[i \in 1..Len(heap) + 1] ==
            IF i = 1 THEN leftmost
              ELSE IF link[i - 1] = Null THEN Null ELSE heap[link[i - 1]].next
    IN  link

\* The keys along the chain, in its order.
ChainKeys ==
    LET upTo[i \in 0..Len(heap) + 1] ==
            IF i = 0 THEN <<>>
              ELSE IF Chain[i] = Null THEN upTo[i - 1] ELSE upTo[i - 1] \o heap[Chain[i]].keys
    IN  upTo[Len(heap) + 1]

-----------------------------------------------------------------------------
Node == [leaf : BOOLEAN, keys : Seq(Keys), ptrs : Seq(Nat), parent : Nat, next : Nat]

\* The types, among them: no node is filled past BPTREE_MAX_KEYS keys and
\* BPTREE_ORDER children, the sizes of its arrays, not even in the middle of an
\* insertion, and every leaf has as many offsets as keys.
TypeOK ==
    /\ heap \in Seq(Node)
    /\ \A a \in DOMAIN heap :
          /\ Len(heap[a].keys) \in 1..MaxKeys
          /\ Len(heap[a].ptrs) = IF heap[a].leaf THEN Len(heap[a].keys)
                                                  ELSE Len(heap[a].keys) + 1
    /\ root \in 0..Len(heap)
    /\ count \in Nat
    /\ pc \in {"idle", "descend", "parent"}
    /\ call \in [op : {"none", "insert", "search"}, key : Keys \cup {0}, offset : Nat]
    /\ node \in 0..Len(heap)
    /\ promo \in [key : Keys \cup {0}, right : 0..Len(heap)]
    /\ DOMAIN stored \subseteq Keys
    /\ failures \in 0..MaxFailures

\* Between operations validate_node accepts every node below the root, and all
\* leaves have the same depth; also after an insertion failed halfway.
NodesValid ==
    pc = "idle" /\ root # Null =>
        /\ \A d \in DOMAIN Visits : \A v \in Visits[d] : ValidVisit(v)
        /\ \A d, e \in DOMAIN Visits : \A v \in Visits[d], u \in Visits[e] :
              heap[v.at].leaf /\ heap[u.at].leaf => d = e

\* insert_into_parent finds the node among the children of its parent, always:
\* its error "parent-child relationship is broken" cannot occur.
ParentKnowsChild ==
    pc = "parent" /\ Parent # Null => node \in ToSet(heap[Parent].ptrs)

\* The descent for a key ends at the leaf that has it, with the offset it was
\* inserted with, if any insertion of it succeeded; so bptree_search finds what
\* was inserted and bptree_insert refuses a duplicate, whatever splits there
\* were in between, until an insertion fails halfway.
DescentFindsKey ==
    pc = "descend" /\ heap[node].leaf /\ failures = 0 =>
        Lookup(heap[node], call.key) =
            [found |-> call.key \in DOMAIN stored,
             offset |-> IF call.key \in DOMAIN stored THEN stored[call.key] ELSE 0]

\* The leaf chain has all keys in ascending order and tree->key_count of them
\* (the second half of bptree_validate), until an insertion fails halfway.
ChainValid ==
    pc = "idle" /\ root # Null /\ failures = 0 =>
        /\ \A i \in 2..Len(ChainKeys) : ChainKeys[i - 1] < ChainKeys[i]
        /\ Len(ChainKeys) = count

\* bptree_destroy reaches and frees every node, until an insertion fails
\* halfway.
DestroyFreesAll ==
    pc = "idle" /\ root # Null /\ failures = 0 =>
        {v.at : v \in UNION {Visits[d] : d \in DOMAIN Visits}} = DOMAIN heap
=============================================================================
