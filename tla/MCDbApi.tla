------------------------------ MODULE MCDbApi ------------------------------
(* The SQL engine with few threads, tables and ids. *)
EXTENDS DbApi, TLC

CONSTANTS users, orders, ghost, v, w

Insert(tb, x, ok) == [op |-> "insert", table |-> tb, valid |-> ok, val |-> x, id |-> 0]
Select(tb, ok) == [op |-> "select", table |-> tb, valid |-> ok, val |-> v, id |-> 0]
Filter(tb, x) == [op |-> "filter", table |-> tb, valid |-> TRUE, val |-> x, id |-> 0]
Lookup(tb, i) == [op |-> "lookup", table |-> tb, valid |-> TRUE, val |-> v, id |-> i]

\* Statements that succeed in every way, and one that fails for each reason: it
\* does not fit the schema, or there is no such table. A second table can be
\* loaded while the first is in use.
MixedRequests ==
    {Insert(users, v, TRUE), Insert(users, w, TRUE), Insert(users, v, FALSE),
     Select(users, TRUE), Select(users, FALSE), Select(ghost, TRUE),
     Select(orders, TRUE), Filter(users, w), Lookup(users, 0), Lookup(users, 2)}

\* One table, with values that tell rows apart.
OneTable == {Insert(users, v, TRUE), Insert(users, w, TRUE), Select(users, TRUE), Lookup(users, 1)}

InsertOrSelect == {Insert(users, v, TRUE), Select(users, TRUE)}

Symmetry == Permutations(Threads)
=============================================================================
