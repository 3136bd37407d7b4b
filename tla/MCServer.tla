------------------------------ MODULE MCServer ------------------------------
(* The server with few descriptors, clients and kinds of request. *)
EXTENDS Server, TLC

Request(http, path, method, body) ==
    [http |-> http, path |-> path, method |-> method, body |-> body]

\* A statement, and a request that is refused after it was read.
TwoMessages ==
    {Request("ok", "/query", "POST", "sql"),
     Request("ok", "/query", "GET", "sql")}

\* A statement, the other routes, and a request that cannot be read.
ManyMessages ==
    {Request("ok", "/query", "POST", "sql"),
     Request("ok", "/health", "GET", "invalid"),
     Request("ok", "other", "GET", "invalid"),
     Request("too_large", "/query", "POST", "invalid")}

Symmetry == Permutations(Clients)
=============================================================================
