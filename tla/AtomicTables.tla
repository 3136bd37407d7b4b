---------------------------- MODULE AtomicTables ----------------------------
(***************************************************************************)
(* What the database promises a client of POST /query while nothing fails: *)
(* every statement takes effect at one instant between its call and its    *)
(* answer. A table is the list of its rows; an INSERT adds a row with a    *)
(* fresh id and answers that id, a SELECT answers the rows of one instant. *)
(***************************************************************************)
EXTENDS Integers, Sequences, FiniteSetsExt

CONSTANTS
    Threads,    \* the workers that execute statements
    Tables,     \* table names
    Schemas,    \* the tables that have a schema file
    NoRequest,  \* no statement
    Requests,   \* the statements clients send
    MaxId       \* the largest id

VARIABLES
    table,      \* table name -> its rows
    call,       \* thread -> "idle", "pending" or "answered"
    req,        \* thread -> its statement
    answer      \* thread -> the answer of its last statement

vars == <<table, call, req, answer>>

Error == [ok |-> FALSE, id |-> 0, rows |-> <<>>]
Inserted(id) == [ok |-> TRUE, id |-> id, rows |-> <<>>]
Selected(rows) == [ok |-> TRUE, id |-> 0, rows |-> rows]

LastId(tb) == Max({table[tb][k].id : k \in DOMAIN table[tb]} \cup {0})

Init ==
    /\ table = [tb \in Tables |-> <<>>]
    /\ call = [t \in Threads |-> "idle"]
    /\ req = [t \in Threads |-> NoRequest]
    /\ answer = [t \in Threads |-> Error]

Call(t) ==
    /\ call[t] = "idle"
    /\ call' = [call EXCEPT ![t] = "pending"]
    /\ \E r \in Requests : req' = [req EXCEPT ![t] = r]
    /\ UNCHANGED <<table, answer>>

\* A statement about an unknown table, or one that does not fit the schema,
\* and an INSERT when no id is left, fail and change nothing.
Fails(r) ==
    \/ r.table \notin Schemas
    \/ ~r.valid
    \/ r.op = "insert" /\ LastId(r.table) = MaxId

\* The rows a SELECT asks for: all, those with a value, or the one with an id.
Wanted(r, row) ==
    \/ r.op = "select"
    \/ r.op = "filter" /\ row.val = r.val
    \/ r.op = "lookup" /\ row.id = r.id

\* Those among the first rows of s, for every number of first rows, and all.
ChosenUpTo(s, r) ==
    LET chosen[n \in 0..Len(s)] ==
            IF n = 0 THEN <<>>
              ELSE IF Wanted(r, s[n]) THEN Append(chosen[n - 1], s[n]) ELSE chosen[n - 1]
    IN  chosen
Chosen(s, r) == ChosenUpTo(s, r)[Len(s)]

Apply(t) ==
    LET r == req[t] IN
    /\ call[t] = "pending"
    /\ call' = [call EXCEPT ![t] = "answered"]
    /\ \/ /\ Fails(r)
          /\ answer' = [answer EXCEPT ![t] = Error]
          /\ UNCHANGED table
       \/ /\ ~Fails(r) /\ r.op = "insert"
          /\ LET id == LastId(r.table) + 1
             IN  /\ table' = [table EXCEPT ![r.table] = Append(@, [id |-> id, val |-> r.val])]
                 /\ answer' = [answer EXCEPT ![t] = Inserted(id)]
       \/ /\ ~Fails(r) /\ r.op # "insert"
          /\ answer' = [answer EXCEPT ![t] = Selected(Chosen(table[r.table], r))]
          /\ UNCHANGED table
    /\ UNCHANGED req

Return(t) ==
    /\ call[t] = "answered"
    /\ call' = [call EXCEPT ![t] = "idle"]
    /\ req' = [req EXCEPT ![t] = NoRequest]
    /\ answer' = [answer EXCEPT ![t] = Error]
    /\ UNCHANGED table

Next == \E t \in Threads : Call(t) \/ Apply(t) \/ Return(t)

Spec == Init /\ [][Next]_vars
=============================================================================
