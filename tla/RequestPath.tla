---------------------------- MODULE RequestPath ----------------------------
(***************************************************************************)
(* What becomes of a text on its way to the engine: a request, from the    *)
(* first byte a worker receives to the last it sends                       *)
(* (server_handle_client_task, src/server.c), with the SQL text in its     *)
(* body; or the SQL file of the command line program (src/main.c).         *)
(***************************************************************************)
EXTENDS HttpIo, SqlFront

CONSTANTS
    Streams,    \* the texts a client may send
    SqlBody     \* the body that is a JSON object with a text in "sql"

ASSUME StreamsAssumption == Streams \subseteq Seq(STRING)

vars == <<httpVars, sqlVars>>

Init ==
    /\ mode \in {"api", "cli"}
    /\ HttpInit(IF mode = "api" THEN Streams ELSE {<<>>})
    /\ SqlInit
    /\ at = IF mode = "api" THEN "idle" ELSE "front"

\* The request holds a text in its field "sql".
HasSql ==
    /\ request.status = "ok" /\ request.method = "POST"
    /\ request.body = SqlBody

\* The handler gives the SQL text to db_api_execute_sql ...
BeginSql ==
    /\ mode = "api" /\ io = "handle" /\ at = "idle" /\ HasSql
    /\ at' = "front"
    /\ UNCHANGED <<httpVars, mode, toks, cur, first, stmt, heap, broken, executed, verdict>>

\* ... and answers with what it returned, or with what was wrong before.
Respond ==
    /\ mode = "api"
    /\ at = IF HasSql THEN "done" ELSE "idle"
    /\ BeginResponse
    /\ UNCHANGED sqlVars

\* The connection is closed, or the program has ended.
Finished ==
    /\ IF mode = "api" THEN io = "closed" ELSE at = "done"
    /\ UNCHANGED vars

Next ==
    \/ mode = "api" /\ (ReadStep \/ SendStep) /\ UNCHANGED sqlVars
    \/ BeginSql
    \/ SqlNext /\ UNCHANGED httpVars
    \/ Respond
    \/ Finished

Spec == Init /\ [][Next]_vars
=============================================================================
