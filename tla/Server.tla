------------------------------- MODULE Server -------------------------------
(***************************************************************************)
(* mini_db_server around the SQL engine: src/server_main.c, src/server.c   *)
(* and src/thread_pool.c on top of the task queue of src/task_queue.c.     *)
(*                                                                         *)
(* The main thread creates the workers, accepts connections, hands their   *)
(* descriptors to the queue or refuses them, and finally tears everything  *)
(* down. A worker pops a descriptor, reads one request from it, has it     *)
(* answered and closes the descriptor. The threads share descriptors by    *)
(* number only, and the kernel gives a closed number to the next accept:   *)
(* "files" is the process's descriptor table, and every read, write and    *)
(* close goes through it.                                                  *)
(*                                                                         *)
(* Outside the code: the clients, and the SQL engine, of which only the    *)
(* HTTP status it answers with matters here.                               *)
(***************************************************************************)
EXTENDS TaskQueue, Sequences

CONSTANTS
    ThreadCount,    \* config.thread_count
    Clients,        \* the connections clients make
    NoClient,       \* the entry of a descriptor that is not open
    Messages,       \* what a client can send, see Message
    SqlStatuses     \* the HTTP statuses db_api_execute_sql can answer with

ASSUME ThreadCountAssumption == ThreadCount \in Nat \ {0}

ASSUME FdsAssumption == Tasks \subseteq Nat
ASSUME NoClientAssumption == NoClient \notin Clients
ASSUME SqlStatusesAssumption == SqlStatuses \subseteq {200, 400, 500}

Fds == Tasks
NoFd == NoTask
Workers == 1..ThreadCount

\* A client's bytes, by what http_read_request makes of them and what the
\* handler looks at: the path, the method, and what the JSON body holds.
Message == [http : {"ok", "bad", "too_large"},
            path : {"/health", "/query", "other"},
            method : {"GET", "POST"},
            body : {"sql", "no_sql", "invalid"}]
ASSUME MessagesAssumption == Messages \subseteq Message

NoMessage == [http |-> "none", path |-> "other", method |-> "GET", body |-> "invalid"]

VARIABLES
    mpc,        \* where the main thread is
    mfd,        \* client_fd of the accept loop
    listening,  \* listen_fd is open
    pool,       \* the pool's queue and thread array exist
    created,    \* pool.created_count
    joined,     \* how many workers were joined
    wpc,        \* worker -> where it is
    wfd,        \* worker -> task.client_fd
    wcode,      \* worker -> the status it is about to send
    wfor,       \* worker -> the client whose request it read
    files,      \* descriptor -> the connection behind it
    conn,       \* client -> the state of its connection
    sent,       \* client -> the message it sent
    eof,        \* client -> it closed its side
    resp        \* client -> the responses the server set out to write to it

mvars == <<mpc, mfd, listening, pool, created, joined>>
wvars == <<wpc, wfd, wcode, wfor>>
cvars == <<sent, eof>>
vars == <<queueVars, mvars, wvars, files, conn, cvars, resp>>

Init ==
    /\ QueueInit
    /\ mpc = "init"
    /\ mfd = NoFd
    /\ listening = FALSE
    /\ pool = FALSE
    /\ created = 0
    /\ joined = 0
    /\ wpc = [w \in Workers |-> "none"]
    /\ wfd = [w \in Workers |-> NoFd]
    /\ wcode = [w \in Workers |-> 0]
    /\ wfor = [w \in Workers |-> NoClient]
    /\ files = [f \in Fds |-> NoClient]
    /\ conn = [c \in Clients |-> "none"]
    /\ sent = [c \in Clients |-> NoMessage]
    /\ eof = [c \in Clients |-> FALSE]
    /\ resp = [c \in Clients |-> <<>>]

-----------------------------------------------------------------------------
(* Writing to and closing a descriptor.                                    *)

\* write_all to a descriptor that is not open fails, and so does its close;
\* the code ignores both results. A response that is not built is not written.
Send(f, code, for, built) ==
    resp' = IF files[f] = NoClient
              THEN resp
              ELSE [resp EXCEPT ![files[f]] =
                        Append(@, [code |-> code, for |-> for, built |-> built])]

\* http_send_error_response: when there is no memory for the body, it returns -1
\* before it has sent a byte, and its callers ignore that.
SendError(f, code, for) == \E built \in BOOLEAN : Send(f, code, for, built)

CloseFd(f) ==
    /\ files' = [files EXCEPT ![f] = NoClient]
    /\ conn' = IF files[f] = NoClient
                 THEN conn
                 ELSE [conn EXCEPT ![files[f]] = "closed"]

-----------------------------------------------------------------------------
(* The clients (external).                                                 *)

\* The connection waits in the backlog of the listening socket.
Connect(c) ==
    /\ conn[c] = "none" /\ listening
    /\ conn' = [conn EXCEPT ![c] = "backlog"]
    /\ UNCHANGED <<queueVars, mvars, wvars, files, cvars, resp>>

ClientSends(c) ==
    /\ conn[c] \in {"backlog", "open"} /\ ~eof[c] /\ sent[c] = NoMessage
    /\ \E m \in Messages : sent' = [sent EXCEPT ![c] = m]
    /\ UNCHANGED <<queueVars, mvars, wvars, files, conn, eof, resp>>

\* The client closes its connection, before or after it sent its request.
ClientCloses(c) ==
    /\ conn[c] \in {"backlog", "open"} /\ ~eof[c]
    /\ eof' = [eof EXCEPT ![c] = TRUE]
    /\ UNCHANGED <<queueVars, mvars, wvars, files, conn, sent, resp>>

-----------------------------------------------------------------------------
(* The main thread: server_init, server_run, server_destroy.               *)

\* server_init up to the loop of thread_pool_init that creates the workers.
InitServer ==
    /\ mpc = "init"
    /\ listening' = TRUE
    /\ pool' = TRUE
    /\ mpc' = "create"
    /\ UNCHANGED <<queueVars, mfd, created, joined, wvars, files, conn, cvars, resp>>

\* One of the calls before that loop fails. listen_fd may be open or not;
\* the pool is still zeroed, so server_destroy finds nothing to join, and
\* db_api_destroy tells from its own structure whether it was initialised.
InitServerFails ==
    /\ mpc = "init"
    /\ listening' \in BOOLEAN
    /\ mpc' = "destroy"
    /\ UNCHANGED <<queueVars, mfd, pool, created, joined, wvars, files, conn, cvars, resp>>

\* Faulty CreateWorker: the loop bound is off by one.
CreateWorkerOneTooMany ==
    /\ mpc = "create"
    /\ wpc' = [wpc EXCEPT ![created + 1] = "pop"]
    /\ created' = created + 1
    /\ mpc' = IF created = ThreadCount THEN "accept" ELSE "create"
    /\ UNCHANGED <<queueVars, mfd, listening, pool, joined, wfd, wcode, wfor,
                   files, conn, cvars, resp>>

\* One pthread_create; after the last one the pool is started.
CreateWorker ==
    /\ mpc = "create"
    /\ wpc' = [wpc EXCEPT ![created + 1] = "pop"]
    /\ created' = created + 1
    /\ mpc' = IF created + 1 = ThreadCount THEN "accept" ELSE "create"
    /\ UNCHANGED <<queueVars, mfd, listening, pool, joined, wfd, wcode, wfor,
                   files, conn, cvars, resp>>

\* pthread_create fails: the workers that exist are told to stop and joined.
CreateWorkerFails ==
    /\ mpc = "create"
    /\ Shutdown
    /\ mpc' = "join"
    /\ UNCHANGED <<mfd, listening, pool, created, joined, wvars, files, conn, cvars, resp>>

\* accept returns the next connection on the lowest descriptor that is free.
Accept(c) ==
    /\ mpc = "accept"
    /\ conn[c] = "backlog"
    /\ \E f \in Fds :
          /\ files[f] = NoClient
          /\ \A g \in Fds : files[g] = NoClient => f <= g
          /\ files' = [files EXCEPT ![f] = c]
          /\ mfd' = f
    /\ conn' = [conn EXCEPT ![c] = "open"]
    /\ mpc' = "submit"
    /\ UNCHANGED <<queueVars, listening, pool, created, joined, wvars, cvars, resp>>

\* accept fails with anything but EINTR, for instance because no descriptor is
\* free: server_run returns, and main calls server_destroy.
AcceptFails ==
    /\ mpc = "accept"
    /\ mpc' = "destroy"
    /\ UNCHANGED <<queueVars, mfd, listening, pool, created, joined, wvars,
                   files, conn, cvars, resp>>

\* Faulty Submit: a full queue also counts as submitted.
SubmitForgetsFull ==
    /\ mpc = "submit"
    /\ \E r \in {"ok", "full", "closed"} :
          /\ TryPush(mfd, r)
          /\ mpc' = IF r = "closed" THEN "fail" ELSE "accept"
          /\ mfd' = IF r = "closed" THEN mfd ELSE NoFd
    /\ UNCHANGED <<listening, pool, created, joined, wvars, files, conn, cvars, resp>>

\* thread_pool_try_submit on a started pool.
Submit ==
    /\ mpc = "submit"
    /\ \E r \in {"ok", "full", "closed"} :
          /\ TryPush(mfd, r)
          /\ mpc' = CASE r = "ok" -> "accept" [] r = "full" -> "refuse" [] OTHER -> "fail"
          /\ mfd' = IF r = "ok" THEN NoFd ELSE mfd
    /\ UNCHANGED <<listening, pool, created, joined, wvars, files, conn, cvars, resp>>

\* The queue is full: 503, close, next connection. (A queue that is shut down
\* would be 500, close, and the end of server_run.)
Refuse ==
    /\ mpc \in {"refuse", "fail"}
    /\ SendError(mfd, IF mpc = "refuse" THEN 503 ELSE 500, files[mfd])
    /\ CloseFd(mfd)
    /\ mpc' = IF mpc = "refuse" THEN "accept" ELSE "destroy"
    /\ mfd' = NoFd
    /\ UNCHANGED <<queueVars, listening, pool, created, joined, wvars, cvars>>

\* server_destroy closes the listening socket, which resets the connections
\* nobody accepted, and goes on to thread_pool_destroy if there is a pool.
CloseListener ==
    /\ mpc = "destroy"
    /\ listening' = FALSE
    /\ conn' = [c \in Clients |-> IF conn[c] = "backlog" THEN "reset" ELSE conn[c]]
    /\ mpc' = IF pool THEN "stop" ELSE "free"
    /\ UNCHANGED <<queueVars, mfd, pool, created, joined, wvars, files, cvars, resp>>

StopPool ==
    /\ mpc = "stop"
    /\ Shutdown
    /\ mpc' = "join"
    /\ UNCHANGED <<mfd, listening, pool, created, joined, wvars, files, conn, cvars, resp>>

\* pthread_join returns once the worker's function did.
JoinWorker ==
    /\ mpc = "join" /\ joined < created
    /\ wpc[joined + 1] = "exited"
    /\ joined' = joined + 1
    /\ UNCHANGED <<queueVars, mpc, mfd, listening, pool, created, wvars,
                   files, conn, cvars, resp>>

\* Faulty FreePool: the last worker is not waited for.
FreePoolEarly ==
    /\ mpc = "join" /\ joined + 1 >= created
    /\ Destroy
    /\ pool' = FALSE
    /\ created' = 0
    /\ joined' = 0
    /\ mpc' = IF listening THEN "destroy" ELSE "free"
    /\ UNCHANGED <<mfd, listening, wvars, files, conn, cvars, resp>>

\* All created workers are joined: task_queue_destroy and the memsets. After a
\* failed thread_pool_init, server_init still has to call server_destroy.
FreePool ==
    /\ mpc = "join" /\ joined = created
    /\ Destroy
    /\ pool' = FALSE
    /\ created' = 0
    /\ joined' = 0
    /\ mpc' = IF listening THEN "destroy" ELSE "free"
    /\ UNCHANGED <<mfd, listening, wvars, files, conn, cvars, resp>>

\* db_api_destroy, and main returns.
FreeDb ==
    /\ mpc = "free"
    /\ mpc' = "exited"
    /\ UNCHANGED <<queueVars, mfd, listening, pool, created, joined, wvars,
                   files, conn, cvars, resp>>

-----------------------------------------------------------------------------
(* A worker: thread_pool_worker_main and server_handle_client_task.        *)

PopWait(w) ==
    /\ wpc[w] = "pop" /\ w \notin notEmpty
    /\ Pop(w, "wait")
    /\ UNCHANGED <<mvars, wvars, files, conn, cvars, resp>>

PopReturn(w) ==
    /\ wpc[w] = "pop" /\ w \notin notEmpty
    /\ Pop(w, "ok")
    /\ wfd' = [wfd EXCEPT ![w] = items[head]]
    /\ wpc' = [wpc EXCEPT ![w] = "read"]
    /\ UNCHANGED <<mvars, wcode, wfor, files, conn, cvars, resp>>

PopClosed(w) ==
    /\ wpc[w] = "pop" /\ w \notin notEmpty
    /\ Pop(w, "closed")
    /\ wpc' = [wpc EXCEPT ![w] = "exited"]
    /\ UNCHANGED <<mvars, wfd, wcode, wfor, files, conn, cvars, resp>>

\* The results http_read_request can give for client c: it blocks until the
\* request is there or the client is gone, a client that is gone can cost the
\* request, and a request that was read can fail on a malloc (also the one of
\* json_extract_string_field).
ReadResults(c) ==
    (IF sent[c] # NoMessage THEN {sent[c].http} ELSE {})
        \cup (IF eof[c] THEN {"bad"} ELSE {})
        \cup (IF sent[c].http = "ok" THEN {"internal"} ELSE {})

\* The status the handler answers a request with that it does not execute.
RouteStatus(m) ==
    CASE m.path = "/health" -> IF m.method = "GET" THEN 200 ELSE 405
      [] m.path = "/query" -> IF m.method = "POST" THEN 400 ELSE 405
      [] OTHER -> 404

\* The request is handed to db_api_execute_sql.
Executes(m) == m.path = "/query" /\ m.method = "POST" /\ m.body = "sql"

\* http_read_request and the routing: on to the SQL engine, to the answer of
\* /health, whose body is a constant, or to an error response.
ReadRequest(w) ==
    LET c == files[wfd[w]] IN
    /\ wpc[w] = "read"
    /\ c # NoClient
    /\ wfor' = [wfor EXCEPT ![w] = c]
    /\ \E r \in ReadResults(c) :
          IF r = "ok" /\ Executes(sent[c])
            THEN /\ wpc' = [wpc EXCEPT ![w] = "execute"]
                 /\ UNCHANGED wcode
            ELSE LET code == CASE r = "ok" -> RouteStatus(sent[c])
                               [] r = "too_large" -> 413
                               [] r = "internal" -> 500
                               [] OTHER -> 400
                 IN  /\ wcode' = [wcode EXCEPT ![w] = code]
                     /\ wpc' = [wpc EXCEPT ![w] = IF code = 200 THEN "reply" ELSE "error"]
    /\ UNCHANGED <<queueVars, mvars, wfd, files, conn, cvars, resp>>

\* db_api_execute_sql returns the JSON of a result, a client error or a server
\* error, or no JSON when that could not be built.
ExecuteSql(w) ==
    /\ wpc[w] = "execute"
    /\ \/ /\ \E code \in SqlStatuses : wcode' = [wcode EXCEPT ![w] = code]
          /\ wpc' = [wpc EXCEPT ![w] = "reply"]
       \/ /\ wcode' = [wcode EXCEPT ![w] = 500]
          /\ wpc' = [wpc EXCEPT ![w] = "error"]
    /\ UNCHANGED <<queueVars, mvars, wfd, wfor, files, conn, cvars, resp>>

\* Faulty Reply: the path that sends also closes, and so does the cleanup.
ReplyAndClose(w) ==
    /\ wpc[w] = "reply"
    /\ Send(wfd[w], wcode[w], wfor[w], TRUE)
    /\ CloseFd(wfd[w])
    /\ wpc' = [wpc EXCEPT ![w] = "close"]
    /\ UNCHANGED <<queueVars, mvars, wfd, wcode, wfor, cvars>>

\* http_send_json_response, which allocates nothing; whether the client is still
\* there does not matter.
Reply(w) ==
    /\ wpc[w] = "reply"
    /\ Send(wfd[w], wcode[w], wfor[w], TRUE)
    /\ wpc' = [wpc EXCEPT ![w] = "close"]
    /\ UNCHANGED <<queueVars, mvars, wfd, wcode, wfor, files, conn, cvars>>

\* http_send_error_response, from any of the handler's error paths.
ReplyError(w) ==
    /\ wpc[w] = "error"
    /\ SendError(wfd[w], wcode[w], wfor[w])
    /\ wpc' = [wpc EXCEPT ![w] = "close"]
    /\ UNCHANGED <<queueVars, mvars, wfd, wcode, wfor, files, conn, cvars>>

\* The handler's last line; its locals are gone when it returns.
CloseClient(w) ==
    /\ wpc[w] = "close"
    /\ CloseFd(wfd[w])
    /\ wpc' = [wpc EXCEPT ![w] = "pop"]
    /\ wfd' = [wfd EXCEPT ![w] = NoFd]
    /\ wcode' = [wcode EXCEPT ![w] = 0]
    /\ wfor' = [wfor EXCEPT ![w] = NoClient]
    /\ UNCHANGED <<queueVars, mvars, cvars, resp>>

Wakeup ==
    /\ SpuriousWakeup
    /\ UNCHANGED <<mvars, wvars, files, conn, cvars, resp>>

-----------------------------------------------------------------------------
Main ==
    \/ InitServer \/ CreateWorker
    \/ \E c \in Clients : Accept(c)
    \/ Submit \/ Refuse
    \/ CloseListener \/ StopPool \/ JoinWorker \/ FreePool \/ FreeDb

Failure == InitServerFails \/ CreateWorkerFails \/ AcceptFails

Worker(w) ==
    \/ PopWait(w) \/ PopReturn(w) \/ PopClosed(w)
    \/ ReadRequest(w) \/ ExecuteSql(w) \/ Reply(w) \/ ReplyError(w) \/ CloseClient(w)

Client(c) == Connect(c) \/ ClientSends(c) \/ ClientCloses(c)

\* main returned.
Exited == mpc = "exited" /\ UNCHANGED vars

Next ==
    \/ Main \/ Failure
    \/ \E w \in Workers : Worker(w)
    \/ \E c \in Clients : Client(c)
    \/ Wakeup
    \/ Exited

Spec == Init /\ [][Next]_vars

\* Every thread keeps running. A client need not connect, but one that did
\* sends its request or goes away: http_read_request waits without a timeout,
\* so nothing can be promised about a client that does neither.
Fairness ==
    /\ WF_vars(Main)
    /\ \A w \in Workers : WF_vars(Worker(w))
    /\ \A c \in Clients : WF_vars(ClientSends(c) \/ ClientCloses(c))

FairSpec == Spec /\ Fairness

-----------------------------------------------------------------------------
MainTypeOK ==
    /\ mpc \in {"init", "create", "accept", "submit", "refuse", "fail",
                "destroy", "stop", "join", "free", "exited"}
    /\ mfd \in Fds \cup {NoFd}
    /\ listening \in BOOLEAN /\ pool \in BOOLEAN
    /\ created \in 0..ThreadCount /\ joined \in 0..created

WorkerTypeOK ==
    /\ wpc \in [Workers -> {"none", "pop", "read", "execute", "reply", "error", "close", "exited"}]
    /\ wfd \in [Workers -> Fds \cup {NoFd}]
    /\ wcode \in [Workers -> {0, 200, 400, 404, 405, 413, 500}]
    /\ wfor \in [Workers -> Clients \cup {NoClient}]

ConnectionTypeOK ==
    /\ files \in [Fds -> Clients \cup {NoClient}]
    /\ conn \in [Clients -> {"none", "backlog", "open", "closed", "reset"}]
    /\ sent \in [Clients -> Messages \cup {NoMessage}]
    /\ eof \in [Clients -> BOOLEAN]
    /\ resp \in [Clients -> Seq([code : Nat, for : Clients \cup {NoClient}, built : BOOLEAN])]

\* The types, among them: thread_pool_init never counts more workers than the
\* thread array has room for, and thread_pool_destroy joins only those it made.
TypeOK == QueueTypeOK /\ MainTypeOK /\ WorkerTypeOK /\ ConnectionTypeOK

\* Who may use descriptor f: the accept loop until it handed f on, the queue,
\* or the worker that took f out of the queue.
HoldsFd(w) == wpc[w] \in {"read", "execute", "reply", "error", "close"}
Owners(f) ==
    {<<"main", 0>> : x \in {y \in {mfd} : y = f /\ mpc \in {"submit", "refuse", "fail"}}}
        \cup {<<"queue", k>> : k \in {j \in 1..count : Contents[j] = f}}
        \cup {<<"worker", w>> : w \in {v \in Workers : HoldsFd(v) /\ wfd[v] = f}}

\* Every open client descriptor has exactly one owner, and a closed one has
\* none: no descriptor leaks on any path through server_run and the handler,
\* and none is used or closed after its number may belong to another client.
\* So no more than capacity + thread_count are open when server_run calls accept.
OneOwner ==
    \A f \in Fds :
        Cardinality(Owners(f)) = IF files[f] = NoClient THEN 0 ELSE 1

\* A connection is closed by the server only after it was given one response, to
\* its own request (or a refusal); it never gets a second one or somebody else's.
\* There is one exception: an error response for whose body there was no memory
\* (http_send_error_response returns -1, which nobody looks at) is not written at
\* all. A result is always written before the close.
AnsweredOnce ==
    \A c \in Clients :
        /\ Len(resp[c]) <= 1
        /\ conn[c] = "closed" =>
              Len(resp[c]) = 1 /\ (resp[c][1].built \/ resp[c][1].code >= 400)
        /\ \A k \in 1..Len(resp[c]) : resp[c][k].for = c

\* The queue's memory and the SQL engine are freed only when no worker is left
\* that could touch them, in thread_pool_init's error path too.
NoUseAfterFree ==
    /\ ~pool => \A w \in Workers : wpc[w] \in {"none", "exited"}
    /\ mpc \in {"free", "exited"} => ~pool

\* When main returns, every accepted connection has been closed (and answered, as
\* far as AnsweredOnce says): what is queued at the shutdown is still served.
NothingLeftBehind ==
    mpc = "exited" => \A c \in Clients : conn[c] \notin {"backlog", "open"}

\* An accepted connection is served and closed, whatever happens to the server
\* after the accept.
EveryAcceptedClientIsServed ==
    \A c \in Clients : conn[c] = "open" ~> conn[c] = "closed"

\* server_destroy ends: no worker sleeps through the shutdown, so every
\* pthread_join returns.
TeardownTerminates == mpc = "destroy" ~> mpc = "exited"
=============================================================================
