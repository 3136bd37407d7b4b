---------------------------- MODULE ServerProofs ----------------------------
(***************************************************************************)
(* Proofs about the server of src/server.c, src/thread_pool.c and          *)
(* src/server_main.c, for every capacity and thread count, any set of      *)
(* descriptors and any set of clients, finite or not.                      *)
(***************************************************************************)
EXTENDS Server, TaskQueueTheorems

-----------------------------------------------------------------------------
(* The inductive invariant.                                                *)

\* How far the main thread is, against the flags of the pool and the queue and
\* the workers that exist. The last conjunct is what makes pthread_join enough:
\* a worker leaves its loop only when nothing is queued and nothing will be.
Lifecycle ==
    /\ shutdown <=> mpc = "join"
    /\ mpc # "fail"
    /\ mpc = "init" => ~pool /\ ~listening
    /\ mpc = "create" => pool /\ created < ThreadCount /\ count = 0
    /\ mpc \in {"accept", "submit", "refuse", "stop"} => pool
    /\ mpc \in {"accept", "submit", "refuse", "destroy", "stop"}
          => (pool => created = ThreadCount)
    /\ mpc = "join" => pool /\ (created = ThreadCount \/ count = 0)
    /\ mpc # "join" => joined = 0
    /\ mpc \in {"stop", "free", "exited"} => ~listening
    /\ mpc \in {"free", "exited"} => ~pool

\* The workers that exist are the ones pthread_create made.
Crew ==
    /\ mpc = "init" => \A w \in Workers : wpc[w] = "none"
    /\ pool => \A w \in Workers : wpc[w] # "none" <=> w <= created
    /\ ~pool => /\ created = 0 /\ count = 0
                /\ \A w \in Workers : wpc[w] \in {"none", "exited"}
    /\ \A w \in 1..joined : wpc[w] = "exited"
    /\ pool => \A w \in Workers : wpc[w] = "exited" => shutdown /\ count = 0

\* The main thread holds the descriptor it accepted until it handed it on.
MainHolds == mpc \in {"submit", "refuse", "fail"}

\* Whoever holds a descriptor holds one that is open,
HeldAreOpen ==
    /\ MainHolds => mfd \in Fds /\ files[mfd] # NoClient
    /\ \A k \in 1..count : Contents[k] \in Fds /\ files[Contents[k]] # NoClient
    /\ \A w \in Workers : HoldsFd(w) => wfd[w] \in Fds /\ files[wfd[w]] # NoClient

\* no two hold the same one,
HeldOnce ==
    /\ \A k \in 1..count : MainHolds => Contents[k] # mfd
    /\ \A w \in Workers : MainHolds /\ HoldsFd(w) => wfd[w] # mfd
    /\ \A j, k \in 1..count : j # k => Contents[j] # Contents[k]
    /\ \A k \in 1..count, w \in Workers : HoldsFd(w) => Contents[k] # wfd[w]
    /\ \A v, w \in Workers : v # w /\ HoldsFd(v) /\ HoldsFd(w) => wfd[v] # wfd[w]

\* and every open one is held.
OpenAreHeld ==
    \A f \in Fds : files[f] # NoClient =>
        \/ MainHolds /\ mfd = f
        \/ \E k \in 1..count : Contents[k] = f
        \/ \E w \in Workers : HoldsFd(w) /\ wfd[w] = f

\* The descriptor table and the connections describe each other.
Connections ==
    /\ \A c \in Clients : conn[c] = "backlog" => listening
    /\ \A f \in Fds : files[f] # NoClient => conn[files[f]] = "open"
    /\ \A c \in Clients : conn[c] = "open" => \E f \in Fds : files[f] = c
    /\ \A f, g \in Fds : files[f] # NoClient /\ files[f] = files[g] => f = g

\* Only an error response is ever left unwritten.
Rightful(r, c) == r.for = c /\ (r.built \/ r.code >= 400)

\* http_send_error_response is called for errors only.
ErrorStatus == \A w \in Workers : wpc[w] = "error" => wcode[w] >= 400

\* A connection has its response from the moment its worker wrote it, and what
\* a worker is about to write is for the client whose descriptor it holds.
Responses ==
    /\ \A c \in Clients : conn[c] \in {"none", "backlog", "reset"} => resp[c] = <<>>
    /\ \A c \in Clients : conn[c] = "closed" => Len(resp[c]) = 1
    /\ MainHolds => resp[files[mfd]] = <<>>
    /\ \A k \in 1..count : resp[files[Contents[k]]] = <<>>
    /\ \A w \in Workers :
          wpc[w] \in {"read", "execute", "reply", "error"} => resp[files[wfd[w]]] = <<>>
    /\ \A w \in Workers : wpc[w] = "close" => Len(resp[files[wfd[w]]]) = 1
    /\ \A w \in Workers :
          wpc[w] \in {"execute", "reply", "error", "close"} => wfor[w] = files[wfd[w]]
    /\ \A c \in Clients : \A k \in 1..Len(resp[c]) : Rightful(resp[c][k], c)

Ownership == HeldAreOpen /\ HeldOnce /\ OpenAreHeld

IInv ==
    /\ TypeOK /\ RingCoherent
    /\ Lifecycle /\ Crew /\ Ownership
    /\ Connections /\ ErrorStatus /\ Responses

-----------------------------------------------------------------------------
(* Types and the ring.                                                     *)

\* A step that leaves a component's variables alone leaves their types alone.
LEMMA TypesUnchanged ==
    /\ UNCHANGED mvars /\ MainTypeOK => MainTypeOK'
    /\ UNCHANGED wvars /\ WorkerTypeOK => WorkerTypeOK'
    /\ UNCHANGED <<files, conn, cvars, resp>> /\ ConnectionTypeOK => ConnectionTypeOK'
    /\ UNCHANGED <<ring, shutdown>> /\ QueueTypeOK => QueueTypeOK'
  <1>1. UNCHANGED mvars /\ MainTypeOK => MainTypeOK'
    BY DEF mvars, MainTypeOK
  <1>2. UNCHANGED wvars /\ WorkerTypeOK => WorkerTypeOK'
    BY DEF wvars, WorkerTypeOK
  <1>3. UNCHANGED <<files, conn, cvars, resp>> /\ ConnectionTypeOK => ConnectionTypeOK'
    BY DEF cvars, ConnectionTypeOK
  <1>4. UNCHANGED <<ring, shutdown>> /\ QueueTypeOK => QueueTypeOK'
    BY DEF ring, QueueTypeOK
  <1>. QED  BY <1>1, <1>2, <1>3, <1>4

\* Every step keeps the types of the main thread's variables. That created stays
\* within the thread array needs to know that the loop has not ended.
LEMMA MainTypeStep ==
    ASSUME MainTypeOK, Lifecycle, [Next]_vars
    PROVE  MainTypeOK'
  <1>. USE ThreadCountAssumption DEF MainTypeOK
  <1>1. CASE InitServer  BY <1>1 DEF InitServer
  <1>2. CASE InitServerFails  BY <1>2 DEF InitServerFails
  <1>3. CASE CreateWorker  BY <1>3 DEF CreateWorker, Lifecycle
  <1>4. CASE CreateWorkerFails  BY <1>4 DEF CreateWorkerFails
  <1>5. ASSUME NEW c \in Clients, Accept(c) PROVE MainTypeOK'
    BY <1>5 DEF Accept
  <1>6. CASE AcceptFails  BY <1>6 DEF AcceptFails
  <1>7. CASE Submit  BY <1>7 DEF Submit
  <1>8. CASE Refuse  BY <1>8 DEF Refuse
  <1>9. CASE CloseListener  BY <1>9 DEF CloseListener
  <1>10. CASE StopPool  BY <1>10 DEF StopPool
  <1>11. CASE JoinWorker  BY <1>11 DEF JoinWorker
  <1>12. CASE FreePool
    <2>1. /\ created' = 0 /\ joined' = 0 /\ pool' = FALSE /\ listening' = listening
          /\ mfd' = mfd /\ mpc' \in {"destroy", "free"}
      BY <1>12 DEF FreePool
    <2>2. 0 \in 0..ThreadCount /\ 0 \in 0..0
      OBVIOUS
    <2>. QED  BY <2>1, <2>2
  <1>13. CASE FreeDb  BY <1>13 DEF FreeDb
  <1>. HIDE DEF MainTypeOK
  <1>14. ASSUME UNCHANGED mvars PROVE MainTypeOK'
    BY <1>14, TypesUnchanged
  <1>15. (\E w \in Workers : Worker(w)) => UNCHANGED mvars
    BY DEF Worker, PopWait, PopReturn, PopClosed, ReadRequest, ExecuteSql, Reply, ReplyError,
           CloseClient
  <1>16. (\E c \in Clients : Client(c)) \/ Wakeup \/ Exited \/ UNCHANGED vars
            => UNCHANGED mvars
    BY DEF Client, Connect, ClientSends, ClientCloses, Wakeup, Exited, vars
  <1>. QED
    BY <1>1, <1>2, <1>3, <1>4, <1>5, <1>6, <1>7, <1>8, <1>9, <1>10, <1>11, <1>12,
       <1>13, <1>14, <1>15, <1>16 DEF Next, Main, Failure

\* Every step keeps the ring coherent and the queue's types.
LEMMA RingStep ==
    ASSUME QueueTypeOK, RingCoherent, HeldAreOpen, [Next]_vars
    PROVE  QueueTypeOK' /\ RingCoherent'
  <1>1. ASSUME UNCHANGED <<ring, shutdown>> PROVE QueueTypeOK' /\ RingCoherent'
    BY <1>1, RingUnchanged, TypesUnchanged
  <1>2. ASSUME Shutdown PROVE QueueTypeOK' /\ RingCoherent'
    BY <1>2, RingUnchanged DEF Shutdown, QueueTypeOK, ring
  <1>3. ASSUME Submit PROVE QueueTypeOK' /\ RingCoherent'
    <2>1. PICK r \in {"ok", "full", "closed"} : TryPush(mfd, r)
      BY <1>3 DEF Submit
    <2>2. mfd \in Tasks
      BY <1>3 DEF Submit, HeldAreOpen, MainHolds, Fds
    <2>3. CASE UNCHANGED queueVars
      BY <1>1, <2>3 DEF queueVars, ring
    <2>4. CASE count # Capacity /\ Enqueue(mfd)
      BY <2>2, <2>4, EnqueueType, EnqueueEffect
    <2>. QED  BY <2>1, <2>3, <2>4 DEF TryPush
  <1>4. ASSUME FreePool PROVE QueueTypeOK' /\ RingCoherent'
    BY <1>4, DestroyCoherent DEF FreePool
  <1>5. ASSUME NEW w \in Workers, PopReturn(w) PROVE QueueTypeOK' /\ RingCoherent'
    BY <1>5, DequeueType, DequeueEffect DEF PopReturn
  <1>6. ASSUME NEW w \in Workers, PopWait(w) \/ PopClosed(w)
        PROVE  UNCHANGED <<ring, shutdown>>
    BY <1>6 DEF PopWait, PopClosed, Pop, queueVars, ring
  <1>7. Wakeup => UNCHANGED <<ring, shutdown>>
    BY DEF Wakeup, SpuriousWakeup
  <1>8. UNCHANGED queueVars => UNCHANGED <<ring, shutdown>>
    BY DEF queueVars, ring
  <1>9. ASSUME NEW w \in Workers,
               \/ ReadRequest(w) \/ ExecuteSql(w)
               \/ Reply(w) \/ ReplyError(w) \/ CloseClient(w)
        PROVE  UNCHANGED queueVars
    BY <1>9 DEF ReadRequest, ExecuteSql, Reply, ReplyError, CloseClient
  <1>10. (\E c \in Clients : Client(c) \/ Accept(c)) \/ Exited \/ UNCHANGED vars
            => UNCHANGED queueVars
    BY DEF Client, Connect, ClientSends, ClientCloses, Accept, Exited, vars
  <1>11. ASSUME \/ InitServer \/ CreateWorker \/ Refuse \/ CloseListener \/ JoinWorker
                \/ FreeDb \/ InitServerFails \/ AcceptFails
         PROVE  UNCHANGED queueVars
    BY <1>11 DEF InitServer, CreateWorker, Refuse, CloseListener, JoinWorker, FreeDb,
           InitServerFails, AcceptFails
  <1>12. CreateWorkerFails \/ StopPool => Shutdown
    BY DEF CreateWorkerFails, StopPool
  <1>13. \/ UNCHANGED <<ring, shutdown>> \/ Shutdown \/ Submit \/ FreePool
         \/ \E w \in Workers : PopReturn(w)
    BY <1>6, <1>7, <1>8, <1>9, <1>10, <1>11, <1>12, Zenon DEF Next, Main, Failure, Worker
  <1>. QED  BY <1>1, <1>2, <1>3, <1>4, <1>5, <1>13

\* The statuses of the handler's own answers.
LEMMA RouteStatusType ==
    ASSUME NEW m PROVE RouteStatus(m) \in {200, 400, 404, 405}
  BY DEF RouteStatus

\* What the two ways of answering have in common.
LEMMA ReplyIs ==
    ASSUME NEW w \in Workers, Reply(w) \/ ReplyError(w)
    PROVE  /\ wpc[w] \in {"reply", "error"} /\ wpc' = [wpc EXCEPT ![w] = "close"]
           /\ UNCHANGED <<queueVars, mvars, wfd, wcode, wfor, files, conn, cvars>>
  <1>1. CASE Reply(w)  BY <1>1 DEF Reply
  <1>2. CASE ReplyError(w)  BY <1>2 DEF ReplyError
  <1>. QED  BY <1>1, <1>2

\* Every step keeps the types of the workers' variables.
LEMMA WorkerTypeStep ==
    ASSUME QueueTypeOK, MainTypeOK, WorkerTypeOK, ConnectionTypeOK,
           Lifecycle, HeldAreOpen, [Next]_vars
    PROVE  WorkerTypeOK'
  <1>1. ASSUME UNCHANGED wvars PROVE WorkerTypeOK'
    BY <1>1, TypesUnchanged
  <1>2. CASE CreateWorker
    <2>1. created + 1 \in Workers
      BY <1>2, ThreadCountAssumption DEF CreateWorker, MainTypeOK, Lifecycle, Workers
    <2>. QED  BY <1>2, <2>1 DEF CreateWorker, WorkerTypeOK
  <1>3. ASSUME NEW w \in Workers, PopWait(w) \/ PopClosed(w) PROVE WorkerTypeOK'
    BY <1>3 DEF PopWait, PopClosed, WorkerTypeOK, wvars
  <1>4. ASSUME NEW w \in Workers, PopReturn(w) PROVE WorkerTypeOK'
    <2>1. items[head] \in Fds \cup {NoFd}
      BY DEF QueueTypeOK, Fds, NoFd
    <2>. QED  BY <1>4, <2>1 DEF PopReturn, WorkerTypeOK
  <1>5. ASSUME NEW w \in Workers, ReadRequest(w) PROVE WorkerTypeOK'
    <2>1. wfd[w] \in Fds /\ files[wfd[w]] \in Clients
      BY <1>5 DEF ReadRequest, HeldAreOpen, HoldsFd, ConnectionTypeOK
    <2>2. wfor' \in [Workers -> Clients \cup {NoClient}] /\ wfd' = wfd
      BY <1>5, <2>1 DEF ReadRequest, WorkerTypeOK
    <2>3. PICK r : IF r = "ok" /\ Executes(sent[files[wfd[w]]])
            THEN /\ wpc' = [wpc EXCEPT ![w] = "execute"]
                 /\ UNCHANGED wcode
            ELSE LET code == CASE r = "ok" -> RouteStatus(sent[files[wfd[w]]])
                               [] r = "too_large" -> 413
                               [] r = "internal" -> 500
                               [] OTHER -> 400
                 IN  /\ wcode' = [wcode EXCEPT ![w] = code]
                     /\ wpc' = [wpc EXCEPT ![w] = IF code = 200 THEN "reply" ELSE "error"]
      BY <1>5 DEF ReadRequest
    <2>. DEFINE code == CASE r = "ok" -> RouteStatus(sent[files[wfd[w]]])
                          [] r = "too_large" -> 413
                          [] r = "internal" -> 500
                          [] OTHER -> 400
    <2>4. code \in {200, 400, 404, 405, 413, 500}
      BY RouteStatusType
    <2>5. /\ \E x \in {"execute", "reply", "error"} : wpc' = [wpc EXCEPT ![w] = x]
          /\ wcode' = wcode \/ wcode' = [wcode EXCEPT ![w] = code]
      BY <2>3
    <2>. HIDE DEF code
    <2>6. wpc' \in [Workers -> {"none", "pop", "read", "execute", "reply", "error", "close", "exited"}]
      BY <2>5 DEF WorkerTypeOK
    <2>7. wcode' \in [Workers -> {0, 200, 400, 404, 405, 413, 500}]
      BY <2>4, <2>5 DEF WorkerTypeOK
    <2>. QED  BY <2>2, <2>6, <2>7 DEF WorkerTypeOK
  <1>6. ASSUME NEW w \in Workers, ExecuteSql(w) PROVE WorkerTypeOK'
    BY <1>6, SqlStatusesAssumption DEF ExecuteSql, WorkerTypeOK
  <1>7. ASSUME NEW w \in Workers, Reply(w) \/ ReplyError(w) PROVE WorkerTypeOK'
    BY <1>7, ReplyIs DEF WorkerTypeOK
  <1>8. ASSUME NEW w \in Workers, CloseClient(w) PROVE WorkerTypeOK'
    BY <1>8 DEF CloseClient, WorkerTypeOK
  <1>9. ASSUME \/ InitServer \/ Submit \/ Refuse \/ CloseListener \/ StopPool
               \/ JoinWorker \/ FreePool \/ FreeDb \/ Failure
        PROVE  UNCHANGED wvars
    BY <1>9 DEF InitServer, Submit, Refuse, CloseListener, StopPool, JoinWorker, FreePool, FreeDb,
           Failure, InitServerFails, CreateWorkerFails, AcceptFails
  <1>10. ASSUME (\E c \in Clients : Client(c) \/ Accept(c)) \/ Wakeup \/ Exited
                   \/ UNCHANGED vars
         PROVE  UNCHANGED wvars
    BY <1>10 DEF Client, Connect, ClientSends, ClientCloses, Accept, Wakeup, Exited, vars
  <1>11. \/ UNCHANGED wvars \/ CreateWorker
         \/ \E w \in Workers : Worker(w)
    BY <1>9, <1>10, Zenon DEF Next, Main
  <1>. QED
    BY <1>1, <1>2, <1>3, <1>4, <1>5, <1>6, <1>7, <1>8, <1>11, Zenon DEF Worker

\* Writing a response to an open or closed descriptor keeps the type of resp.
LEMMA SendType ==
    ASSUME ConnectionTypeOK, NEW f \in Fds, NEW code \in Nat,
           NEW for \in Clients \cup {NoClient}, NEW built \in BOOLEAN,
           Send(f, code, for, built)
    PROVE  resp' \in [Clients -> Seq([code : Nat, for : Clients \cup {NoClient}, built : BOOLEAN])]
  <1>. DEFINE R == [code : Nat, for : Clients \cup {NoClient}, built : BOOLEAN]
  <1>1. resp \in [Clients -> Seq(R)] /\ files[f] \in Clients \cup {NoClient}
    BY DEF ConnectionTypeOK
  <1>2. [code |-> code, for |-> for, built |-> built] \in R
    OBVIOUS
  <1>. HIDE DEF R
  <1>3. ASSUME NEW c \in Clients
        PROVE  Append(resp[c], [code |-> code, for |-> for, built |-> built]) \in Seq(R)
    BY <1>1, <1>2, AppendProperties
  <1>4. resp' \in [Clients -> Seq(R)]
    BY <1>1, <1>3 DEF Send
  <1>. QED  BY <1>4 DEF R

LEMMA CloseFdType ==
    ASSUME ConnectionTypeOK, NEW f \in Fds, CloseFd(f)
    PROVE  /\ files' \in [Fds -> Clients \cup {NoClient}]
           /\ conn' \in [Clients -> {"none", "backlog", "open", "closed", "reset"}]
  BY DEF CloseFd, ConnectionTypeOK

\* Every step keeps the types of the descriptor table and the connections.
LEMMA ConnectionTypeStep ==
    ASSUME WorkerTypeOK, ConnectionTypeOK, HeldAreOpen, [Next]_vars
    PROVE  ConnectionTypeOK'
  <1>1. ASSUME UNCHANGED <<files, conn, cvars, resp>> PROVE ConnectionTypeOK'
    BY <1>1, TypesUnchanged
  <1>2. ASSUME NEW c \in Clients, Connect(c) PROVE ConnectionTypeOK'
    BY <1>2 DEF Connect, ConnectionTypeOK, cvars
  <1>3. ASSUME NEW c \in Clients, ClientSends(c) PROVE ConnectionTypeOK'
    BY <1>3 DEF ClientSends, ConnectionTypeOK
  <1>4. ASSUME NEW c \in Clients, ClientCloses(c) PROVE ConnectionTypeOK'
    BY <1>4 DEF ClientCloses, ConnectionTypeOK
  <1>5. ASSUME NEW c \in Clients, Accept(c) PROVE ConnectionTypeOK'
    BY <1>5 DEF Accept, ConnectionTypeOK, cvars
  <1>6. CASE Refuse
    <2>1. mfd \in Fds /\ files[mfd] \in Clients \cup {NoClient}
      BY <1>6 DEF Refuse, HeldAreOpen, MainHolds, ConnectionTypeOK
    <2>2. resp' \in [Clients -> Seq([code : Nat, for : Clients \cup {NoClient}, built : BOOLEAN])]
      <3>. DEFINE code == IF mpc = "refuse" THEN 503 ELSE 500
      <3>1. code \in Nat
        OBVIOUS
      <3>2. PICK built \in BOOLEAN : Send(mfd, code, files[mfd], built)
        BY <1>6 DEF Refuse, SendError
      <3>. HIDE DEF code
      <3>. QED  BY <2>1, <3>1, <3>2, SendType
    <2>3. /\ files' \in [Fds -> Clients \cup {NoClient}]
          /\ conn' \in [Clients -> {"none", "backlog", "open", "closed", "reset"}]
      BY <1>6, <2>1, CloseFdType DEF Refuse
    <2>. QED  BY <1>6, <2>2, <2>3 DEF Refuse, ConnectionTypeOK, cvars
  <1>7. CASE CloseListener
    BY <1>7 DEF CloseListener, ConnectionTypeOK, cvars
  <1>8. ASSUME NEW w \in Workers, Reply(w) \/ ReplyError(w) PROVE ConnectionTypeOK'
    <2>1. wfd[w] \in Fds /\ wcode[w] \in Nat /\ wfor[w] \in Clients \cup {NoClient}
      <3>1. wfd[w] \in Fds
        BY <1>8 DEF Reply, ReplyError, HeldAreOpen, HoldsFd
      <3>2. wcode[w] \in {0, 200, 400, 404, 405, 413, 500}
        BY DEF WorkerTypeOK
      <3>. QED  BY <3>1, <3>2 DEF WorkerTypeOK
    <2>2. resp' \in [Clients -> Seq([code : Nat, for : Clients \cup {NoClient}, built : BOOLEAN])]
      BY <1>8, <2>1, SendType, ZenonT(60) DEF Reply, ReplyError, SendError
    <2>. QED  BY <1>8, <2>2 DEF Reply, ReplyError, ConnectionTypeOK, cvars
  <1>9. ASSUME NEW w \in Workers, CloseClient(w) PROVE ConnectionTypeOK'
    <2>1. wfd[w] \in Fds
      BY <1>9 DEF CloseClient, HeldAreOpen, HoldsFd
    <2>2. /\ files' \in [Fds -> Clients \cup {NoClient}]
          /\ conn' \in [Clients -> {"none", "backlog", "open", "closed", "reset"}]
      BY <1>9, <2>1, CloseFdType DEF CloseClient
    <2>. QED  BY <1>9, <2>2 DEF CloseClient, ConnectionTypeOK, cvars
  <1>10. ASSUME \/ InitServer \/ CreateWorker \/ Submit \/ StopPool \/ JoinWorker
                \/ FreePool \/ FreeDb \/ Failure \/ Wakeup \/ Exited \/ UNCHANGED vars
         PROVE  UNCHANGED <<files, conn, cvars, resp>>
    BY <1>10 DEF InitServer, CreateWorker, Submit, StopPool, JoinWorker, FreePool, FreeDb,
                 Failure, InitServerFails, CreateWorkerFails, AcceptFails, Wakeup, Exited, vars
  <1>11. ASSUME NEW w \in Workers,
                \/ PopWait(w) \/ PopReturn(w) \/ PopClosed(w)
                \/ ReadRequest(w) \/ ExecuteSql(w)
         PROVE  UNCHANGED <<files, conn, cvars, resp>>
    BY <1>11 DEF PopWait, PopReturn, PopClosed, ReadRequest, ExecuteSql
  <1>. QED
    BY <1>1, <1>2, <1>3, <1>4, <1>5, <1>6, <1>7, <1>8, <1>9, <1>10, <1>11, Zenon
       DEF Next, Main, Worker, Client

-----------------------------------------------------------------------------
(* The life of the server and of its workers.                              *)

\* A worker's steps do not touch what Lifecycle speaks of, except that a pop
\* makes count smaller.
LEMMA WorkerFrame ==
    ASSUME QueueTypeOK, NEW w \in Workers, Worker(w)
    PROVE  /\ UNCHANGED mvars /\ shutdown' = shutdown
           /\ count' = count \/ (count # 0 /\ PopReturn(w))
           /\ count = 0 => count' = 0
  <1>1. CASE PopWait(w)  BY <1>1 DEF PopWait, Pop, ring
  <1>2. CASE PopReturn(w)  BY <1>2 DEF PopReturn, Pop
  <1>3. CASE PopClosed(w)  BY <1>3 DEF PopClosed, Pop, queueVars
  <1>4. CASE ReadRequest(w)  BY <1>4 DEF ReadRequest, queueVars
  <1>5. CASE ExecuteSql(w)  BY <1>5 DEF ExecuteSql, queueVars
  <1>6. CASE Reply(w) \/ ReplyError(w)  BY <1>6 DEF Reply, ReplyError, queueVars
  <1>7. CASE CloseClient(w)  BY <1>7 DEF CloseClient, queueVars
  <1>. QED  BY <1>1, <1>2, <1>3, <1>4, <1>5, <1>6, <1>7 DEF Worker

LEMMA LifecycleStep ==
    ASSUME QueueTypeOK, MainTypeOK, Lifecycle, Crew, [Next]_vars
    PROVE  Lifecycle'
  <1>. USE DEF Lifecycle
  <1>1. CASE InitServer
    BY <1>1, ThreadCountAssumption DEF InitServer, queueVars, Crew, MainTypeOK
  <1>2. CASE InitServerFails
    BY <1>2 DEF InitServerFails, queueVars
  <1>3. CASE CreateWorker
    BY <1>3, ThreadCountAssumption DEF CreateWorker, queueVars, MainTypeOK
  <1>4. CASE CreateWorkerFails
    BY <1>4 DEF CreateWorkerFails, Shutdown, ring
  <1>5. ASSUME NEW c \in Clients, Accept(c) PROVE Lifecycle'
    BY <1>5 DEF Accept, queueVars
  <1>6. CASE AcceptFails
    BY <1>6 DEF AcceptFails, queueVars
  <1>7. CASE Submit
    <2>1. ~shutdown
      BY <1>7 DEF Submit
    <2>2. /\ shutdown' = shutdown /\ mpc' \in {"accept", "refuse"}
      BY <1>7, <2>1 DEF Submit, TryPush, Enqueue, queueVars
    <2>. QED  BY <1>7, <2>1, <2>2 DEF Submit
  <1>8. CASE Refuse
    BY <1>8 DEF Refuse, queueVars
  <1>9. CASE CloseListener
    BY <1>9 DEF CloseListener, queueVars
  <1>10. CASE StopPool
    BY <1>10 DEF StopPool, Shutdown, ring
  <1>11. CASE JoinWorker
    BY <1>11 DEF JoinWorker, queueVars
  <1>12. CASE FreePool
    BY <1>12 DEF FreePool, Destroy
  <1>13. CASE FreeDb
    BY <1>13 DEF FreeDb, queueVars
  <1>14. ASSUME UNCHANGED mvars, shutdown' = shutdown, count = 0 => count' = 0
         PROVE  Lifecycle'
    BY <1>14 DEF mvars
  <1>. HIDE DEF Lifecycle
  <1>15. ASSUME NEW w \in Workers, Worker(w) PROVE Lifecycle'
    BY <1>14, <1>15, WorkerFrame
  <1>16. ASSUME (\E c \in Clients : Client(c)) \/ Wakeup \/ Exited \/ UNCHANGED vars
         PROVE  UNCHANGED mvars /\ shutdown' = shutdown /\ count' = count
    BY <1>16 DEF Client, Connect, ClientSends, ClientCloses, Wakeup, SpuriousWakeup,
                 Exited, vars, queueVars, ring
  <1>. QED
    BY <1>1, <1>2, <1>3, <1>4, <1>5, <1>6, <1>7, <1>8, <1>9, <1>10, <1>11, <1>12,
       <1>13, <1>14, <1>15, <1>16, Zenon DEF Next, Main, Failure

LEMMA CrewStep ==
    ASSUME QueueTypeOK, MainTypeOK, WorkerTypeOK, Lifecycle, Crew, [Next]_vars
    PROVE  Crew'
  <1>0. /\ created \in Nat /\ joined \in Nat /\ joined <= created /\ created <= ThreadCount
        /\ ThreadCount \in Nat /\ Workers = 1..ThreadCount
    BY ThreadCountAssumption DEF MainTypeOK, Workers
  <1>1. ASSUME UNCHANGED <<pool, created, joined, wpc, shutdown>>,
               count = 0 => count' = 0, mpc' # "init" \/ mpc' = mpc
        PROVE  Crew'
    BY <1>1 DEF Crew
  <1>2. ASSUME InitServer PROVE Crew'
    BY <1>0, <1>2 DEF InitServer, queueVars, wvars, Crew, Lifecycle
  <1>3. CASE CreateWorker
    <2>1. /\ pool /\ created < ThreadCount /\ count = 0 /\ ~shutdown /\ joined = 0
          /\ pool' = pool /\ created' = created + 1 /\ joined' = joined
          /\ count' = count /\ shutdown' = shutdown /\ mpc' # "init"
          /\ wpc' = [wpc EXCEPT ![created + 1] = "pop"]
      BY <1>3 DEF CreateWorker, Lifecycle, queueVars
    <2>2. created + 1 \in Workers
      BY <1>0, <2>1
    <2>3. ASSUME NEW w \in Workers
          PROVE  wpc'[w] = IF w = created + 1 THEN "pop" ELSE wpc[w]
      BY <2>1, <2>2 DEF WorkerTypeOK
    <2>. QED  BY <1>0, <2>1, <2>2, <2>3 DEF Crew
  <1>4. ASSUME CreateWorkerFails \/ StopPool PROVE Crew'
    BY <1>4 DEF CreateWorkerFails, StopPool, Shutdown, ring, wvars, Crew
  <1>5. CASE Submit
    <2>1. /\ mpc' # "init" /\ pool /\ created = ThreadCount /\ ~shutdown /\ joined = 0
          /\ UNCHANGED <<pool, created, joined, wpc>>
      BY <1>5 DEF Submit, wvars, Lifecycle
    <2>2. shutdown' = shutdown
      BY <1>5 DEF Submit, TryPush, Enqueue, queueVars
    <2>. QED  BY <1>0, <2>1, <2>2 DEF Crew
  <1>6. CASE JoinWorker
    <2>1. /\ joined < created /\ wpc[joined + 1] = "exited" /\ joined' = joined + 1
          /\ UNCHANGED <<mpc, pool, created, wpc, shutdown, count>>
      BY <1>6 DEF JoinWorker, wvars, queueVars
    <2>2. \A w \in 1..joined' : w = joined + 1 \/ w \in 1..joined
      BY <1>0, <2>1
    <2>. QED  BY <2>1, <2>2 DEF Crew
  <1>7. CASE FreePool
    <2>1. /\ joined = created /\ pool /\ created' = 0 /\ joined' = 0 /\ pool' = FALSE
          /\ count' = 0 /\ wpc' = wpc /\ mpc' # "init"
      BY <1>7 DEF FreePool, Destroy, wvars, Lifecycle
    <2>2. ASSUME NEW w \in Workers PROVE wpc[w] \in {"none", "exited"}
      <3>1. CASE w <= created
        BY <1>0, <2>1, <3>1 DEF Crew
      <3>2. CASE ~(w <= created)
        BY <2>1, <3>2 DEF Crew
      <3>. QED  BY <3>1, <3>2
    <2>. QED  BY <2>1, <2>2 DEF Crew
  <1>8. ASSUME NEW w \in Workers, wpc[w] \notin {"none", "exited"},
               NEW x, x \notin {"none", "exited"},
               wpc' = [wpc EXCEPT ![w] = x],
               UNCHANGED <<mvars, shutdown>>, count = 0 => count' = 0
        PROVE  Crew'
    <2>1. \A v \in Workers : wpc'[v] = IF v = w THEN x ELSE wpc[v]
      BY <1>8 DEF WorkerTypeOK
    <2>2. \A v \in 1..joined : v # w /\ v \in Workers
      BY <1>0, <1>8 DEF Crew
    <2>. QED  BY <1>8, <2>1, <2>2 DEF Crew, mvars
  <1>9. ASSUME NEW w \in Workers, PopClosed(w) PROVE Crew'
    <2>1. /\ wpc[w] = "pop" /\ shutdown /\ count = 0
          /\ UNCHANGED <<mvars, shutdown, count>>
          /\ wpc' = [wpc EXCEPT ![w] = "exited"]
      BY <1>9 DEF PopClosed, Pop, queueVars
    <2>2. \A v \in Workers : wpc'[v] = IF v = w THEN "exited" ELSE wpc[v]
      BY <2>1 DEF WorkerTypeOK
    <2>3. \A v \in 1..joined : v \in Workers
      BY <1>0
    <2>4. pool /\ mpc # "init"
      BY <2>1, <1>9 DEF Crew, Lifecycle
    <2>. QED  BY <2>1, <2>2, <2>3, <2>4 DEF Crew, mvars
  <1>10. ASSUME NEW w \in Workers, Worker(w) PROVE Crew'
    <2>1. /\ UNCHANGED <<mvars, shutdown>> /\ (count = 0 => count' = 0)
      BY <1>10, WorkerFrame
    <2>2. CASE PopWait(w)
      BY <1>1, <2>1, <2>2 DEF PopWait, wvars, mvars
    <2>3. CASE PopReturn(w)
      BY <1>8, <2>1, <2>3 DEF PopReturn
    <2>4. CASE PopClosed(w)
      BY <1>9, <2>4
    <2>5. CASE ReadRequest(w)
      <3>1. wpc[w] = "read" /\ \E x \in {"execute", "reply", "error"} : wpc' = [wpc EXCEPT ![w] = x]
        BY <2>5 DEF ReadRequest
      <3>. QED  BY <1>8, <2>1, <3>1
    <2>6. CASE ExecuteSql(w)
      BY <1>8, <2>1, <2>6 DEF ExecuteSql
    <2>7. CASE Reply(w) \/ ReplyError(w)
      BY <1>8, <2>1, <2>7 DEF Reply, ReplyError
    <2>8. CASE CloseClient(w)
      BY <1>8, <2>1, <2>8 DEF CloseClient
    <2>. QED  BY <1>10, <2>2, <2>3, <2>4, <2>5, <2>6, <2>7, <2>8 DEF Worker
  <1>11. ASSUME \/ InitServerFails \/ AcceptFails \/ Refuse \/ CloseListener \/ FreeDb
                \/ \E c \in Clients : Accept(c)
         PROVE  Crew'
    BY <1>1, <1>11 DEF InitServerFails, AcceptFails, Refuse, CloseListener, FreeDb, Accept,
                       wvars, queueVars
  <1>12. ASSUME (\E c \in Clients : Client(c)) \/ Wakeup \/ Exited \/ UNCHANGED vars
         PROVE  Crew'
    BY <1>1, <1>12 DEF Client, Connect, ClientSends, ClientCloses, Wakeup, SpuriousWakeup,
                       Exited, vars, queueVars, ring, mvars, wvars
  <1>. QED
    BY <1>2, <1>3, <1>4, <1>5, <1>6, <1>7, <1>10, <1>11, <1>12, Zenon
       DEF Next, Main, Failure

-----------------------------------------------------------------------------
(* Who holds which descriptor.                                             *)

\* What a step that opens, hands on or closes no descriptor leaves alone.
HoldersUnchanged ==
    /\ files' = files
    /\ count' = count /\ \A k \in 1..count : Contents'[k] = Contents[k]
    /\ MainHolds' <=> MainHolds
    /\ MainHolds => mfd' = mfd
    /\ \A w \in Workers : HoldsFd(w)' <=> HoldsFd(w)
    /\ \A w \in Workers : HoldsFd(w) => wfd'[w] = wfd[w]

LEMMA OwnershipFrame ==
    ASSUME Ownership, HoldersUnchanged
    PROVE  Ownership'
  <1>. USE DEF HoldersUnchanged, Ownership
  <1>1. HeldAreOpen'
    BY DEF HeldAreOpen
  <1>2. HeldOnce'
    BY DEF HeldOnce
  <1>3. OpenAreHeld'
    BY DEF OpenAreHeld
  <1>. QED  BY <1>1, <1>2, <1>3

\* accept: the number it returns was closed, so nobody holds it yet.
LEMMA AcceptOwnership ==
    ASSUME ConnectionTypeOK, Ownership, RingCoherent, NEW c \in Clients, Accept(c)
    PROVE  Ownership'
  <1>. USE DEF Ownership
  <1>1. PICK f \in Fds : /\ files[f] = NoClient
                        /\ files' = [files EXCEPT ![f] = c]
                        /\ mfd' = f
    BY DEF Accept
  <1>2. /\ ~MainHolds /\ MainHolds' /\ count' = count /\ Contents' = Contents
        /\ wpc' = wpc /\ wfd' = wfd
    BY RingUnchanged DEF Accept, MainHolds, queueVars, ring, wvars
  <1>3. \A g \in Fds : files'[g] = IF g = f THEN c ELSE files[g]
    BY <1>1 DEF ConnectionTypeOK
  <1>4. c # NoClient
    BY NoClientAssumption
  <1>5. \A w \in Workers : HoldsFd(w)' <=> HoldsFd(w)
    BY <1>2 DEF HoldsFd
  <1>6. HeldAreOpen'
    BY <1>1, <1>2, <1>3, <1>4, <1>5 DEF HeldAreOpen
  <1>7. HeldOnce'
    BY <1>1, <1>2, <1>5 DEF HeldAreOpen, HeldOnce
  <1>8. OpenAreHeld'
    BY <1>1, <1>2, <1>3, <1>5 DEF OpenAreHeld
  <1>. QED  BY <1>6, <1>7, <1>8

\* task_queue_try_push: a descriptor that was stored is the queue's, any other
\* stays with the main thread, which refuses it.
LEMMA SubmitOwnership ==
    ASSUME QueueTypeOK, RingCoherent, Lifecycle, Ownership, Submit
    PROVE  Ownership'
  <1>0. MainHolds /\ mfd \in Fds /\ files' = files /\ wpc' = wpc /\ wfd' = wfd
    BY DEF Submit, MainHolds, Ownership, HeldAreOpen, wvars
  <1>1. PICK r \in {"ok", "full", "closed"} :
           /\ TryPush(mfd, r)
           /\ mpc' = CASE r = "ok" -> "accept" [] r = "full" -> "refuse" [] OTHER -> "fail"
           /\ mfd' = IF r = "ok" THEN NoFd ELSE mfd
    BY DEF Submit
  <1>2. \A w \in Workers : HoldsFd(w)' <=> HoldsFd(w)
    BY <1>0 DEF HoldsFd
  <1>3. CASE r # "ok" /\ UNCHANGED queueVars
    <2>1. MainHolds' /\ mfd' = mfd
      BY <1>1, <1>3 DEF MainHolds
    <2>2. count' = count /\ Contents' = Contents
      BY <1>3, RingUnchanged DEF queueVars, ring
    <2>. QED  BY <1>0, <1>2, <2>1, <2>2, OwnershipFrame DEF HoldersUnchanged
  <1>4. CASE r = "ok" /\ count # Capacity /\ Enqueue(mfd)
    <2>1. ~MainHolds'
      BY <1>1, <1>4 DEF MainHolds
    <2>2. /\ Contents \in Seq(Tasks) /\ Len(Contents) = count
          /\ Contents' = Append(Contents, mfd) /\ mfd \in Tasks /\ count \in Nat
      BY <1>0, <1>4, EnqueueEffect, ContentsType, LenProperties DEF Fds
    <2>3. /\ count' = count + 1
          /\ \A k \in 1..count : Contents'[k] = Contents[k]
          /\ Contents'[count + 1] = mfd
      BY <1>4, <2>2, AppendProperties DEF Enqueue
    <2>4. /\ \A k \in 1..count' : k \in 1..count \/ k = count + 1
          /\ \A k \in 1..count : k # count + 1 /\ k \in 1..count'
          /\ count + 1 \in 1..count'
      BY <2>2, <2>3
    <2>5. HeldAreOpen'
      BY <1>0, <1>2, <2>1, <2>3, <2>4 DEF Ownership, HeldAreOpen
    <2>6. HeldOnce'
      BY <1>0, <1>2, <2>1, <2>3, <2>4 DEF Ownership, HeldOnce
    <2>7. OpenAreHeld'
      BY <1>0, <1>2, <2>1, <2>3, <2>4 DEF Ownership, OpenAreHeld
    <2>. QED  BY <2>5, <2>6, <2>7 DEF Ownership
  <1>. QED  BY <1>1, <1>3, <1>4 DEF TryPush

\* task_queue_pop: the oldest descriptor goes from the queue to the worker.
LEMMA PopOwnership ==
    ASSUME QueueTypeOK, RingCoherent, WorkerTypeOK, Ownership,
           NEW w \in Workers, PopReturn(w)
    PROVE  Ownership'
  <1>1. /\ Contents \in Seq(Tasks) /\ Len(Contents) = count
        /\ Contents # <<>> /\ Contents' = Tail(Contents) /\ items[head] = Head(Contents)
    BY DequeueEffect, ContentsType DEF PopReturn
  <1>2. /\ count \in Nat /\ count' = count - 1 /\ count # 0
        /\ items[head] = Contents[1] /\ 1 \in 1..count
        /\ \A k \in 1..count' : k + 1 \in 1..count /\ Contents'[k] = Contents[k + 1]
        /\ \A k \in 1..count : k = 1 \/ (k - 1 \in 1..count' /\ Contents'[k - 1] = Contents[k])
    <2>1. count' = count - 1 /\ count # 0 /\ count \in Nat
      BY <1>1, LenProperties DEF PopReturn, Pop
    <2>2. Len(Tail(Contents)) = count - 1
          /\ \A k \in 1..Len(Tail(Contents)) : Tail(Contents)[k] = Contents[k + 1]
      BY <1>1, HeadTailProperties
    <2>3. items[head] = Contents[1]
      BY <1>1
    <2>4. \A k \in 1..count' : k + 1 \in 1..count /\ Contents'[k] = Contents[k + 1]
      BY <1>1, <2>1, <2>2
    <2>5. \A k \in 1..count : k = 1 \/ (k - 1 \in 1..count' /\ (k - 1) + 1 = k)
      BY <2>1
    <2>. QED  BY <2>1, <2>3, <2>4, <2>5
  <1>3. /\ files' = files /\ mfd' = mfd /\ (MainHolds' <=> MainHolds)
        /\ wpc[w] = "pop" /\ wpc' = [wpc EXCEPT ![w] = "read"]
        /\ wfd' = [wfd EXCEPT ![w] = Contents[1]]
    BY <1>2 DEF PopReturn, mvars, MainHolds
  <1>4. /\ ~HoldsFd(w) /\ HoldsFd(w)' /\ wfd'[w] = Contents[1]
        /\ \A v \in Workers : v # w => (HoldsFd(v)' <=> HoldsFd(v)) /\ wfd'[v] = wfd[v]
    BY <1>3 DEF HoldsFd, WorkerTypeOK
  <1>5. HeldAreOpen'
    <2>1. MainHolds' => mfd' \in Fds /\ files'[mfd'] # NoClient
      BY <1>3 DEF Ownership, HeldAreOpen
    <2>2. \A k \in 1..count' : Contents'[k] \in Fds /\ files'[Contents'[k]] # NoClient
      BY <1>2, <1>3 DEF Ownership, HeldAreOpen
    <2>3. \A v \in Workers : HoldsFd(v)' => wfd'[v] \in Fds /\ files'[wfd'[v]] # NoClient
      BY <1>2, <1>3, <1>4 DEF Ownership, HeldAreOpen
    <2>. QED  BY <2>1, <2>2, <2>3 DEF HeldAreOpen
  <1>6. HeldOnce'
    <2>1. \A k \in 1..count' : Contents'[k] # Contents[1]
      <3>1. \A k \in 1..count' : k + 1 # 1 /\ k + 1 \in 1..count
        BY <1>2
      <3>. QED  BY <1>2, <3>1 DEF Ownership, HeldOnce
    <2>2. \A j, k \in 1..count' : j # k => Contents'[j] # Contents'[k]
      <3>1. \A j, k \in 1..count' : j # k => j + 1 # k + 1
        BY <1>2
      <3>. QED  BY <1>2, <3>1 DEF Ownership, HeldOnce
    <2>3. \A k \in 1..count' : MainHolds' => Contents'[k] # mfd'
      BY <1>2, <1>3 DEF Ownership, HeldOnce
    <2>4. \A v \in Workers : MainHolds' /\ HoldsFd(v)' => wfd'[v] # mfd'
      BY <1>2, <1>3, <1>4 DEF Ownership, HeldOnce
    <2>5. \A k \in 1..count', v \in Workers : HoldsFd(v)' => Contents'[k] # wfd'[v]
      BY <1>2, <1>4, <2>1 DEF Ownership, HeldOnce
    <2>6. \A u, v \in Workers : u # v /\ HoldsFd(u)' /\ HoldsFd(v)' => wfd'[u] # wfd'[v]
      BY <1>2, <1>4 DEF Ownership, HeldOnce
    <2>. QED  BY <2>2, <2>3, <2>4, <2>5, <2>6 DEF HeldOnce
  <1>7. OpenAreHeld'
    <2>. SUFFICES ASSUME NEW f \in Fds, files'[f] # NoClient
                  PROVE  \/ MainHolds' /\ mfd' = f
                         \/ \E k \in 1..count' : Contents'[k] = f
                         \/ \E v \in Workers : HoldsFd(v)' /\ wfd'[v] = f
      BY DEF OpenAreHeld
    <2>1. CASE MainHolds /\ mfd = f
      BY <1>3, <2>1
    <2>2. ASSUME NEW k \in 1..count, Contents[k] = f
          PROVE  \/ \E j \in 1..count' : Contents'[j] = f
                 \/ HoldsFd(w)' /\ wfd'[w] = f
      BY <1>2, <1>4, <2>2
    <2>3. ASSUME NEW v \in Workers, HoldsFd(v) /\ wfd[v] = f
          PROVE  HoldsFd(v)' /\ wfd'[v] = f
      BY <1>4, <2>3
    <2>. QED  BY <1>3, <2>1, <2>2, <2>3 DEF Ownership, OpenAreHeld
  <1>. QED  BY <1>5, <1>6, <1>7 DEF Ownership

\* close after a refusal: the main thread gives up what it closes.
LEMMA RefuseOwnership ==
    ASSUME RingCoherent, ConnectionTypeOK, Ownership, Refuse
    PROVE  Ownership'
  <1>1. /\ MainHolds /\ mfd \in Fds /\ ~MainHolds'
        /\ wpc' = wpc /\ wfd' = wfd /\ count' = count /\ Contents' = Contents
    BY RingUnchanged
       DEF Refuse, MainHolds, Ownership, HeldAreOpen, wvars, queueVars, ring
  <1>2. \A g \in Fds : files'[g] = IF g = mfd THEN NoClient ELSE files[g]
    BY <1>1 DEF Refuse, CloseFd, ConnectionTypeOK
  <1>3. \A w \in Workers : HoldsFd(w)' <=> HoldsFd(w)
    BY <1>1 DEF HoldsFd
  <1>4. HeldAreOpen'
    BY <1>1, <1>2, <1>3 DEF Ownership, HeldAreOpen, HeldOnce
  <1>5. HeldOnce'
    BY <1>1, <1>3 DEF Ownership, HeldOnce
  <1>6. OpenAreHeld'
    BY <1>1, <1>2, <1>3 DEF Ownership, OpenAreHeld
  <1>. QED  BY <1>4, <1>5, <1>6 DEF Ownership

\* close at the end of the handler: the worker gives up what it closes.
LEMMA CloseOwnership ==
    ASSUME RingCoherent, WorkerTypeOK, ConnectionTypeOK, Ownership,
           NEW w \in Workers, CloseClient(w)
    PROVE  Ownership'
  <1>1. /\ HoldsFd(w) /\ wfd[w] \in Fds /\ mfd' = mfd /\ (MainHolds' <=> MainHolds)
        /\ count' = count /\ Contents' = Contents
    BY RingUnchanged
       DEF CloseClient, MainHolds, HoldsFd, Ownership, HeldAreOpen, mvars, queueVars, ring
  <1>2. \A g \in Fds : files'[g] = IF g = wfd[w] THEN NoClient ELSE files[g]
    BY <1>1 DEF CloseClient, CloseFd, ConnectionTypeOK
  <1>3. /\ ~HoldsFd(w)'
        /\ \A v \in Workers : v # w => (HoldsFd(v)' <=> HoldsFd(v)) /\ wfd'[v] = wfd[v]
    BY DEF CloseClient, HoldsFd, WorkerTypeOK
  <1>4. HeldAreOpen'
    BY <1>1, <1>2, <1>3 DEF Ownership, HeldAreOpen, HeldOnce
  <1>5. HeldOnce'
    BY <1>1, <1>3 DEF Ownership, HeldOnce
  <1>6. OpenAreHeld'
    BY <1>1, <1>2, <1>3 DEF Ownership, OpenAreHeld
  <1>. QED  BY <1>4, <1>5, <1>6 DEF Ownership

LEMMA OwnershipStep ==
    ASSUME QueueTypeOK, RingCoherent, MainTypeOK, WorkerTypeOK, ConnectionTypeOK,
           Lifecycle, Crew, Ownership, [Next]_vars
    PROVE  Ownership'
  <1>1. ASSUME UNCHANGED <<ring, files>>,
               MainHolds' <=> MainHolds, MainHolds => mfd' = mfd,
               \A w \in Workers : HoldsFd(w)' <=> HoldsFd(w), wfd' = wfd
        PROVE  Ownership'
    <2>1. count' = count /\ Contents' = Contents
      BY <1>1, RingUnchanged DEF ring
    <2>. QED  BY <1>1, <2>1, OwnershipFrame DEF HoldersUnchanged
  <1>2. ASSUME \/ InitServer \/ InitServerFails \/ AcceptFails \/ CloseListener
               \/ JoinWorker \/ FreeDb \/ CreateWorkerFails \/ StopPool
        PROVE  Ownership'
    BY <1>1, <1>2 DEF InitServer, InitServerFails, AcceptFails, CloseListener, JoinWorker,
         FreeDb, CreateWorkerFails, StopPool, Shutdown, queueVars, ring, wvars, MainHolds, HoldsFd
  <1>3. CASE CreateWorker
    <2>1. created + 1 \in Workers /\ wpc[created + 1] = "none"
      BY <1>3, ThreadCountAssumption DEF CreateWorker, Lifecycle, Crew, MainTypeOK,
            WorkerTypeOK, Workers
    <2>2. \A w \in Workers : HoldsFd(w)' <=> HoldsFd(w)
      BY <1>3, <2>1 DEF CreateWorker, HoldsFd, WorkerTypeOK
    <2>. QED  BY <1>1, <1>3, <2>2 DEF CreateWorker, MainHolds, queueVars, ring
  <1>4. ASSUME NEW c \in Clients, Accept(c) PROVE Ownership'
    BY <1>4, AcceptOwnership
  <1>5. CASE Submit
    BY <1>5, SubmitOwnership
  <1>6. CASE Refuse
    BY <1>6, RefuseOwnership
  <1>7. CASE FreePool
    <2>1. count = 0
      <3>1. CASE created = 0
        BY <1>7, <3>1, ThreadCountAssumption DEF FreePool, Lifecycle
      <3>2. CASE created # 0
        <4>1. 1 \in Workers /\ 1 \in 1..joined
          BY <1>7, <3>2, ThreadCountAssumption DEF FreePool, MainTypeOK, Workers
        <4>. QED  BY <1>7, <4>1 DEF FreePool, Lifecycle, Crew
      <3>. QED  BY <3>1, <3>2
    <2>2. count' = 0 /\ \A k \in 1..0 : FALSE
      BY <1>7 DEF FreePool, Destroy
    <2>3. /\ ~MainHolds /\ ~MainHolds' /\ files' = files /\ wfd' = wfd
          /\ \A w \in Workers : HoldsFd(w)' <=> HoldsFd(w)
      BY <1>7 DEF FreePool, MainHolds, HoldsFd, wvars
    <2>. QED  BY <2>1, <2>2, <2>3, OwnershipFrame DEF HoldersUnchanged
  <1>8. ASSUME NEW w \in Workers, PopWait(w) PROVE Ownership'
    BY <1>1, <1>8 DEF PopWait, Pop, mvars, wvars, MainHolds, HoldsFd
  <1>9. ASSUME NEW w \in Workers, PopReturn(w) PROVE Ownership'
    BY <1>9, PopOwnership
  <1>10. ASSUME NEW w \in Workers, PopClosed(w) PROVE Ownership'
    <2>1. \A v \in Workers : HoldsFd(v)' <=> HoldsFd(v)
      BY <1>10 DEF PopClosed, HoldsFd, WorkerTypeOK
    <2>. QED  BY <1>1, <1>10, <2>1 DEF PopClosed, Pop, mvars, MainHolds, queueVars, ring
  <1>11. ASSUME NEW w \in Workers, ReadRequest(w) PROVE Ownership'
    <2>1. wpc[w] = "read" /\ \E x \in {"execute", "reply", "error"} : wpc' = [wpc EXCEPT ![w] = x]
      BY <1>11 DEF ReadRequest
    <2>2. \A v \in Workers : HoldsFd(v)' <=> HoldsFd(v)
      BY <2>1 DEF HoldsFd, WorkerTypeOK
    <2>. QED  BY <1>1, <1>11, <2>2 DEF ReadRequest, mvars, MainHolds, queueVars, ring
  <1>12. ASSUME NEW w \in Workers, ExecuteSql(w) PROVE Ownership'
    <2>1. \A v \in Workers : HoldsFd(v)' <=> HoldsFd(v)
      BY <1>12 DEF ExecuteSql, HoldsFd, WorkerTypeOK
    <2>. QED  BY <1>1, <1>12, <2>1 DEF ExecuteSql, mvars, MainHolds, queueVars, ring
  <1>13. ASSUME NEW w \in Workers, Reply(w) \/ ReplyError(w) PROVE Ownership'
    <2>1. \A v \in Workers : HoldsFd(v)' <=> HoldsFd(v)
      BY <1>13, ReplyIs DEF HoldsFd, WorkerTypeOK
    <2>. QED  BY <1>1, <1>13, <2>1, ReplyIs DEF mvars, MainHolds, queueVars, ring
  <1>14. ASSUME NEW w \in Workers, CloseClient(w) PROVE Ownership'
    BY <1>14, CloseOwnership
  <1>15. ASSUME (\E c \in Clients : Client(c)) \/ Wakeup \/ Exited \/ UNCHANGED vars
         PROVE  Ownership'
    <2>1. UNCHANGED <<ring, files, mvars, wvars>>
      BY <1>15 DEF Client, Connect, ClientSends, ClientCloses, Wakeup, SpuriousWakeup,
                   Exited, vars, queueVars, ring
    <2>. QED  BY <1>1, <2>1 DEF mvars, wvars, MainHolds, HoldsFd
  <1>. QED
    BY <1>2, <1>3, <1>4, <1>5, <1>6, <1>7, <1>8, <1>9, <1>10, <1>11, <1>12, <1>13, <1>14,
       <1>15, Zenon DEF Next, Main, Failure, Worker

-----------------------------------------------------------------------------
(* The connections.                                                        *)

\* Closing an open descriptor ends one connection and leaves the others alone.
LEMMA CloseFdConnections ==
    ASSUME ConnectionTypeOK, Connections, NEW f \in Fds, files[f] # NoClient,
           CloseFd(f), listening' = listening
    PROVE  Connections'
  <1>1. files[f] \in Clients
    BY DEF ConnectionTypeOK
  <1>2. \A g \in Fds : files'[g] = IF g = f THEN NoClient ELSE files[g]
    BY DEF CloseFd, ConnectionTypeOK
  <1>3. \A c \in Clients : conn'[c] = IF c = files[f] THEN "closed" ELSE conn[c]
    BY <1>1 DEF CloseFd, ConnectionTypeOK
  <1>4. \A g \in Fds : files[g] # NoClient => files[g] \in Clients
    BY DEF ConnectionTypeOK
  <1>. QED  BY <1>1, <1>2, <1>3, <1>4 DEF Connections

LEMMA ConnectionsStep ==
    ASSUME ConnectionTypeOK, Lifecycle, HeldAreOpen, Connections, [Next]_vars
    PROVE  Connections'
  <1>0. \A g \in Fds : files[g] # NoClient => files[g] \in Clients
    BY DEF ConnectionTypeOK
  <1>1. ASSUME UNCHANGED <<files, conn>>, listening => listening' PROVE Connections'
    BY <1>1 DEF Connections
  <1>2. ASSUME NEW c \in Clients, Connect(c) PROVE Connections'
    <2>1. \A d \in Clients : conn'[d] = IF d = c THEN "backlog" ELSE conn[d]
      BY <1>2 DEF Connect, ConnectionTypeOK
    <2>. QED  BY <1>0, <1>2, <2>1 DEF Connect, Connections, mvars
  <1>3. ASSUME NEW c \in Clients, Accept(c) PROVE Connections'
    <2>1. PICK f \in Fds : files[f] = NoClient /\ files' = [files EXCEPT ![f] = c]
      BY <1>3 DEF Accept
    <2>2. \A g \in Fds : files'[g] = IF g = f THEN c ELSE files[g]
      BY <2>1 DEF ConnectionTypeOK
    <2>3. \A d \in Clients : conn'[d] = IF d = c THEN "open" ELSE conn[d]
      BY <1>3 DEF Accept, ConnectionTypeOK
    <2>4. \A g \in Fds : files[g] # c
      BY <1>3, NoClientAssumption DEF Accept, Connections
    <2>. QED  BY <1>0, <1>3, <2>1, <2>2, <2>3, <2>4, NoClientAssumption
              DEF Accept, Connections
  <1>4. CASE Refuse
    BY <1>4, CloseFdConnections DEF Refuse, HeldAreOpen, MainHolds
  <1>5. ASSUME NEW w \in Workers, CloseClient(w) PROVE Connections'
    BY <1>5, CloseFdConnections DEF CloseClient, HeldAreOpen, HoldsFd, mvars
  <1>6. CASE CloseListener
    <2>1. \A d \in Clients : conn'[d] = IF conn[d] = "backlog" THEN "reset" ELSE conn[d]
      BY <1>6 DEF CloseListener
    <2>. QED  BY <1>0, <1>6, <2>1 DEF CloseListener, Connections
  <1>7. ASSUME \/ InitServer \/ InitServerFails \/ CreateWorker \/ Submit \/ StopPool
               \/ JoinWorker \/ FreePool \/ FreeDb \/ CreateWorkerFails \/ AcceptFails
        PROVE  Connections'
    BY <1>1, <1>7 DEF InitServer, InitServerFails, CreateWorker, Submit, StopPool, JoinWorker,
                      FreePool, FreeDb, CreateWorkerFails, AcceptFails, Lifecycle
  <1>8. ASSUME NEW w \in Workers,
               \/ PopWait(w) \/ PopReturn(w) \/ PopClosed(w)
               \/ ReadRequest(w) \/ ExecuteSql(w) \/ Reply(w) \/ ReplyError(w)
        PROVE  Connections'
    BY <1>1, <1>8 DEF PopWait, PopReturn, PopClosed, ReadRequest, ExecuteSql, Reply,
                      ReplyError, mvars
  <1>9. ASSUME NEW c \in Clients, ClientSends(c) \/ ClientCloses(c) PROVE Connections'
    BY <1>1, <1>9 DEF ClientSends, ClientCloses, mvars
  <1>10. ASSUME Wakeup \/ Exited \/ UNCHANGED vars PROVE Connections'
    BY <1>1, <1>10 DEF Wakeup, Exited, vars, mvars
  <1>. QED
    BY <1>2, <1>3, <1>4, <1>5, <1>6, <1>7, <1>8, <1>9, <1>10, Zenon
       DEF Next, Main, Failure, Worker, Client

-----------------------------------------------------------------------------
(* The responses.                                                          *)

\* The first response to a connection, for its own client.
LEMMA SendEffect ==
    ASSUME ConnectionTypeOK, NEW f \in Fds, files[f] # NoClient, resp[files[f]] = <<>>,
           NEW code \in Nat, NEW built \in BOOLEAN, built \/ code >= 400,
           Send(f, code, files[f], built)
    PROVE  /\ \A c \in Clients : c # files[f] => resp'[c] = resp[c]
           /\ Len(resp'[files[f]]) = 1
           /\ \A k \in 1..1 : Rightful(resp'[files[f]][k], files[f])
  <1>. DEFINE e == [code |-> code, for |-> files[f], built |-> built]
  <1>1. files[f] \in Clients
    BY DEF ConnectionTypeOK
  <1>2. /\ resp'[files[f]] = Append(<<>>, e)
        /\ \A c \in Clients : c # files[f] => resp'[c] = resp[c]
    BY <1>1 DEF Send, ConnectionTypeOK
  <1>3. Append(<<>>, e) = <<e>>
    OBVIOUS
  <1>4. Rightful(e, files[f])
    BY DEF Rightful
  <1>. HIDE DEF e
  <1>. QED  BY <1>2, <1>3, <1>4

\* Two descriptors that are open belong to two clients.
LEMMA OtherClient ==
    ASSUME ConnectionTypeOK, Connections, NEW f \in Fds, NEW g \in Fds, f # g,
           files[f] # NoClient, files[g] # NoClient
    PROVE  files[f] \in Clients /\ files[g] \in Clients /\ files[f] # files[g]
  BY DEF ConnectionTypeOK, Connections

\* What a step that writes no response and ends no connection leaves alone.
LEMMA ResponsesFrame ==
    ASSUME Responses, HoldersUnchanged, resp' = resp,
           \A c \in Clients : conn'[c] \in {"none", "backlog", "reset"}
                                => conn[c] \in {"none", "backlog", "reset"},
           \A c \in Clients : conn'[c] = "closed" => conn[c] = "closed",
           \A w \in Workers : wpc'[w] \in {"read", "execute", "reply", "error"}
                                => wpc[w] \in {"read", "execute", "reply", "error"},
           \A w \in Workers : wpc'[w] = "close" => wpc[w] = "close",
           \A w \in Workers : wpc'[w] \in {"execute", "reply", "error", "close"}
                => \/ wpc[w] \in {"execute", "reply", "error", "close"} /\ wfor'[w] = wfor[w]
                   \/ wfor'[w] = files[wfd[w]] /\ HoldsFd(w)
    PROVE  Responses'
  <1>1. \A w \in Workers : wpc[w] \in {"read", "execute", "reply", "error", "close"}
                             => wfd'[w] = wfd[w]
    BY DEF HoldersUnchanged, HoldsFd
  <1>. QED  BY <1>1 DEF Responses, HoldersUnchanged, HoldsFd

LEMMA AcceptResponses ==
    ASSUME RingCoherent, ConnectionTypeOK, Ownership, Responses, NEW c \in Clients, Accept(c)
    PROVE  Responses'
  <1>1. PICK f \in Fds : /\ files[f] = NoClient
                        /\ files' = [files EXCEPT ![f] = c]
                        /\ mfd' = f
    BY DEF Accept
  <1>2. /\ count' = count /\ Contents' = Contents /\ resp' = resp
        /\ wpc' = wpc /\ wfd' = wfd /\ wfor' = wfor /\ resp[c] = <<>>
    BY RingUnchanged DEF Accept, queueVars, ring, wvars, Responses
  <1>3. \A g \in Fds : files'[g] = IF g = f THEN c ELSE files[g]
    BY <1>1 DEF ConnectionTypeOK
  <1>4. \A d \in Clients : conn'[d] = IF d = c THEN "open" ELSE conn[d]
    BY DEF Accept, ConnectionTypeOK
  <1>5. \A j \in 1..count : files'[Contents[j]] = files[Contents[j]]
    BY <1>1, <1>3 DEF Ownership, HeldAreOpen
  <1>6. \A w \in Workers : wpc[w] \in {"read", "execute", "reply", "error", "close"}
                             => files'[wfd[w]] = files[wfd[w]]
    BY <1>1, <1>3 DEF Ownership, HeldAreOpen, HoldsFd
  <1>. QED  BY <1>1, <1>2, <1>3, <1>4, <1>5, <1>6 DEF Responses

LEMMA SubmitResponses ==
    ASSUME QueueTypeOK, RingCoherent, Lifecycle, Ownership, Responses, Submit
    PROVE  Responses'
  <1>0. /\ MainHolds /\ mfd \in Fds
        /\ UNCHANGED <<wpc, wfd, wfor, files, conn, resp>>
    BY DEF Submit, MainHolds, Ownership, HeldAreOpen, wvars
  <1>1. PICK r \in {"ok", "full", "closed"} :
           /\ TryPush(mfd, r)
           /\ mpc' = CASE r = "ok" -> "accept" [] r = "full" -> "refuse" [] OTHER -> "fail"
           /\ mfd' = IF r = "ok" THEN NoFd ELSE mfd
    BY DEF Submit
  <1>2. CASE r # "ok" /\ UNCHANGED queueVars
    <2>1. mfd' = mfd /\ count' = count /\ Contents' = Contents
      BY <1>1, <1>2, RingUnchanged DEF queueVars, ring
    <2>. QED  BY <1>0, <2>1 DEF Responses
  <1>3. CASE r = "ok" /\ count # Capacity /\ Enqueue(mfd)
    <2>1. ~MainHolds'
      BY <1>1, <1>3 DEF MainHolds
    <2>2. /\ Contents \in Seq(Tasks) /\ Len(Contents) = count
          /\ Contents' = Append(Contents, mfd) /\ mfd \in Tasks /\ count \in Nat
      BY <1>0, <1>3, EnqueueEffect, ContentsType, LenProperties DEF Fds
    <2>3. /\ count' = count + 1
          /\ \A j \in 1..count : Contents'[j] = Contents[j]
          /\ Contents'[count + 1] = mfd
      BY <1>3, <2>2, AppendProperties DEF Enqueue
    <2>4. \A j \in 1..count' : j \in 1..count \/ j = count + 1
      BY <2>2, <2>3
    <2>. QED  BY <1>0, <2>1, <2>3, <2>4 DEF Responses
  <1>. QED  BY <1>1, <1>2, <1>3 DEF TryPush

LEMMA PopResponses ==
    ASSUME QueueTypeOK, RingCoherent, WorkerTypeOK, Ownership, Responses,
           NEW w \in Workers, PopReturn(w)
    PROVE  Responses'
  <1>1. /\ Contents \in Seq(Tasks) /\ Len(Contents) = count
        /\ Contents # <<>> /\ Contents' = Tail(Contents) /\ items[head] = Head(Contents)
    BY DequeueEffect, ContentsType DEF PopReturn
  <1>2. /\ items[head] = Contents[1] /\ 1 \in 1..count
        /\ \A j \in 1..count' : j + 1 \in 1..count /\ Contents'[j] = Contents[j + 1]
    <2>1. count' = count - 1 /\ count # 0 /\ count \in Nat
      BY <1>1, LenProperties DEF PopReturn, Pop
    <2>2. Len(Tail(Contents)) = count - 1
          /\ \A j \in 1..Len(Tail(Contents)) : Tail(Contents)[j] = Contents[j + 1]
      BY <1>1, HeadTailProperties
    <2>3. items[head] = Contents[1]
      BY <1>1
    <2>. QED  BY <1>1, <2>1, <2>2, <2>3
  <1>3. /\ UNCHANGED <<files, conn, resp, mfd, wfor>> /\ (MainHolds' <=> MainHolds)
        /\ wpc' = [wpc EXCEPT ![w] = "read"]
        /\ wfd' = [wfd EXCEPT ![w] = Contents[1]]
    BY <1>2 DEF PopReturn, mvars, MainHolds
  <1>4. /\ wpc'[w] = "read" /\ wfd'[w] = Contents[1]
        /\ \A v \in Workers : v # w => wpc'[v] = wpc[v] /\ wfd'[v] = wfd[v]
    BY <1>3 DEF WorkerTypeOK
  <1>. QED  BY <1>2, <1>3, <1>4 DEF Responses

LEMMA RefuseResponses ==
    ASSUME RingCoherent, ConnectionTypeOK, Ownership, Connections, Responses, Refuse
    PROVE  Responses'
  <1>. DEFINE d == files[mfd]
  <1>1. /\ MainHolds /\ mfd \in Fds /\ d # NoClient /\ d \in Clients /\ ~MainHolds'
        /\ UNCHANGED <<wpc, wfd, wfor, count>> /\ Contents' = Contents
    BY RingUnchanged DEF Refuse, MainHolds, Ownership, HeldAreOpen, ConnectionTypeOK,
         wvars, queueVars, ring
  <1>2. \A g \in Fds : files'[g] = IF g = mfd THEN NoClient ELSE files[g]
    BY <1>1 DEF Refuse, CloseFd, ConnectionTypeOK
  <1>3. \A c \in Clients : conn'[c] = IF c = d THEN "closed" ELSE conn[c]
    BY <1>1 DEF Refuse, CloseFd, ConnectionTypeOK
  <1>4. /\ \A c \in Clients : c # d => resp'[c] = resp[c]
        /\ Len(resp'[d]) = 1
        /\ \A k \in 1..1 : Rightful(resp'[d][k], d)
    <2>. DEFINE code == IF mpc = "refuse" THEN 503 ELSE 500
    <2>1. resp[d] = <<>> /\ code \in Nat /\ code >= 400
      BY <1>1 DEF Responses
    <2>2. PICK built \in BOOLEAN : Send(mfd, code, d, built)
      BY DEF Refuse, SendError
    <2>. HIDE DEF code
    <2>. QED  BY <1>1, <2>1, <2>2, SendEffect
  <1>5. \A j \in 1..count : /\ files'[Contents[j]] = files[Contents[j]]
                            /\ resp'[files[Contents[j]]] = resp[files[Contents[j]]]
    BY <1>1, <1>2, <1>4, OtherClient DEF Ownership, HeldAreOpen, HeldOnce
  <1>6. \A w \in Workers : wpc[w] \in {"read", "execute", "reply", "error", "close"}
            => /\ files'[wfd[w]] = files[wfd[w]]
               /\ resp'[files[wfd[w]]] = resp[files[wfd[w]]]
    BY <1>1, <1>2, <1>4, OtherClient DEF Ownership, HeldAreOpen, HeldOnce, HoldsFd
  <1>. HIDE DEF d
  <1>. QED  BY <1>1, <1>3, <1>4, <1>5, <1>6 DEF Responses

LEMMA ReplyResponses ==
    ASSUME RingCoherent, WorkerTypeOK, ConnectionTypeOK, Ownership, Connections,
           ErrorStatus, Responses, NEW w \in Workers, Reply(w) \/ ReplyError(w)
    PROVE  Responses'
  <1>. DEFINE d == files[wfd[w]]
  <1>1. /\ HoldsFd(w) /\ wfd[w] \in Fds /\ d # NoClient /\ d \in Clients
        /\ conn[d] = "open" /\ resp[d] = <<>> /\ wfor[w] = d
        /\ UNCHANGED <<wfd, wfor, count, mfd, files, conn>> /\ Contents' = Contents
        /\ (MainHolds' <=> MainHolds)
    BY RingUnchanged, ReplyIs DEF MainHolds, HoldsFd, Ownership, HeldAreOpen, ConnectionTypeOK,
         Connections, Responses, mvars, queueVars, ring
  <1>2. /\ wpc'[w] = "close" /\ \A v \in Workers : v # w => wpc'[v] = wpc[v]
    BY ReplyIs DEF WorkerTypeOK
  <1>3. /\ \A c \in Clients : c # d => resp'[c] = resp[c]
        /\ Len(resp'[d]) = 1
        /\ \A k \in 1..1 : Rightful(resp'[d][k], d)
    <2>1. wcode[w] \in Nat
      <3>1. wcode[w] \in {0, 200, 400, 404, 405, 413, 500}
        BY DEF WorkerTypeOK
      <3>. QED  BY <3>1
    <2>2. PICK built \in BOOLEAN :
             Send(wfd[w], wcode[w], d, built) /\ (built \/ wcode[w] >= 400)
      BY <1>1 DEF Reply, ReplyError, SendError, ErrorStatus
    <2>. QED  BY <1>1, <2>1, <2>2, SendEffect
  <1>4. \A j \in 1..count : resp'[files[Contents[j]]] = resp[files[Contents[j]]]
    BY <1>1, <1>3, OtherClient DEF Ownership, HeldAreOpen, HeldOnce
  <1>5. \A v \in Workers : v # w /\ wpc[v] \in {"read", "execute", "reply", "error", "close"}
            => resp'[files[wfd[v]]] = resp[files[wfd[v]]]
    BY <1>1, <1>3, OtherClient DEF Ownership, HeldAreOpen, HeldOnce, HoldsFd
  <1>6. MainHolds => resp'[files[mfd]] = resp[files[mfd]]
    BY <1>1, <1>3, OtherClient DEF Ownership, HeldAreOpen, HeldOnce
  <1>. QED  BY <1>1, <1>2, <1>3, <1>4, <1>5, <1>6 DEF Responses

LEMMA CloseResponses ==
    ASSUME RingCoherent, WorkerTypeOK, ConnectionTypeOK, Ownership, Connections, Responses,
           NEW w \in Workers, CloseClient(w)
    PROVE  Responses'
  <1>. DEFINE d == files[wfd[w]]
  <1>1. /\ HoldsFd(w) /\ wfd[w] \in Fds /\ d # NoClient /\ d \in Clients
        /\ Len(resp[d]) = 1
        /\ UNCHANGED <<count, mfd, resp>> /\ Contents' = Contents
        /\ (MainHolds' <=> MainHolds)
    BY RingUnchanged DEF CloseClient, MainHolds, HoldsFd, Ownership, HeldAreOpen,
         ConnectionTypeOK, Responses, mvars, queueVars, ring
  <1>2. /\ wpc'[w] = "pop"
        /\ \A v \in Workers : v # w => /\ wpc'[v] = wpc[v] /\ wfd'[v] = wfd[v]
                                       /\ wfor'[v] = wfor[v]
    BY DEF CloseClient, WorkerTypeOK
  <1>3. \A g \in Fds : files'[g] = IF g = wfd[w] THEN NoClient ELSE files[g]
    BY <1>1 DEF CloseClient, CloseFd, ConnectionTypeOK
  <1>4. \A c \in Clients : conn'[c] = IF c = d THEN "closed" ELSE conn[c]
    BY <1>1 DEF CloseClient, CloseFd, ConnectionTypeOK
  <1>5. \A j \in 1..count : files'[Contents[j]] = files[Contents[j]]
    BY <1>1, <1>3 DEF Ownership, HeldAreOpen, HeldOnce
  <1>6. \A v \in Workers : v # w /\ wpc[v] \in {"read", "execute", "reply", "error", "close"}
            => files'[wfd[v]] = files[wfd[v]]
    BY <1>1, <1>3 DEF Ownership, HeldAreOpen, HeldOnce, HoldsFd
  <1>7. MainHolds => files'[mfd] = files[mfd]
    BY <1>1, <1>3 DEF Ownership, HeldAreOpen, HeldOnce
  <1>. QED  BY <1>1, <1>2, <1>4, <1>5, <1>6, <1>7 DEF Responses

\* The status of an error response is chosen on the way to it, and not changed.
LEMMA ErrorStatusStep ==
    ASSUME MainTypeOK, WorkerTypeOK, Lifecycle, ErrorStatus, [Next]_vars
    PROVE  ErrorStatus'
  <1>1. ASSUME UNCHANGED wvars PROVE ErrorStatus'
    BY <1>1 DEF ErrorStatus, wvars
  <1>2. ASSUME NEW w \in Workers, NEW x, x # "error", wpc' = [wpc EXCEPT ![w] = x],
               \A v \in Workers : v # w => wcode'[v] = wcode[v]
        PROVE  ErrorStatus'
    BY <1>2 DEF ErrorStatus, WorkerTypeOK
  <1>3. ASSUME NEW w \in Workers, NEW code, code >= 400, wpc' = [wpc EXCEPT ![w] = "error"],
               wcode' = [wcode EXCEPT ![w] = code]
        PROVE  ErrorStatus'
    BY <1>3 DEF ErrorStatus, WorkerTypeOK
  <1>4. CASE CreateWorker
    <2>1. created + 1 \in Workers
      BY <1>4, ThreadCountAssumption DEF CreateWorker, MainTypeOK, Lifecycle, Workers
    <2>. QED  BY <1>2, <1>4, <2>1 DEF CreateWorker
  <1>5. ASSUME NEW w \in Workers, PopReturn(w) \/ PopClosed(w) PROVE ErrorStatus'
    BY <1>2, <1>5 DEF PopReturn, PopClosed
  <1>6. ASSUME NEW w \in Workers, ReadRequest(w) PROVE ErrorStatus'
    <2>1. PICK r : IF r = "ok" /\ Executes(sent[files[wfd[w]]])
            THEN /\ wpc' = [wpc EXCEPT ![w] = "execute"]
                 /\ UNCHANGED wcode
            ELSE LET code == CASE r = "ok" -> RouteStatus(sent[files[wfd[w]]])
                               [] r = "too_large" -> 413
                               [] r = "internal" -> 500
                               [] OTHER -> 400
                 IN  /\ wcode' = [wcode EXCEPT ![w] = code]
                     /\ wpc' = [wpc EXCEPT ![w] = IF code = 200 THEN "reply" ELSE "error"]
      BY <1>6 DEF ReadRequest
    <2>. DEFINE code == CASE r = "ok" -> RouteStatus(sent[files[wfd[w]]])
                          [] r = "too_large" -> 413
                          [] r = "internal" -> 500
                          [] OTHER -> 400
    <2>2. code \in {200, 400, 404, 405, 413, 500}
      BY RouteStatusType
    <2>3. \/ wpc' = [wpc EXCEPT ![w] = "execute"] /\ wcode' = wcode
          \/ /\ wcode' = [wcode EXCEPT ![w] = code]
             /\ wpc' = [wpc EXCEPT ![w] = IF code = 200 THEN "reply" ELSE "error"]
      BY <2>1
    <2>. HIDE DEF code
    <2>4. code = 200 \/ (code # 200 /\ code >= 400)
      BY <2>2
    <2>5. \A v \in Workers : v # w => wcode'[v] = wcode[v]
      BY <2>3 DEF WorkerTypeOK
    <2>. QED  BY <1>2, <1>3, <2>3, <2>4, <2>5
  <1>7. ASSUME NEW w \in Workers, ExecuteSql(w) PROVE ErrorStatus'
    <2>1. \A v \in Workers : v # w => wcode'[v] = wcode[v]
      BY <1>7 DEF ExecuteSql, WorkerTypeOK
    <2>. QED  BY <1>2, <1>3, <1>7, <2>1 DEF ExecuteSql
  <1>8. ASSUME NEW w \in Workers, Reply(w) \/ ReplyError(w) PROVE ErrorStatus'
    BY <1>2, <1>8 DEF Reply, ReplyError
  <1>9. ASSUME NEW w \in Workers, CloseClient(w) PROVE ErrorStatus'
    <2>1. \A v \in Workers : v # w => wcode'[v] = wcode[v]
      BY <1>9 DEF CloseClient, WorkerTypeOK
    <2>. QED  BY <1>2, <1>9, <2>1 DEF CloseClient
  <1>10. ASSUME \/ InitServer \/ Submit \/ Refuse \/ CloseListener \/ StopPool
                \/ JoinWorker \/ FreePool \/ FreeDb \/ Failure
         PROVE  UNCHANGED wvars
    BY <1>10 DEF InitServer, Submit, Refuse, CloseListener, StopPool, JoinWorker, FreePool,
           FreeDb, Failure, InitServerFails, CreateWorkerFails, AcceptFails
  <1>11. ASSUME \/ \E c \in Clients : Client(c) \/ Accept(c)
                \/ \E w \in Workers : PopWait(w)
                \/ Wakeup \/ Exited \/ UNCHANGED vars
         PROVE  UNCHANGED wvars
    BY <1>11 DEF Client, Connect, ClientSends, ClientCloses, Accept, PopWait, Wakeup, Exited, vars
  <1>. QED
    BY <1>1, <1>4, <1>5, <1>6, <1>7, <1>8, <1>9, <1>10, <1>11, Zenon DEF Next, Main, Worker

LEMMA ResponsesStep ==
    ASSUME QueueTypeOK, RingCoherent, MainTypeOK, WorkerTypeOK, ConnectionTypeOK,
           Lifecycle, Crew, Ownership, Connections, ErrorStatus, Responses, [Next]_vars
    PROVE  Responses'
  <1>1. ASSUME UNCHANGED <<ring, files, resp, wvars>>,
               MainHolds' <=> MainHolds, MainHolds => mfd' = mfd,
               \A c \in Clients : conn'[c] \in {"none", "backlog", "reset"}
                                    => conn[c] \in {"none", "backlog", "reset"},
               \A c \in Clients : conn'[c] = "closed" => conn[c] = "closed"
        PROVE  Responses'
    <2>1. /\ count' = count /\ Contents' = Contents /\ UNCHANGED <<wpc, wfd, wfor>>
          /\ \A w \in Workers : HoldsFd(w)' <=> HoldsFd(w)
      BY <1>1, RingUnchanged DEF ring, wvars, HoldsFd
    <2>2. HoldersUnchanged
      BY <1>1, <2>1 DEF HoldersUnchanged
    <2>. QED  BY <1>1, <2>1, <2>2, ResponsesFrame
  <1>2. ASSUME \/ InitServer \/ InitServerFails \/ AcceptFails
               \/ JoinWorker \/ FreeDb \/ CreateWorkerFails \/ StopPool
        PROVE  Responses'
    BY <1>1, <1>2 DEF InitServer, InitServerFails, AcceptFails, JoinWorker, FreeDb,
         CreateWorkerFails, StopPool, Shutdown, queueVars, ring, MainHolds
  <1>3. CASE CloseListener
    BY <1>1, <1>3 DEF CloseListener, queueVars, ring, MainHolds
  <1>4. ASSUME NEW c \in Clients, Connect(c) PROVE Responses'
    BY <1>1, <1>4 DEF Connect, queueVars, ring, mvars, MainHolds, ConnectionTypeOK
  <1>5. ASSUME NEW c \in Clients, ClientSends(c) \/ ClientCloses(c) PROVE Responses'
    BY <1>1, <1>5 DEF ClientSends, ClientCloses, queueVars, ring, mvars, MainHolds
  <1>6. ASSUME Wakeup \/ Exited \/ UNCHANGED vars PROVE Responses'
    <2>1. UNCHANGED <<ring, files, conn, resp, mvars, wvars>>
      BY <1>6 DEF Wakeup, SpuriousWakeup, Exited, vars, queueVars, ring
    <2>. QED  BY <1>1, <2>1 DEF mvars, MainHolds
  <1>7. ASSUME FreePool PROVE Responses'
    <2>1. /\ ~MainHolds' /\ count' = 0 /\ \A k \in 1..0 : FALSE
          /\ UNCHANGED <<wpc, wfd, wfor, files, conn, resp>>
      BY <1>7 DEF FreePool, Destroy, MainHolds, wvars
    <2>. QED  BY <2>1 DEF Responses
  <1>8. ASSUME NEW w \in Workers, NEW x \in {"pop", "exited", "execute", "reply", "error"},
               wpc' = [wpc EXCEPT ![w] = x],
               UNCHANGED <<ring, files, conn, resp, mvars, wfd>>,
               x \in {"pop", "exited"} => ~HoldsFd(w),
               x \in {"execute", "reply", "error"} => /\ wpc[w] \in {"read", "execute", "reply", "error"}
                                            /\ wfor'[w] = files[wfd[w]],
               \A v \in Workers : v # w => wfor'[v] = wfor[v]
        PROVE  Responses'
    <2>1. \A v \in Workers : wpc'[v] = IF v = w THEN x ELSE wpc[v]
      BY <1>8 DEF WorkerTypeOK
    <2>2. \A v \in Workers : HoldsFd(v)' <=> HoldsFd(v)
      BY <1>8, <2>1 DEF HoldsFd
    <2>3. count' = count /\ Contents' = Contents /\ mfd' = mfd /\ (MainHolds' <=> MainHolds)
      BY <1>8, RingUnchanged DEF ring, mvars, MainHolds
    <2>4. HoldersUnchanged
      BY <1>8, <2>2, <2>3 DEF HoldersUnchanged
    <2>. QED  BY <1>8, <2>1, <2>4, ResponsesFrame DEF HoldsFd
  <1>9. CASE CreateWorker
    <2>1. created + 1 \in Workers /\ wpc[created + 1] = "none"
      BY <1>9, ThreadCountAssumption DEF CreateWorker, Lifecycle, Crew, MainTypeOK,
            WorkerTypeOK, Workers
    <2>2. \A v \in Workers : wpc'[v] = IF v = created + 1 THEN "pop" ELSE wpc[v]
      BY <1>9, <2>1 DEF CreateWorker, WorkerTypeOK
    <2>3. HoldersUnchanged
      <3>1. \A v \in Workers : HoldsFd(v)' <=> HoldsFd(v)
        BY <2>1, <2>2 DEF HoldsFd
      <3>2. count' = count /\ Contents' = Contents
        BY <1>9, RingUnchanged DEF CreateWorker, queueVars, ring
      <3>. QED  BY <1>9, <3>1, <3>2 DEF CreateWorker, HoldersUnchanged, MainHolds
    <2>. QED  BY <1>9, <2>2, <2>3, ResponsesFrame DEF CreateWorker
  <1>10. ASSUME NEW c \in Clients, Accept(c) PROVE Responses'
    BY <1>10, AcceptResponses
  <1>11. CASE Submit
    BY <1>11, SubmitResponses
  <1>12. CASE Refuse
    BY <1>12, RefuseResponses
  <1>13. ASSUME NEW w \in Workers, PopWait(w) PROVE Responses'
    BY <1>1, <1>13 DEF PopWait, Pop, mvars, MainHolds
  <1>14. ASSUME NEW w \in Workers, PopReturn(w) PROVE Responses'
    BY <1>14, PopResponses
  <1>15. ASSUME NEW w \in Workers, PopClosed(w) PROVE Responses'
    <2>1. UNCHANGED ring /\ ~HoldsFd(w)
      BY <1>15 DEF PopClosed, Pop, queueVars, ring, HoldsFd
    <2>. QED  BY <1>8, <1>15, <2>1 DEF PopClosed
  <1>16. ASSUME NEW w \in Workers, ReadRequest(w) PROVE Responses'
    <2>1. wpc[w] = "read" /\ \E x \in {"execute", "reply", "error"} : wpc' = [wpc EXCEPT ![w] = x]
      BY <1>16 DEF ReadRequest
    <2>2. /\ wfor'[w] = files[wfd[w]] /\ \A v \in Workers : v # w => wfor'[v] = wfor[v]
          /\ UNCHANGED <<ring, files, conn, resp, mvars, wfd>>
      BY <1>16 DEF ReadRequest, WorkerTypeOK, queueVars, ring
    <2>. QED  BY <1>8, <2>1, <2>2
  <1>17. ASSUME NEW w \in Workers, ExecuteSql(w) PROVE Responses'
    <2>1. /\ wpc[w] = "execute" /\ wfor' = wfor
          /\ \E x \in {"reply", "error"} : wpc' = [wpc EXCEPT ![w] = x]
          /\ UNCHANGED <<ring, files, conn, resp, mvars, wfd>>
      BY <1>17 DEF ExecuteSql, queueVars, ring
    <2>2. wfor[w] = files[wfd[w]]
      BY <2>1 DEF Responses
    <2>. QED  BY <1>8, <2>1, <2>2
  <1>18. ASSUME NEW w \in Workers, Reply(w) \/ ReplyError(w) PROVE Responses'
    BY <1>18, ReplyResponses
  <1>19. ASSUME NEW w \in Workers, CloseClient(w) PROVE Responses'
    BY <1>19, CloseResponses
  <1>. QED
    BY <1>2, <1>3, <1>4, <1>5, <1>6, <1>7, <1>9, <1>10, <1>11, <1>12, <1>13, <1>14, <1>15,
       <1>16, <1>17, <1>18, <1>19, Zenon DEF Next, Main, Failure, Worker, Client

-----------------------------------------------------------------------------
(* The theorems.                                                           *)

LEMMA InitInv == Init => IInv
  <1>. SUFFICES ASSUME Init PROVE IInv
    OBVIOUS
  <1>1. QueueTypeOK /\ RingCoherent /\ count = 0 /\ ~shutdown
    BY QueueInitCoherent DEF Init, QueueInit
  <1>2. \A k \in 1..count : FALSE
    BY <1>1
  <1>3. MainTypeOK
    <2>1. 0 \in 0..ThreadCount /\ 0 \in 0..0
      BY ThreadCountAssumption
    <2>. QED  BY <2>1 DEF Init, MainTypeOK
  <1>4. WorkerTypeOK
    BY DEF Init, WorkerTypeOK
  <1>5. ConnectionTypeOK
    BY DEF Init, ConnectionTypeOK
  <1>6. Lifecycle
    BY <1>1 DEF Init, Lifecycle
  <1>7. Crew
    BY <1>1, ThreadCountAssumption DEF Init, Crew
  <1>8. Ownership
    BY <1>2 DEF Init, Ownership, HeldAreOpen, HeldOnce, OpenAreHeld, MainHolds, HoldsFd
  <1>9. Connections
    BY DEF Init, Connections
  <1>10. Responses
    BY <1>2 DEF Init, Responses, MainHolds
  <1>11. ErrorStatus
    BY DEF Init, ErrorStatus
  <1>. QED
    BY <1>1, <1>3, <1>4, <1>5, <1>6, <1>7, <1>8, <1>9, <1>10, <1>11 DEF IInv, TypeOK

LEMMA InvStep == IInv /\ [Next]_vars => IInv'
  <1>. SUFFICES ASSUME IInv, [Next]_vars PROVE IInv'
    OBVIOUS
  <1>1. /\ QueueTypeOK /\ MainTypeOK /\ WorkerTypeOK /\ ConnectionTypeOK /\ RingCoherent
        /\ Lifecycle /\ Crew /\ Ownership /\ HeldAreOpen /\ Connections
        /\ ErrorStatus /\ Responses
    BY DEF IInv, TypeOK, Ownership
  <1>2. QueueTypeOK' /\ RingCoherent'
    BY <1>1, RingStep
  <1>3. MainTypeOK'
    BY <1>1, MainTypeStep
  <1>4. WorkerTypeOK'
    BY <1>1, WorkerTypeStep
  <1>5. ConnectionTypeOK'
    BY <1>1, ConnectionTypeStep
  <1>6. Lifecycle'
    BY <1>1, LifecycleStep
  <1>7. Crew'
    BY <1>1, CrewStep
  <1>8. Ownership'
    BY <1>1, OwnershipStep
  <1>9. Connections'
    BY <1>1, ConnectionsStep
  <1>10. Responses'
    BY <1>1, ResponsesStep
  <1>11. ErrorStatus'
    BY <1>1, ErrorStatusStep
  <1>. QED
    BY <1>2, <1>3, <1>4, <1>5, <1>6, <1>7, <1>8, <1>9, <1>10, <1>11 DEF IInv, TypeOK

LEMMA Invariant == Spec => []IInv
  BY InitInv, InvStep, PTL DEF Spec

\* Every variable of the server keeps its type: thread_pool_init never counts
\* more workers than the thread array has room for, and thread_pool_destroy
\* joins only workers that were created.
THEOREM ServerTypeCorrect == Spec => []TypeOK
  <1>1. IInv => TypeOK
    BY DEF IInv
  <1>. QED  BY <1>1, Invariant, PTL

\* A descriptor held by one has one owner, one that is closed has none.
LEMMA OwnersOfFd ==
    ASSUME IInv, NEW f \in Fds
    PROVE  IF files[f] = NoClient THEN Owners(f) = {} ELSE \E o : Owners(f) = {o}
  <1>0. Ownership
    BY DEF IInv
  <1>1. \A o : o \in Owners(f) <=>
             \/ o = <<"main", 0>> /\ MainHolds /\ mfd = f
             \/ \E k \in 1..count : o = <<"queue", k>> /\ Contents[k] = f
             \/ \E w \in Workers : o = <<"worker", w>> /\ HoldsFd(w) /\ wfd[w] = f
    BY Zenon DEF Owners, MainHolds
  <1>2. CASE files[f] = NoClient
    <2>1. /\ ~(MainHolds /\ mfd = f)
          /\ \A k \in 1..count : Contents[k] # f
          /\ \A w \in Workers : ~(HoldsFd(w) /\ wfd[w] = f)
      BY <1>0, <1>2 DEF Ownership, HeldAreOpen
    <2>2. \A o : o \notin Owners(f)
      BY <1>1, <2>1, Zenon
    <2>. QED  BY <1>2, <2>2
  <1>3. ASSUME files[f] # NoClient, MainHolds, mfd = f
        PROVE  Owners(f) = {<<"main", 0>>}
    <2>1. /\ \A k \in 1..count : Contents[k] # f
          /\ \A w \in Workers : ~(HoldsFd(w) /\ wfd[w] = f)
      BY <1>0, <1>3 DEF Ownership, HeldOnce
    <2>2. \A o : o \in Owners(f) <=> o = <<"main", 0>>
      BY <1>1, <1>3, <2>1, Zenon
    <2>. QED  BY <2>2
  <1>4. ASSUME NEW k \in 1..count, Contents[k] = f
        PROVE  Owners(f) = {<<"queue", k>>}
    <2>1. /\ ~(MainHolds /\ mfd = f)
          /\ \A j \in 1..count : Contents[j] = f => j = k
          /\ \A w \in Workers : ~(HoldsFd(w) /\ wfd[w] = f)
      BY <1>0, <1>4 DEF Ownership, HeldOnce
    <2>2. \A o : o \in Owners(f) <=> o = <<"queue", k>>
      BY <1>1, <1>4, <2>1, Zenon
    <2>. QED  BY <2>2
  <1>5. ASSUME NEW w \in Workers, HoldsFd(w), wfd[w] = f
        PROVE  Owners(f) = {<<"worker", w>>}
    <2>1. /\ ~(MainHolds /\ mfd = f)
          /\ \A j \in 1..count : Contents[j] # f
          /\ \A v \in Workers : HoldsFd(v) /\ wfd[v] = f => v = w
      BY <1>0, <1>5 DEF Ownership, HeldOnce
    <2>2. \A o : o \in Owners(f) <=> o = <<"worker", w>>
      BY <1>1, <1>5, <2>1, Zenon
    <2>. QED  BY <2>2
  <1>. QED  BY <1>0, <1>2, <1>3, <1>4, <1>5 DEF Ownership, OpenAreHeld

\* For any number of workers, clients and descriptors, and however accept,
\* try_push, pop, refusal, handler and teardown interleave: an open client
\* descriptor is held by exactly one of the accept loop, the queue and a worker,
\* and a closed one by nobody. So none leaks and none is closed twice.
THEOREM ServerOneOwner == Spec => []OneOwner
  <1>1. IInv => OneOwner
    <2>. SUFFICES ASSUME IInv, NEW f \in Fds
                  PROVE  Cardinality(Owners(f)) = IF files[f] = NoClient THEN 0 ELSE 1
      BY DEF OneOwner
    <2>1. CASE files[f] = NoClient
      BY <2>1, OwnersOfFd, FS_EmptySet
    <2>2. CASE files[f] # NoClient
      <3>1. PICK o : Owners(f) = {o}
        BY <2>2, OwnersOfFd
      <3>. QED  BY <2>2, <3>1, FS_Singleton
    <2>. QED  BY <2>1, <2>2
  <1>. QED  BY <1>1, Invariant, PTL

\* No client is answered twice or with somebody else's response, although
\* descriptors are reused as soon as they are closed, and the server closes no
\* connection before it wrote its response, unless that was an error response for
\* whose body http_send_error_response got no memory.
THEOREM ServerAnsweredOnce == Spec => []AnsweredOnce
  <1>1. IInv => AnsweredOnce
    <2>. SUFFICES ASSUME IInv, NEW c \in Clients
                  PROVE  /\ Len(resp[c]) <= 1
                         /\ conn[c] = "closed" => Len(resp[c]) = 1
                         /\ \A k \in 1..Len(resp[c]) : Rightful(resp[c][k], c)
      <3>1. \A n \in Nat : n = 1 => 1 \in 1..n
        OBVIOUS
      <3>. QED  BY <3>1 DEF AnsweredOnce, Rightful
    <2>1. Responses /\ Connections /\ Ownership /\ ConnectionTypeOK
      BY DEF IInv, TypeOK
    <2>2. resp[c] = <<>> \/ Len(resp[c]) = 1
      <3>1. CASE conn[c] # "open"
        BY <2>1, <3>1 DEF Responses, ConnectionTypeOK
      <3>2. CASE conn[c] = "open"
        <4>1. PICK f \in Fds : files[f] = c
          BY <2>1, <3>2 DEF Connections
        <4>2. c # NoClient
          BY NoClientAssumption
        <4>3. \/ MainHolds /\ mfd = f
              \/ \E k \in 1..count : Contents[k] = f
              \/ \E w \in Workers : HoldsFd(w) /\ wfd[w] = f
          BY <2>1, <4>1, <4>2 DEF Ownership, OpenAreHeld
        <4>. QED  BY <2>1, <4>1, <4>3 DEF Responses, HoldsFd
      <3>. QED  BY <3>1, <3>2
    <2>. QED  BY <2>1, <2>2 DEF Responses
  <1>. QED  BY <1>1, Invariant, PTL

\* thread_pool_destroy and the error path of thread_pool_init free the queue,
\* and server_destroy the SQL engine, only when every worker that was created
\* has returned.
THEOREM ServerNoUseAfterFree == Spec => []NoUseAfterFree
  <1>1. IInv => NoUseAfterFree
    BY DEF IInv, Lifecycle, Crew, NoUseAfterFree
  <1>. QED  BY <1>1, Invariant, PTL

\* When main returns no connection is left in the backlog or open: what was
\* queued when server_run ended was still served.
THEOREM ServerNothingLeftBehind == Spec => []NothingLeftBehind
  <1>1. IInv => NothingLeftBehind
    <2>. SUFFICES ASSUME IInv, mpc = "exited", NEW c \in Clients
                  PROVE  conn[c] \notin {"backlog", "open"}
      BY DEF NothingLeftBehind
    <2>1. Lifecycle /\ Crew /\ Connections /\ Ownership
      BY DEF IInv
    <2>2. ~listening /\ ~pool /\ count = 0
      BY <2>1 DEF Lifecycle, Crew
    <2>3. /\ ~MainHolds /\ \A k \in 1..count : FALSE
          /\ \A w \in Workers : ~HoldsFd(w)
      BY <2>1, <2>2 DEF Crew, MainHolds, HoldsFd
    <2>4. \A f \in Fds : files[f] = NoClient
      BY <2>1, <2>3 DEF Ownership, OpenAreHeld
    <2>. QED  BY <2>1, <2>2, <2>4, NoClientAssumption DEF Connections
  <1>. QED  BY <1>1, Invariant, PTL
=============================================================================
