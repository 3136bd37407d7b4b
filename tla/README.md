# A TLA+ verification of mini_db_server

This directory models the threaded SQL server of this repository
(`src/server_main.c` and what it links), and the statement loop of the command
line program, in TLA+, checks the models with TLC and
proves theorems about the task queue, the server, the SQL engine and the request
path with TLAPS. Paths below are relative to the
repository; `PROJECT.json` ties every definition to its lines.

## 1. The system

A client opens a TCP connection, sends one HTTP request (`POST /query` with
`{"sql": "..."}`, or `GET /health`), gets one JSON response, and the server
closes the connection.

| component | state it keeps | operations | correct when |
|---|---|---|---|
| task queue (`task_queue.c`) | ring of descriptors, head, tail, count, shutdown flag, mutex, two condition variables | try_push, push, pop, shutdown, destroy | bounded FIFO, no lost wakeup, everybody gets out after shutdown |
| thread pool (`thread_pool.c`) | thread array, created_count, started, the queue | init, try_submit, worker loop, shutdown, destroy | nothing is freed while a worker runs, every join returns |
| server (`server.c`, `server_main.c`) | listen_fd, pool, db_api | init, accept loop, request handler, destroy | each descriptor has one owner, each client one answer |
| HTTP layer (`http.c`) | none (a buffer per call) | read request, send response | limits kept, any split of the bytes gives the same request |
| JSON (`json_parser.c`, `json_writer.c`) | none | find the field `sql`; write the answer | the SQL executed is the one of a well-formed body; answers decode to the stored values |
| SQL adapter (`db_api.c`) | the execution context and one read-write lock | init, execute_sql, destroy | statements are linearizable, the lock is always released |
| table runtime (`runtime.c`) | array of tables: schema, next_id, id index | preload, get-or-load, rebuild index from file | cache, index and file agree; a pointer into the array stays good |
| executor (`executor.c`) | none of its own | INSERT with a generated id, SELECT by scan, filter or index | ids are fresh, results are the rows of one instant |
| storage (`storage.c`) | one `.data` file per table | append with offset, scan, read at offset | one line is one row; acknowledged rows stay |
| B+ tree (`bptree.c`) | nodes with keys, children or offsets, parent, next | search, insert with splits, validate, destroy | a search tree that finds what it stored |
| lexer, parser (`lexer.c`, `parser.c`) | a statement that owns its texts | tokenize; parse the next statement; free | tokens are the text; the grammar's statements and no others; nothing leaks or is freed twice |
| schema files (`schema.c`) | column names in order | load, find a column | columns are found by name |
| command line program (`main.c`) | cursor in the token array | parse and execute, statement by statement | what was executed is a prefix of the file |
| benchmarks | none shared | measure time | |

Interaction. The main thread accepts and calls `thread_pool_try_submit`; the
queue passes the descriptor number to a worker; the worker reads, routes, calls
`db_api_execute_sql` and closes. Workers share the queue (under its mutex), the
execution context (under `db_rwlock`), the data files (under `db_rwlock` too)
and the process's descriptor table (under nothing: only by who owns a number).

What is hard here: signals and sleepers of the two condition variables;
shutdown and the error path of `thread_pool_init` while workers run; descriptor
numbers that are reused; the gap between the two critical sections of a SELECT;
the three-part effect of an INSERT (file, index, next_id), of which the later
parts can fail; writes cut off within a line; next_id at the end of its range;
B+ tree insertions that fail between a split and its parent; requests cut into
pieces around the size limits; a second statement hidden behind the first;
error paths on which several functions free parts of a statement; values with
the special characters of four notations; id columns anywhere in a schema.
`PROJECT.json` lists each as a hazard, at its line, with the properties that watch it.

## 2. The modules

| module | models | used by |
|---|---|---|
| `TaskQueue` | `task_queue.c`, as actions without a scheduler | `QueueClients`, `Server` |
| `QueueClients` | producers (both pushes), workers, a shutdown | `QueueProofs` |
| `BoundedFifo` | abstract: what the queue promises | refined by `QueueClients` |
| `TaskQueueTheorems` | lemmas about the ring and its operations | `QueueProofs`, `ServerProofs` |
| `QueueProofs` | theorems about `QueueClients` | |
| `Server` | main thread, workers, descriptors and clients around the queue | `MCServer`, `ServerProofs` |
| `ServerProofs` | theorems about `Server` | |
| `DbApi` | `db_api_execute_sql` with cache, executor and files, in several threads | `MCDbApi`, `DbApiProofs` |
| `AtomicTables` | abstract: what a client of `POST /query` is promised | refined by `DbApi` |
| `SetInduction` | lemmas: induction, least and largest members, for sets of numbers | `DbApiProofs`, `RequestPathProofs`, `BPTreeProofs`, `ValuePathProofs` |
| `DbApiProofs` | the inductive invariant of `DbApi`: lock, cache, pointers; theorems that hold whatever fails; theorems about rows, ids and index under given failures, and that `DbApi` implements `AtomicTables` | |
| `BPTree` | `bptree.c` node by node | `BPTreeProofs` |
| `BPTreeProofs` | theorems about `BPTree` | |
| `HttpIo` | `http.c`: one connection's bytes, in and out, piece by piece | `RequestPath` |
| `SqlFront` | `parser.c` under its two callers, `db_api.c` and `main.c`, token by token | `RequestPath` |
| `RequestPath` | the handler from the first byte to the last, or the command line program | `MCRequestPath`, `RequestPathProofs` |
| `RequestPathProofs` | theorems about bytes in and out, about a statement's memory, and about what of a text is answered and executed | |
| `Lexer` | `lexer.c`, token by token over characters | `ValuePath` |
| `JsonBody` | `json_extract_string_field`, lexeme by lexeme | `ValuePath` |
| `TableColumns` | `schema.c`, and `executor.c` as far as it is about columns | `ValuePath` |
| `ValuePath` | a value through JSON, SQL literal, data file and answer | `MCValuePath`, `ValuePathProofs` |
| `ValuePathProofs` | theorems about texts in JSON, in SQL and in a data file | |

Definitions called "Faulty X" are variants of X with one plausible bug. No
specification uses them; they stand beside X to record which bug each property
detects (`mutants` in `PROJECT.json`).

**TaskQueue, QueueClients.** A step is what a thread does from getting the mutex
to giving it up, so one action is one pass through a function, or the part of it
up to or from a `pthread_cond_wait`. A condition variable is the set of threads
asleep on it; a signal takes one of them out, a broadcast all, a spurious wakeup
any. A thread that was taken out must get the mutex again and repeat its test,
and others may come first. `Capacity` is `queue_capacity`.

**Server.** `mpc` is the main thread's place in `server_init`, `server_run` and
`server_destroy`, `wpc[w]` a worker's in `thread_pool_worker_main` and
`server_handle_client_task`. `files` is the kernel's descriptor table: `Accept`
takes the lowest free number, and every read, write and close goes through
`files`, so a stale number reaches the wrong client in the model as it would in
the process. Messages are what the handler distinguishes (readable or not, path,
method, body). The SQL engine is external here and answers with any status.
`pthread_create`, `accept` and every call of `server_init` may fail, and so may
`http_send_error_response` before it has sent a byte, when there is no memory for
the body (`SendError`); its callers ignore that and close the connection. A body that
exists already, that of `/health` and the JSON of `db_api_execute_sql`, is sent
without an allocation (`Reply`). `resp` has the responses the server set out to write,
each with whether it was built. The branch
of `server_run` for a queue that was shut down under it is modelled (`Submit`,
`Refuse`), and the runs show that it is never taken: only the thread that runs
`server_run` ever shuts the queue down.

**DbApi.** `pc[t]` follows `db_api_execute_sql`: want the write lock, preload,
unlock, want the read lock, look the table up again, scan row by row or search
and fetch, unlock, answer; or for INSERT: want the write lock, load, append to
the file, add to the index, unlock, answer. `cache[tb]` is the `TableRuntime`; its B+ tree appears
as the function it computes. `gen` counts the reallocations of `ctx.tables`, and
a thread remembers the count at which it got its pointer. A data file is a list
of lines with an optional unterminated last one; `Continue` says what a row
becomes that is appended to such a line: digits run together, values run into
digits, and an escape cut in two makes the line unreadable. Place records tell
the start of a line from a row that begins inside one, because
`read_row_at_offset` reads from an offset. Which faults may happen (`Faults`)
differs from run to run.

**BPTree.** The heap is a sequence of nodes that refer to each other by address,
as in C; `parent` pointers are stored, not derived. Descent, split and the
recursion of `insert_into_parent` are separate steps, so a failed allocation can
strike between them. `Visits`, `ValidVisit` and `ChainKeys` are
`bptree_validate`.

**HttpIo, SqlFront, RequestPath.** `recv` returns any piece of what is left and
`send` takes any piece; both may fail. A text is a sequence of symbols of one
byte each; only CR, LF, the request line and the Content-Length lines are told
apart. In `SqlFront` a token is its kind (the symbols have the names of
`lexer.h`), and the token array is revealed as the
parser looks at it, so that one behaviour stands for all texts which agree up to
the place where the parser stops. A duplicated text is named by the place of its
token; `heap` is what is allocated and the statement's fields are the pointers,
so a leak and a double free are both a difference between the two. `FreeAt`
records which function frees what on each error return. `Sentences` is the
grammar, generated rather than parsed, and it is what the verdicts are compared
with; a text of `MaxTokens` tokens can begin no list of more than `MaxItems`.

**Lexer, JsonBody, TableColumns, ValuePath.** `Lexer` reads one token at a step;
of each class of characters one or two are enough, and a keyword is a letter of
its own. `JsonBody` chooses the body lexeme by lexeme like `SqlFront`, and keeps
track of the two strings the parser has on the heap. `TableColumns` loads a
schema line by line, in any order of columns, and executes INSERTs and a SELECT
on it; `named` records what each INSERT said by column name and is what answers
are compared with. `ValuePath` sends a pair of values through everything:
`SqlText` and `ClientEncodes` are a client's (external), then
`ParseJsonString`, the lexer, `EscapeField`, `RowLine`, `ReadLine`, `Split`,
`UnescapeField`, `NormalizeFieldCount` and `JsonAppendEscapedString` are the
server's. Its other entries give the lexer, the JSON parser, the file reader and
the table any short input.

## 3. The runs

| run | instance | distinct states | shows |
|---|---|---|---|
| `queue` | 2 producers, 3 workers, 2 tasks, ring of 2, fair | 132 288 | `TypeOK`, `RingCoherent`, `NoLostTaskWakeup`, `NoLostRoomWakeup`, `ImplementsFifo`, `ImplementsFifoProgress`, `ShutdownTerminates` |
| `server_safety` | 2 workers, queue of 1, 3 clients, 3 descriptors, 2 kinds of request | 4 329 686 | `OneOwner`, `AnsweredOnce`, `NoUseAfterFree`, `NothingLeftBehind`, `TypeOK` |
| `server_liveness` | 2 workers, 2 clients, 4 kinds of request, fair | 506 994 | `EveryAcceptedClientIsServed`, `TeardownTerminates` |
| `db_atomic` | 3 threads, 10 statements over 2 tables and a missing one, ids to 3 | 1 245 718 | `CacheStableUnderRead`, `NextIdIsMaxPlusOne`, `IndexMatchesFile`, `ImplementsAtomicTables` |
| `db_faults` | 2 threads, cut off writes, failing allocations | 3 494 725 | `AckedRowsReadable` |
| `db_crash` | 2 threads, crashes, failing allocations and index insertions | 860 836 | `AckedRowsSurvive`, `TypeOK` |
| `db_progress` | 3 threads that never stop asking, fair | 3 681 | `EveryStatementAnswered` |
| `bptree` | order 3, 7 keys in every order, one insertion that fails halfway | 654 253 | `NodesValid`, `ParentKnowsChild`, `DescentFindsKey`, `ChainValid`, `DestroyFreesAll`, `TypeOK` |
| `request_path` | 576 requests cut anywhere, header limit 11, body limit 2; every text of up to 13 tokens | 446 588 | `BytesAccountedFor`, `PiecesMakeNoDifference`, `ResponseIsWhole`, `ApiVerdictIsDeserved`, `ExecutedIsThePrefix`, `HeapIsOwned` |
| `value_path` | pairs of values of 9 special characters, texts of 4 characters, bodies of 14 lexemes, files of 6 characters, schemas of 3 lines | 289 586 | `TokensAreTheText`, `BodyVerdictIsDeserved`, `LiteralIsTheValue`, `RowsReadBack`, `AnswerIsWhatWasRead`, `SelectAnswersByName` |
| `db_restore` | as `db_crash` | stops | violation of `Restorable` |
| `db_torn_write` | cut off writes | stops | violation of `AckedRowsSurvive` |

Run one with `tlc -workers 2 -config DbAtomic.cfg MCDbApi`, and the proofs of a
module with `tlapm DbApiProofs.tla`. Deadlock is checked in every run; where the system may
really stop (the program has exited, a run is out of ids) the module has a
stuttering step of its own or a statement that is still possible.

Why the bounds are enough. *Queue:* with a ring of two, full, partly filled and
empty differ and the indexes wrap at every second task; three workers are needed
for a worker that overtakes the one that was signalled while a third sleeps.
*Server:* three clients over a queue of one and two
workers make one connection queued, one in work and one refused at once, and the
descriptor number of a closed connection goes to the next one. *DbApi:* three
threads give a reader, a second reader or loader, and a writer in the gap
between the critical sections of the first. `MaxId` 3 (2, 1) stands for
`UINT64_MAX`: the counter really wraps. `MaxRows` and `MaxStored` only stop new
INSERTs on long files; they matter when faults put rows with ids in any order
into a file. *BPTree:* order 3 is the smallest for which leaves, internal nodes
and the root split within seven keys (an even order needs ten for the split of
an internal node); the code's order is 64 and the arithmetic of the split is the
same expression. `MaxNodes` bounds the nodes that a failed insertion leaves
behind. *RequestPath:* the limits are chosen so that headers end before, at, one
behind and far behind the limit, and bodies are absent, short, full and too
long; a header one byte too long still fits into the buffer, which is the case
in which only the second test of the limit refuses it. Thirteen tokens hold an
INSERT with a column list in which one of its lists has two members, or a SELECT
with WHERE and another statement behind it, or three statements of the command
line program.
*ValuePath:* two adjacent characters decide every escape, and a third in the
other column crosses a separator; fourteen lexemes hold three members, so that a
second and a third `sql` occur; with three columns the id stands first, in the
middle and last. The theorems of section 4 hold without these bounds.

Symmetry is used for threads, tasks and clients in runs that check safety only;
none of these is compared or ordered by the specifications.

What `server_safety` says of the code. A connection may be closed without any
response, in one case only: the answer is an error (or the refusal of a full queue)
and there is no memory for its body. `AnsweredOnce` states this exception; a result
is always written before the close. (Written means handed to `write_all`, which
itself may fail, see `ResponseIsWhole`.)

What `request_path` and `value_path` say of the code. A carriage return at
the end of a value in the last column is lost, because `read_line` strips it and
`escape_field` does not escape it; `RowsReadBack` states exactly this exception
and no other. Over HTTP, values with control characters other than newline,
carriage return and tab cannot be stored: a JSON encoder writes them as
`\uXXXX`, which `parse_json_string` refuses, while the server's own answers use
that notation (`LiteralIsTheValue`). Of several `sql` members the first is
executed, and only if the whole body is well-formed (`BodyVerdictIsDeserved`).
The command line program executes statements before it has parsed the later
ones, so a file with an error in its last statement takes effect up to it
(`ExecutedIsThePrefix`). That a full queue bounds the number of open descriptors
follows from `OneOwner`: every descriptor is queued, with a worker or with the
accept loop.

### Fairness

* `QueueClients`: a thread inside a push, a pop or a handler keeps running (weak
  fairness per thread: the mutex is held for a few instructions and the
  scheduler is preemptive). Nobody has to call push or shutdown, and no spurious
  wakeup is owed.
* `Server`: the main thread and the workers keep running. A client that
  connected sends its request or closes: `http_read_request` has no timeout, so
  a client that does neither keeps its worker, and a teardown with it, for ever.
  This assumption is about the clients and the code does not enforce it. Nothing
  is assumed about failures or about connecting.
* `DbApi`: threads with a statement keep running, and a thread for which the lock
  is free again and again gets it (strong fairness of the three lock actions).
  POSIX promises less; but strong fairness says nothing for a writer that never
  finds the lock free of readers, so it does not assume the property away. That
  readers cannot starve writers comes from the preload: every SELECT takes the
  write lock before it reads.

### Findings

* `db_restore`. `bptree_insert` fails on an allocation after the row was
  appended; `execute_insert` returns an error and leaves the row in the file and
  `next_id` where it was. The next INSERT appends a second row with the same id
  and succeeds. After a restart `build_id_index_for_table` rejects the file as
  holding a duplicate id, and every statement on the table fails.
  `week7/docs/workOrder.md:677` requires that an index can be restored from an
  existing data file; `docs/GPT_PROJECT_SPEC.md:958` mentions the missing
  rollback, not this consequence.
* `db_torn_write`. A write fails halfway and is reported, but what was written
  stays. The next INSERT continues the unterminated line and is acknowledged; no
  line of the file is its row. In the running server the row is still found by
  its id, because the index has the offset inside the line (that is
  `AckedRowsReadable`), but scans and the next start see something else.
  `week6/docs/originWorkOrder.md:695` and `:288` say that all rows can be read
  back and that one line is one row.

A third effect is described by the conditions of the `BPTree` properties: after
an insertion that failed between a split and its parent, keys stored earlier are
no longer found by descent and the chain has keys that are not counted, until the
table is loaded again (`week7/docs/studyHelper.md:501` calls the order of the
chain a core invariant). `NodesValid` and `ParentKnowsChild` hold even then.

## 4. The proofs

Every theorem below is proved with TLAPS for every value of the constants that
the named assumptions allow: any capacity, any number of threads, tables,
clients, statements, bytes and tokens, any order of the tree and any set of keys,
texts, values and files of any characters and any length.

| theorem | module | states that `Spec` implies | provided that |
|---|---|---|---|
| `TypeCorrect` | `QueueProofs` | `[]TypeOK` | |
| `RingIsCoherent` | `QueueProofs` | `[]RingCoherent` | |
| `QueueRefinesFifo` | `QueueProofs` | `ImplementsFifo` | |
| `NoLostWakeup` | `QueueProofs` | `[](NoLostTaskWakeup /\ NoLostRoomWakeup /\ NobodySleepsAfterShutdown)` | |
| `NoRoomWakeupIsLost` | `QueueProofs` | `[]NoLostRoomWakeup` | |
| `ServerTypeCorrect` | `ServerProofs` | `[]TypeOK` | |
| `ServerOneOwner` | `ServerProofs` | `[]OneOwner` | |
| `ServerAnsweredOnce` | `ServerProofs` | `[]AnsweredOnce` | |
| `ServerNoUseAfterFree` | `ServerProofs` | `[]NoUseAfterFree` | |
| `ServerNothingLeftBehind` | `ServerProofs` | `[]NothingLeftBehind` | |
| `DbTypeCorrect` | `DbApiProofs` | `[]TypeOK` | |
| `DbCacheStableUnderRead` | `DbApiProofs` | `[]CacheStableUnderRead` | |
| `DbAckedRowsSurvive` | `DbApiProofs` | `[]AckedRowsSurvive` | no write is cut off |
| `DbNextIdIsMaxPlusOne` | `DbApiProofs` | `[]NextIdIsMaxPlusOne` | only crashes and plain allocations fail |
| `DbIndexMatchesFile` | `DbApiProofs` | `[]IndexMatchesFile` | the same |
| `DbRestorable` | `DbApiProofs` | `[]Restorable` | the same |
| `DbAckedRowsReadable` | `DbApiProofs` | `[]AckedRowsReadable` | no crash, no failing `bptree_insert` |
| `DbImplementsAtomicTables` | `DbApiProofs` | `ImplementsAtomicTables` | nothing fails |
| `BPTreeTypeCorrect` | `BPTreeProofs` | `[]TypeOK` | |
| `BPTreeParentKnowsChild` | `BPTreeProofs` | `[]ParentKnowsChild` | |
| `BPTreeNodesValid` | `BPTreeProofs` | `[]NodesValid` | |
| `BPTreeDescentFindsKey` | `BPTreeProofs` | `[]DescentFindsKey` | |
| `BPTreeChainValid` | `BPTreeProofs` | `[]ChainValid` | |
| `BPTreeDestroyFreesAll` | `BPTreeProofs` | `[]DestroyFreesAll` | |
| `RequestBytesAccountedFor` | `RequestPathProofs` | `[]BytesAccountedFor` | |
| `PiecesDoNotMatter` | `RequestPathProofs` | `[]PiecesMakeNoDifference` | |
| `AnswerIsWhole` | `RequestPathProofs` | `[]ResponseIsWhole` | |
| `StatementMemoryIsOwned` | `RequestPathProofs` | `[]HeapIsOwned` | |
| `ApiAnswersAsDeserved` | `RequestPathProofs` | `[]ApiVerdictIsDeserved` | |
| `ExecutedInOrder` | `RequestPathProofs` | `[]ExecutedIsThePrefix` | |
| `BodyIsJudgedByTheGrammar` | `ValuePathProofs` | `[]BodyVerdictIsDeserved` | |
| `TokensAreAlwaysTheText` | `ValuePathProofs` | `[]TokensAreTheText` | |
| `LiteralIsAlwaysTheValue` | `ValuePathProofs` | `[]LiteralIsTheValue` | |
| `AnswerIsAlwaysWhatWasRead` | `ValuePathProofs` | `[]AnswerIsWhatWasRead` | |
| `RowsAreAlwaysReadBack` | `ValuePathProofs` | `[]RowsReadBack` | |
| `SelectAlwaysAnswersByName` | `ValuePathProofs` | `[]SelectAnswersByName` | |

**Assumptions.** They are named `ASSUME`s in the modules that declare the
constants, and TLC evaluates them in the runs. The ones that say more than the
kind of a constant: `CapacityAssumption` and `ThreadCountAssumption`
(`task_queue_init` and `thread_pool_init` refuse 0), `NoTaskAssumption`,
`NoClientAssumption`, `NoThreadAssumption` and `ValuesAssumption` (a marker for
"none" or "unreadable" is not a real value), `ThreadsAssumption` (threads can be
counted), `ResponseAssumption` (the header of an answer is not empty),
`TextAssumption` (texts and values are sequences of characters),
`InsertListsAssumption` (the column lists of INSERTs are sequences of names),
`NumeralAssumption` (`snprintf` writes different ids as different texts) and the
second half of `FaultsAssumption`: where writes are cut off, ids have at most
three digits. That one is a limit of the model (`Shift` and `DigitPrefixes`
cut numbers of three digits), not of the code; it binds `DbAckedRowsReadable`
and the theorems that hold whatever fails only when `"torn"` is among the faults.

**Failures as hypotheses.** Where the last column names failures, the theorem
has the hypothesis `Faults \subseteq ...`, and the runs `db_torn_write` and
`db_restore` show why it is needed: with cut off writes `AckedRowsSurvive` fails,
and with a failing `bptree_insert` `Restorable` fails. `DbRestorable` is the
other half of the finding: these two failures are the only way to a file that
cannot be loaded again.

**The queue.** `TypeOK` is inductive by itself. `RingCoherent` needs `TypeOK`, and
lemmas on arithmetic modulo the capacity: the slots from head on are distinct for
one lap (`SlotInjective`), and moving head by one renumbers them (`SlotShift`).
From them follow `EnqueueEffect` and `DequeueEffect`, which say that the ring's
contents, read from head, change by `Append` and `Tail`; the refinement is then
one case per action. For wakeups, `NoLostTaskWakeup` (if a worker sleeps, there
are at least as many awake workers on their way to the queue as tasks in it) is
not inductive: a worker that leaves a closed queue reduces the awake ones. The
strengthening is `NobodySleepsAfterShutdown`, after which the premise is false.
The cardinality steps use that a signal moves exactly one sleeper to the awake
ones, and that a pop takes away one awake worker and one task together.

**The server.** The invariant `IInv` has, beside types and ring, six parts.
`Lifecycle` ties the main thread's place to the flags of pool and queue;
`Crew` says which workers exist, and that a worker has left its loop only if the
queue is closed and empty, which is why joining is enough. `Ownership` says that
whoever holds a descriptor holds an open one (`HeldAreOpen`), that no two hold the
same (`HeldOnce`), and that every open one is held (`OpenAreHeld`); `OneOwner`
alone is not inductive, because it does not know who is allowed to close.
`Connections` makes descriptor table and connections describe each other, so
that a number which `Accept` reuses cannot lead to an earlier client, and
`Responses` says at which places a client already has its answer, and that an answer
which was not built is an error; `ErrorStatus` says the same of a worker on its way
to `http_send_error_response`. Nothing is assumed of the sets of clients and descriptors, which may be infinite.

**The SQL engine.** `IInv` of `DbApiProofs` is: `Types`; `Exclusion` (the lock is
held where the code needs it, by one writer or by readers); `Statements` (what a
thread may rely on at each place: its table is in the cache, its pointer into
`ctx.tables` was taken since the last reallocation, its offset is one of the
file); and `Files` (no id 0; offsets in an index are in the file). It is
inductive whatever fails. Each theorem about rows has one more invariant
beside it: `Durable` (a row that is promised, or being indexed, is in the file);
`Numbers` (the ids of a file are 1 to its length in order, next_id and index are
level with it, except for the table of the one thread between append and index);
and `Readable`, which follows the offset of an acknowledged row, where a place is
`Firm` if later appends cannot change what is read there. `DbImplementsAtomicTables`
uses `Numbers` and `Agrees`: what a scan has found so far is what
`AtomicTables` chooses from the rows up to there. An INSERT takes effect in the
abstract specification at the append, a SELECT at the end of its scan or at its
fetch, and `LinStep` maps every step to one of these or to a stutter.

**The B+ tree.** The properties speak of all paths from the root, which no
induction over steps can hold on to. `IInv` of `BPTreeProofs` says instead that
there is a shape `s` which gives every node of the heap a range of keys
(`s.lo`, `s.hi`) and a height, such that node by node everything fits: the keys of
a node ascend inside its range, a child knows its parent, is one lower, and has
its range inside the part that the separators around it leave (`Sound`). Every
action then changes `s` at one or two nodes only, and its proof says how: a split
halves a range at the promoted key, a new root gets the range of everything.
The parts of the invariant are of two kinds. `Sound`, and `Linked` (from the root
one comes only to nodes of `s.in`, and from them back to the root), use
*containment*, and hold whatever fails: when an allocation fails between a split
and its parent, the right half is lost, which leaves ranges too large and never
wrong. `s.in` is then reduced to the least set that is closed under going to
children. `Exact` (the ranges of the children divide that of their parent
without gaps), `Chained` (a leaf's successor begins where it ends) and `Filled`
(the leaves have exactly the keys inserted) are needed for finding everything and
hold until the first such failure, which is why the last three properties of the
table have `failures = 0` as a premise. While a split is on its way up
(`pc = "parent"`), `Underway` says that the right half is in nobody's list and
that the gap it leaves is just its range (`Whole`).
From `IInv` the six properties follow: `NodesValid` and `DestroyFreesAll` by
induction along the depth of the walk (`Reached`, `NodeReached`), `ChainValid` by
induction along the chain, which ends because its leaves are distinct
(`ChainEnds`, by the pigeonhole principle), with the keys up to each leaf being
those that are stored and below its upper end.
`MaxNodes` and `MaxFailures` occur in the specification only as guards; the
theorems hold for every value of them.

**The request path.** `ReadInv` says, for each loop of `http_read_request`, which
part of the stream is in the buffer (`InBuffer`) and in the body (`InBody`), and
that where the header ends depends on the stream alone; when the function returns,
the result is `Meaning` of the bytes. `SendInv` does the same for the two loops
of sending. `HeapInv` says which fields of a statement cannot be set yet at each
place of the parser, so that what an error return frees is all there is.

**The SQL front.** The grammar generates whole statements, while the parser knows
only where it is. The two are tied together by `Edge(p, k, q)`: at place `p` a
token of class `k` leads to place `q`. On one side, `Advances` and `Refuses` say
that the parser consumes a token exactly along an edge. On the other, a statement
of the grammar is a *plan* (INSERT or SELECT, with its numbers of items); `TextIs`
gives its text token by token, `Walk` says that each of its tokens is an edge, and
`Extend` that wherever a statement has come to, each edge out of there is taken by
some statement with the same beginning, although perhaps with longer lists. Hence
`Reads(toks, first, n, p)`, "some statement begins with these `n` tokens and is at
`p` then", is decided by the last place and the next token (`ReadsMore`,
`ReadsLess`, `ReadsUnique`), a text is `Viable` or a sentence exactly if it `Reads`
to some place or to one where the parser may stop (`ViablePart`, `SentencePart`), and
the longest viable part of `Deserved` ends where the parser does
(`FirstStatement`). The inductive invariant has four parts. `TokensInv`: the cursor
is at the end of what was looked at, and never behind EOF. `GrammarInv`: the tokens
of the statement under way read to where the parser is, or make a whole statement
that could not be longer, with semicolons behind it (`CompleteAt`). `ApiInv`: before
the statement there are only semicolons, and a parser that failed is stuck at a
token without an edge. For `ExecutedIsThePrefix`, `PartsInv` says that the texts kept
so far are those of the identifiers and literals read so far, in their order, and
`HistoryInv` that what was executed covers everything before the statement under way
but semicolons, entry behind entry. Both theorems hold for every `MaxTokens`, which
TLC has at 13.

**The JSON body.** `JsonInv` says where the parser is by the number of lexemes read
(the grammar of an object with flat members repeats every four: `PlaceInv`), that
every lexeme so far fits the grammar, that `found` is the first value of a key
`sql`, and which of its two strings are on the heap (`MembersInv`). A row on its way
has a body of its own, of which `RowInv` says that it is followed to its end.
`BodyIsJudgedByTheGrammar` holds for every `MaxLexemes`.

**The lexer.** `LexInv` of `ValuePathProofs` is `TokensAreTheText` for the part that
was read: every character in front of the cursor is in one token or white space, and
each token has the form of its kind and is followed by nothing that could have made it
longer. For words and numbers that is what the end of a run is (`RunIsLongest`). For a
string literal `tokenize_string` counts quotes in pairs from the left, while the
grammar speaks of runs of quotes; both are tied to the parity of the number of quotes
(`QuotesCounted`): a quote closes the literal if it is the odd one and none follows.

**Values on their way.** A reader undoes a writer character by character of the
*value*, while both loops run over the characters of the *written* text. `Rewritten`
gives for each character of the value the place where its word ends (`Ends`), and
`ReadSoFar` says by induction over the value what the JSON reader has at these
places: the value so far. So `WrittenIsRead` holds for the answer, and `ServerReads` for
the request; only the escape of a control character without a letter stops the
server's reader. For an INSERT, `LiteralRead` shows in the same way that a literal
is read to its last quote and copied as the value. `Stage` then says which token is
next at which place of the client's statement, and `ClientInv` carries this from the
request (`SentInv`) to the end of the lexer. `DataInv` says that rows and answer
are texts, which is what `AnswerIsAlwaysWhatWasRead` needs of them, for files of any
content too.

**Lines of the data file.** `escape_field`, `split_escaped_row` and `unescape_field`
are followed one appended character at a time (`AppendInduction`: a set with the
empty text and with every text one character longer has all texts; `EscapeAppend`,
`SplitAppend`, `UnescapeAppend`). In the one direction, `SplitBack` and `UnescapedBack`
show that the line of any row is split at its own separators and that each field comes
back (`ParsedBack`). In the other, `SplitSoFar` says of any line without a line feed
that the fields split so far, with the separators between them, are the line so far,
and that each of them, if `unescape_field` takes it, is what `escape_field` writes for
its value (`GoesBack`; a backslash that waits for its letter is the case in between):
so a complete line is the line of its row (`ReadIsWritten`). `LineAt` then reads such
a line anywhere in a file: no field brings in a line feed (`EscapedNoLf`), and the
only carriage return `read_line` can take away is the last of the last column
(`KeptJoined`). `StoredInv` says of a stored row what the file is and which lines a
scan or a lookup has read; `ScanInv` says of a scan of any file that no line in front
of the cursor was left out. Both were checked by TLC on the instance of `value_path`
first. `RowsAreAlwaysReadBack` follows, for values and files of any length.

**Columns by name.** `SelectAnswersByName` compares two ways through the rows: the
code's, by places of columns in the schema, and the reader's, by their names.
`ColumnsInv` says that no two columns have the same name, because
`load_table_schema` refuses it; so a name has one place (`PlaceOf`). `RowsInv` says
that every row has, column by column, what its INSERT said of that name, in tables
with and without an id, and that the index leads from an id to the row with this id.
`InsertSays` shows it for a new row, for INSERTs with and without a column list,
wherever the id stands among the columns. Rows come out in the order of the file,
which `Ascending` gives as a recursive function; `AscendingIs` gives its equations,
`AscendingBut` is the order of the columns without the id, and `AscendingOne` is the
case of the index, where at most one row matches. `ScanByName` and `IndexByName` are
then the two ways of `execute_select`; in the second, an id literal in canonical form
equals the text of only one id. The invariant was checked by TLC on the instance of
`value_path` first.

**Induction over data.** The library's induction theorems cannot be
instantiated by the installed provers. `SetInduction` states induction for sets
(a set with 0 and every successor contains `Nat`), from well-foundedness of the
order, and with it the largest id of a file, and the recursive functions
`ChosenUpTo` of `AtomicTables` and `Visits`, `Chain` and `ChainKeys` of `BPTree`,
are handled by hand: that such a function exists is a lemma of its own, after
which its defining equations can be used. For loops over a text the lemma is
`Iterates` (what is computed step by step exists) with `SameSteps` (and is unique).

**Only model-checked.** Liveness, which needs fairness: `ImplementsFifoProgress`,
`ShutdownTerminates`, `EveryAcceptedClientIsServed`, `TeardownTerminates`,
`EveryStatementAnswered`. Every other property of the passing runs is stated by a
theorem of the table.

## 5. Not modelled

* NUL bytes inside a request or a file, and multi-byte characters: no function
  looks inside them, but C strings end at a NUL.
* `\uXXXX` as input: the code refuses it, and the model's `u0001` stands for all
  of them. Of the escapes `\/`, `\b`, `\f`, which are refused too, none is in
  the instance.
* Words: messages of errors, status texts, names of tables and files, the
  formatting of printed results (`result.c`), paths (`build_table_path`).
* Case of keywords: `strings_equal_ignore_case` decides them; a keyword is one
  symbol here.
* Command line arguments (`cli.c`, `server_main.c`), reading the SQL file,
  logging, the benchmarks (`benchmark.c`, `tools/`), which only measure time.
* `DbApi` has tables with an `id` column only: without one an INSERT is the
  append alone. Such tables are in `TableColumns`, without concurrency.
* `parse_statement`, `read_all_rows_from_table` and
  `bptree_validate` as functions: only tests call them (what `bptree_validate`
  tests is stated as properties of `BPTree`).
* A failed `xmalloc` ends the process (`utils.c`). For the data this is `Crash` of
  `DbApi`; `Server` and the text modules do not show it.
* A process that ends inside an append. `Crash` falls between the steps of `DbApi`,
  and the append is one of them. What the file looks like afterwards is that of a
  cut off write: `exit()` flushes what another worker has put into its `FILE` so far, a
  kill leaves what was flushed, and an `escape_field` without memory leaves the
  columns before it. These are the outcomes of the fault `"torn"`, and
  `DbAckedRowsSurvive` excludes them by its hypothesis.
* Which keys are lost when an insertion into the tree fails halfway: `NodesValid` and
  `ParentKnowsChild` hold for the tree that is left, and `DescentFindsKey` and
  `ChainValid` are stated for trees without such a failure only.
* Signals: `server_run` ends only when `accept` fails; `SIGPIPE` is ignored by
  `server_init`, so a write to a client that is gone is a failed write.

## 6. Plan

Done: the models of all components, and proofs about the queue, the server, the
SQL engine, the B+ tree, the HTTP layer, the SQL front, the JSON body, the tokens
and values of a statement, the data file and the columns of a table.

Next:

1. The composition of `Server` with `DbApi` in the place of `ExecuteSql`. Their
   product is beyond TLC at the bounds used here; the interface is narrow (a
   worker holds no lock outside `db_api_execute_sql`, and `FreeDb` comes after
   the joins, which `ServerNoUseAfterFree` proves), so that it is a matter of
   proofs rather than of runs.
