------------------------------- MODULE DbApi -------------------------------
(***************************************************************************)
(* The SQL engine behind POST /query: db_api_execute_sql (src/db_api.c)    *)
(* with the table cache (src/runtime.c), the executor (src/executor.c) and *)
(* the data files (src/storage.c), run by several workers at once under    *)
(* the one read-write lock of DbApi.                                       *)
(*                                                                         *)
(* A SELECT first takes the write lock to put its table into the cache,    *)
(* gives the lock up, and takes it again for reading; an INSERT does all   *)
(* its work under the write lock. Modelled are the tables whose first      *)
(* column is id. A statement is past the parser when it gets here; "valid" *)
(* says whether it fits the schema, tested after the table is loaded.      *)
(*                                                                         *)
(* A data file is a list of lines. Each line is a row unless a write was   *)
(* cut off: then the last line has no newline, and the next row that is    *)
(* appended continues it. The B+ tree is the function it computes, from    *)
(* ids to places in the file.                                              *)
(***************************************************************************)
EXTENDS Integers, Sequences, FiniteSetsExt

CONSTANTS
    Threads,    \* the workers that execute statements
    NoThread,   \* nobody
    NoRequest,  \* no statement
    Tables,     \* table names
    Schemas,    \* the tables that have a schema file
    Values,     \* the values of a row's other columns
    Requests,   \* the statements clients send, see Request
    MaxId,      \* UINT64_MAX (the lines of cut off writes are worked out for
                \* ids of up to three digits, see Shift)
    MaxRows,    \* bound: no INSERT is started on a file with that many lines,
    MaxStored,  \*        or with an id above this one
    Faults      \* what may fail, see Fault

ASSUME MaxIdAssumption == MaxId \in Nat \ {0}
ASSUME NoThreadAssumption == NoThread \notin Threads
ASSUME SchemasAssumption == Schemas \subseteq Tables

\* INSERT, SELECT, SELECT ... WHERE column = val and SELECT ... WHERE id = id,
\* where id 0 stands for every literal that is not a canonical number.
Request == [op : {"insert", "select", "filter", "lookup"}, table : Tables,
            valid : BOOLEAN, val : Values, id : 0..MaxId]
ASSUME RequestsAssumption == Requests \subseteq Request

\* "crash": the process may end at any moment and be started again.
\* "oom":   an allocation, a read of a file, or taking the lock may fail.
\* "index": bptree_insert may fail on an allocation, see the module BPTree.
\* "torn":  a write may be cut off, or reported as failed although it was not.
Fault == {"crash", "oom", "index", "torn"}
ASSUME FaultsAssumption ==
    /\ Faults \subseteq Fault
    /\ "torn" \in Faults => MaxId <= 999

VARIABLES
    file,       \* table -> the lines of its data file
    frag,       \* table -> "none", or where its last, unterminated line was cut
    cache,      \* table -> its TableRuntime
    gen,        \* ctx.table_count: how often ctx.tables was extended
    writer,     \* who holds the lock for writing
    readers,    \* who holds it for reading
    pc,         \* thread -> where it is in db_api_execute_sql
    req,        \* thread -> its statement
    loc,        \* thread -> what it keeps on its stack while it executes
    answer,     \* thread -> the answer it is about to give, an error until it
                \*           knows better
    acked       \* the rows whose INSERT was answered with success

vars == <<file, frag, cache, gen, writer, readers, pc, req, loc, answer, acked>>
store == <<file, frag>>
lock == <<writer, readers>>

Error == [ok |-> FALSE, id |-> 0, rows |-> <<>>]
Inserted(id) == [ok |-> TRUE, id |-> id, rows |-> <<>>]
Selected(rows) == [ok |-> TRUE, id |-> 0, rows |-> rows]

NotLoaded == [loaded |-> FALSE, next |-> 0, index |-> <<>>]
NoRow == [id |-> 0, val |-> ""]
NoPlace == [line |-> 0, start |-> FALSE, row |-> NoRow]
NoLocals == [gen |-> 0, pos |-> 0, place |-> NoPlace, rows |-> <<>>]

Init ==
    /\ file = [tb \in Tables |-> <<>>]
    /\ frag = [tb \in Tables |-> "none"]
    /\ cache = [tb \in Tables |-> NotLoaded]
    /\ gen = 0
    /\ writer = NoThread
    /\ readers = {}
    /\ pc = [t \in Threads |-> "idle"]
    /\ req = [t \in Threads |-> NoRequest]
    /\ loc = [t \in Threads |-> NoLocals]
    /\ answer = [t \in Threads |-> Error]
    /\ acked = {}

Goto(t, where) == pc' = [pc EXCEPT ![t] = where]

-----------------------------------------------------------------------------
(* Lines of a data file.                                                   *)

\* A value that lost its end, or ran into the next row; a missing one; and one
\* that was cut within an escape sequence, where split_escaped_row fails.
Garbled == "garbled"
Blank == ""
Malformed == "malformed"
ASSUME ValuesAssumption == Malformed \notin Values

\* The weight of the first digit to the left of number m.
Shift(m) == IF m < 10 THEN 10 ELSE IF m < 100 THEN 100 ELSE 1000

\* What is left of the digits of m when the rest was not written.
DigitPrefixes(m) == {m, m \div 10, m \div 100} \ {0}

\* Line l, cut at stage s, continued by the text of row: digits run together,
\* a value runs on into the digits of the next row, and the fields after it are
\* unescaped and then dropped (split_escaped_row, normalize_field_count).
Continue(l, s, row) ==
    IF s = "id"
      THEN [id |-> l.id * Shift(row.id) + row.id, val |-> row.val]
      ELSE [id |-> l.id,
            val |-> IF Malformed \in {l.val, row.val} THEN Malformed ELSE Garbled]

\* The lines of table tb after the text of row is appended.
Extended(tb, row) ==
    LET n == Len(file[tb]) IN
    IF frag[tb] = "none"
      THEN Append(file[tb], row)
      ELSE [file[tb] EXCEPT ![n] = Continue(@, frag[tb], row)]

\* Faulty AppendRow: the data file is opened with "wb" instead of "ab+".
AppendRowTruncates(tb, row) ==
    /\ file' = [file EXCEPT ![tb] = <<row>>]
    /\ frag' = [frag EXCEPT ![tb] = "none"]

\* append_row_to_table_with_offset, when every call in it succeeds.
AppendRow(tb, row) ==
    /\ file' = [file EXCEPT ![tb] = Extended(tb, row)]
    /\ frag' = [frag EXCEPT ![tb] = "none"]

\* append_row_to_table_with_offset reports an error: nothing was written, or a
\* part that ends in the id or in the value, or the whole line.
AppendRowFails(tb, row) ==
    \/ UNCHANGED store
    \/ \E p \in DigitPrefixes(row.id) :
          /\ file' = [file EXCEPT ![tb] = Extended(tb, [id |-> p, val |-> Blank])]
          /\ frag' = [frag EXCEPT ![tb] = IF @ = "val" THEN "val" ELSE "id"]
    \/ \E v \in {Garbled, Malformed, row.val} :
          /\ file' = [file EXCEPT ![tb] = Extended(tb, [id |-> row.id, val |-> v])]
          /\ frag' = [frag EXCEPT ![tb] = "val"]
    \/ AppendRow(tb, row)

\* Faulty NextPlace: ftell without the fseek to the end.
NextPlaceUnseeked(tb, row) == [line |-> 1, start |-> TRUE, row |-> row]

\* Faulty NextPlace: the start of the line, not the offset of the row.
NextPlaceOfLine(tb, row) ==
    [line |-> IF frag[tb] = "none" THEN Len(file[tb]) + 1 ELSE Len(file[tb]),
     start |-> TRUE,
     row |-> row]

\* The offset a row appended to tb gets, and what read_row_at_offset finds at a
\* place: the line, or only the row that continued an unterminated one.
NextPlace(tb, row) ==
    [line |-> IF frag[tb] = "none" THEN Len(file[tb]) + 1 ELSE Len(file[tb]),
     start |-> frag[tb] = "none",
     row |-> row]
ReadAt(tb, place) == IF place.start THEN file[tb][place.line] ELSE place.row

-----------------------------------------------------------------------------
(* The table cache: get_or_load_table_runtime.                             *)

Ids(tb) == {file[tb][k].id : k \in DOMAIN file[tb]}
LastId(tb) == Max(Ids(tb) \cup {0})

\* load_table_schema and build_id_index_for_table succeed: every line can be
\* split, no id is repeated, each fits, and there is one left for the next row.
Loadable(tb) ==
    /\ tb \in Schemas
    /\ \A k \in DOMAIN file[tb] : file[tb][k].val # Malformed
    /\ Cardinality(Ids(tb)) = Len(file[tb])
    /\ LastId(tb) < MaxId

IndexOf(tb) ==
    [i \in Ids(tb) |->
        LET k == CHOOSE n \in DOMAIN file[tb] : file[tb][n].id = i
        IN  [line |-> k, start |-> TRUE, row |-> file[tb][k]]]

\* The TableRuntime that is built from the data file.
Loaded(tb) ==
    [loaded |-> TRUE,
     next |-> LastId(tb) + 1,
     index |-> IndexOf(tb)]

\* get_or_load_table_runtime for thread t, which goes on at one of two places.
GetOrLoad(t, tb, found, failed) ==
    \/ /\ cache[tb].loaded
       /\ Goto(t, found)
       /\ UNCHANGED <<cache, gen>>
    \/ /\ ~cache[tb].loaded /\ Loadable(tb)
       /\ cache' = [cache EXCEPT ![tb] = Loaded(tb)]
       /\ gen' = gen + 1
       /\ Goto(t, found)
    \/ /\ ~cache[tb].loaded
       /\ ~Loadable(tb) \/ "oom" \in Faults
       /\ Goto(t, failed)
       /\ UNCHANGED <<cache, gen>>

-----------------------------------------------------------------------------
(* The lock.                                                               *)

AcquireWrite(t) ==
    /\ writer = NoThread /\ readers = {}
    /\ writer' = t
    /\ UNCHANGED readers

AcquireRead(t) ==
    /\ writer = NoThread
    /\ readers' = readers \cup {t}
    /\ UNCHANGED writer

Release(t) ==
    /\ writer' = IF writer = t THEN NoThread ELSE writer
    /\ readers' = readers \ {t}

-----------------------------------------------------------------------------
(* db_api_execute_sql.                                                     *)

\* The bounds of the model. (MaxStored matters when writes are cut off: each
\* write that continues an unterminated id makes it longer.)
Room(tb) == Len(file[tb]) < MaxRows /\ LastId(tb) <= MaxStored

\* Faulty Call: a SELECT relies on the lookup under the read lock.
CallWithoutPreload(t) ==
    /\ pc[t] = "idle"
    /\ \E r \in Requests :
          /\ r.op = "insert" => Room(r.table)
          /\ req' = [req EXCEPT ![t] = r]
          /\ Goto(t, IF r.op = "insert" THEN "wantInsert" ELSE "wantRead")
    /\ UNCHANGED <<store, cache, gen, lock, loc, answer, acked>>

\* Faulty Call: a SELECT skips the preload when the table is cached.
CallPreloadsOnce(t) ==
    /\ pc[t] = "idle"
    /\ \E r \in Requests :
          /\ r.op = "insert" => Room(r.table)
          /\ req' = [req EXCEPT ![t] = r]
          /\ Goto(t, IF r.op = "insert" THEN "wantInsert"
                      ELSE IF cache[r.table].loaded THEN "wantRead" ELSE "wantPreload")
    /\ UNCHANGED <<store, cache, gen, lock, loc, answer, acked>>

\* The statement is parsed; a SELECT goes to its preload.
Call(t) ==
    /\ pc[t] = "idle"
    /\ \E r \in Requests :
          /\ r.op = "insert" => Room(r.table)
          /\ req' = [req EXCEPT ![t] = r]
          /\ Goto(t, IF r.op = "insert" THEN "wantInsert" ELSE "wantPreload")
    /\ UNCHANGED <<store, cache, gen, lock, loc, answer, acked>>

LockForPreload(t) ==
    /\ pc[t] = "wantPreload"
    /\ AcquireWrite(t)
    /\ Goto(t, "preload")
    /\ UNCHANGED <<store, cache, gen, req, loc, answer, acked>>

\* runtime_preload_table
Preload(t) ==
    /\ pc[t] = "preload"
    /\ GetOrLoad(t, req[t].table, "preloaded", "done")
    /\ UNCHANGED <<store, lock, req, loc, answer, acked>>

UnlockPreload(t) ==
    /\ pc[t] = "preloaded"
    /\ Release(t)
    /\ Goto(t, "wantRead")
    /\ UNCHANGED <<store, cache, gen, req, loc, answer, acked>>

LockForRead(t) ==
    /\ pc[t] = "wantRead"
    /\ AcquireRead(t)
    /\ Goto(t, "locate")
    /\ UNCHANGED <<store, cache, gen, req, loc, answer, acked>>

\* can_use_id_index
Indexable(r) == r.op = "lookup" /\ r.id # 0

\* row_matches_where_clause
Matches(r, row) ==
    /\ r.op = "filter" => row.val = r.val
    /\ r.op = "lookup" => row.id = r.id

\* execute_select: the table is looked up again, and the thread keeps a
\* pointer into ctx.tables from here on.
Locate(t) ==
    /\ pc[t] = "locate"
    /\ GetOrLoad(t, req[t].table,
                 IF ~req[t].valid THEN "done"
                   ELSE IF Indexable(req[t]) THEN "search" ELSE "scan",
                 "done")
    /\ loc' = [loc EXCEPT ![t] = [NoLocals EXCEPT !.gen = gen', !.pos = 1]]
    /\ UNCHANGED <<store, lock, req, answer, acked>>

\* One line of scan_table_rows_with_offsets, which ends the statement if it
\* cannot be split, or the end of the file.
ScanRow(t) ==
    LET lines == file[req[t].table]
        row == lines[loc[t].pos]
    IN
    /\ pc[t] = "scan" /\ loc[t].pos <= Len(lines)
    /\ IF row.val = Malformed
         THEN Goto(t, "done") /\ UNCHANGED loc
         ELSE /\ loc' = [loc EXCEPT
                    ![t].rows = IF Matches(req[t], row) THEN Append(@, row) ELSE @,
                    ![t].pos = @ + 1]
              /\ UNCHANGED pc
    /\ UNCHANGED <<store, cache, gen, lock, req, answer, acked>>

ScanEnd(t) ==
    /\ pc[t] = "scan" /\ loc[t].pos > Len(file[req[t].table])
    /\ answer' = [answer EXCEPT ![t] = Selected(loc[t].rows)]
    /\ Goto(t, "done")
    /\ UNCHANGED <<store, cache, gen, lock, req, loc, acked>>

\* execute_select_with_id_index: bptree_search, ...
Search(t) ==
    LET index == cache[req[t].table].index IN
    /\ pc[t] = "search"
    /\ IF req[t].id \in DOMAIN index
         THEN /\ loc' = [loc EXCEPT ![t].place = index[req[t].id]]
              /\ Goto(t, "fetch")
              /\ UNCHANGED answer
         ELSE /\ answer' = [answer EXCEPT ![t] = Selected(<<>>)]
              /\ Goto(t, "done")
              /\ UNCHANGED loc
    /\ UNCHANGED <<store, cache, gen, lock, req, acked>>

\* ... then read_row_at_offset and the test of the WHERE clause on that row.
Fetch(t) ==
    LET row == ReadAt(req[t].table, loc[t].place) IN
    /\ pc[t] = "fetch"
    /\ answer' = [answer EXCEPT ![t] =
          IF row.val = Malformed THEN Error
            ELSE Selected(IF Matches(req[t], row) THEN <<row>> ELSE <<>>)]
    /\ Goto(t, "done")
    /\ UNCHANGED <<store, cache, gen, lock, req, loc, acked>>

\* Faulty LockForInsert: an INSERT takes the lock for reading, like a SELECT.
LockForInsertAsReader(t) ==
    /\ pc[t] = "wantInsert"
    /\ AcquireRead(t)
    /\ Goto(t, "load")
    /\ UNCHANGED <<store, cache, gen, req, loc, answer, acked>>

LockForInsert(t) ==
    /\ pc[t] = "wantInsert"
    /\ AcquireWrite(t)
    /\ Goto(t, "load")
    /\ UNCHANGED <<store, cache, gen, req, loc, answer, acked>>

\* execute_insert: the table is loaded before the statement is validated.
LoadForInsert(t) ==
    /\ pc[t] = "load"
    /\ GetOrLoad(t, req[t].table, IF req[t].valid THEN "append" ELSE "done", "done")
    /\ UNCHANGED <<store, lock, req, loc, answer, acked>>

NewRow(t) == [id |-> cache[req[t].table].next, val |-> req[t].val]

\* next_id has wrapped around to 0: there is no id left.
NoIdLeft(t) ==
    /\ pc[t] = "append" /\ NewRow(t).id = 0
    /\ Goto(t, "done")
    /\ UNCHANGED <<store, cache, gen, lock, req, loc, answer, acked>>

AppendToFile(t) ==
    /\ pc[t] = "append" /\ NewRow(t).id # 0
    /\ loc' = [loc EXCEPT ![t].place = NextPlace(req[t].table, NewRow(t))]
    /\ AppendRow(req[t].table, NewRow(t))
    /\ Goto(t, "index")
    /\ UNCHANGED <<cache, gen, lock, req, answer, acked>>

AppendToFileFails(t) ==
    /\ "torn" \in Faults
    /\ pc[t] = "append" /\ NewRow(t).id # 0
    /\ AppendRowFails(req[t].table, NewRow(t))
    /\ Goto(t, "done")
    /\ UNCHANGED <<cache, gen, lock, req, loc, answer, acked>>

\* The index with the row of thread t, in the table tb of its statement.
Indexed(t, tb) ==
    [i \in DOMAIN cache[tb].index \cup {cache[tb].next} |->
        IF i = cache[tb].next THEN loc[t].place ELSE cache[tb].index[i]]

\* bptree_insert refuses an id it has; then next_id becomes next.
AddAndAdvance(t, next) ==
    LET tb == req[t].table
        id == cache[tb].next
    IN
    /\ pc[t] = "index"
    /\ Goto(t, "done")
    /\ IF id \in DOMAIN cache[tb].index
         THEN UNCHANGED <<cache, answer>>
         ELSE /\ cache' = [cache EXCEPT ![tb].index = Indexed(t, tb), ![tb].next = next]
              /\ answer' = [answer EXCEPT ![t] = Inserted(id)]
    /\ UNCHANGED <<store, gen, lock, req, loc, acked>>

\* Faulty AddToIndex: next_id never wraps around, or is not advanced.
AddToIndexUnwrapped(t) == AddAndAdvance(t, cache[req[t].table].next + 1)
AddToIndexKeepsNext(t) == AddAndAdvance(t, cache[req[t].table].next)

\* The row's offset goes into the index, and next_id is advanced modulo 2^64.
AddToIndex(t) == AddAndAdvance(t, (cache[req[t].table].next + 1) % (MaxId + 1))

\* The index i without the ids above last.
CutAbove(i, last) == [k \in {j \in DOMAIN i : j <= last} |-> i[k]]

\* bptree_insert fails on an allocation: the row stays in the file, next_id
\* stays where it was, and when a node was already split, its right half (the
\* largest ids, because the new id is the largest) is out of the tree.
AddToIndexFails(t) ==
    LET tb == req[t].table IN
    /\ "index" \in Faults
    /\ pc[t] = "index"
    /\ \/ UNCHANGED cache
       \/ \E last \in DOMAIN cache[tb].index :
             cache' = [cache EXCEPT ![tb].index = CutAbove(@, last)]
    /\ Goto(t, "done")
    /\ UNCHANGED <<store, gen, lock, req, loc, answer, acked>>

\* An allocation or a read fails while a row is built, searched, read or
\* projected: the statement ends with an error.
ExecutionFails(t) ==
    /\ "oom" \in Faults
    /\ pc[t] \in {"scan", "search", "fetch", "append"}
    /\ Goto(t, "done")
    /\ UNCHANGED <<store, cache, gen, lock, req, loc, answer, acked>>

\* The lock cannot be taken: make_lock_error.
LockFails(t) ==
    /\ "oom" \in Faults
    /\ pc[t] \in {"wantPreload", "wantRead", "wantInsert"}
    /\ Goto(t, "respond")
    /\ UNCHANGED <<store, cache, gen, lock, req, loc, answer, acked>>

\* The lock is released; others may come in before the answer is written.
Unlock(t) ==
    /\ pc[t] = "done"
    /\ Release(t)
    /\ loc' = [loc EXCEPT ![t] = NoLocals]
    /\ Goto(t, "respond")
    /\ UNCHANGED <<store, cache, gen, req, answer, acked>>

\* make_success_json fails: the client gets an error, and an INSERT that was
\* executed is not undone.
ResponseFails(t) ==
    /\ "oom" \in Faults
    /\ pc[t] = "respond" /\ answer[t].ok
    /\ answer' = [answer EXCEPT ![t] = Error]
    /\ UNCHANGED <<store, cache, gen, lock, pc, req, loc, acked>>

\* The answer goes to the client.
Return(t) ==
    /\ pc[t] = "respond"
    /\ req' = [req EXCEPT ![t] = NoRequest]
    /\ answer' = [answer EXCEPT ![t] = Error]
    /\ acked' = IF req[t].op = "insert" /\ answer[t].ok
                  THEN acked \cup {[table |-> req[t].table, id |-> answer[t].id,
                                    val |-> req[t].val]}
                  ELSE acked
    /\ Goto(t, "idle")
    /\ UNCHANGED <<store, cache, gen, lock, loc>>

-----------------------------------------------------------------------------
\* The process dies and is started again: only the files are left.
Crash ==
    /\ "crash" \in Faults
    /\ cache' = [tb \in Tables |-> NotLoaded]
    /\ gen' = 0
    /\ writer' = NoThread
    /\ readers' = {}
    /\ pc' = [t \in Threads |-> "idle"]
    /\ loc' = [t \in Threads |-> NoLocals]
    /\ req' = [t \in Threads |-> NoRequest]
    /\ answer' = [t \in Threads |-> Error]
    /\ UNCHANGED <<store, acked>>

\* What a thread does once it has a statement, and never stops doing halfway.
Step(t) ==
    \/ LockForPreload(t) \/ Preload(t) \/ UnlockPreload(t)
    \/ LockForRead(t) \/ Locate(t)
    \/ ScanRow(t) \/ ScanEnd(t) \/ Search(t) \/ Fetch(t)
    \/ LockForInsert(t) \/ LoadForInsert(t) \/ NoIdLeft(t)
    \/ AppendToFile(t) \/ AddToIndex(t)
    \/ Unlock(t) \/ Return(t)

Next ==
    \/ \E t \in Threads :
          \/ Call(t) \/ Step(t)
          \/ LockFails(t) \/ AppendToFileFails(t) \/ AddToIndexFails(t)
          \/ ExecutionFails(t) \/ ResponseFails(t)
    \/ Crash

Spec == Init /\ [][Next]_vars

\* A thread with a statement keeps running. The lock is strongly fair: a thread
\* for which it is free again and again gets it. POSIX leaves that open, but it
\* says nothing for a writer that never finds the lock free of readers.
Fairness ==
    \A t \in Threads :
        /\ WF_vars(Step(t))
        /\ SF_vars(LockForPreload(t))
        /\ SF_vars(LockForRead(t))
        /\ SF_vars(LockForInsert(t))

FairSpec == Spec /\ Fairness

-----------------------------------------------------------------------------
Row == [id : Nat, val : Values \cup {Garbled, Blank, Malformed}]
Place == [line : Nat, start : BOOLEAN, row : Row]

StoreTypeOK ==
    /\ file \in [Tables -> Seq(Row)]
    /\ frag \in [Tables -> {"none", "id", "val"}]

CacheTypeOK ==
    LET indexes == {cache[tb].index : tb \in Tables} IN
    /\ cache \in [Tables -> [loaded : BOOLEAN, next : 0..MaxId, index : indexes]]
    /\ \A i \in indexes : DOMAIN i \subseteq 1..MaxId /\ i \in [DOMAIN i -> Place]
    /\ gen \in Nat

ThreadTypeOK ==
    /\ writer \in Threads \cup {NoThread}
    /\ readers \subseteq Threads
    /\ pc \in [Threads -> {"idle", "wantPreload", "preload", "preloaded", "wantRead",
                           "locate", "scan", "search", "fetch", "wantInsert", "load",
                           "append", "index", "done", "respond"}]
    /\ req \in [Threads -> Requests \cup {NoRequest}]
    /\ loc \in [Threads -> [gen : Nat, pos : Nat, place : Place, rows : Seq(Row)]]
    /\ answer \in [Threads -> [ok : BOOLEAN, id : 0..MaxId, rows : Seq(Row)]]
    /\ acked \subseteq [table : Tables, id : 0..MaxId, val : Values]

\* The types, among them: next_id stays a uint64_t although executor.c
\* increments it without a test, and 0 and the ids past the last never get into
\* the index.
TypeOK == StoreTypeOK /\ CacheTypeOK /\ ThreadTypeOK

\* After the preload gave the write lock up and before the read lock is taken,
\* any other statement may run; still the second lookup finds the table in the
\* cache, so the cache is never extended under the read lock, and a pointer
\* into ctx.tables that a reader holds is never moved under its feet.
CacheStableUnderRead ==
    \A t \in Threads :
        /\ pc[t] = "locate" => cache[req[t].table].loaded
        /\ pc[t] \in {"scan", "search", "fetch"} => loc[t].gen = gen

\* Some thread has appended a row to tb and not yet put it into the index.
Appending(tb) == \E t \in Threads : pc[t] = "index" /\ req[t].table = tb

\* next_id is the largest id in the file plus one (0 when that does not fit).
NextIdIsMaxPlusOne ==
    \A tb \in Tables :
        cache[tb].loaded /\ ~Appending(tb)
            => cache[tb].next = (LastId(tb) + 1) % (MaxId + 1)

\* The index of a loaded table has exactly the ids of its file, and leads from
\* each of them to the row with that id.
IndexMatchesFile ==
    \A tb \in Tables :
        cache[tb].loaded /\ ~Appending(tb)
            => /\ DOMAIN cache[tb].index = Ids(tb)
               /\ \A i \in Ids(tb) : ReadAt(tb, cache[tb].index[i]).id = i

\* A row whose INSERT was answered with success is a line of the data file, with
\* its id and its values, and stays one through crashes and restarts.
AckedRowsSurvive ==
    \A a \in acked :
        \E k \in DOMAIN file[a.table] : file[a.table][k] = [id |-> a.id, val |-> a.val]

\* Until the next restart, a row whose INSERT was answered with success is what
\* a lookup of its id finds, even if a failed INSERT left an unterminated line
\* that its text continues, or a row with the same id in the file.
AckedRowsReadable ==
    \A a \in acked :
        LET index == cache[a.table].index IN
        /\ a.id \in DOMAIN index
        /\ ReadAt(a.table, index[a.id]) = [id |-> a.id, val |-> a.val]

\* A data file that only this program wrote can be loaded again after a
\* restart, unless it has used up the ids.
Restorable ==
    \A tb \in Schemas : ~cache[tb].loaded => Loadable(tb) \/ LastId(tb) = MaxId

\* When a statement took effect, and what its answer will be: an INSERT has done
\* so when its row is in the file.
AtomicCall ==
    [t \in Threads |->
        IF pc[t] = "idle" THEN "idle"
          ELSE IF pc[t] \in {"index", "done", "respond"} THEN "answered" ELSE "pending"]
AtomicAnswer ==
    [t \in Threads |-> IF pc[t] = "index" THEN Inserted(NewRow(t).id) ELSE answer[t]]

Atomic == INSTANCE AtomicTables WITH
    table <- file, call <- AtomicCall, answer <- AtomicAnswer

\* Statements of concurrent workers are linearizable: an INSERT takes effect
\* when its row is appended, although the index and next_id follow later, and a
\* SELECT when it reaches the end of the file or fetches its row, although its
\* two critical sections let others in between.
ImplementsAtomicTables == Atomic!Spec

\* Every statement is answered: the lock is released on every path, and readers
\* cannot keep a writer out for ever, because each of them has to take the
\* write lock itself before it reads.
EveryStatementAnswered == \A t \in Threads : pc[t] # "idle" ~> pc[t] = "idle"
=============================================================================
