---------------------------- MODULE DbApiProofs ----------------------------
(***************************************************************************)
(* What holds of the SQL engine of DbApi for every number of threads and   *)
(* tables, every set of statements and every MaxId.                        *)
(*                                                                         *)
(* The inductive invariant IInv says who holds the lock at which point of  *)
(* db_api_execute_sql, and what a thread may rely on there: that the table *)
(* it found in the cache is still in it, that its pointer into ctx.tables  *)
(* was not moved, that an offset it took from the index is one of a line   *)
(* of the file. It holds whatever fails.                                   *)
(*                                                                         *)
(* The second half is about what becomes of rows, each theorem under the   *)
(* failures it names.                                                      *)
(***************************************************************************)
EXTENDS DbApi, SetInduction, SequenceTheorems, FiniteSetTheorems, TLAPS

\* The values a TableRuntime can have.
Indexes == UNION {[ids -> Place] : ids \in SUBSET (1..MaxId)}
Runtime == [loaded : BOOLEAN, next : 0..MaxId, index : Indexes]

CacheTyped ==
    /\ cache \in [Tables -> Runtime]
    /\ gen \in Nat

Types == StoreTypeOK /\ CacheTyped /\ ThreadTypeOK

\* Where a thread holds the lock for writing, where for reading.
Writing == {"preload", "preloaded", "load", "append", "index"}
Reading == {"locate", "scan", "search", "fetch"}

\* The lock is held where it is needed, by one writer or by readers.
Holds(t) ==
    /\ pc[t] \in Writing => writer = t
    /\ pc[t] \in Reading => t \in readers
    /\ pc[t] = "done" => writer = t \/ t \in readers

Exclusion ==
    /\ writer # NoThread => readers = {}
    /\ \A t \in Threads : Holds(t)

\* An offset is one of a line of the file of tb (or of a row that continued an
\* unterminated line, which the place itself remembers).
InFile(tb, place) == place.start => place.line \in DOMAIN file[tb]

\* Where the table of a statement is in the cache.
Cached == {"preloaded", "wantRead", "locate", "scan", "search", "fetch", "append", "index"}

\* What thread t may rely on.
Relies(t) ==
    /\ pc[t] # "idle" => req[t] \in Requests
    /\ pc[t] \in {"wantInsert", "load", "append", "index"} => req[t].op = "insert"
    /\ pc[t] \in {"wantPreload", "preload", "preloaded", "wantRead", "locate", "scan",
                  "search", "fetch"} => req[t].op # "insert"
    /\ pc[t] \in Cached => cache[req[t].table].loaded
    /\ pc[t] \in {"scan", "search", "fetch"} => loc[t].gen = gen
    /\ pc[t] = "scan" => loc[t].pos # 0
    /\ pc[t] = "index" => cache[req[t].table].next # 0
    /\ pc[t] \in {"fetch", "index"} => InFile(req[t].table, loc[t].place)

Statements == \A t \in Threads : Relies(t)

\* No line has the id 0, and every offset in an index is one of the file.
Files ==
    \A tb \in Tables :
        /\ \A k \in DOMAIN file[tb] : file[tb][k].id # 0
        /\ \A i \in DOMAIN cache[tb].index : InFile(tb, cache[tb].index[i])

IInv == Types /\ Exclusion /\ Statements /\ Files

-----------------------------------------------------------------------------
(* The operators the model is built from.                                  *)

\* The largest id of the lines of a file, or 0, exists.
LEMMA LargestId ==
    ASSUME NEW s \in Seq(Row)
    PROVE  LET ids == {s[k].id : k \in DOMAIN s} \cup {0}
           IN  Max(ids) \in Nat /\ Max(ids) \in ids /\ \A i \in ids : i <= Max(ids)
  <1>. DEFINE ids == {s[k].id : k \in DOMAIN s} \cup {0}
              Bounded(n) == \E b \in Nat : \A k \in DOMAIN s : k <= n => s[k].id <= b
              B == {n \in Nat : Bounded(n)}
  <1>. DOMAIN s = 1..Len(s) /\ Len(s) \in Nat
    OBVIOUS
  <1>0. \A k \in DOMAIN s : s[k].id \in Nat
    <2>1. \A k \in DOMAIN s : s[k] \in Row
      BY ElementOfSeq
    <2>. QED
      BY <2>1 DEF Row
  <1>1. ids \subseteq Nat /\ ids # {}
    BY <1>0
  <1>2. 0 \in B
    BY <1>1
  <1>3. ASSUME NEW n \in Nat, n \in B PROVE n + 1 \in B
    <2>. n + 1 \in Nat
      OBVIOUS
    <2>. SUFFICES \E b \in Nat : \A k \in DOMAIN s : k <= n + 1 => s[k].id <= b
      BY Zenon
    <2>1. PICK b \in Nat : \A k \in DOMAIN s : k <= n => s[k].id <= b
      BY <1>3
    <2>2. CASE n + 1 \in DOMAIN s
      <3>1. s[n + 1].id \in Nat
        BY <1>0, <2>2
      <3>2. PICK c \in Nat : b <= c /\ s[n + 1].id <= c
        <4>1. b + s[n + 1].id \in Nat /\ b <= b + s[n + 1].id /\ s[n + 1].id <= b + s[n + 1].id
          BY <3>1
        <4>. QED
          BY <4>1
      <3>3. \A k \in DOMAIN s : k <= n => s[k].id <= c
        BY <1>0, <2>1, <3>2
      <3>4. \A k \in DOMAIN s : k <= n + 1 => s[k].id <= c
        BY <3>2, <3>3
      <3>. QED
        BY <3>4
    <2>3. CASE n + 1 \notin DOMAIN s
      <3>1. \A k \in DOMAIN s : k <= n + 1 => k <= n
        BY <2>3
      <3>. QED
        BY <2>1, <3>1
    <2>. QED
      BY <2>2, <2>3
  <1>4. Nat \subseteq B
    <2>. HIDE DEF B
    <2>. QED
      BY <1>2, <1>3, NatInductive
  <1>5. PICK b \in Nat : \A i \in ids : i <= b
    <2>1. Len(s) \in B
      BY <1>1, <1>4
    <2>. QED
      BY <1>1, <2>1
  <1>6. \E x \in ids : \A y \in ids : x >= y
    <2>. HIDE DEF ids
    <2>. QED
      BY <1>1, <1>5, NatMax
  <1>7. Max(ids) \in ids /\ \A y \in ids : Max(ids) >= y
    <2>. HIDE DEF ids
    <2>. QED
      BY <1>6 DEF Max
  <1>. QED
    BY <1>1, <1>7

\* What the statements of clients are made of.
LEMMA RequestType ==
    ASSUME NEW r \in Requests
    PROVE  /\ r.op \in {"insert", "select", "filter", "lookup"}
           /\ r.table \in Tables /\ r.valid \in BOOLEAN
           /\ r.val \in Values /\ r.id \in 0..MaxId
  BY RequestsAssumption DEF Request

\* The types of what a thread starts with.
LEMMA LocalsType ==
    /\ NoPlace \in Place
    /\ NoLocals \in [gen : Nat, pos : Nat, place : Place, rows : Seq(Row)]
    /\ Error \in [ok : BOOLEAN, id : 0..MaxId, rows : Seq(Row)]
  <1>1. NoRow \in Row
    BY DEF NoRow, Row, Blank
  <1>2. NoPlace \in Place
    BY <1>1 DEF NoPlace, Place
  <1>3. <<>> \in Seq(Row) /\ 0 \in 0..MaxId
    BY MaxIdAssumption
  <1>. QED
    BY <1>2, <1>3 DEF NoLocals, Error

\* A cache of such TableRuntimes is one of the types of the model.
LEMMA TypesAreTypeOK == Types => TypeOK
  <1>. SUFFICES ASSUME Types PROVE CacheTypeOK
    BY DEF Types, TypeOK
  <1>. USE DEF Types, CacheTyped
  <1>. DEFINE indexes == {cache[tb].index : tb \in Tables}
  <1>1. \A tb \in Tables :
            /\ cache[tb] = [loaded |-> cache[tb].loaded, next |-> cache[tb].next,
                            index |-> cache[tb].index]
            /\ cache[tb].loaded \in BOOLEAN /\ cache[tb].next \in 0..MaxId
            /\ cache[tb].index \in indexes /\ cache[tb].index \in Indexes
    BY DEF Runtime
  <1>2. cache \in [Tables -> [loaded : BOOLEAN, next : 0..MaxId, index : indexes]]
    BY <1>1
  <1>3. \A i \in indexes : DOMAIN i \subseteq 1..MaxId /\ i \in [DOMAIN i -> Place]
    BY <1>1 DEF Indexes
  <1>. QED
    BY <1>2, <1>3 DEF CacheTypeOK

\* A row that continues a line is a row, and its id is not 0.
LEMMA ContinueType ==
    ASSUME NEW l \in Row, l.id # 0, NEW s, NEW row \in Row, row.id # 0
    PROVE  Continue(l, s, row) \in Row /\ Continue(l, s, row).id # 0
  <1>1. Shift(row.id) \in {10, 100, 1000} /\ l.id \in Nat \ {0} /\ row.id \in Nat \ {0}
    BY DEF Shift, Row
  <1>2. l.id * Shift(row.id) + row.id \in Nat \ {0}
    BY <1>1
  <1>. QED
    BY <1>1, <1>2 DEF Continue, Row, Garbled, Malformed

\* Appending a row keeps the lines rows, and takes no line away.
LEMMA ExtendedType ==
    ASSUME StoreTypeOK, NEW tb \in Tables, \A k \in DOMAIN file[tb] : file[tb][k].id # 0,
           NEW row \in Row, row.id # 0
    PROVE  /\ Extended(tb, row) \in Seq(Row)
           /\ DOMAIN file[tb] \subseteq DOMAIN Extended(tb, row)
           /\ \A k \in DOMAIN Extended(tb, row) : Extended(tb, row)[k].id # 0
           /\ frag[tb] = "none" => Len(file[tb]) + 1 \in DOMAIN Extended(tb, row)
  <1>. DEFINE s == file[tb]
  <1>1. s \in Seq(Row) /\ Len(s) \in Nat /\ DOMAIN s = 1..Len(s)
    BY DEF StoreTypeOK
  <1>2. CASE frag[tb] = "none"
    <2>1. Extended(tb, row) = Append(s, row)
      BY <1>2 DEF Extended
    <2>. QED
      BY <1>1, <2>1
  <1>3. CASE frag[tb] # "none"
    <2>1. Extended(tb, row) = [s EXCEPT ![Len(s)] = Continue(s[Len(s)], frag[tb], row)]
      BY <1>3 DEF Extended
    <2>2. ASSUME Len(s) # 0
          PROVE  Continue(s[Len(s)], frag[tb], row) \in Row
                 /\ Continue(s[Len(s)], frag[tb], row).id # 0
      <3>1. s[Len(s)] \in Row /\ s[Len(s)].id # 0
        BY <1>1, <2>2
      <3>. QED
        BY <3>1, ContinueType
    <2>3. Extended(tb, row) \in Seq(Row) /\ DOMAIN Extended(tb, row) = DOMAIN s
      <3>1. \A k \in 1..Len(s) : Extended(tb, row)[k] \in Row
        BY <1>1, <2>1, <2>2
      <3>2. Extended(tb, row) = [k \in 1..Len(s) |-> Extended(tb, row)[k]]
        BY <1>1, <2>1
      <3>3. Extended(tb, row) \in [1..Len(s) -> Row]
        BY <3>1, <3>2
      <3>. QED
        BY <1>1, <3>3, SeqDef
    <2>. QED
      BY <1>1, <1>3, <2>1, <2>2, <2>3
  <1>. QED
    BY <1>2, <1>3

\* build_id_index_for_table gives a TableRuntime whose offsets are those of the
\* lines, and next_id fits.
LEMMA LoadedType ==
    ASSUME StoreTypeOK, Files, NEW tb \in Tables, Loadable(tb)
    PROVE  /\ Loaded(tb) \in Runtime /\ Loaded(tb).loaded
           /\ \A i \in DOMAIN Loaded(tb).index : InFile(tb, Loaded(tb).index[i])
  <1>1. file[tb] \in Seq(Row)
    BY DEF StoreTypeOK
  <1>2. \A k \in DOMAIN file[tb] : file[tb][k] \in Row /\ file[tb][k].id # 0 /\ k \in Nat
    BY <1>1, ElementOfSeq DEF Files
  <1>3. LastId(tb) \in Nat /\ LastId(tb) < MaxId /\ \A i \in Ids(tb) : i <= LastId(tb)
    BY <1>1, LargestId DEF LastId, Ids, Loadable
  <1>4. Ids(tb) \subseteq 1..MaxId
    <2>1. \A i \in Ids(tb) : i \in Nat /\ i # 0
      BY <1>2 DEF Ids, Row
    <2>. QED
      BY <1>3, <2>1, MaxIdAssumption
  <1>. DEFINE k(i) == CHOOSE n \in DOMAIN file[tb] : file[tb][n].id = i
  <1>5. \A i \in Ids(tb) : k(i) \in DOMAIN file[tb]
    BY DEF Ids
  <1>6. \A i \in Ids(tb) : /\ IndexOf(tb)[i] = [line |-> k(i), start |-> TRUE, row |-> file[tb][k(i)]]
                           /\ IndexOf(tb)[i] \in Place /\ InFile(tb, IndexOf(tb)[i])
    BY <1>2, <1>5 DEF IndexOf, Place, InFile
  <1>7. IndexOf(tb) \in [Ids(tb) -> Place] /\ DOMAIN IndexOf(tb) = Ids(tb)
    BY <1>6 DEF IndexOf
  <1>8. IndexOf(tb) \in Indexes
    BY <1>4, <1>7 DEF Indexes
  <1>. QED
    BY <1>3, <1>6, <1>7, <1>8, MaxIdAssumption DEF Loaded, Runtime

\* get_or_load_table_runtime changes nothing about tables it finds, and leaves
\* a typed cache; on success the table is in it.
LEMMA GetOrLoadEffect ==
    ASSUME IInv, NEW t \in Threads, NEW tb \in Tables, NEW found, NEW failed,
           GetOrLoad(t, tb, found, failed)
    PROVE  /\ CacheTyped'
           /\ \A x \in Tables : cache[x].loaded => cache'[x] = cache[x]
           /\ cache[tb].loaded => /\ cache' = cache /\ gen' = gen
                                  /\ pc' = [pc EXCEPT ![t] = found]
           /\ \/ pc' = [pc EXCEPT ![t] = found] /\ cache'[tb].loaded
              \/ pc' = [pc EXCEPT ![t] = failed] /\ cache' = cache
           /\ \A x \in Tables : \A i \in DOMAIN cache'[x].index : InFile(x, cache'[x].index[i])
  <1>. USE DEF IInv, Types, Goto
  <1>1. CASE cache[tb].loaded
    BY <1>1 DEF GetOrLoad, CacheTyped, Files
  <1>2. CASE ~cache[tb].loaded /\ cache' = cache /\ gen' = gen /\ pc' = [pc EXCEPT ![t] = failed]
    BY <1>2 DEF CacheTyped, Files
  <1>3. CASE /\ ~cache[tb].loaded /\ Loadable(tb)
             /\ cache' = [cache EXCEPT ![tb] = Loaded(tb)]
             /\ gen' = gen + 1 /\ pc' = [pc EXCEPT ![t] = found]
    <2>1. /\ Loaded(tb) \in Runtime /\ Loaded(tb).loaded
          /\ \A i \in DOMAIN Loaded(tb).index : InFile(tb, Loaded(tb).index[i])
      BY <1>3, LoadedType
    <2>2. CacheTyped' /\ cache'[tb] = Loaded(tb) /\ \A x \in Tables \ {tb} : cache'[x] = cache[x]
      BY <1>3, <2>1 DEF CacheTyped
    <2>. QED
      BY <1>3, <2>1, <2>2 DEF Files
  <1>. QED
    BY <1>1, <1>2, <1>3 DEF GetOrLoad

\* What thread u relies on outlives a step of thread t that leaves u's own
\* state alone, takes no table out of the cache and no line out of a file, and
\* extends the cache or advances a next_id only as the writer.
LEMMA OthersRelyOn ==
    ASSUME IInv, NEW u \in Threads, Relies(u), NEW t \in Threads, u # t,
           pc'[u] = pc[u], req'[u] = req[u], loc'[u] = loc[u],
           \A tb \in Tables : cache[tb].loaded => cache'[tb].loaded,
           \A tb \in Tables : DOMAIN file[tb] \subseteq DOMAIN file'[tb],
           gen' = gen \/ writer = t,
           (\A tb \in Tables : cache[tb].loaded => cache'[tb].next = cache[tb].next) \/ writer = t
    PROVE  Relies(u)'
  <1>1. pc[u] # "idle" => req[u] \in Requests /\ req[u].table \in Tables
    BY RequestType DEF Relies
  <1>2. pc[u] \in {"scan", "search", "fetch"} => gen' = gen
    <2>1. pc[u] \in {"scan", "search", "fetch"} => readers # {} /\ writer # t
      BY NoThreadAssumption DEF IInv, Exclusion, Holds, Reading
    <2>. QED
      BY <2>1
  <1>3. pc[u] = "index" => cache[req[u].table].loaded /\ writer # t
    BY DEF IInv, Exclusion, Holds, Writing, Relies, Cached
  <1>4. pc[u] = "index" => cache'[req[u].table].next = cache[req[u].table].next
    BY <1>1, <1>3
  <1>5. \A tb \in Tables : \A place : InFile(tb, place) => InFile(tb, place)'
    BY DEF InFile
  <1>6. pc[u] \in {"fetch", "index"} => InFile(req[u].table, loc[u].place)'
    BY <1>1, <1>5 DEF Relies, InFile
  <1>7. pc[u] \in Cached => cache'[req[u].table].loaded
    BY <1>1 DEF Relies, Cached
  <1>. QED
    BY <1>2, <1>4, <1>6, <1>7 DEF Relies

-----------------------------------------------------------------------------
(* Steps that leave files and cache alone.                                 *)

\* If the types of the threads' variables are kept, the lock is held where it
\* is needed, and the thread that moves may rely on what it has to, then the
\* invariant is kept.
LEMMA QuietStep ==
    ASSUME IInv, NEW t \in Threads, UNCHANGED <<file, frag, cache, gen>>, ThreadTypeOK',
           \A u \in Threads \ {t} : pc'[u] = pc[u] /\ req'[u] = req[u] /\ loc'[u] = loc[u],
           writer' # NoThread => readers' = {},
           \A u \in Threads : Holds(u)',
           Relies(t)'
    PROVE  IInv'
  <1>1. Types'
    BY DEF IInv, Types, StoreTypeOK, CacheTyped
  <1>2. Exclusion'
    BY DEF Exclusion
  <1>3. Files'
    BY DEF IInv, Files, InFile
  <1>4. \A u \in Threads : Relies(u)'
    <2>. SUFFICES ASSUME NEW u \in Threads, u # t PROVE Relies(u)'
      OBVIOUS
    <2>. QED
      BY OthersRelyOn DEF IInv, Statements
  <1>. QED
    BY <1>1, <1>2, <1>3, <1>4 DEF IInv, Statements

\* A step of t that leaves the lock alone, and after which t still holds what
\* it needs.
LEMMA LockUntouched ==
    ASSUME IInv, NEW t \in Threads, UNCHANGED lock,
           \A u \in Threads \ {t} : pc'[u] = pc[u], Holds(t)'
    PROVE  /\ writer' # NoThread => readers' = {}
           /\ \A u \in Threads : Holds(u)'
  BY DEF IInv, Exclusion, Holds, lock

LEMMA CallKeeps == ASSUME IInv, NEW t \in Threads, Call(t) PROVE IInv'
  <1>. USE DEF IInv, Types, ThreadTypeOK, Goto, store, lock
  <1>1. PICK r \in Requests :
            /\ req' = [req EXCEPT ![t] = r]
            /\ pc' = [pc EXCEPT ![t] = IF r.op = "insert" THEN "wantInsert" ELSE "wantPreload"]
    BY DEF Call
  <1>2. ThreadTypeOK' /\ pc'[t] \in {"wantInsert", "wantPreload"}
    BY <1>1 DEF Call
  <1>3. Relies(t)'
    BY <1>1 DEF Relies, Cached
  <1>4. Holds(t)'
    BY <1>2 DEF Holds, Writing, Reading
  <1>. QED
    BY <1>1, <1>2, <1>3, <1>4, QuietStep, LockUntouched DEF Call

LEMMA AcquireKeeps ==
    ASSUME IInv, NEW t \in Threads,
           LockForPreload(t) \/ LockForRead(t) \/ LockForInsert(t)
    PROVE  IInv'
  <1>. USE DEF IInv, Types, ThreadTypeOK, Goto, store, lock
  <1>1. CASE LockForPreload(t)
    <2>1. ThreadTypeOK' /\ pc'[t] = "preload"
      BY <1>1 DEF LockForPreload, AcquireWrite
    <2>2. writer' = t /\ readers' = {} /\ \A u \in Threads : pc[u] \notin Writing \cup Reading \cup {"done"}
      BY <1>1, NoThreadAssumption DEF LockForPreload, AcquireWrite, Exclusion, Holds
    <2>3. \A u \in Threads : Holds(u)'
      BY <1>1, <2>1, <2>2 DEF LockForPreload, Holds, Writing, Reading
    <2>4. Relies(t)'
      BY <1>1, <2>1 DEF LockForPreload, Relies, Statements, Cached
    <2>. QED
      BY <1>1, <2>1, <2>2, <2>3, <2>4, QuietStep DEF LockForPreload
  <1>2. CASE LockForInsert(t)
    <2>1. ThreadTypeOK' /\ pc'[t] = "load"
      BY <1>2 DEF LockForInsert, AcquireWrite
    <2>2. writer' = t /\ readers' = {} /\ \A u \in Threads : pc[u] \notin Writing \cup Reading \cup {"done"}
      BY <1>2, NoThreadAssumption DEF LockForInsert, AcquireWrite, Exclusion, Holds
    <2>3. \A u \in Threads : Holds(u)'
      BY <1>2, <2>1, <2>2 DEF LockForInsert, Holds, Writing, Reading
    <2>4. Relies(t)'
      BY <1>2, <2>1 DEF LockForInsert, Relies, Statements, Cached
    <2>. QED
      BY <1>2, <2>1, <2>2, <2>3, <2>4, QuietStep DEF LockForInsert
  <1>3. CASE LockForRead(t)
    <2>1. ThreadTypeOK' /\ pc'[t] = "locate"
      BY <1>3 DEF LockForRead, AcquireRead
    <2>2. writer' = NoThread /\ readers' = readers \cup {t} /\ \A u \in Threads : pc[u] \notin Writing
      BY <1>3, NoThreadAssumption DEF LockForRead, AcquireRead, Exclusion, Holds
    <2>3. \A u \in Threads : Holds(u)'
      BY <1>3, <2>1, <2>2, NoThreadAssumption DEF LockForRead, AcquireRead, Exclusion, Holds, Writing, Reading
    <2>4. Relies(t)'
      BY <1>3, <2>1 DEF LockForRead, Relies, Statements, Cached
    <2>. QED
      BY <1>3, <2>1, <2>2, <2>3, <2>4, QuietStep DEF LockForRead
  <1>. QED
    BY <1>1, <1>2, <1>3

LEMMA ReleaseKeeps ==
    ASSUME IInv, NEW t \in Threads, UnlockPreload(t) \/ Unlock(t)
    PROVE  IInv'
  <1>. USE DEF IInv, Types, ThreadTypeOK, Goto, store, lock
  <1>1. loc' \in [Threads -> [gen : Nat, pos : Nat, place : Place, rows : Seq(Row)]]
    BY LocalsType DEF UnlockPreload, Unlock
  <1>2. ThreadTypeOK' /\ pc'[t] \in {"wantRead", "respond"}
    BY <1>1 DEF UnlockPreload, Unlock, Release
  <1>3. writer' # NoThread => readers' = {}
    BY DEF UnlockPreload, Unlock, Release, Exclusion
  <1>4. \A u \in Threads : Holds(u)'
    <2>1. Holds(t)'
      BY <1>2 DEF Holds, Writing, Reading
    <2>2. ASSUME NEW u \in Threads, u # t PROVE Holds(u)'
      <3>1. pc'[u] = pc[u] /\ (writer = u => writer' = u) /\ (u \in readers => u \in readers')
        BY <2>2 DEF UnlockPreload, Unlock, Release
      <3>. QED
        BY <3>1 DEF Holds, Exclusion
    <2>. QED
      BY <2>1, <2>2
  <1>5. Relies(t)'
    BY <1>2 DEF UnlockPreload, Unlock, Relies, Statements, Cached
  <1>. QED
    BY <1>2, <1>3, <1>4, <1>5, QuietStep DEF UnlockPreload, Unlock

LEMMA GiveUpKeeps ==
    ASSUME IInv, NEW t \in Threads, LockFails(t) \/ NoIdLeft(t) \/ ExecutionFails(t)
    PROVE  IInv'
  <1>. USE DEF IInv, Types, ThreadTypeOK, Goto, store, lock
  <1>1. /\ ThreadTypeOK' /\ pc[t] # "idle"
        /\ \/ pc'[t] = "respond"
           \/ pc'[t] = "done" /\ pc[t] \in Writing \cup Reading
    BY DEF LockFails, NoIdLeft, ExecutionFails, Writing, Reading
  <1>2. Holds(t)'
    BY <1>1 DEF LockFails, NoIdLeft, ExecutionFails, Holds, Exclusion, Writing, Reading
  <1>3. Relies(t)'
    BY <1>1 DEF LockFails, NoIdLeft, ExecutionFails, Relies, Statements, Cached
  <1>. QED
    BY <1>1, <1>2, <1>3, QuietStep, LockUntouched DEF LockFails, NoIdLeft, ExecutionFails

LEMMA ScanKeeps ==
    ASSUME IInv, NEW t \in Threads, ScanRow(t) \/ ScanEnd(t)
    PROVE  IInv'
  <1>. USE DEF IInv, Types, ThreadTypeOK, Goto, store, lock
  <1>. DEFINE tb == req[t].table  Locals == [gen : Nat, pos : Nat, place : Place, rows : Seq(Row)]
  <1>1. /\ pc[t] = "scan" /\ tb \in Tables /\ t \in readers
        /\ loc[t] \in Locals /\ loc[t].pos # 0 /\ file[tb] \in Seq(Row)
    BY RequestType DEF ScanRow, ScanEnd, Relies, Statements, StoreTypeOK, Exclusion, Holds, Reading
  <1>2. CASE ScanRow(t)
    <2>. DEFINE row == file[tb][loc[t].pos]
    <2>1. row \in Row
      BY <1>1, <1>2, ElementOfSeq DEF ScanRow
    <2>2. CASE row.val = Malformed
      <3>1. pc' = [pc EXCEPT ![t] = "done"] /\ UNCHANGED loc
        BY <1>2, <2>2 DEF ScanRow
      <3>2. ThreadTypeOK'
        BY <1>2, <3>1 DEF ScanRow
      <3>3. Holds(t)' /\ Relies(t)'
        BY <1>1, <1>2, <3>1 DEF ScanRow, Holds, Relies, Statements, Writing, Reading, Cached
      <3>. QED
        BY <1>2, <3>1, <3>2, <3>3, QuietStep, LockUntouched DEF ScanRow
    <2>3. CASE row.val # Malformed
      <3>1. /\ UNCHANGED pc
            /\ loc' = [loc EXCEPT ![t].rows = IF Matches(req[t], row) THEN Append(@, row) ELSE @,
                                  ![t].pos = @ + 1]
        BY <1>2, <2>3 DEF ScanRow
      <3>2. (IF Matches(req[t], row) THEN Append(loc[t].rows, row) ELSE loc[t].rows) \in Seq(Row)
        BY <1>1, <2>1
      <3>3. loc'[t] = [gen |-> loc[t].gen, pos |-> loc[t].pos + 1, place |-> loc[t].place,
                       rows |-> IF Matches(req[t], row) THEN Append(loc[t].rows, row) ELSE loc[t].rows]
        BY <1>1, <3>1
      <3>4. loc'[t] \in Locals /\ loc' = [loc EXCEPT ![t] = loc'[t]]
        BY <1>1, <3>1, <3>2, <3>3
      <3>5. ThreadTypeOK'
        BY <1>2, <3>1, <3>4 DEF ScanRow
      <3>6. Holds(t)' /\ Relies(t)'
        <4>1. pc'[t] = pc[t] /\ req' = req /\ cache' = cache /\ gen' = gen /\ lock' = lock
          BY <1>2, <3>1 DEF ScanRow
        <4>2. loc'[t].pos # 0 /\ loc'[t].gen = loc[t].gen
          BY <1>1, <3>3
        <4>. QED
          BY <1>1, <4>1, <4>2 DEF Holds, Relies, Statements, Writing, Reading, Cached
      <3>. QED
        BY <1>2, <3>1, <3>4, <3>5, <3>6, QuietStep, LockUntouched DEF ScanRow
    <2>. QED
      BY <2>2, <2>3
  <1>3. CASE ScanEnd(t)
    <2>1. Selected(loc[t].rows) \in [ok : BOOLEAN, id : 0..MaxId, rows : Seq(Row)]
      BY <1>1, MaxIdAssumption DEF Selected
    <2>2. ThreadTypeOK' /\ pc'[t] = "done"
      BY <1>3, <2>1 DEF ScanEnd
    <2>3. Holds(t)' /\ Relies(t)'
      BY <1>1, <1>3, <2>2 DEF ScanEnd, Holds, Relies, Statements, Writing, Reading, Cached
    <2>. QED
      BY <1>3, <2>2, <2>3, QuietStep, LockUntouched DEF ScanEnd
  <1>. QED
    BY <1>2, <1>3

\* What read_row_at_offset finds at an offset of the file is a row.
LEMMA ReadAtType ==
    ASSUME StoreTypeOK, NEW tb \in Tables, NEW place \in Place, InFile(tb, place)
    PROVE  ReadAt(tb, place) \in Row
  <1>1. file[tb] \in Seq(Row) /\ place.row \in Row /\ place.start \in BOOLEAN
    BY DEF StoreTypeOK, Place
  <1>2. CASE place.start
    BY <1>1, <1>2, ElementOfSeq DEF ReadAt, InFile
  <1>3. CASE ~place.start
    BY <1>1, <1>3 DEF ReadAt
  <1>. QED
    BY <1>2, <1>3

LEMMA LookupKeeps ==
    ASSUME IInv, NEW t \in Threads, Search(t) \/ Fetch(t)
    PROVE  IInv'
  <1>. USE DEF IInv, Types, ThreadTypeOK, Goto, store, lock
  <1>. DEFINE tb == req[t].table  Locals == [gen : Nat, pos : Nat, place : Place, rows : Seq(Row)]
              Answers == [ok : BOOLEAN, id : 0..MaxId, rows : Seq(Row)]
  <1>1. /\ pc[t] \in {"search", "fetch"} /\ tb \in Tables /\ t \in readers
        /\ loc[t] \in Locals /\ cache[tb] \in Runtime
    BY RequestType DEF Search, Fetch, Relies, Statements, CacheTyped, Exclusion, Holds, Reading
  <1>2. CASE Search(t)
    <2>. DEFINE index == cache[tb].index
    <2>1. CASE req[t].id \in DOMAIN index
      <3>1. loc' = [loc EXCEPT ![t].place = index[req[t].id]] /\ pc' = [pc EXCEPT ![t] = "fetch"] /\ UNCHANGED answer
        BY <1>2, <2>1 DEF Search
      <3>2. index[req[t].id] \in Place /\ InFile(tb, index[req[t].id])
        BY <1>1, <2>1 DEF Runtime, Indexes, Files
      <3>3. loc'[t] = [loc[t] EXCEPT !.place = index[req[t].id]] /\ loc'[t] \in Locals
            /\ loc' = [loc EXCEPT ![t] = loc'[t]]
        BY <1>1, <3>1, <3>2
      <3>4. ThreadTypeOK'
        BY <1>2, <3>1, <3>3 DEF Search
      <3>5. Holds(t)'
        BY <1>1, <1>2, <3>1 DEF Search, Holds, Writing, Reading
      <3>6. loc'[t].place = index[req[t].id] /\ loc'[t].gen = loc[t].gen
        BY <1>1, <3>3
      <3>7. Relies(t)'
        BY <1>1, <1>2, <3>1, <3>2, <3>6 DEF Search, Relies, Statements, Cached, InFile
      <3>. QED
        BY <1>2, <3>1, <3>3, <3>4, <3>5, <3>7, QuietStep, LockUntouched DEF Search
    <2>2. CASE req[t].id \notin DOMAIN index
      <3>1. Selected(<<>>) \in Answers
        BY MaxIdAssumption DEF Selected
      <3>a. /\ answer' = [answer EXCEPT ![t] = Selected(<<>>)]
            /\ pc' = [pc EXCEPT ![t] = "done"] /\ UNCHANGED loc
        BY <1>2, <2>2 DEF Search
      <3>2. ThreadTypeOK' /\ pc'[t] = "done"
        BY <1>2, <3>a, <3>1 DEF Search
      <3>3. Holds(t)' /\ Relies(t)'
        BY <1>1, <1>2, <2>2, <3>2 DEF Search, Holds, Relies, Statements, Writing, Reading, Cached
      <3>. QED
        BY <1>2, <2>2, <3>2, <3>3, QuietStep, LockUntouched DEF Search
    <2>. QED
      BY <2>1, <2>2
  <1>3. CASE Fetch(t)
    <2>. DEFINE row == ReadAt(tb, loc[t].place)
    <2>1. row \in Row
      BY <1>1, <1>3, ReadAtType DEF Fetch, Relies, Statements
    <2>2. (IF row.val = Malformed THEN Error
             ELSE Selected(IF Matches(req[t], row) THEN <<row>> ELSE <<>>)) \in Answers
      <3>1. (IF Matches(req[t], row) THEN <<row>> ELSE <<>>) \in Seq(Row)
        BY <2>1
      <3>2. 0 \in 0..MaxId
        BY MaxIdAssumption
      <3>. QED
        BY <3>1, <3>2, LocalsType DEF Selected
    <2>3. ThreadTypeOK' /\ pc'[t] = "done"
      BY <1>3, <2>2 DEF Fetch
    <2>4. Holds(t)' /\ Relies(t)'
      BY <1>1, <1>3, <2>3 DEF Fetch, Holds, Relies, Statements, Writing, Reading, Cached
    <2>. QED
      BY <1>3, <2>3, <2>4, QuietStep, LockUntouched DEF Fetch
  <1>. QED
    BY <1>2, <1>3

LEMMA AnswerKeeps ==
    ASSUME IInv, NEW t \in Threads, ResponseFails(t) \/ Return(t)
    PROVE  IInv'
  <1>. USE DEF IInv, Types, ThreadTypeOK, Goto, store, lock
  <1>1. /\ pc[t] = "respond" /\ pc'[t] \in {"respond", "idle"}
        /\ \A u \in Threads \ {t} : pc'[u] = pc[u] /\ req'[u] = req[u]
    BY DEF ResponseFails, Return
  <1>2. acked' \subseteq [table : Tables, id : 0..MaxId, val : Values]
    <2>1. req[t] \in Requests /\ answer[t].id \in 0..MaxId
      BY <1>1 DEF Relies, Statements
    <2>2. [table |-> req[t].table, id |-> answer[t].id, val |-> req[t].val]
             \in [table : Tables, id : 0..MaxId, val : Values]
      BY <2>1, RequestType
    <2>. QED
      BY <2>2 DEF ResponseFails, Return
  <1>3. ThreadTypeOK'
    <2>1. answer' = [answer EXCEPT ![t] = Error]
      BY DEF ResponseFails, Return
    <2>2. answer' \in [Threads -> [ok : BOOLEAN, id : 0..MaxId, rows : Seq(Row)]]
      BY <2>1, LocalsType
    <2>. QED
      BY <1>2, <2>2 DEF ResponseFails, Return
  <1>4. Holds(t)'
    BY <1>1 DEF Holds, Writing, Reading
  <1>5. Relies(t)'
    BY <1>1 DEF ResponseFails, Return, Relies, Statements, Cached
  <1>. QED
    BY <1>1, <1>3, <1>4, <1>5, QuietStep, LockUntouched DEF ResponseFails, Return

-----------------------------------------------------------------------------
(* Steps that change files or the cache.                                   *)

\* The same for a step that changes files or the cache: they are typed again,
\* grow only, and what others could notice is changed only by the writer.
LEMMA StoreStep ==
    ASSUME IInv, NEW t \in Threads, Types', Files', UNCHANGED lock,
           \A u \in Threads \ {t} : pc'[u] = pc[u] /\ req'[u] = req[u] /\ loc'[u] = loc[u],
           Holds(t)', Relies(t)',
           \A tb \in Tables : cache[tb].loaded => cache'[tb].loaded,
           \A tb \in Tables : DOMAIN file[tb] \subseteq DOMAIN file'[tb],
           gen' = gen \/ writer = t,
           (\A tb \in Tables : cache[tb].loaded => cache'[tb].next = cache[tb].next) \/ writer = t
    PROVE  IInv'
  <1>1. Exclusion'
    BY LockUntouched DEF Exclusion
  <1>2. \A u \in Threads : Relies(u)'
    <2>. SUFFICES ASSUME NEW u \in Threads, u # t PROVE Relies(u)'
      OBVIOUS
    <2>. QED
      BY OthersRelyOn DEF IInv, Statements
  <1>. QED
    BY <1>1, <1>2 DEF IInv, Statements

LEMMA PreloadKeeps ==
    ASSUME IInv, NEW t \in Threads, Preload(t)
    PROVE  IInv'
  <1>. USE DEF IInv, Types, Goto, store, lock
  <1>. DEFINE tb == req[t].table
  <1>1. pc[t] = "preload" /\ tb \in Tables /\ writer = t /\ req[t] \in Requests
    BY RequestType DEF Preload, Relies, Statements, Exclusion, Holds, Writing
  <1>2. /\ CacheTyped'
        /\ \A x \in Tables : cache[x].loaded => cache'[x] = cache[x]
        /\ \/ pc' = [pc EXCEPT ![t] = "preloaded"] /\ cache'[tb].loaded
           \/ pc' = [pc EXCEPT ![t] = "done"]
        /\ \A x \in Tables : \A i \in DOMAIN cache'[x].index : InFile(x, cache'[x].index[i])
    BY <1>1, GetOrLoadEffect, Zenon DEF Preload
  <1>3. Types' /\ Files'
    BY <1>2 DEF Preload, StoreTypeOK, ThreadTypeOK, Files, InFile
  <1>4. pc'[t] \in {"preloaded", "done"} /\ (pc'[t] = "preloaded" => cache'[tb].loaded)
    BY <1>2 DEF ThreadTypeOK
  <1>5. Holds(t)' /\ Relies(t)'
    <2>1. req[t].op # "insert"
      BY <1>1 DEF Statements, Relies
    <2>. QED
      BY <1>1, <1>4, <2>1 DEF Preload, Holds, Writing, Reading, Relies, Cached
  <1>6. \A u \in Threads \ {t} : pc'[u] = pc[u] /\ req'[u] = req[u] /\ loc'[u] = loc[u]
    BY <1>2 DEF Preload, ThreadTypeOK
  <1>. QED
    BY <1>1, <1>2, <1>3, <1>5, <1>6, StoreStep DEF Preload

LEMMA LoadForInsertKeeps ==
    ASSUME IInv, NEW t \in Threads, LoadForInsert(t)
    PROVE  IInv'
  <1>. USE DEF IInv, Types, Goto, store, lock
  <1>. DEFINE tb == req[t].table  found == IF req[t].valid THEN "append" ELSE "done"
  <1>1. pc[t] = "load" /\ tb \in Tables /\ writer = t /\ req[t] \in Requests /\ req[t].op = "insert"
    BY RequestType DEF LoadForInsert, Relies, Statements, Exclusion, Holds, Writing
  <1>2. /\ CacheTyped'
        /\ \A x \in Tables : cache[x].loaded => cache'[x] = cache[x]
        /\ \/ pc' = [pc EXCEPT ![t] = found] /\ cache'[tb].loaded
           \/ pc' = [pc EXCEPT ![t] = "done"]
        /\ \A x \in Tables : \A i \in DOMAIN cache'[x].index : InFile(x, cache'[x].index[i])
    <2>1. GetOrLoad(t, tb, found, "done")
      BY DEF LoadForInsert
    <2>. HIDE DEF found, tb, IInv
    <2>. QED
      BY <1>1, <2>1, GetOrLoadEffect
  <1>3. Types' /\ Files'
    BY <1>2 DEF LoadForInsert, StoreTypeOK, ThreadTypeOK, Files, InFile
  <1>4. pc'[t] \in {"append", "done"} /\ (pc'[t] = "append" => cache'[tb].loaded)
    BY <1>2 DEF ThreadTypeOK
  <1>5. Holds(t)' /\ Relies(t)'
    BY <1>1, <1>4 DEF LoadForInsert, Holds, Writing, Reading, Relies, Cached
  <1>6. \A u \in Threads \ {t} : pc'[u] = pc[u] /\ req'[u] = req[u] /\ loc'[u] = loc[u]
    BY <1>2 DEF LoadForInsert, ThreadTypeOK
  <1>. QED
    BY <1>1, <1>2, <1>3, <1>5, <1>6, StoreStep DEF LoadForInsert

\* The second lookup of a SELECT finds the table: under the read lock the cache
\* is not changed.
LEMMA LocateKeeps ==
    ASSUME IInv, NEW t \in Threads, Locate(t)
    PROVE  IInv' /\ UNCHANGED <<cache, gen>>
  <1>. USE DEF IInv, Types, Goto, store, lock
  <1>. DEFINE tb == req[t].table
              found == IF ~req[t].valid THEN "done"
                         ELSE IF Indexable(req[t]) THEN "search" ELSE "scan"
  <1>1. /\ pc[t] = "locate" /\ tb \in Tables /\ t \in readers /\ req[t] \in Requests
        /\ cache[tb].loaded
    BY RequestType DEF Locate, Relies, Statements, Exclusion, Holds, Reading, Cached
  <1>2. cache' = cache /\ gen' = gen /\ pc' = [pc EXCEPT ![t] = found]
    BY <1>1, GetOrLoadEffect, Zenon DEF Locate
  <1>. DEFINE Locals == [gen : Nat, pos : Nat, place : Place, rows : Seq(Row)]
              start == [NoLocals EXCEPT !.gen = gen', !.pos = 1]
  <1>3. start \in Locals /\ start.gen = gen' /\ start.pos = 1
    BY <1>2, LocalsType DEF CacheTyped
  <1>4. loc' = [loc EXCEPT ![t] = start]
    BY DEF Locate
  <1>5. ThreadTypeOK' /\ pc'[t] \in {"done", "search", "scan"} /\ loc'[t].gen = gen' /\ loc'[t].pos # 0
    <2>1. loc' \in [Threads -> Locals] /\ loc'[t] = start
      BY <1>3, <1>4 DEF ThreadTypeOK
    <2>2. pc'[t] \in {"done", "search", "scan"}
      BY <1>2 DEF ThreadTypeOK
    <2>3. ThreadTypeOK'
      BY <1>2, <2>1 DEF Locate, ThreadTypeOK
    <2>. QED
      BY <1>3, <2>1, <2>2, <2>3
  <1>6. Holds(t)' /\ Relies(t)'
    <2>1. req[t].op # "insert"
      BY <1>1 DEF Statements, Relies
    <2>. QED
      BY <1>1, <1>2, <1>5, <2>1 DEF Locate, Holds, Writing, Reading, Relies, Cached
  <1>. QED
    BY <1>2, <1>4, <1>5, <1>6, QuietStep, LockUntouched DEF Locate, ThreadTypeOK

\* Appending a row, or a part of it, to one file.
LEMMA AppendEffect ==
    ASSUME IInv, NEW tb \in Tables, NEW row \in Row, row.id # 0,
           file' = [file EXCEPT ![tb] = Extended(tb, row)],
           frag' \in [Tables -> {"none", "id", "val"}], UNCHANGED cache
    PROVE  /\ StoreTypeOK' /\ Files'
           /\ \A x \in Tables : DOMAIN file[x] \subseteq DOMAIN file'[x]
           /\ frag[tb] = "none" => Len(file[tb]) + 1 \in DOMAIN file'[tb]
  <1>. USE DEF IInv, Types
  <1>1. /\ Extended(tb, row) \in Seq(Row)
        /\ DOMAIN file[tb] \subseteq DOMAIN Extended(tb, row)
        /\ \A k \in DOMAIN Extended(tb, row) : Extended(tb, row)[k].id # 0
        /\ frag[tb] = "none" => Len(file[tb]) + 1 \in DOMAIN Extended(tb, row)
    BY ExtendedType DEF Files
  <1>2. file'[tb] = Extended(tb, row) /\ \A x \in Tables \ {tb} : file'[x] = file[x]
    BY DEF StoreTypeOK
  <1>3. StoreTypeOK'
    BY <1>1 DEF StoreTypeOK
  <1>4. \A x \in Tables : DOMAIN file[x] \subseteq DOMAIN file'[x]
    BY <1>1, <1>2
  <1>5. Files'
    BY <1>1, <1>2, <1>4 DEF Files, InFile
  <1>. QED
    BY <1>1, <1>2, <1>3, <1>4, <1>5

LEMMA NewRowType ==
    ASSUME IInv, NEW t \in Threads, pc[t] \in {"append", "index"}
    PROVE  /\ req[t] \in Requests /\ req[t].op = "insert" /\ req[t].table \in Tables
           /\ NewRow(t) \in Row /\ NewRow(t).id \in 0..MaxId /\ NewRow(t).val \in Values
           /\ writer = t /\ cache[req[t].table].loaded
           /\ NewRow(t).id = cache[req[t].table].next /\ NewRow(t).val = req[t].val
  <1>1. /\ req[t] \in Requests /\ req[t].op = "insert" /\ req[t].table \in Tables
        /\ req[t].val \in Values /\ writer = t /\ cache[req[t].table].loaded
    BY RequestType DEF IInv, Statements, Relies, Exclusion, Holds, Writing, Cached
  <1>2. cache[req[t].table].next \in 0..MaxId
    BY <1>1 DEF IInv, Types, CacheTyped, Runtime
  <1>. QED
    BY <1>1, <1>2 DEF NewRow, Row

LEMMA AppendToFileKeeps ==
    ASSUME IInv, NEW t \in Threads, AppendToFile(t)
    PROVE  IInv'
  <1>. USE DEF IInv, Types, Goto, store, lock
  <1>. DEFINE tb == req[t].table
  <1>1. pc[t] = "append" /\ pc' = [pc EXCEPT ![t] = "index"] /\ NewRow(t).id # 0
    BY DEF AppendToFile
  <1>2. /\ req[t] \in Requests /\ req[t].op = "insert" /\ tb \in Tables
        /\ NewRow(t) \in Row /\ writer = t /\ cache[tb].loaded
        /\ cache[tb].next # 0
    BY <1>1, NewRowType, Zenon
  <1>3. file' = [file EXCEPT ![tb] = Extended(tb, NewRow(t))] /\ frag' \in [Tables -> {"none", "id", "val"}]
    BY DEF AppendToFile, AppendRow, StoreTypeOK
  <1>4. /\ StoreTypeOK' /\ Files'
        /\ \A x \in Tables : DOMAIN file[x] \subseteq DOMAIN file'[x]
        /\ frag[tb] = "none" => Len(file[tb]) + 1 \in DOMAIN file'[tb]
    BY <1>1, <1>2, <1>3, AppendEffect DEF AppendToFile
  <1>. DEFINE place == NextPlace(tb, NewRow(t))
              Locals == [gen : Nat, pos : Nat, place : Place, rows : Seq(Row)]
  <1>5. place \in Place /\ (place.start => place.line \in DOMAIN file'[tb])
    <2>1. Len(file[tb]) \in Nat /\ Len(file[tb]) + 1 \in Nat
      BY <1>2 DEF StoreTypeOK
    <2>. QED
      BY <1>2, <1>4, <2>1 DEF NextPlace, Place
  <1>6. loc' = [loc EXCEPT ![t].place = place] /\ loc[t] \in Locals
    BY DEF AppendToFile, ThreadTypeOK
  <1>7. loc' \in [Threads -> Locals] /\ loc'[t].place = place
    <2>. HIDE DEF place
    <2>. QED
      BY <1>5, <1>6 DEF ThreadTypeOK
  <1>8. Types'
    BY <1>1, <1>4, <1>7 DEF AppendToFile, ThreadTypeOK, CacheTyped
  <1>9. Holds(t)' /\ Relies(t)'
    <2>1. pc'[t] = "index" /\ req'[t] = req[t] /\ cache' = cache /\ writer' = writer
      BY <1>1 DEF AppendToFile, ThreadTypeOK
    <2>2. InFile(req[t].table, loc[t].place)'
      BY <1>5, <1>7, <2>1 DEF InFile
    <2>. QED
      BY <1>2, <2>1, <2>2 DEF Holds, Writing, Reading, Relies, Cached
  <1>10. \A u \in Threads \ {t} : pc'[u] = pc[u] /\ req'[u] = req[u] /\ loc'[u] = loc[u]
    BY <1>1, <1>6 DEF AppendToFile, ThreadTypeOK
  <1>. QED
    BY <1>4, <1>8, <1>9, <1>10, StoreStep DEF AppendToFile

LEMMA AppendToFileFailsKeeps ==
    ASSUME IInv, NEW t \in Threads, AppendToFileFails(t)
    PROVE  IInv'
  <1>. USE DEF IInv, Types, Goto, store, lock
  <1>. DEFINE tb == req[t].table  row == NewRow(t)
  <1>1. pc[t] = "append" /\ pc' = [pc EXCEPT ![t] = "done"] /\ row.id # 0
    BY DEF AppendToFileFails
  <1>2. req[t] \in Requests /\ tb \in Tables /\ row \in Row /\ writer = t
    BY <1>1, NewRowType, Zenon
  <1>3. UNCHANGED cache /\ UNCHANGED gen
    BY DEF AppendToFileFails
  <1>. DEFINE Grown == /\ StoreTypeOK' /\ Files'
                       /\ \A x \in Tables : DOMAIN file[x] \subseteq DOMAIN file'[x]
  <1>4. Grown
    <2>1. CASE UNCHANGED store
      BY <1>3, <2>1 DEF StoreTypeOK, Files, InFile
    <2>2. ASSUME NEW p \in DigitPrefixes(row.id),
                 file' = [file EXCEPT ![tb] = Extended(tb, [id |-> p, val |-> Blank])],
                 frag' = [frag EXCEPT ![tb] = IF @ = "val" THEN "val" ELSE "id"]
          PROVE  Grown
      <3>1. row.id \in Nat
        BY <1>2 DEF Row
      <3>2. p \in Nat /\ p # 0
        BY <3>1 DEF DigitPrefixes
      <3>3. [id |-> p, val |-> Blank] \in Row /\ [id |-> p, val |-> Blank].id # 0
        BY <3>2 DEF Row
      <3>4. frag' \in [Tables -> {"none", "id", "val"}]
        BY <2>2 DEF StoreTypeOK
      <3>. QED
        BY <1>2, <1>3, <2>2, <3>3, <3>4, AppendEffect
    <2>3. ASSUME NEW v \in {Garbled, Malformed, row.val},
                 file' = [file EXCEPT ![tb] = Extended(tb, [id |-> row.id, val |-> v])],
                 frag' = [frag EXCEPT ![tb] = "val"]
          PROVE  Grown
      <3>1. [id |-> row.id, val |-> v] \in Row /\ [id |-> row.id, val |-> v].id # 0
        BY <1>1, <1>2 DEF Row
      <3>2. frag' \in [Tables -> {"none", "id", "val"}]
        BY <2>3 DEF StoreTypeOK
      <3>. QED
        BY <1>2, <1>3, <2>3, <3>1, <3>2, AppendEffect
    <2>4. CASE AppendRow(tb, row)
      <3>1. /\ file' = [file EXCEPT ![tb] = Extended(tb, row)]
            /\ frag' \in [Tables -> {"none", "id", "val"}]
        BY <2>4 DEF AppendRow, StoreTypeOK
      <3>. QED
        BY <1>1, <1>2, <1>3, <3>1, AppendEffect
    <2>5. AppendRowFails(tb, row)
      BY DEF AppendToFileFails
    <2>. HIDE DEF Grown, tb, row
    <2>. QED
      BY <2>1, <2>2, <2>3, <2>4, <2>5, Zenon DEF AppendRowFails
  <1>5. Types'
    BY <1>1, <1>4 DEF AppendToFileFails, ThreadTypeOK, CacheTyped
  <1>6. Holds(t)' /\ Relies(t)'
    BY <1>1, <1>2 DEF AppendToFileFails, ThreadTypeOK, Holds, Writing, Reading, Relies, Cached
  <1>7. \A u \in Threads \ {t} : pc'[u] = pc[u] /\ req'[u] = req[u] /\ loc'[u] = loc[u]
    BY <1>1 DEF AppendToFileFails, ThreadTypeOK
  <1>. QED
    BY <1>3, <1>4, <1>5, <1>6, <1>7, StoreStep DEF AppendToFileFails

\* An index with one more offset, and an index that lost its largest ids.
LEMMA IndexedType ==
    ASSUME IInv, NEW t \in Threads, pc[t] = "index"
    PROVE  LET tb == req[t].table IN
           /\ Indexed(t, tb) \in Indexes
           /\ DOMAIN Indexed(t, tb) = DOMAIN cache[tb].index \cup {cache[tb].next}
           /\ \A i \in DOMAIN Indexed(t, tb) : InFile(tb, Indexed(t, tb)[i])
  <1>. DEFINE tb == req[t].table
  <1>1. /\ tb \in Tables /\ cache[tb].next \in 1..MaxId /\ cache[tb].index \in Indexes
        /\ loc[t].place \in Place /\ InFile(tb, loc[t].place)
    <2>1. tb \in Tables /\ cache[tb].next # 0 /\ InFile(tb, loc[t].place)
      BY NewRowType DEF IInv, Statements, Relies
    <2>. QED
      BY <2>1, MaxIdAssumption DEF IInv, Types, CacheTyped, Runtime, ThreadTypeOK
  <1>2. /\ DOMAIN cache[tb].index \subseteq 1..MaxId
        /\ cache[tb].index \in [DOMAIN cache[tb].index -> Place]
    BY <1>1 DEF Indexes
  <1>3. \A i \in DOMAIN cache[tb].index : InFile(tb, cache[tb].index[i])
    BY <1>1 DEF IInv, Files
  <1>. DEFINE ids == DOMAIN cache[tb].index \cup {cache[tb].next}
  <1>4. Indexed(t, tb) \in [ids -> Place] /\ ids \subseteq 1..MaxId
    BY <1>1, <1>2 DEF Indexed
  <1>5. \A i \in ids : InFile(tb, Indexed(t, tb)[i])
    BY <1>1, <1>3 DEF Indexed
  <1>. QED
    BY <1>4, <1>5 DEF Indexes

LEMMA CutAboveType ==
    ASSUME NEW i \in Indexes, NEW last
    PROVE  /\ CutAbove(i, last) \in Indexes
           /\ \A k \in DOMAIN CutAbove(i, last) : k \in DOMAIN i /\ CutAbove(i, last)[k] = i[k]
  <1>. DEFINE ids == {j \in DOMAIN i : j <= last}
  <1>1. DOMAIN i \subseteq 1..MaxId /\ i \in [DOMAIN i -> Place]
    BY DEF Indexes
  <1>2. CutAbove(i, last) \in [ids -> Place] /\ ids \subseteq 1..MaxId
    BY <1>1 DEF CutAbove
  <1>. QED
    BY <1>2 DEF Indexes, CutAbove

LEMMA RuntimeUpdate ==
    ASSUME NEW c \in Runtime, NEW index \in Indexes, NEW next \in 0..MaxId
    PROVE  [c EXCEPT !.index = index, !.next = next] \in Runtime
  <1>. DEFINE N == 0..MaxId
  <1>. HIDE DEF N
  <1>1. c \in [loaded : BOOLEAN, next : N, index : Indexes] /\ next \in N
    BY DEF N, Runtime
  <1>2. [c EXCEPT !.index = index, !.next = next] \in [loaded : BOOLEAN, next : N, index : Indexes]
    BY <1>1
  <1>. QED
    BY <1>2 DEF N, Runtime

\* The writer replaces the index of a table, and may advance its next_id.
LEMMA IndexStep ==
    ASSUME IInv, NEW t \in Threads, pc[t] = "index",
           NEW index \in Indexes, NEW next \in 0..MaxId,
           \A i \in DOMAIN index : InFile(req[t].table, index[i]),
           cache' = [cache EXCEPT ![req[t].table].index = index, ![req[t].table].next = next],
           UNCHANGED <<file, frag, gen, writer, readers, req, loc, acked>>,
           pc' = [pc EXCEPT ![t] = "done"],
           answer' \in [Threads -> [ok : BOOLEAN, id : 0..MaxId, rows : Seq(Row)]]
    PROVE  /\ IInv'
           /\ cache'[req[t].table].loaded
           /\ cache'[req[t].table].next = next
           /\ cache'[req[t].table].index = index
           /\ \A tb \in Tables \ {req[t].table} : cache'[tb] = cache[tb]
  <1>. USE DEF IInv, Types
  <1>. DEFINE tb == req[t].table
  <1>1. req[t] \in Requests /\ tb \in Tables /\ writer = t /\ cache[tb].loaded
    BY NewRowType
  <1>2. cache[tb] \in Runtime
    BY <1>1 DEF CacheTyped
  <1>3. cache'[tb] = [cache[tb] EXCEPT !.index = index, !.next = next]
    BY <1>1 DEF CacheTyped
  <1>4. cache'[tb] \in Runtime /\ cache'[tb].index = index /\ cache'[tb].next = next /\ cache'[tb].loaded
    <2>1. cache'[tb] \in Runtime
      <3>1. \A c \in Runtime : [c EXCEPT !.index = index, !.next = next] \in Runtime
        BY RuntimeUpdate
      <3>2. [cache[tb] EXCEPT !.index = index, !.next = next] \in Runtime
        BY <1>2, <3>1
      <3>. QED
        BY <1>3, <3>2
    <2>2. cache'[tb].index = index /\ cache'[tb].next = next
      BY <1>2, <1>3 DEF Runtime
    <2>3. cache'[tb].loaded = cache[tb].loaded
      BY <1>2, <1>3 DEF Runtime
    <2>. QED
      BY <1>1, <2>1, <2>2, <2>3
  <1>5. \A x \in Tables \ {tb} : cache'[x] = cache[x]
    BY DEF CacheTyped
  <1>6. CacheTyped'
    <2>1. cache' = [x \in Tables |-> cache'[x]] /\ \A x \in Tables : cache'[x] \in Runtime
      BY <1>4, <1>5 DEF CacheTyped
    <2>. QED
      BY <2>1 DEF CacheTyped
  <1>7. Types'
    BY <1>6 DEF StoreTypeOK, ThreadTypeOK
  <1>8. Files'
    <2>. SUFFICES ASSUME NEW x \in Tables
                  PROVE  /\ \A k \in DOMAIN file[x] : file[x][k].id # 0
                         /\ \A i \in DOMAIN cache'[x].index : InFile(x, cache'[x].index[i])
      BY DEF Files, InFile
    <2>1. CASE x = tb
      BY <1>4, <2>1 DEF Files
    <2>2. CASE x # tb
      BY <1>5, <2>2 DEF Files
    <2>. QED
      BY <2>1, <2>2
  <1>9. Holds(t)' /\ Relies(t)'
    BY <1>1 DEF ThreadTypeOK, Holds, Writing, Reading, Relies, Cached
  <1>10. \A u \in Threads \ {t} : pc'[u] = pc[u] /\ req'[u] = req[u] /\ loc'[u] = loc[u]
    BY DEF ThreadTypeOK
  <1>11. \A x \in Tables : cache[x].loaded => cache'[x].loaded
    BY <1>4, <1>5
  <1>12. IInv'
    <2>. HIDE DEF IInv, Types
    <2>. QED
      BY <1>1, <1>7, <1>8, <1>9, <1>10, <1>11, StoreStep DEF lock
  <1>. QED
    BY <1>4, <1>5, <1>12

\* A statement that ends after its row was written, without touching the cache.
LEMMA IndexUntouched ==
    ASSUME IInv, NEW t \in Threads, pc[t] = "index", pc' = [pc EXCEPT ![t] = "done"],
           UNCHANGED <<file, frag, cache, gen, writer, readers, req, loc, answer, acked>>
    PROVE  IInv'
  <1>. USE DEF IInv, Types, ThreadTypeOK
  <1>1. req[t] \in Requests /\ writer = t /\ pc'[t] = "done" /\ ThreadTypeOK'
    BY NewRowType
  <1>2. Holds(t)' /\ Relies(t)'
    BY <1>1 DEF Holds, Writing, Reading, Relies, Cached
  <1>. QED
    BY <1>1, <1>2, QuietStep, LockUntouched DEF lock

LEMMA AddToIndexKeeps ==
    ASSUME IInv, NEW t \in Threads, AddToIndex(t)
    PROVE  IInv'
  <1>. DEFINE tb == req[t].table  id == cache[tb].next  next == (id + 1) % (MaxId + 1)
  <1>1. pc[t] = "index" /\ tb \in Tables /\ id \in 0..MaxId
    BY NewRowType DEF AddToIndex, AddAndAdvance
  <1>2. pc' = [pc EXCEPT ![t] = "done"] /\ UNCHANGED <<file, frag, gen, writer, readers, req, loc, acked>>
    BY DEF AddToIndex, AddAndAdvance, Goto, store, lock
  <1>3. CASE id \in DOMAIN cache[tb].index
    <2>1. UNCHANGED <<cache, answer>>
      BY <1>3 DEF AddToIndex, AddAndAdvance
    <2>. QED
      BY <1>1, <1>2, <2>1, IndexUntouched
  <1>4. CASE id \notin DOMAIN cache[tb].index
    <2>1. /\ cache' = [cache EXCEPT ![tb].index = Indexed(t, tb), ![tb].next = next]
          /\ answer' = [answer EXCEPT ![t] = Inserted(id)]
      BY <1>4 DEF AddToIndex, AddAndAdvance
    <2>2. Indexed(t, tb) \in Indexes /\ \A i \in DOMAIN Indexed(t, tb) : InFile(tb, Indexed(t, tb)[i])
      BY <1>1, IndexedType
    <2>3. next \in 0..MaxId
      BY <1>1, MaxIdAssumption
    <2>4. answer' \in [Threads -> [ok : BOOLEAN, id : 0..MaxId, rows : Seq(Row)]]
      BY <1>1, <2>1 DEF IInv, Types, ThreadTypeOK, Inserted
    <2>. QED
      <3>. HIDE DEF id, next
      <3>. QED
        BY <1>1, <1>2, <2>1, <2>2, <2>3, <2>4, IndexStep
  <1>. QED
    BY <1>3, <1>4

LEMMA AddToIndexFailsKeeps ==
    ASSUME IInv, NEW t \in Threads, AddToIndexFails(t)
    PROVE  IInv'
  <1>. DEFINE tb == req[t].table
  <1>1. pc[t] = "index" /\ tb \in Tables /\ cache[tb] \in Runtime
    BY NewRowType DEF AddToIndexFails, IInv, Types, CacheTyped
  <1>2. /\ pc' = [pc EXCEPT ![t] = "done"]
        /\ UNCHANGED <<file, frag, gen, writer, readers, req, loc, answer, acked>>
    BY DEF AddToIndexFails, Goto, store, lock
  <1>3. CASE UNCHANGED cache
    BY <1>1, <1>2, <1>3, IndexUntouched
  <1>4. ASSUME NEW last \in DOMAIN cache[tb].index,
               cache' = [cache EXCEPT ![tb].index = CutAbove(@, last)]
        PROVE  IInv'
    <2>. DEFINE index == CutAbove(cache[tb].index, last)
    <2>1. index \in Indexes /\ \A i \in DOMAIN index : InFile(tb, index[i])
      <3>1. cache[tb].index \in Indexes
        BY <1>1 DEF Runtime
      <3>. QED
        BY <1>1, <3>1, CutAboveType DEF IInv, Files
    <2>2. cache' = [cache EXCEPT ![tb].index = index, ![tb].next = cache[tb].next]
      BY <1>1, <1>4 DEF IInv, Types, CacheTyped, Runtime
    <2>3. cache[tb].next \in 0..MaxId
      BY <1>1 DEF Runtime
    <2>4. answer' \in [Threads -> [ok : BOOLEAN, id : 0..MaxId, rows : Seq(Row)]]
      BY <1>2 DEF IInv, Types, ThreadTypeOK
    <2>. QED
      <3>. HIDE DEF index
      <3>. QED
        BY <1>1, <1>2, <2>1, <2>2, <2>3, <2>4, IndexStep
  <1>. QED
    BY <1>3, <1>4 DEF AddToIndexFails

\* A TableRuntime that was not loaded yet.
LEMMA NotLoadedType ==
    /\ NotLoaded \in Runtime /\ ~NotLoaded.loaded
    /\ NotLoaded.index = <<>> /\ DOMAIN NotLoaded.index = {}
  <1>1. <<>> \in [{} -> Place] /\ DOMAIN <<>> = {}
    OBVIOUS
  <1>2. <<>> \in Indexes
    BY <1>1 DEF Indexes
  <1>. QED
    BY <1>1, <1>2, MaxIdAssumption DEF NotLoaded, Runtime

LEMMA CrashKeeps == ASSUME IInv, Crash PROVE IInv'
  <1>. USE DEF Crash, store
  <1>1. ThreadTypeOK'
    <2>1. loc' \in [Threads -> [gen : Nat, pos : Nat, place : Place, rows : Seq(Row)]]
      BY LocalsType
    <2>2. answer' \in [Threads -> [ok : BOOLEAN, id : 0..MaxId, rows : Seq(Row)]]
      BY LocalsType
    <2>. QED
      BY <2>1, <2>2 DEF IInv, Types, ThreadTypeOK
  <1>2. CacheTyped' /\ StoreTypeOK'
    BY NotLoadedType DEF IInv, Types, CacheTyped, StoreTypeOK
  <1>3. Exclusion'
    BY DEF Exclusion, Holds, Writing, Reading
  <1>4. Statements'
    BY DEF Statements, Relies, Cached
  <1>5. Files'
    BY NotLoadedType DEF IInv, Files
  <1>. QED
    BY <1>1, <1>2, <1>3, <1>4, <1>5 DEF IInv, Types

LEMMA InitIInv == Init => IInv
  <1>. SUFFICES ASSUME Init PROVE IInv
    OBVIOUS
  <1>. USE DEF Init
  <1>1. ThreadTypeOK
    <2>1. loc \in [Threads -> [gen : Nat, pos : Nat, place : Place, rows : Seq(Row)]]
      BY LocalsType
    <2>2. answer \in [Threads -> [ok : BOOLEAN, id : 0..MaxId, rows : Seq(Row)]]
      BY LocalsType
    <2>. QED
      BY <2>1, <2>2 DEF ThreadTypeOK
  <1>2. CacheTyped /\ StoreTypeOK
    BY NotLoadedType DEF CacheTyped, StoreTypeOK
  <1>3. Exclusion
    BY DEF Exclusion, Holds, Writing, Reading
  <1>4. Statements
    BY DEF Statements, Relies, Cached
  <1>5. Files
    BY NotLoadedType DEF Files
  <1>. QED
    BY <1>1, <1>2, <1>3, <1>4, <1>5 DEF IInv, Types

LEMMA NextIInv == IInv /\ [Next]_vars => IInv'
  <1>. SUFFICES ASSUME IInv, [Next]_vars PROVE IInv'
    OBVIOUS
  <1>1. ASSUME NEW t \in Threads,
               \/ Call(t) \/ Step(t)
               \/ LockFails(t) \/ AppendToFileFails(t) \/ AddToIndexFails(t)
               \/ ExecutionFails(t) \/ ResponseFails(t)
        PROVE  IInv'
    BY <1>1, CallKeeps, AcquireKeeps, ReleaseKeeps, GiveUpKeeps, ScanKeeps, LookupKeeps,
       AnswerKeeps, PreloadKeeps, LoadForInsertKeeps, LocateKeeps, AppendToFileKeeps,
       AppendToFileFailsKeeps, AddToIndexKeeps, AddToIndexFailsKeeps, Zenon DEF Step
  <1>2. CASE UNCHANGED vars
    BY <1>2 DEF vars, IInv, Types, StoreTypeOK, CacheTyped, ThreadTypeOK, Exclusion, Holds,
                Statements, Relies, Files, InFile
  <1>. QED
    BY <1>1, <1>2, CrashKeeps, Zenon DEF Next

THEOREM DbInvariant == Spec => []IInv
  BY InitIInv, NextIInv, PTL DEF Spec

\* For every set of statements and every MaxId, whatever fails: the variables
\* keep their types; next_id stays a uint64_t, and no index of a B+ tree ever
\* has an id that is 0 or too large.
THEOREM DbTypeCorrect == Spec => []TypeOK
  <1>1. IInv => TypeOK
    BY TypesAreTypeOK DEF IInv
  <1>. QED
    BY <1>1, DbInvariant, PTL

\* Whatever fails and whoever runs between the two critical sections of a
\* SELECT: its second lookup finds the table, and ctx.tables is not extended
\* while a reader holds a pointer into it.
THEOREM DbCacheStableUnderRead == Spec => []CacheStableUnderRead
  <1>1. IInv => CacheStableUnderRead
    BY DEF IInv, Statements, Relies, Cached, CacheStableUnderRead
  <1>. QED
    BY <1>1, DbInvariant, PTL

-----------------------------------------------------------------------------
(* What becomes of rows: that the row of an INSERT that was answered with  *)
(* success stays in its file and can be read back, and that the ids and    *)
(* the index in memory are those of the file.                              *)
(*                                                                         *)
(* And while nothing fails, that the SQL engine implements AtomicTables:   *)
(* statements of any number of threads are linearizable. An INSERT takes   *)
(* effect when its row is appended, a SELECT when it reaches the end of    *)
(* the file or has read the row its id leads to, a statement that fails    *)
(* when it gives up.                                                       *)

\* The steps of a thread by what they change: neither files nor cache, ...
Quiet(t) ==
    \/ Call(t) \/ LockForPreload(t) \/ UnlockPreload(t) \/ LockForRead(t)
    \/ ScanRow(t) \/ ScanEnd(t) \/ Search(t) \/ Fetch(t)
    \/ LockForInsert(t) \/ NoIdLeft(t) \/ LockFails(t) \/ ExecutionFails(t)
    \/ Unlock(t) \/ ResponseFails(t) \/ Return(t)

\* ... or the set of tables that are in the cache.
Loading(t) == Preload(t) \/ Locate(t) \/ LoadForInsert(t)

\* Thread u does nothing in this step.
Idles(u) == pc'[u] = pc[u] /\ req'[u] = req[u] /\ loc'[u] = loc[u] /\ answer'[u] = answer[u]

LEMMA StepCases ==
    ASSUME [Next]_vars
    PROVE  \/ UNCHANGED vars
           \/ Crash
           \/ \E t \in Threads :
                 \/ Quiet(t) \/ Loading(t) \/ AppendToFile(t) \/ AddToIndex(t)
                 \/ AppendToFileFails(t) \/ AddToIndexFails(t)
  BY Zenon DEF Next, Step, Quiet, Loading

LEMMA QuietFrame ==
    ASSUME IInv, NEW t \in Threads, Quiet(t)
    PROVE  /\ UNCHANGED <<file, frag, cache, gen>>
           /\ \A u \in Threads \ {t} : Idles(u)
           /\ pc'[t] \in {"wantInsert", "wantPreload", "preload", "wantRead", "locate", "scan",
                          "fetch", "load", "done", "respond", "idle"}
           /\ pc[t] # "index"
  <1>. USE DEF IInv, Types, ThreadTypeOK, Goto, store
  <1>1. UNCHANGED <<file, frag, cache, gen>>
    BY DEF Quiet, Call, LockForPreload, UnlockPreload, LockForRead, ScanRow, ScanEnd, Search, Fetch,
           LockForInsert, NoIdLeft, LockFails, ExecutionFails, Unlock, ResponseFails, Return
  <1>2. \A u \in Threads \ {t} : pc'[u] = pc[u]
    BY DEF Quiet, Call, LockForPreload, UnlockPreload, LockForRead, ScanRow, ScanEnd, Search, Fetch,
           LockForInsert, NoIdLeft, LockFails, ExecutionFails, Unlock, ResponseFails, Return
  <1>3. \A u \in Threads \ {t} : req'[u] = req[u] /\ loc'[u] = loc[u]
    BY DEF Quiet, Call, LockForPreload, UnlockPreload, LockForRead, ScanRow, ScanEnd, Search, Fetch,
           LockForInsert, NoIdLeft, LockFails, ExecutionFails, Unlock, ResponseFails, Return
  <1>4. \A u \in Threads \ {t} : answer'[u] = answer[u]
    BY DEF Quiet, Call, LockForPreload, UnlockPreload, LockForRead, ScanRow, ScanEnd, Search, Fetch,
           LockForInsert, NoIdLeft, LockFails, ExecutionFails, Unlock, ResponseFails, Return
  <1>5. pc'[t] \in {"wantInsert", "wantPreload", "preload", "wantRead", "locate", "scan",
                    "fetch", "load", "done", "respond", "idle"}
    BY DEF Quiet, Call, LockForPreload, UnlockPreload, LockForRead, ScanRow, ScanEnd, Search, Fetch,
           LockForInsert, NoIdLeft, LockFails, ExecutionFails, Unlock, ResponseFails, Return
  <1>6. pc[t] # "index"
    BY DEF Quiet, Call, LockForPreload, UnlockPreload, LockForRead, ScanRow, ScanEnd, Search, Fetch,
           LockForInsert, NoIdLeft, LockFails, ExecutionFails, Unlock, ResponseFails, Return
  <1>. QED
    BY <1>1, <1>2, <1>3, <1>4, <1>5, <1>6 DEF Idles

\* Such a step gives an INSERT no answer of success that it did not have, ...
LEMMA QuietAnswer ==
    ASSUME IInv, NEW t \in Threads, Quiet(t), pc[t] \notin {"done", "respond"} => ~answer[t].ok
    PROVE  /\ pc'[t] \notin {"done", "respond"} => ~answer'[t].ok
           /\ answer'[t].ok /\ req'[t].op = "insert" => answer'[t] = answer[t] /\ req'[t] = req[t]
  <1>. USE DEF IInv, Types, ThreadTypeOK, Goto
  <1>1. pc'[t] \notin {"done", "respond"} => ~answer'[t].ok
    <2>1. CASE Call(t) \/ LockForPreload(t) \/ UnlockPreload(t) \/ LockForRead(t) \/ LockForInsert(t)
      BY <2>1 DEF Call, LockForPreload, UnlockPreload, LockForRead, LockForInsert
    <2>2. CASE ScanRow(t) \/ ScanEnd(t) \/ Search(t) \/ Fetch(t)
      BY <2>2 DEF ScanRow, ScanEnd, Search, Fetch
    <2>3. CASE NoIdLeft(t) \/ LockFails(t) \/ ExecutionFails(t) \/ Unlock(t)
      BY <2>3 DEF NoIdLeft, LockFails, ExecutionFails, Unlock
    <2>4. CASE ResponseFails(t) \/ Return(t)
      BY <2>4 DEF ResponseFails, Return, Error
    <2>. QED
      BY <2>1, <2>2, <2>3, <2>4, Zenon DEF Quiet
  <1>2. ASSUME answer'[t].ok, req'[t].op = "insert"
        PROVE  answer'[t] = answer[t] /\ req'[t] = req[t]
    <2>1. CASE Call(t)
      BY <1>1, <1>2, <2>1 DEF Call
    <2>2. CASE ScanEnd(t) \/ Search(t) \/ Fetch(t)
      BY <1>2, <2>2 DEF Statements, Relies, ScanEnd, Search, Fetch
    <2>3. CASE ResponseFails(t) \/ Return(t)
      BY <1>2, <2>3 DEF ResponseFails, Return, Error
    <2>4. CASE \/ LockForPreload(t) \/ UnlockPreload(t) \/ LockForRead(t) \/ LockForInsert(t)
               \/ ScanRow(t) \/ NoIdLeft(t) \/ LockFails(t) \/ ExecutionFails(t) \/ Unlock(t)
      BY <2>4 DEF LockForPreload, UnlockPreload, LockForRead, LockForInsert, ScanRow,
                  NoIdLeft, LockFails, ExecutionFails, Unlock
    <2>. QED
      BY <2>1, <2>2, <2>3, <2>4, Zenon DEF Quiet
  <1>. QED
    BY <1>1, <1>2

\* ... and acknowledges a row only when its answer is one of success.
LEMMA QuietAcks ==
    ASSUME NEW t \in Threads, Quiet(t)
    PROVE  \/ acked' = acked
           \/ /\ req[t].op = "insert" /\ answer[t].ok
              /\ acked' = acked \cup {[table |-> req[t].table, id |-> answer[t].id, val |-> req[t].val]}
  BY DEF Quiet, Call, LockForPreload, UnlockPreload, LockForRead, ScanRow, ScanEnd, Search, Fetch,
         LockForInsert, NoIdLeft, LockFails, ExecutionFails, Unlock, ResponseFails, Return

LEMMA LoadingFrame ==
    ASSUME IInv, NEW t \in Threads, Loading(t)
    PROVE  /\ UNCHANGED <<file, frag, req, answer, acked>>
           /\ \A u \in Threads \ {t} : Idles(u)
           /\ pc[t] \in {"preload", "locate", "load"} /\ req[t].table \in Tables
           /\ pc'[t] \in {"preloaded", "search", "scan", "append", "done"}
           /\ \A tb \in Tables :
                 \/ cache'[tb] = cache[tb]
                 \/ ~cache[tb].loaded /\ Loadable(tb) /\ cache'[tb] = Loaded(tb)
  <1>. USE DEF IInv, Types, ThreadTypeOK, Goto, store
  <1>1. /\ UNCHANGED <<file, frag, req, answer, acked>>
        /\ pc[t] \in {"preload", "locate", "load"}
        /\ \A u \in Threads \ {t} : loc'[u] = loc[u]
    BY DEF Loading, Preload, Locate, LoadForInsert
  <1>2. req[t].table \in Tables
    BY <1>1, RequestType DEF Statements, Relies
  <1>3. PICK found \in {"preloaded", "search", "scan", "append", "done"} :
            GetOrLoad(t, req[t].table, found, "done")
    BY DEF Loading, Preload, Locate, LoadForInsert
  <1>4. /\ pc' = [pc EXCEPT ![t] = found] \/ pc' = [pc EXCEPT ![t] = "done"]
        /\ \/ cache' = cache
           \/ /\ ~cache[req[t].table].loaded /\ Loadable(req[t].table)
              /\ cache' = [cache EXCEPT ![req[t].table] = Loaded(req[t].table)]
    BY <1>3, Zenon DEF GetOrLoad
  <1>5. \A u \in Threads \ {t} : Idles(u)
    BY <1>1, <1>4 DEF Idles
  <1>6. pc'[t] \in {"preloaded", "search", "scan", "append", "done"}
    BY <1>4
  <1>7. \A tb \in Tables :
           \/ cache'[tb] = cache[tb]
           \/ ~cache[tb].loaded /\ Loadable(tb) /\ cache'[tb] = Loaded(tb)
    BY <1>2, <1>4 DEF CacheTyped
  <1>. QED
    BY <1>1, <1>2, <1>5, <1>6, <1>7

-----------------------------------------------------------------------------
(* The invariants, beside IInv, on which the theorems rest.                *)

HasRow(tb, row) == \E k \in DOMAIN file[tb] : file[tb][k] = row

\* If no write is cut off: no line is unterminated, and the row of an INSERT is
\* in the file from the moment it was appended on.
Promised(t) ==
    /\ pc[t] = "index" => HasRow(req[t].table, NewRow(t))
    /\ pc[t] \notin {"done", "respond"} => ~answer[t].ok
    /\ answer[t].ok /\ req[t].op = "insert"
          => HasRow(req[t].table, [id |-> answer[t].id, val |-> req[t].val])

Durable ==
    /\ \A tb \in Tables : frag[tb] = "none"
    /\ \A t \in Threads : Promised(t)
    /\ AckedRowsSurvive

\* If the process does not crash: a table that is not in the cache is empty.
Unread(tb) == file[tb] = <<>> /\ frag[tb] = "none" /\ DOMAIN cache[tb].index = {}

\* A place at which read_row_at_offset will always find the same row: that of a
\* terminated line, or one that the place itself remembers.
Firm(tb, place) ==
    place.start => /\ place.line \in DOMAIN file[tb]
                   /\ place.line = Len(file[tb]) => frag[tb] = "none"

Finds(tb, id, row) ==
    id \in DOMAIN cache[tb].index /\ ReadAt(tb, cache[tb].index[id]) = row

\* If neither the process nor an insertion into the index fails: every offset
\* in an index is firm, and leads to the row that was acknowledged.
Reachable(t) ==
    /\ pc[t] = "index" => /\ Firm(req[t].table, loc[t].place)
                          /\ ReadAt(req[t].table, loc[t].place) = NewRow(t)
    /\ pc[t] \notin {"done", "respond"} => ~answer[t].ok
    /\ answer[t].ok /\ req[t].op = "insert"
          => Finds(req[t].table, answer[t].id, [id |-> answer[t].id, val |-> req[t].val])

Readable ==
    /\ \A tb \in Tables : ~cache[tb].loaded => Unread(tb)
    /\ \A tb \in Tables : \A i \in DOMAIN cache[tb].index : Firm(tb, cache[tb].index[i])
    /\ \A t \in Threads : Reachable(t)
    /\ AckedRowsReadable

\* If neither a write nor an insertion into the index fails: the rows of a file
\* are numbered from 1 on, and so is the index, which leads to their lines.
Numbered(tb) ==
    /\ frag[tb] = "none" /\ Len(file[tb]) <= MaxId
    /\ \A k \in DOMAIN file[tb] : file[tb][k].id = k /\ file[tb][k].val # Malformed
    /\ \A i \in DOMAIN cache[tb].index : cache[tb].index[i].start /\ cache[tb].index[i].line = i

Level(tb) ==
    /\ cache[tb].next = (Len(file[tb]) + 1) % (MaxId + 1)
    /\ DOMAIN cache[tb].index = 1..Len(file[tb])

\* Between append and index, the index is one row behind.
Behind(t) ==
    LET tb == req[t].table IN
    /\ cache[tb].next = Len(file[tb])
    /\ DOMAIN cache[tb].index = 1..(Len(file[tb]) - 1)
    /\ loc[t].place.start /\ loc[t].place.line = Len(file[tb])

Numbers ==
    /\ \A tb \in Tables : Numbered(tb)
    /\ \A tb \in Tables : cache[tb].loaded /\ ~Appending(tb) => Level(tb)
    /\ \A t \in Threads : pc[t] = "index" => Behind(t)

-----------------------------------------------------------------------------
(* What the remaining steps change.                                        *)

LEMMA AppendFrame ==
    ASSUME IInv, NEW t \in Threads, AppendToFile(t) \/ AppendToFileFails(t)
    PROVE  /\ UNCHANGED <<cache, gen, req, answer, acked>>
           /\ \A u \in Threads \ {t} : Idles(u)
           /\ pc[t] = "append" /\ req[t].table \in Tables /\ NewRow(t) \in Row
           /\ NewRow(t).id # 0 /\ NewRow(t).val \in Values
           /\ writer = t /\ cache[req[t].table].loaded
           /\ \A tb \in Tables \ {req[t].table} : file'[tb] = file[tb] /\ frag'[tb] = frag[tb]
  <1>. USE DEF IInv, Types, ThreadTypeOK, StoreTypeOK, Goto, store
  <1>1. /\ UNCHANGED <<cache, gen, req, answer, acked>> /\ pc[t] = "append" /\ NewRow(t).id # 0
        /\ \A u \in Threads \ {t} : Idles(u)
    BY DEF AppendToFile, AppendToFileFails, Idles
  <1>2. \A tb \in Tables \ {req[t].table} : file'[tb] = file[tb] /\ frag'[tb] = frag[tb]
    BY DEF AppendToFile, AppendToFileFails, AppendRow, AppendRowFails
  <1>. QED
    BY <1>1, <1>2, NewRowType

\* A row that is appended to a file whose last line is terminated becomes the
\* next line.
LEMMA AppendsLine ==
    ASSUME IInv, NEW t \in Threads, AppendToFile(t), frag[req[t].table] = "none"
    PROVE  LET tb == req[t].table  n == Len(file[tb]) IN
           /\ file'[tb] = Append(file[tb], NewRow(t)) /\ frag'[tb] = "none"
           /\ n \in Nat /\ Len(file'[tb]) = n + 1
           /\ DOMAIN file[tb] = 1..n /\ DOMAIN file'[tb] = 1..(n + 1)
           /\ \A k \in 1..n : file'[tb][k] = file[tb][k]
           /\ file'[tb][n + 1] = NewRow(t)
           /\ loc'[t].place.start /\ loc'[t].place.line = n + 1
           /\ pc'[t] = "index"
  <1>. DEFINE tb == req[t].table  n == Len(file[tb])
  <1>1. tb \in Tables /\ NewRow(t) \in Row
    BY AppendFrame
  <1>2. file[tb] \in Seq(Row) /\ n \in Nat /\ DOMAIN file[tb] = 1..n
    BY <1>1 DEF IInv, Types, StoreTypeOK
  <1>3. file'[tb] = Append(file[tb], NewRow(t)) /\ frag'[tb] = "none"
    BY <1>1 DEF AppendToFile, AppendRow, Extended, IInv, Types, StoreTypeOK
  <1>4. /\ Len(file'[tb]) = n + 1 /\ DOMAIN file'[tb] = 1..(n + 1)
        /\ \A k \in 1..n : file'[tb][k] = file[tb][k]
        /\ file'[tb][n + 1] = NewRow(t)
    BY <1>1, <1>2, <1>3
  <1>5. loc'[t].place = NextPlace(tb, NewRow(t)) /\ pc'[t] = "index"
    <2>1. loc[t] \in [gen : Nat, pos : Nat, place : Place, rows : Seq(Row)] /\ t \in DOMAIN loc
      BY DEF IInv, Types, ThreadTypeOK
    <2>2. loc' = [loc EXCEPT ![t].place = NextPlace(tb, NewRow(t))]
      BY DEF AppendToFile
    <2>. QED
      BY <2>1, <2>2 DEF AppendToFile, Goto, IInv, Types, ThreadTypeOK
  <1>6. loc'[t].place.start /\ loc'[t].place.line = n + 1
    <2>1. NextPlace(tb, NewRow(t)) = [line |-> n + 1, start |-> TRUE, row |-> NewRow(t)]
      <3>1. frag[tb] = "none"
        OBVIOUS
      <3>2. (frag[tb] = "none") = TRUE
        BY <3>1
      <3>. QED
        BY <3>1, <3>2, Zenon DEF NextPlace
    <2>. QED
      BY <1>5, <2>1
  <1>. QED
    BY <1>2, <1>3, <1>4, <1>5, <1>6

LEMMA IndexFrame ==
    ASSUME IInv, NEW t \in Threads, AddToIndex(t) \/ AddToIndexFails(t)
    PROVE  /\ UNCHANGED <<file, frag, gen, req, loc, acked>>
           /\ \A u \in Threads \ {t} : Idles(u)
           /\ pc[t] = "index" /\ pc'[t] = "done" /\ req[t].table \in Tables
           /\ req[t].op = "insert" /\ NewRow(t) \in Row /\ writer = t
           /\ cache[req[t].table].loaded
           /\ \A tb \in Tables \ {req[t].table} : cache'[tb] = cache[tb]
  <1>. USE DEF IInv, Types, ThreadTypeOK, CacheTyped, Goto, store
  <1>1. /\ UNCHANGED <<file, frag, gen, req, loc, acked>>
        /\ pc[t] = "index" /\ pc'[t] = "done"
        /\ \A u \in Threads \ {t} : pc'[u] = pc[u]
    BY DEF AddToIndex, AddAndAdvance, AddToIndexFails
  <1>2. \A u \in Threads \ {t} : answer'[u] = answer[u]
    BY DEF AddToIndex, AddAndAdvance, AddToIndexFails
  <1>3. \A tb \in Tables \ {req[t].table} : cache'[tb] = cache[tb]
    BY DEF AddToIndex, AddAndAdvance, AddToIndexFails
  <1>4. \A u \in Threads \ {t} : Idles(u)
    BY <1>1, <1>2 DEF Idles
  <1>. QED
    BY <1>1, <1>3, <1>4, NewRowType

\* A row that is inserted into the index.
LEMMA IndexesRow ==
    ASSUME IInv, NEW t \in Threads, AddToIndex(t)
    PROVE  LET tb == req[t].table  id == cache[tb].next IN
           \/ id \in DOMAIN cache[tb].index /\ UNCHANGED <<cache, answer>>
           \/ /\ id \notin DOMAIN cache[tb].index
              /\ cache'[tb].loaded
              /\ cache'[tb].next = (id + 1) % (MaxId + 1)
              /\ DOMAIN cache'[tb].index = DOMAIN cache[tb].index \cup {id}
              /\ \A i \in DOMAIN cache[tb].index : cache'[tb].index[i] = cache[tb].index[i]
              /\ cache'[tb].index[id] = loc[t].place
              /\ answer'[t] = Inserted(id)
  <1>. DEFINE tb == req[t].table  id == cache[tb].next  next == (id + 1) % (MaxId + 1)
  <1>1. pc[t] = "index" /\ tb \in Tables /\ cache[tb].loaded /\ cache[tb] \in Runtime
    BY IndexFrame DEF IInv, Types, CacheTyped
  <1>2. CASE id \in DOMAIN cache[tb].index
    BY <1>2 DEF AddToIndex, AddAndAdvance
  <1>3. CASE id \notin DOMAIN cache[tb].index
    <2>1. /\ cache' = [cache EXCEPT ![tb].index = Indexed(t, tb), ![tb].next = next]
          /\ answer' = [answer EXCEPT ![t] = Inserted(id)]
      BY <1>3 DEF AddToIndex, AddAndAdvance
    <2>2. answer'[t] = Inserted(id)
      BY <2>1 DEF IInv, Types, ThreadTypeOK
    <2>3. cache'[tb] = [cache[tb] EXCEPT !.index = Indexed(t, tb), !.next = next]
      BY <1>1, <2>1 DEF IInv, Types, CacheTyped
    <2>4. cache'[tb].index = Indexed(t, tb) /\ cache'[tb].next = next
      BY <1>1, <2>3 DEF Runtime
    <2>5. cache'[tb].loaded
      BY <1>1, <2>3 DEF Runtime
    <2>6. /\ DOMAIN Indexed(t, tb) = DOMAIN cache[tb].index \cup {id}
          /\ \A i \in DOMAIN cache[tb].index : Indexed(t, tb)[i] = cache[tb].index[i]
          /\ Indexed(t, tb)[id] = loc[t].place
      BY <1>3 DEF Indexed
    <2>. QED
      BY <1>3, <2>2, <2>4, <2>5, <2>6
  <1>. QED
    BY <1>2, <1>3

-----------------------------------------------------------------------------
(* Rows of acknowledged INSERTs stay in their file, if no write is cut off. *)

\* What was promised to thread u outlives a step of another thread.
LEMMA OthersPromised ==
    ASSUME IInv, NEW u \in Threads, Promised(u), Idles(u),
           \A tb \in Tables : \A row : HasRow(tb, row) => HasRow(tb, row)',
           pc[u] = "index" => cache'[req[u].table].next = cache[req[u].table].next
    PROVE  Promised(u)'
  <1>1. pc[u] = "index" => HasRow(req[u].table, NewRow(u))'
    <2>. SUFFICES ASSUME pc[u] = "index" PROVE HasRow(req[u].table, NewRow(u))'
      OBVIOUS
    <2>1. req[u].table \in Tables /\ NewRow(u)' = NewRow(u)
      BY NewRowType DEF Idles, NewRow
    <2>2. HasRow(req[u].table, NewRow(u))
      BY DEF Promised
    <2>3. \E k \in DOMAIN file'[req[u].table] : file'[req[u].table][k] = NewRow(u)
      BY <2>1, <2>2 DEF HasRow
    <2>. QED
      BY <2>1, <2>3 DEF HasRow, Idles
  <1>2. answer[u].ok /\ req[u].op = "insert"
           => HasRow(req[u].table, [id |-> answer[u].id, val |-> req[u].val])'
    <2>. SUFFICES ASSUME answer[u].ok, req[u].op = "insert"
                  PROVE  HasRow(req[u].table, [id |-> answer[u].id, val |-> req[u].val])'
      OBVIOUS
    <2>1. pc[u] # "idle"
      BY DEF Promised
    <2>2. req[u].table \in Tables
      BY <2>1, RequestType DEF IInv, Statements, Relies
    <2>3. HasRow(req[u].table, [id |-> answer[u].id, val |-> req[u].val])
      BY DEF Promised
    <2>. QED
      BY <2>2, <2>3 DEF HasRow, Idles
  <1>. QED
    BY <1>1, <1>2 DEF Promised, Idles

LEMMA DurableQuiet ==
    ASSUME IInv, Durable, NEW t \in Threads, Quiet(t)
    PROVE  Durable'
  <1>1. /\ UNCHANGED <<file, frag, cache, gen>> /\ \A u \in Threads \ {t} : Idles(u)
        /\ pc'[t] # "index"
    BY QuietFrame
  <1>2. \A tb \in Tables : \A row : HasRow(tb, row) => HasRow(tb, row)'
    BY <1>1 DEF HasRow
  <1>3. \A u \in Threads \ {t} : Promised(u)'
    BY <1>1, <1>2, OthersPromised DEF Durable
  <1>4. Promised(t)'
    <2>1. /\ pc'[t] \notin {"done", "respond"} => ~answer'[t].ok
          /\ answer'[t].ok /\ req'[t].op = "insert" => answer'[t] = answer[t] /\ req'[t] = req[t]
      BY QuietAnswer DEF Durable, Promised
    <2>. QED
      BY <1>1, <2>1 DEF Durable, Promised, HasRow
  <1>5. AckedRowsSurvive'
    <2>1. CASE req[t].op = "insert" /\ answer[t].ok
               /\ acked' = acked \cup {[table |-> req[t].table, id |-> answer[t].id, val |-> req[t].val]}
      <3>1. HasRow(req[t].table, [id |-> answer[t].id, val |-> req[t].val])
        BY <2>1 DEF Durable, Promised
      <3>. QED
        BY <1>1, <2>1, <3>1 DEF Durable, AckedRowsSurvive, HasRow
    <2>2. CASE acked' = acked
      BY <1>1, <2>2 DEF Durable, AckedRowsSurvive
    <2>. QED
      BY <2>1, <2>2, QuietAcks
  <1>. QED
    BY <1>1, <1>3, <1>4, <1>5 DEF Durable

LEMMA DurableStep ==
    ASSUME "torn" \notin Faults, IInv, Durable, [Next]_vars
    PROVE  Durable'
  <1>1. ASSUME NEW t \in Threads, Loading(t) PROVE Durable'
    <2>1. /\ UNCHANGED <<file, frag, req, answer, acked>> /\ \A u \in Threads \ {t} : Idles(u)
          /\ pc[t] \in {"preload", "locate", "load"} /\ pc'[t] # "index"
          /\ \A tb \in Tables : cache[tb].loaded => cache'[tb] = cache[tb]
      BY <1>1, LoadingFrame
    <2>2. \A u \in Threads \ {t} : Promised(u)'
      <3>. SUFFICES ASSUME NEW u \in Threads \ {t} PROVE Promised(u)'
        OBVIOUS
      <3>1. pc[u] = "index" => cache'[req[u].table].next = cache[req[u].table].next
        BY <2>1, NewRowType
      <3>. QED
        BY <2>1, <3>1, OthersPromised DEF Durable, HasRow
    <2>3. Promised(t)'
      BY <2>1 DEF Durable, Promised
    <2>4. AckedRowsSurvive'
      BY <2>1 DEF Durable, AckedRowsSurvive
    <2>. QED
      BY <2>1, <2>2, <2>3, <2>4 DEF Durable
  <1>2. ASSUME NEW t \in Threads, AppendToFile(t) PROVE Durable'
    <2>. DEFINE tb == req[t].table  n == Len(file[tb])
    <2>1. /\ UNCHANGED <<cache, gen, req, answer, acked>> /\ \A u \in Threads \ {t} : Idles(u)
          /\ pc[t] = "append" /\ tb \in Tables
          /\ \A x \in Tables \ {tb} : file'[x] = file[x] /\ frag'[x] = frag[x]
      BY <1>2, AppendFrame
    <2>2. /\ frag'[tb] = "none" /\ n \in Nat
          /\ DOMAIN file[tb] = 1..n /\ DOMAIN file'[tb] = 1..(n + 1)
          /\ \A k \in 1..n : file'[tb][k] = file[tb][k]
          /\ file'[tb][n + 1] = NewRow(t) /\ pc'[t] = "index"
      BY <1>2, <2>1, AppendsLine DEF Durable
    <2>3. \A x \in Tables : \A row : HasRow(x, row) => HasRow(x, row)'
      <3>. SUFFICES ASSUME NEW x \in Tables, NEW row, HasRow(x, row) PROVE HasRow(x, row)'
        OBVIOUS
      <3>1. PICK k \in DOMAIN file[x] : file[x][k] = row
        BY DEF HasRow
      <3>2. k \in DOMAIN file'[x] /\ file'[x][k] = row
        <4>1. CASE x = tb
          <5>1. k \in 1..n /\ k \in 1..(n + 1)
            BY <2>2, <3>1, <4>1
          <5>. QED
            BY <2>2, <3>1, <4>1, <5>1
        <4>2. CASE x # tb
          BY <2>1, <3>1, <4>2
        <4>. QED
          BY <4>1, <4>2
      <3>. QED
        BY <3>2 DEF HasRow
    <2>4. \A u \in Threads \ {t} : Promised(u)'
      BY <2>1, <2>3, OthersPromised DEF Durable
    <2>5. Promised(t)'
      <3>1. NewRow(t)' = NewRow(t)
        BY <2>1 DEF NewRow
      <3>2. HasRow(req[t].table, NewRow(t))'
        BY <2>1, <2>2, <3>1 DEF HasRow
      <3>3. ~answer'[t].ok
        BY <2>1 DEF Durable, Promised
      <3>. QED
        BY <3>2, <3>3 DEF Promised
    <2>6. AckedRowsSurvive'
      <3>1. \A a \in acked : a.table \in Tables
        BY DEF IInv, Types, ThreadTypeOK
      <3>2. \A a \in acked : HasRow(a.table, [id |-> a.id, val |-> a.val])
        BY DEF Durable, AckedRowsSurvive, HasRow
      <3>3. \A a \in acked : \E k \in DOMAIN file'[a.table] : file'[a.table][k] = [id |-> a.id, val |-> a.val]
        BY <2>3, <3>1, <3>2 DEF HasRow
      <3>. QED
        BY <2>1, <3>3 DEF AckedRowsSurvive
    <2>. QED
      BY <2>1, <2>2, <2>4, <2>5, <2>6 DEF Durable
  <1>3. ASSUME NEW t \in Threads, AddToIndex(t) \/ AddToIndexFails(t) PROVE Durable'
    <2>1. /\ UNCHANGED <<file, frag, gen, req, acked>> /\ \A u \in Threads \ {t} : Idles(u)
          /\ pc[t] = "index" /\ pc'[t] = "done" /\ writer = t
      BY <1>3, IndexFrame
    <2>2. \A u \in Threads \ {t} : Promised(u)'
      <3>. SUFFICES ASSUME NEW u \in Threads \ {t} PROVE Promised(u)'
        OBVIOUS
      <3>1. pc[u] # "index"
        BY <2>1 DEF IInv, Exclusion, Holds, Writing
      <3>. QED
        BY <2>1, <3>1, OthersPromised DEF Durable, HasRow
    <2>3. Promised(t)'
      <3>1. ~answer[t].ok /\ HasRow(req[t].table, NewRow(t))
        BY <2>1 DEF Durable, Promised
      <3>2. CASE answer' = answer
        BY <2>1, <3>1, <3>2 DEF Promised
      <3>3. CASE answer'[t] = Inserted(cache[req[t].table].next)
        <4>1. NewRow(t) = [id |-> answer'[t].id, val |-> req[t].val]
          BY <3>3 DEF NewRow, Inserted
        <4>. QED
          BY <2>1, <3>1, <4>1 DEF Promised, HasRow
      <3>4. answer' = answer \/ answer'[t] = Inserted(cache[req[t].table].next)
        BY <1>3, IndexesRow DEF AddToIndexFails
      <3>. QED
        BY <3>2, <3>3, <3>4
    <2>4. AckedRowsSurvive'
      BY <2>1 DEF Durable, AckedRowsSurvive
    <2>. QED
      BY <2>1, <2>2, <2>3, <2>4 DEF Durable
  <1>4. CASE Crash
    <2>1. AckedRowsSurvive'
      BY <1>4 DEF Durable, AckedRowsSurvive, Crash, store
    <2>2. \A u \in Threads : Promised(u)'
      BY <1>4 DEF Crash, Promised, Error
    <2>. QED
      BY <1>4, <2>1, <2>2 DEF Durable, Crash, store
  <1>5. CASE UNCHANGED vars
    BY <1>5 DEF vars, Durable, Promised, HasRow, NewRow, AckedRowsSurvive
  <1>6. \A t \in Threads : ~AppendToFileFails(t)
    BY DEF AppendToFileFails
  <1>. QED
    BY <1>1, <1>2, <1>3, <1>4, <1>5, <1>6, DurableQuiet, StepCases, Zenon

\* For every number of threads: if no write is cut off, the row of an INSERT
\* that was answered with success is a line of its data file and stays one,
\* whenever the process crashes and whatever allocations fail, those of
\* bptree_insert included.
THEOREM DbAckedRowsSurvive ==
    ASSUME "torn" \notin Faults
    PROVE  Spec => []AckedRowsSurvive
  <1>1. Init => Durable
    BY DEF Init, Durable, Promised, AckedRowsSurvive, Error
  <1>2. IInv /\ Durable /\ [Next]_vars => Durable'
    BY DurableStep
  <1>3. Durable => AckedRowsSurvive
    BY DEF Durable
  <1>. QED
    BY <1>1, <1>2, <1>3, DbInvariant, PTL DEF Spec

-----------------------------------------------------------------------------
(* The ids and the index are those of the file, if neither a write nor an  *)
(* insertion into the index fails.                                         *)

\* next_id modulo 2^64.
LEMMA WrapAround ==
    ASSUME NEW n \in 0..MaxId
    PROVE  (n + 1) % (MaxId + 1) = IF n = MaxId THEN 0 ELSE n + 1
  BY MaxIdAssumption

\* The ids of a file that is numbered are 1 to its length.
LEMMA NumberedIds ==
    ASSUME StoreTypeOK, NEW tb \in Tables, Numbered(tb)
    PROVE  /\ Len(file[tb]) \in 0..MaxId /\ DOMAIN file[tb] = 1..Len(file[tb])
           /\ Ids(tb) = 1..Len(file[tb]) /\ LastId(tb) = Len(file[tb])
           /\ Cardinality(Ids(tb)) = Len(file[tb])
  <1>. DEFINE n == Len(file[tb])
  <1>1. file[tb] \in Seq(Row) /\ n \in Nat /\ DOMAIN file[tb] = 1..n
    BY DEF StoreTypeOK
  <1>2. Ids(tb) = 1..n
    BY <1>1 DEF Ids, Numbered
  <1>3. n \in 0..MaxId
    BY <1>1, MaxIdAssumption DEF Numbered
  <1>4. LastId(tb) \in Nat /\ LastId(tb) \in Ids(tb) \cup {0} /\ \A i \in Ids(tb) \cup {0} : i <= LastId(tb)
    BY <1>1, LargestId DEF LastId, Ids
  <1>5. LastId(tb) = n
    <2>1. n \in Ids(tb) \cup {0}
      BY <1>1, <1>2
    <2>2. n <= LastId(tb)
      BY <1>4, <2>1
    <2>3. LastId(tb) <= n
      BY <1>1, <1>2, <1>4
    <2>. QED
      BY <1>1, <1>4, <2>2, <2>3
  <1>6. Cardinality(Ids(tb)) = n
    BY <1>1, <1>2, FS_Interval
  <1>. QED
    BY <1>1, <1>2, <1>3, <1>5, <1>6

\* The TableRuntime that is built from such a file.
LEMMA NumberedLoaded ==
    ASSUME StoreTypeOK, NEW tb \in Tables, Numbered(tb), Loadable(tb)
    PROVE  /\ Loaded(tb).loaded
           /\ Loaded(tb).next = (Len(file[tb]) + 1) % (MaxId + 1)
           /\ DOMAIN Loaded(tb).index = 1..Len(file[tb])
           /\ \A i \in DOMAIN Loaded(tb).index : Loaded(tb).index[i].start /\ Loaded(tb).index[i].line = i
  <1>. DEFINE n == Len(file[tb])
              k(i) == CHOOSE m \in DOMAIN file[tb] : file[tb][m].id = i
  <1>1. n \in 0..MaxId /\ DOMAIN file[tb] = 1..n /\ Ids(tb) = 1..n /\ LastId(tb) = n
    BY NumberedIds
  <1>2. n # MaxId
    BY <1>1, MaxIdAssumption DEF Loadable
  <1>3. (n + 1) % (MaxId + 1) = n + 1
    BY <1>1, <1>2, WrapAround
  <1>4. \A i \in 1..n : k(i) = i
    BY <1>1 DEF Numbered
  <1>5. DOMAIN IndexOf(tb) = 1..n /\ \A i \in 1..n : IndexOf(tb)[i].start /\ IndexOf(tb)[i].line = i
    BY <1>1, <1>4 DEF IndexOf
  <1>. QED
    BY <1>1, <1>3, <1>5 DEF Loaded

LEMMA NumbersQuiet ==
    ASSUME IInv, Numbers, NEW t \in Threads, Quiet(t)
    PROVE  Numbers'
  <1>1. /\ UNCHANGED <<file, frag, cache, gen>> /\ \A u \in Threads \ {t} : Idles(u)
        /\ pc[t] # "index" /\ pc'[t] # "index"
    BY QuietFrame
  <1>2. \A tb \in Tables : Appending(tb)' <=> Appending(tb)
    BY <1>1 DEF Appending, Idles
  <1>3. \A tb \in Tables : Numbered(tb)' /\ (Level(tb)' <=> Level(tb))
    BY <1>1 DEF Numbers, Numbered, Level
  <1>4. \A u \in Threads : pc'[u] = "index" => Behind(u)'
    BY <1>1 DEF Numbers, Behind, Idles
  <1>. QED
    BY <1>1, <1>2, <1>3, <1>4 DEF Numbers

LEMMA NumbersLoading ==
    ASSUME IInv, Numbers, NEW t \in Threads, Loading(t)
    PROVE  Numbers'
  <1>1. /\ UNCHANGED <<file, frag, req>> /\ \A u \in Threads \ {t} : Idles(u)
        /\ pc[t] # "index" /\ pc'[t] # "index"
        /\ \A tb \in Tables :
              \/ cache'[tb] = cache[tb]
              \/ ~cache[tb].loaded /\ Loadable(tb) /\ cache'[tb] = Loaded(tb)
    BY LoadingFrame
  <1>2. \A tb \in Tables : Appending(tb)' <=> Appending(tb)
    BY <1>1 DEF Appending, Idles
  <1>3. ASSUME NEW tb \in Tables
        PROVE  Numbered(tb)' /\ (cache'[tb].loaded /\ ~Appending(tb)' => Level(tb)')
    <2>1. CASE cache'[tb] = cache[tb]
      BY <1>1, <1>2, <2>1 DEF Numbers, Numbered, Level
    <2>2. CASE Loadable(tb) /\ cache'[tb] = Loaded(tb)
      <3>1. /\ Loaded(tb).next = (Len(file[tb]) + 1) % (MaxId + 1)
            /\ DOMAIN Loaded(tb).index = 1..Len(file[tb])
            /\ \A i \in DOMAIN Loaded(tb).index : Loaded(tb).index[i].start /\ Loaded(tb).index[i].line = i
        BY <2>2, NumberedLoaded DEF Numbers, IInv, Types
      <3>. QED
        BY <1>1, <2>2, <3>1 DEF Numbers, Numbered, Level
    <2>. QED
      BY <1>1, <2>1, <2>2
  <1>4. ASSUME NEW u \in Threads, pc'[u] = "index" PROVE Behind(u)'
    <2>1. u # t /\ pc[u] = "index" /\ Idles(u)
      BY <1>1, <1>4 DEF Idles
    <2>2. req[u].table \in Tables /\ cache[req[u].table].loaded
      BY <2>1, NewRowType
    <2>3. cache'[req[u].table] = cache[req[u].table]
      BY <1>1, <2>2
    <2>. QED
      BY <1>1, <2>1, <2>3 DEF Numbers, Behind, Idles
  <1>. QED
    BY <1>3, <1>4 DEF Numbers

LEMMA NumbersAppend ==
    ASSUME IInv, Numbers, NEW t \in Threads, AppendToFile(t)
    PROVE  Numbers' /\ NewRow(t).id = Len(file[req[t].table]) + 1
  <1>. DEFINE tb == req[t].table  n == Len(file[tb])
  <1>1. /\ UNCHANGED <<cache, gen, req>> /\ \A u \in Threads \ {t} : Idles(u)
        /\ pc[t] = "append" /\ tb \in Tables /\ writer = t /\ cache[tb].loaded
        /\ NewRow(t).id # 0 /\ NewRow(t).val \in Values
        /\ \A x \in Tables \ {tb} : file'[x] = file[x] /\ frag'[x] = frag[x]
    BY AppendFrame
  <1>2. Numbered(tb)
    BY <1>1 DEF Numbers
  <1>3. /\ frag'[tb] = "none" /\ n \in Nat /\ Len(file'[tb]) = n + 1
        /\ DOMAIN file[tb] = 1..n /\ DOMAIN file'[tb] = 1..(n + 1)
        /\ \A k \in 1..n : file'[tb][k] = file[tb][k]
        /\ file'[tb][n + 1] = NewRow(t) /\ pc'[t] = "index"
        /\ loc'[t].place.start /\ loc'[t].place.line = n + 1
    BY <1>1, <1>2, AppendsLine DEF Numbered
  <1>4. \A u \in Threads \ {t} : pc[u] # "index" /\ pc'[u] # "index"
    BY <1>1 DEF IInv, Exclusion, Holds, Writing, Idles
  <1>5. \A x \in Tables : ~Appending(x)
    BY <1>1, <1>4 DEF Appending
  <1>6. cache[tb].next = (n + 1) % (MaxId + 1) /\ DOMAIN cache[tb].index = 1..n
    BY <1>1, <1>5 DEF Numbers, Level
  <1>7. n \in 0..MaxId
    BY <1>2, NumberedIds, <1>1 DEF IInv, Types
  <1>8. n # MaxId /\ cache[tb].next = n + 1 /\ NewRow(t).id = n + 1
    <2>1. NewRow(t).id = cache[tb].next
      BY DEF NewRow
    <2>. QED
      BY <1>1, <1>6, <1>7, <2>1, WrapAround
  <1>9. Numbered(tb)'
    <2>1. NewRow(t).val # Malformed
      BY <1>1, ValuesAssumption
    <2>2. \A k \in 1..(n + 1) : file'[tb][k].id = k /\ file'[tb][k].val # Malformed
      <3>1. \A k \in 1..n : file'[tb][k].id = k /\ file'[tb][k].val # Malformed
        BY <1>2, <1>3 DEF Numbered
      <3>2. \A k \in 1..(n + 1) : k \in 1..n \/ k = n + 1
        BY <1>3
      <3>. QED
        BY <1>3, <1>8, <2>1, <3>1, <3>2
    <2>3. n + 1 <= MaxId
      BY <1>7, <1>8, MaxIdAssumption
    <2>. QED
      BY <1>1, <1>2, <1>3, <2>2, <2>3 DEF Numbered
  <1>10. \A x \in Tables \ {tb} : Numbered(x)'
    BY <1>1 DEF Numbers, Numbered
  <1>11. \A x \in Tables \ {tb} : cache[x].loaded => Level(x)'
    BY <1>1, <1>5 DEF Numbers, Level
  <1>12. Appending(tb)'
    BY <1>1, <1>3 DEF Appending
  <1>13. Behind(t)'
    BY <1>1, <1>3, <1>6, <1>8 DEF Behind
  <1>. QED
    BY <1>1, <1>4, <1>8, <1>9, <1>10, <1>11, <1>12, <1>13 DEF Numbers

LEMMA NumbersIndex ==
    ASSUME IInv, Numbers, NEW t \in Threads, AddToIndex(t)
    PROVE  Numbers' /\ answer'[t] = Inserted(cache[req[t].table].next)
  <1>. DEFINE tb == req[t].table  n == Len(file[tb])
  <1>1. /\ UNCHANGED <<file, frag, gen, req, loc>> /\ \A u \in Threads \ {t} : Idles(u)
        /\ pc[t] = "index" /\ pc'[t] = "done" /\ tb \in Tables /\ writer = t
        /\ \A x \in Tables \ {tb} : cache'[x] = cache[x]
    BY IndexFrame
  <1>2. /\ cache[tb].next = n /\ DOMAIN cache[tb].index = 1..(n - 1)
        /\ loc[t].place.start /\ loc[t].place.line = n
    BY <1>1 DEF Numbers, Behind
  <1>3. n \in 0..MaxId /\ n # 0
    BY <1>1, <1>2, NumberedIds DEF Numbers, IInv, Types, Statements, Relies
  <1>4. /\ cache'[tb].next = (n + 1) % (MaxId + 1)
        /\ DOMAIN cache'[tb].index = DOMAIN cache[tb].index \cup {n}
        /\ \A i \in DOMAIN cache[tb].index : cache'[tb].index[i] = cache[tb].index[i]
        /\ cache'[tb].index[n] = loc[t].place
        /\ answer'[t] = Inserted(n)
    <2>1. n \notin 1..(n - 1)
      BY <1>3
    <2>. QED
      BY <1>2, <2>1, IndexesRow
  <1>5. DOMAIN cache'[tb].index = 1..n
    BY <1>2, <1>3, <1>4
  <1>6. \A u \in Threads : pc'[u] # "index"
    BY <1>1 DEF IInv, Exclusion, Holds, Writing, Idles
  <1>7. \A x \in Tables \ {tb} : ~Appending(x)
    BY <1>1, <1>6 DEF Appending, Idles
  <1>8. Numbered(tb)' /\ Level(tb)'
    <2>1. Numbered(tb)
      BY <1>1 DEF Numbers
    <2>2. \A i \in DOMAIN cache'[tb].index : cache'[tb].index[i].start /\ cache'[tb].index[i].line = i
      BY <1>2, <1>4, <2>1 DEF Numbered
    <2>3. Numbered(tb)'
      BY <1>1, <2>1, <2>2 DEF Numbered
    <2>4. Level(tb)'
      BY <1>1, <1>4, <1>5 DEF Level
    <2>. QED
      BY <2>3, <2>4
  <1>9. \A x \in Tables \ {tb} : Numbered(x)' /\ (cache'[x].loaded => Level(x)')
    BY <1>1, <1>7 DEF Numbers, Numbered, Level
  <1>10. \A x \in Tables : Numbered(x)' /\ (cache'[x].loaded => Level(x)')
    <2>. SUFFICES ASSUME NEW x \in Tables PROVE Numbered(x)' /\ (cache'[x].loaded => Level(x)')
      OBVIOUS
    <2>1. CASE x = tb
      BY <1>1, <1>8, <2>1 DEF Numbered, Level
    <2>2. CASE x # tb
      BY <1>9, <2>2
    <2>. QED
      BY <2>1, <2>2
  <1>11. Numbers'
    BY <1>6, <1>10, Zenon DEF Numbers
  <1>. QED
    BY <1>2, <1>4, <1>11

LEMMA NumbersStep ==
    ASSUME Faults \subseteq {"crash", "oom"}, IInv, Numbers, [Next]_vars
    PROVE  Numbers'
  <1>1. CASE Crash
    <2>1. \A tb \in Tables : Numbered(tb)' /\ ~cache'[tb].loaded
      BY <1>1, NotLoadedType DEF Numbers, Numbered, Crash, store
    <2>. QED
      BY <1>1, <2>1 DEF Numbers, Crash
  <1>2. CASE UNCHANGED vars
    BY <1>2 DEF vars, Numbers, Numbered, Level, Behind, Appending
  <1>3. \A t \in Threads : ~AppendToFileFails(t) /\ ~AddToIndexFails(t)
    BY DEF AppendToFileFails, AddToIndexFails
  <1>. QED
    BY <1>1, <1>2, <1>3, NumbersQuiet, NumbersLoading, NumbersAppend, NumbersIndex, StepCases, Zenon

LEMMA NumbersHolds ==
    ASSUME Faults \subseteq {"crash", "oom"}
    PROVE  Spec => [](IInv /\ Numbers)
  <1>1. Init => Numbers
    <2>. SUFFICES ASSUME Init PROVE Numbers
      OBVIOUS
    <2>1. \A tb \in Tables : file[tb] = <<>> /\ frag[tb] = "none" /\ cache[tb] = NotLoaded
      BY DEF Init
    <2>2. \A tb \in Tables : Numbered(tb) /\ ~cache[tb].loaded
      BY <2>1, NotLoadedType, MaxIdAssumption DEF Numbered
    <2>. QED
      BY <2>2 DEF Init, Numbers
  <1>2. IInv /\ Numbers /\ [Next]_vars => Numbers'
    BY NumbersStep
  <1>. QED
    BY <1>1, <1>2, DbInvariant, PTL DEF Spec

\* For every MaxId and number of threads: if neither a write nor an insertion
\* into the index fails, next_id is the largest id of the file plus one, or 0
\* after the last one, also after crashes and restarts.
THEOREM DbNextIdIsMaxPlusOne ==
    ASSUME Faults \subseteq {"crash", "oom"}
    PROVE  Spec => []NextIdIsMaxPlusOne
  <1>1. IInv /\ Numbers => NextIdIsMaxPlusOne
    BY NumberedIds DEF IInv, Types, Numbers, Level, NextIdIsMaxPlusOne
  <1>. QED
    BY <1>1, NumbersHolds, PTL

\* Under the same failures: the index of a loaded table has exactly the ids of
\* its file, and leads from each of them to the row with that id.
THEOREM DbIndexMatchesFile ==
    ASSUME Faults \subseteq {"crash", "oom"}
    PROVE  Spec => []IndexMatchesFile
  <1>1. ASSUME IInv, Numbers PROVE IndexMatchesFile
    <2>. SUFFICES ASSUME NEW tb \in Tables, cache[tb].loaded, ~Appending(tb)
                  PROVE  /\ DOMAIN cache[tb].index = Ids(tb)
                         /\ \A i \in Ids(tb) : ReadAt(tb, cache[tb].index[i]).id = i
      BY DEF IndexMatchesFile
    <2>1. Ids(tb) = 1..Len(file[tb]) /\ DOMAIN file[tb] = 1..Len(file[tb])
      BY <1>1, NumberedIds DEF IInv, Types, Numbers
    <2>2. DOMAIN cache[tb].index = 1..Len(file[tb])
      BY <1>1 DEF Numbers, Level
    <2>. QED
      BY <1>1, <2>1, <2>2 DEF Numbers, Numbered, ReadAt
  <1>. QED
    BY <1>1, NumbersHolds, PTL

\* Under the same failures a file can always be loaded again, unless its ids
\* are used up: a write that was cut off, or an insertion into the index that
\* failed after its row was written, is the only way to a file that no server
\* can load any more.
THEOREM DbRestorable ==
    ASSUME Faults \subseteq {"crash", "oom"}
    PROVE  Spec => []Restorable
  <1>1. ASSUME IInv, Numbers PROVE Restorable
    <2>. SUFFICES ASSUME NEW tb \in Schemas, LastId(tb) # MaxId PROVE Loadable(tb)
      BY DEF Restorable
    <2>1. tb \in Tables
      BY SchemasAssumption
    <2>2. /\ Len(file[tb]) \in 0..MaxId /\ LastId(tb) = Len(file[tb])
          /\ Cardinality(Ids(tb)) = Len(file[tb])
      BY <1>1, <2>1, NumberedIds DEF IInv, Types, Numbers
    <2>3. LastId(tb) < MaxId
      BY <2>2, MaxIdAssumption
    <2>. QED
      BY <1>1, <2>1, <2>2, <2>3 DEF Numbers, Numbered, Loadable
  <1>. QED
    BY <1>1, NumbersHolds, PTL

-----------------------------------------------------------------------------
(* Acknowledged rows can be read back, if the process does not crash and    *)
(* no insertion into the index fails, even when writes are cut off.        *)

\* A line that is terminated is not touched when more text is appended.
LEMMA ExtendedKeepsLines ==
    ASSUME StoreTypeOK, NEW tb \in Tables, NEW row, NEW k \in DOMAIN file[tb],
           k = Len(file[tb]) => frag[tb] = "none"
    PROVE  /\ k \in DOMAIN Extended(tb, row) /\ Extended(tb, row)[k] = file[tb][k]
           /\ k # Len(Extended(tb, row))
  <1>. DEFINE s == file[tb]  n == Len(s)
  <1>1. s \in Seq(Row) /\ n \in Nat /\ DOMAIN s = 1..n
    BY DEF StoreTypeOK
  <1>2. CASE frag[tb] = "none"
    <2>1. Extended(tb, row) = Append(s, row)
      BY <1>2 DEF Extended
    <2>2. Len(Append(s, row)) = n + 1 /\ Append(s, row)[k] = s[k] /\ k \in DOMAIN Append(s, row)
      BY <1>1
    <2>. QED
      BY <1>1, <2>1, <2>2
  <1>3. CASE frag[tb] # "none"
    <2>1. Extended(tb, row) = [s EXCEPT ![n] = Continue(s[n], frag[tb], row)] /\ k # n
      BY <1>3 DEF Extended
    <2>2. DOMAIN Extended(tb, row) = 1..n /\ Extended(tb, row)[k] = s[k]
      BY <1>1, <2>1
    <2>3. Len(Extended(tb, row)) = n
      BY <1>1, <2>2
    <2>. QED
      BY <1>1, <2>1, <2>2, <2>3
  <1>. QED
    BY <1>2, <1>3

LEMMA FirmStays ==
    ASSUME IInv, NEW t \in Threads, AppendToFile(t) \/ AppendToFileFails(t),
           NEW tb \in Tables, NEW place, Firm(tb, place)
    PROVE  /\ Firm(tb, place)'
           /\ ReadAt(tb, place)' = ReadAt(tb, place)
  <1>1. req[t].table \in Tables /\ \A x \in Tables \ {req[t].table} : file'[x] = file[x] /\ frag'[x] = frag[x]
    BY AppendFrame
  <1>2. CASE tb # req[t].table
    BY <1>1, <1>2 DEF Firm, ReadAt
  <1>3. CASE tb = req[t].table
    <2>1. UNCHANGED store \/ \E row : file' = [file EXCEPT ![tb] = Extended(tb, row)]
      BY <1>3, Zenon DEF AppendToFile, AppendToFileFails, AppendRow, AppendRowFails
    <2>2. CASE UNCHANGED store
      BY <2>2 DEF store, Firm, ReadAt
    <2>3. ASSUME NEW row, file' = [file EXCEPT ![tb] = Extended(tb, row)]
          PROVE  Firm(tb, place)' /\ ReadAt(tb, place)' = ReadAt(tb, place)
      <3>1. file'[tb] = Extended(tb, row)
        BY <2>3 DEF IInv, Types, StoreTypeOK
      <3>. QED
        BY <3>1, ExtendedKeepsLines DEF IInv, Types, Firm, ReadAt
    <2>. QED
      BY <2>1, <2>2, <2>3
  <1>. QED
    BY <1>2, <1>3

\* Firm places stay as they are, and no offset leaves the index.
Undisturbed ==
    /\ \A tb \in Tables : \A place :
          Firm(tb, place) => Firm(tb, place)' /\ ReadAt(tb, place)' = ReadAt(tb, place)
    /\ \A tb \in Tables : \A i \in DOMAIN cache[tb].index :
          i \in DOMAIN cache'[tb].index /\ cache'[tb].index[i] = cache[tb].index[i]

LEMMA FindsStays ==
    ASSUME Readable, Undisturbed, NEW tb \in Tables, NEW id, NEW row, Finds(tb, id, row)
    PROVE  Finds(tb, id, row)'
  <1>. DEFINE place == cache[tb].index[id]
  <1>1. id \in DOMAIN cache[tb].index /\ ReadAt(tb, place) = row /\ Firm(tb, place)
    BY DEF Finds, Readable
  <1>2. id \in DOMAIN cache'[tb].index /\ cache'[tb].index[id] = place
    BY <1>1 DEF Undisturbed
  <1>3. (IF place.start THEN file'[tb][place.line] ELSE place.row) = ReadAt(tb, place)
    BY <1>1 DEF Undisturbed, ReadAt
  <1>. QED
    BY <1>1, <1>2, <1>3 DEF Finds, ReadAt

LEMMA AckedStays ==
    ASSUME IInv, Readable, Undisturbed, UNCHANGED acked
    PROVE  AckedRowsReadable'
  <1>1. \A a \in acked : a.table \in Tables /\ Finds(a.table, a.id, [id |-> a.id, val |-> a.val])
    BY DEF IInv, Types, ThreadTypeOK, Readable, AckedRowsReadable, Finds
  <1>2. \A a \in acked : Finds(a.table, a.id, [id |-> a.id, val |-> a.val])'
    BY <1>1, FindsStays
  <1>. QED
    BY <1>2 DEF AckedRowsReadable, Finds

LEMMA OthersReachable ==
    ASSUME IInv, Readable, Undisturbed, NEW u \in Threads, Idles(u),
           pc[u] = "index" => cache'[req[u].table].next = cache[req[u].table].next
    PROVE  Reachable(u)'
  <1>0. Reachable(u)
    BY DEF Readable
  <1>1. ASSUME pc[u] = "index"
        PROVE  Firm(req[u].table, loc[u].place)' /\ ReadAt(req[u].table, loc[u].place)' = NewRow(u)'
    <2>1. req[u].table \in Tables /\ NewRow(u)' = NewRow(u)
      BY <1>1, NewRowType DEF Idles, NewRow
    <2>2. Firm(req[u].table, loc[u].place) /\ ReadAt(req[u].table, loc[u].place) = NewRow(u)
      BY <1>0, <1>1 DEF Reachable
    <2>. QED
      BY <2>1, <2>2 DEF Undisturbed, Firm, ReadAt, Idles
  <1>2. ASSUME answer[u].ok, req[u].op = "insert"
        PROVE  Finds(req[u].table, answer[u].id, [id |-> answer[u].id, val |-> req[u].val])'
    <2>1. pc[u] # "idle"
      BY <1>0, <1>2 DEF Reachable
    <2>2. req[u].table \in Tables
      BY <2>1, RequestType DEF IInv, Statements, Relies
    <2>3. Finds(req[u].table, answer[u].id, [id |-> answer[u].id, val |-> req[u].val])
      BY <1>0, <1>2 DEF Reachable
    <2>4. \A tb \in Tables : \A id, row : Finds(tb, id, row) => Finds(tb, id, row)'
      BY FindsStays
    <2>5. PICK tb, id, row : /\ tb = req[u].table /\ id = answer[u].id
                             /\ row = [id |-> answer[u].id, val |-> req[u].val]
      OBVIOUS
    <2>6. Finds(tb, id, row)'
      BY <2>2, <2>3, <2>4, <2>5
    <2>. QED
      BY <2>5, <2>6 DEF Finds, ReadAt, Idles
  <1>. QED
    BY <1>0, <1>1, <1>2 DEF Reachable, Idles

LEMMA ReadableQuiet ==
    ASSUME IInv, Readable, NEW t \in Threads, Quiet(t)
    PROVE  Readable'
  <1>1. /\ UNCHANGED <<file, frag, cache, gen>> /\ \A u \in Threads \ {t} : Idles(u)
        /\ pc'[t] # "index"
    BY QuietFrame
  <1>2. Undisturbed
    BY <1>1 DEF Undisturbed, Firm, ReadAt
  <1>3. \A u \in Threads \ {t} : Reachable(u)'
    BY <1>1, <1>2, OthersReachable
  <1>4. Reachable(t)'
    <2>1. /\ pc'[t] \notin {"done", "respond"} => ~answer'[t].ok
          /\ answer'[t].ok /\ req'[t].op = "insert" => answer'[t] = answer[t] /\ req'[t] = req[t]
      BY QuietAnswer DEF Readable, Reachable
    <2>. QED
      BY <1>1, <2>1 DEF Readable, Reachable, Finds, ReadAt
  <1>5. AckedRowsReadable'
    <2>1. CASE req[t].op = "insert" /\ answer[t].ok
               /\ acked' = acked \cup {[table |-> req[t].table, id |-> answer[t].id, val |-> req[t].val]}
      <3>1. Finds(req[t].table, answer[t].id, [id |-> answer[t].id, val |-> req[t].val])
        BY <2>1 DEF Readable, Reachable
      <3>2. \A a \in acked : Finds(a.table, a.id, [id |-> a.id, val |-> a.val])
        BY DEF Readable, AckedRowsReadable, Finds
      <3>3. ASSUME NEW a \in acked' PROVE Finds(a.table, a.id, [id |-> a.id, val |-> a.val])
        <4>1. CASE a \in acked
          BY <3>2, <4>1
        <4>2. CASE a = [table |-> req[t].table, id |-> answer[t].id, val |-> req[t].val]
          BY <3>1, <4>2
        <4>. QED
          BY <2>1, <4>1, <4>2
      <3>. QED
        BY <1>1, <3>3 DEF AckedRowsReadable, Finds, ReadAt
    <2>2. CASE acked' = acked
      BY <1>2, <2>2, AckedStays
    <2>. QED
      BY <2>1, <2>2, QuietAcks
  <1>6. \A tb \in Tables : ~cache'[tb].loaded => Unread(tb)'
    BY <1>1 DEF Readable, Unread
  <1>7. \A tb \in Tables : \A i \in DOMAIN cache'[tb].index : Firm(tb, cache[tb].index[i])'
    BY <1>1 DEF Readable, Firm
  <1>. QED
    BY <1>3, <1>4, <1>5, <1>6, <1>7 DEF Readable

LEMMA ReadableLoading ==
    ASSUME IInv, Readable, NEW t \in Threads, Loading(t)
    PROVE  Readable'
  <1>1. /\ UNCHANGED <<file, frag, req, answer, acked>> /\ \A u \in Threads \ {t} : Idles(u)
        /\ pc[t] \in {"preload", "locate", "load"} /\ pc'[t] # "index"
        /\ \A tb \in Tables :
              \/ cache'[tb] = cache[tb]
              \/ ~cache[tb].loaded /\ Loadable(tb) /\ cache'[tb] = Loaded(tb)
    BY LoadingFrame
  <1>2. \A tb \in Tables : cache'[tb] = cache[tb] \/ (/\ DOMAIN cache[tb].index = {}
                                                      /\ DOMAIN cache'[tb].index = {}
                                                      /\ cache'[tb].loaded)
    <2>. SUFFICES ASSUME NEW tb \in Tables, ~cache[tb].loaded, cache'[tb] = Loaded(tb)
                  PROVE  DOMAIN cache[tb].index = {} /\ DOMAIN Loaded(tb).index = {} /\ Loaded(tb).loaded
      BY <1>1
    <2>1. Unread(tb)
      BY DEF Readable
    <2>2. Ids(tb) = {}
      BY <2>1 DEF Unread, Ids
    <2>. QED
      BY <2>1, <2>2 DEF Loaded, IndexOf, Unread
  <1>3. Undisturbed
    BY <1>1, <1>2 DEF Undisturbed, Firm, ReadAt
  <1>4. \A u \in Threads \ {t} : Reachable(u)'
    <2>. SUFFICES ASSUME NEW u \in Threads \ {t} PROVE Reachable(u)'
      OBVIOUS
    <2>1. pc[u] = "index" => cache'[req[u].table].next = cache[req[u].table].next
      BY <1>1, NewRowType
    <2>. QED
      BY <1>1, <1>3, <2>1, OthersReachable
  <1>5. Reachable(t)'
    BY <1>1 DEF Readable, Reachable
  <1>6. AckedRowsReadable'
    BY <1>1, <1>3, AckedStays
  <1>7. \A tb \in Tables : ~cache'[tb].loaded => Unread(tb)'
    BY <1>1, <1>2 DEF Readable, Unread
  <1>8. \A tb \in Tables : \A i \in DOMAIN cache'[tb].index : Firm(tb, cache[tb].index[i])'
    BY <1>1, <1>2 DEF Readable, Firm
  <1>. QED
    BY <1>4, <1>5, <1>6, <1>7, <1>8 DEF Readable

LEMMA ReadableAppend ==
    ASSUME IInv, Readable, NEW t \in Threads, AppendToFile(t) \/ AppendToFileFails(t)
    PROVE  Readable'
  <1>. DEFINE tb == req[t].table  n == Len(file[tb])
  <1>1. /\ UNCHANGED <<cache, gen, req, answer, acked>> /\ \A u \in Threads \ {t} : Idles(u)
        /\ pc[t] = "append" /\ tb \in Tables /\ NewRow(t) \in Row /\ cache[tb].loaded
        /\ \A x \in Tables \ {tb} : file'[x] = file[x] /\ frag'[x] = frag[x]
    BY AppendFrame
  <1>2. Undisturbed
    BY <1>1, FirmStays DEF Undisturbed
  <1>3. \A u \in Threads \ {t} : Reachable(u)'
    BY <1>1, <1>2, OthersReachable
  <1>4. ~answer'[t].ok
    BY <1>1 DEF Readable, Reachable
  <1>5. Reachable(t)'
    <2>1. CASE AppendToFileFails(t)
      <3>1. pc'[t] = "done"
        BY <2>1 DEF AppendToFileFails, Goto, IInv, Types, ThreadTypeOK
      <3>. QED
        BY <1>4, <3>1 DEF Reachable
    <2>2. CASE AppendToFile(t) /\ frag[tb] = "none"
      <3>1. /\ n \in Nat /\ Len(file'[tb]) = n + 1 /\ DOMAIN file'[tb] = 1..(n + 1)
            /\ file'[tb][n + 1] = NewRow(t) /\ frag'[tb] = "none"
            /\ loc'[t].place.start /\ loc'[t].place.line = n + 1
        BY <2>2, AppendsLine
      <3>2. NewRow(t)' = NewRow(t)
        BY <1>1 DEF NewRow
      <3>3. Firm(req[t].table, loc[t].place)' /\ ReadAt(req[t].table, loc[t].place)' = NewRow(t)'
        BY <1>1, <3>1, <3>2 DEF Firm, ReadAt
      <3>. QED
        BY <1>4, <3>3 DEF Reachable
    <2>3. CASE AppendToFile(t) /\ frag[tb] # "none"
      <3>1. loc[t] \in [gen : Nat, pos : Nat, place : Place, rows : Seq(Row)] /\ t \in DOMAIN loc
        BY DEF IInv, Types, ThreadTypeOK
      <3>2. loc' = [loc EXCEPT ![t].place = NextPlace(tb, NewRow(t))]
        BY <2>3 DEF AppendToFile
      <3>3. loc'[t].place = NextPlace(tb, NewRow(t))
        BY <3>1, <3>2
      <3>4. ~loc'[t].place.start /\ loc'[t].place.row = NewRow(t)
        <4>1. (frag[tb] = "none") = FALSE
          BY <2>3
        <4>2. NextPlace(tb, NewRow(t)) = [line |-> n, start |-> FALSE, row |-> NewRow(t)]
          BY <2>3, <4>1, Zenon DEF NextPlace
        <4>. QED
          BY <3>3, <4>2
      <3>5. NewRow(t)' = NewRow(t)
        BY <1>1 DEF NewRow
      <3>6. Firm(req[t].table, loc[t].place)' /\ ReadAt(req[t].table, loc[t].place)' = NewRow(t)'
        BY <3>4, <3>5 DEF Firm, ReadAt
      <3>. QED
        BY <1>4, <3>6 DEF Reachable
    <2>. QED
      BY <2>1, <2>2, <2>3
  <1>6. AckedRowsReadable'
    BY <1>1, <1>2, AckedStays
  <1>7. \A x \in Tables : ~cache'[x].loaded => Unread(x)'
    BY <1>1 DEF Readable, Unread
  <1>8. \A x \in Tables : \A i \in DOMAIN cache'[x].index : Firm(x, cache[x].index[i])'
    <2>1. \A x \in Tables : \A i \in DOMAIN cache[x].index : Firm(x, cache[x].index[i])
      BY DEF Readable
    <2>. QED
      BY <1>1, <1>2, <2>1 DEF Undisturbed, Firm
  <1>. QED
    BY <1>3, <1>5, <1>6, <1>7, <1>8 DEF Readable

LEMMA ReadableIndex ==
    ASSUME IInv, Readable, NEW t \in Threads, AddToIndex(t)
    PROVE  Readable'
  <1>. DEFINE tb == req[t].table  id == cache[tb].next
  <1>1. /\ UNCHANGED <<file, frag, gen, req, loc, acked>> /\ \A u \in Threads \ {t} : Idles(u)
        /\ pc[t] = "index" /\ pc'[t] = "done" /\ tb \in Tables /\ writer = t
        /\ cache[tb].loaded
        /\ \A x \in Tables \ {tb} : cache'[x] = cache[x]
    BY IndexFrame
  <1>2. \/ UNCHANGED <<cache, answer>>
        \/ /\ cache'[tb].loaded
           /\ DOMAIN cache'[tb].index = DOMAIN cache[tb].index \cup {id}
           /\ \A i \in DOMAIN cache[tb].index : cache'[tb].index[i] = cache[tb].index[i]
           /\ cache'[tb].index[id] = loc[t].place
           /\ answer'[t] = Inserted(id)
    BY IndexesRow
  <1>3. Undisturbed
    BY <1>1, <1>2 DEF Undisturbed, Firm, ReadAt
  <1>4. \A u \in Threads \ {t} : Reachable(u)'
    <2>. SUFFICES ASSUME NEW u \in Threads \ {t} PROVE Reachable(u)'
      OBVIOUS
    <2>1. pc[u] # "index"
      BY <1>1 DEF IInv, Exclusion, Holds, Writing
    <2>. QED
      BY <1>1, <1>3, <2>1, OthersReachable
  <1>5. Firm(tb, loc[t].place) /\ ReadAt(tb, loc[t].place) = NewRow(t) /\ ~answer[t].ok
    BY <1>1 DEF Readable, Reachable
  <1>6. Reachable(t)'
    <2>1. CASE answer' = answer
      BY <1>1, <1>5, <2>1 DEF Reachable
    <2>2. CASE /\ DOMAIN cache'[tb].index = DOMAIN cache[tb].index \cup {id}
               /\ cache'[tb].index[id] = loc[t].place
               /\ answer'[t] = Inserted(id)
      <3>1. answer'[t].id = id /\ NewRow(t) = [id |-> id, val |-> req[t].val]
        BY <2>2 DEF Inserted, NewRow
      <3>2. Finds(req[t].table, answer[t].id, [id |-> answer[t].id, val |-> req[t].val])'
        BY <1>1, <1>5, <2>2, <3>1 DEF Finds, ReadAt
      <3>. QED
        BY <1>1, <3>2 DEF Reachable
    <2>. QED
      BY <1>2, <2>1, <2>2
  <1>7. AckedRowsReadable'
    BY <1>1, <1>3, AckedStays
  <1>8. \A x \in Tables : ~cache'[x].loaded => Unread(x)'
    BY <1>1, <1>2 DEF Readable, Unread
  <1>9. \A x \in Tables : \A i \in DOMAIN cache'[x].index : Firm(x, cache[x].index[i])'
    <2>. SUFFICES ASSUME NEW x \in Tables, NEW i \in DOMAIN cache'[x].index
                  PROVE  Firm(x, cache'[x].index[i])
      BY <1>1 DEF Firm
    <2>1. CASE i \in DOMAIN cache[x].index
      BY <1>3, <2>1 DEF Undisturbed, Readable
    <2>2. CASE i \notin DOMAIN cache[x].index
      <3>1. x = tb /\ i = id /\ cache'[x].index[i] = loc[t].place
        BY <1>1, <1>2, <2>2
      <3>. QED
        BY <1>5, <3>1
    <2>. QED
      BY <2>1, <2>2
  <1>. QED
    BY <1>4, <1>6, <1>7, <1>8, <1>9 DEF Readable

LEMMA ReadableStep ==
    ASSUME Faults \subseteq {"oom", "torn"}, IInv, Readable, [Next]_vars
    PROVE  Readable'
  <1>1. CASE UNCHANGED vars
    BY <1>1 DEF vars, Readable, Unread, Firm, Reachable, Finds, ReadAt, NewRow, AckedRowsReadable
  <1>2. ~Crash /\ \A t \in Threads : ~AddToIndexFails(t)
    BY DEF Crash, AddToIndexFails
  <1>. QED
    BY <1>1, <1>2, ReadableQuiet, ReadableLoading, ReadableAppend, ReadableIndex, StepCases, Zenon

\* For every number of threads, if the process does not crash and bptree_insert
\* does not fail: a row whose INSERT was answered with success is what a lookup
\* of its id finds, whatever writes were cut off or reported as failed before
\* or after it.
THEOREM DbAckedRowsReadable ==
    ASSUME Faults \subseteq {"oom", "torn"}
    PROVE  Spec => []AckedRowsReadable
  <1>1. Init => Readable
    <2>. SUFFICES ASSUME Init PROVE Readable
      OBVIOUS
    <2>1. \A tb \in Tables : file[tb] = <<>> /\ frag[tb] = "none" /\ cache[tb] = NotLoaded
      BY DEF Init
    <2>2. \A tb \in Tables : Unread(tb) /\ \A i \in DOMAIN cache[tb].index : Firm(tb, cache[tb].index[i])
      BY <2>1, NotLoadedType DEF Unread
    <2>3. \A t \in Threads : Reachable(t)
      BY DEF Init, Reachable, Error
    <2>. QED
      BY <2>2, <2>3 DEF Readable, AckedRowsReadable, Init
  <1>2. IInv /\ Readable /\ [Next]_vars => Readable'
    BY ReadableStep
  <1>3. Readable => AckedRowsReadable
    BY DEF Readable
  <1>. QED
    BY <1>1, <1>2, <1>3, DbInvariant, PTL DEF Spec

-----------------------------------------------------------------------------
(* The rows a SELECT asks for, found one line at a time.                   *)

\* The recursive definition has a solution: among the first n + 1 rows those are
\* wanted that are among the first n, and the last one if it is.
LEMMA ChosenUnfolds ==
    ASSUME NEW s \in Seq(Row), NEW r
    PROVE  LET c == Atomic!ChosenUpTo(s, r) IN
           /\ c \in [0..Len(s) -> Seq(Row)] /\ c[0] = <<>>
           /\ \A n \in 1..Len(s) :
                 c[n] = IF Atomic!Wanted(r, s[n]) THEN Append(c[n - 1], s[n]) ELSE c[n - 1]
  <1>. DEFINE Grow(rows, n) == IF Atomic!Wanted(r, s[n]) THEN Append(rows, s[n]) ELSE rows
              Solves(g, m) == /\ g \in [0..m -> Seq(Row)] /\ g[0] = <<>>
                              /\ \A n \in 1..m : g[n] = Grow(g[n - 1], n)
              M == {m \in Nat : m <= Len(s) => \E g : Solves(g, m)}
  <1>0. Len(s) \in Nat
    OBVIOUS
  <1>1. 0 \in M
    <2>1. [n \in 0..0 |-> <<>>] \in [0..0 -> Seq(Row)]
      OBVIOUS
    <2>2. 0 \in 0..0
      OBVIOUS
    <2>3. Solves([n \in 0..0 |-> <<>>], 0)
      BY <2>1, <2>2
    <2>. QED
      BY <2>3
  <1>2. ASSUME NEW m \in Nat, m \in M PROVE m + 1 \in M
    <2>. SUFFICES ASSUME m + 1 <= Len(s) PROVE \E g : Solves(g, m + 1)
      <3>. HIDE DEF Solves
      <3>. QED
        OBVIOUS
    <2>1. PICK g : Solves(g, m)
      <3>. HIDE DEF Solves
      <3>. QED
        BY <1>0, <1>2
    <2>. DEFINE h == [n \in 0..(m + 1) |-> IF n = m + 1 THEN Grow(g[m], m + 1) ELSE g[n]]
    <2>2. s[m + 1] \in Row /\ g[m] \in Seq(Row) /\ m \in 0..m
      BY <1>0, <2>1, ElementOfSeq
    <2>3. Grow(g[m], m + 1) \in Seq(Row)
      BY <2>2
    <2>4. h \in [0..(m + 1) -> Seq(Row)]
      <3>. HIDE DEF Grow
      <3>. QED
        BY <2>1, <2>3
    <2>5. h[0] = <<>> /\ \A n \in 1..(m + 1) : h[n] = Grow(h[n - 1], n)
      <3>. HIDE DEF Grow
      <3>1. \A n \in 0..m : h[n] = g[n]
        OBVIOUS
      <3>2. h[m + 1] = Grow(h[m], m + 1)
        BY <2>2, <3>1
      <3>3. \A n \in 1..m : h[n] = Grow(h[n - 1], n)
        BY <2>1, <3>1
      <3>. QED
        BY <2>1, <3>1, <3>2, <3>3
    <2>6. Solves(h, m + 1)
      BY <2>4, <2>5
    <2>. QED
      BY <2>6
  <1>3. Nat \subseteq M
    <2>. HIDE DEF M
    <2>. QED
      BY <1>1, <1>2, NatInductive
  <1>4. PICK g : Solves(g, Len(s))
    <2>. HIDE DEF Solves
    <2>. QED
      BY <1>0, <1>3
  <1>. DEFINE Fixed(c) == c = [n \in 0..Len(s) |-> IF n = 0 THEN <<>> ELSE Grow(c[n - 1], n)]
  <1>5. Fixed(g)
    <2>. HIDE DEF Grow
    <2>1. \A n \in 0..Len(s) : g[n] = IF n = 0 THEN <<>> ELSE Grow(g[n - 1], n)
      BY <1>4
    <2>. QED
      BY <1>4, <2>1
  <1>. DEFINE c == Atomic!ChosenUpTo(s, r)
  <1>6. c = CHOOSE f : Fixed(f)
    BY DEF Atomic!ChosenUpTo
  <1>7. Fixed(c)
    <2>. HIDE DEF c, Fixed
    <2>. QED
      BY <1>5, <1>6
  <1>8. DOMAIN c = 0..Len(s) /\ c[0] = <<>> /\ \A n \in 1..Len(s) : c[n] = Grow(c[n - 1], n)
    <2>. HIDE DEF c, Grow
    <2>. QED
      BY <1>0, <1>7
  <1>. DEFINE T == {n \in Nat : n <= Len(s) => c[n] \in Seq(Row)}
  <1>9. 0 \in T
    <2>1. c[0] \in Seq(Row)
      BY <1>8
    <2>. QED
      BY <2>1
  <1>10. ASSUME NEW n \in Nat, n \in T PROVE n + 1 \in T
    <2>. SUFFICES ASSUME n + 1 <= Len(s) PROVE c[n + 1] \in Seq(Row)
      OBVIOUS
    <2>1. c[n] \in Seq(Row) /\ s[n + 1] \in Row /\ n + 1 \in 1..Len(s) /\ (n + 1) - 1 = n
      BY <1>0, <1>10, ElementOfSeq
    <2>2. c[n + 1] = Grow(c[n], n + 1)
      BY <1>8, <2>1
    <2>. QED
      BY <2>1, <2>2
  <1>11. Nat \subseteq T
    <2>. HIDE DEF T
    <2>. QED
      BY <1>9, <1>10, NatInductive
  <1>12. \A n \in 0..Len(s) : c[n] \in Seq(Row)
    BY <1>0, <1>11
  <1>13. c = [n \in 0..Len(s) |-> c[n]]
    <2>. HIDE DEF c
    <2>. QED
      BY <1>7
  <1>14. c \in [0..Len(s) -> Seq(Row)]
    <2>. HIDE DEF c
    <2>. QED
      BY <1>12, <1>13
  <1>. QED
    BY <1>8, <1>14

\* The row with an id, if the rows are numbered.
LEMMA ChosenById ==
    ASSUME NEW s \in Seq(Row), \A k \in DOMAIN s : s[k].id = k,
           NEW r, r.op = "lookup", r.id \in Nat
    PROVE  Atomic!Chosen(s, r) = IF r.id \in 1..Len(s) THEN <<s[r.id]>> ELSE <<>>
  <1>. DEFINE c == Atomic!ChosenUpTo(s, r)
              Found(n) == IF r.id \in 1..n THEN <<s[r.id]>> ELSE <<>>
              T == {n \in Nat : n <= Len(s) => c[n] = Found(n)}
  <1>0. Len(s) \in Nat /\ DOMAIN s = 1..Len(s)
    OBVIOUS
  <1>1. /\ c[0] = <<>>
        /\ \A n \in 1..Len(s) :
              c[n] = IF Atomic!Wanted(r, s[n]) THEN Append(c[n - 1], s[n]) ELSE c[n - 1]
    BY ChosenUnfolds
  <1>2. \A n \in 1..Len(s) : Atomic!Wanted(r, s[n]) <=> n = r.id
    BY <1>0 DEF Atomic!Wanted
  <1>3. 0 \in T
    <2>1. c[0] = Found(0)
      BY <1>1
    <2>. QED
      BY <2>1
  <1>4. ASSUME NEW n \in Nat, n \in T PROVE n + 1 \in T
    <2>. SUFFICES ASSUME n + 1 <= Len(s) PROVE c[n + 1] = Found(n + 1)
      OBVIOUS
    <2>1. c[n] = Found(n) /\ n + 1 \in 1..Len(s) /\ (n + 1) - 1 = n
      BY <1>0, <1>4
    <2>2. c[n + 1] = IF n + 1 = r.id THEN Append(c[n], s[n + 1]) ELSE c[n]
      BY <1>1, <1>2, <2>1
    <2>3. CASE n + 1 = r.id
      <3>1. Found(n) = <<>> /\ Found(n + 1) = <<s[n + 1]>>
        BY <2>3
      <3>. QED
        BY <2>1, <2>2, <2>3, <3>1
    <2>4. CASE n + 1 # r.id
      <3>1. Found(n) = Found(n + 1)
        BY <2>4
      <3>. QED
        BY <2>1, <2>2, <2>4, <3>1
    <2>. QED
      BY <2>3, <2>4
  <1>5. Nat \subseteq T
    <2>. HIDE DEF T
    <2>. QED
      BY <1>3, <1>4, NatInductive
  <1>6. c[Len(s)] = Found(Len(s))
    BY <1>0, <1>5
  <1>. QED
    BY <1>6 DEF Atomic!Chosen

-----------------------------------------------------------------------------
(* The invariant, beside IInv and Numbers.                                 *)

\* What thread t has found out so far is what the table holds.
Found(t) ==
    LET r == req[t]  s == file[req[t].table] IN
    /\ pc[t] \notin {"done", "respond"} => answer[t] = Error
    /\ pc[t] \in {"scan", "search", "fetch", "append", "index"} => r.valid
    /\ pc[t] \in {"search", "fetch"} => Indexable(r)
    /\ pc[t] = "scan" => /\ loc[t].pos \in 1..(Len(s) + 1)
                         /\ loc[t].rows = Atomic!ChosenUpTo(s, r)[loc[t].pos - 1]
    /\ pc[t] = "fetch" => /\ r.id \in DOMAIN cache[r.table].index
                          /\ loc[t].place = cache[r.table].index[r.id]

\* A table is in the cache only if it has a schema file, and as long as it is
\* not, it is empty.
Agrees ==
    /\ \A tb \in Tables : IF cache[tb].loaded THEN tb \in Schemas ELSE file[tb] = <<>>
    /\ \A t \in Threads : Found(t)

Lin == IInv /\ Numbers /\ Agrees

-----------------------------------------------------------------------------
(* How steps look from outside.                                            *)

CallOf(t) ==
    IF pc[t] = "idle" THEN "idle"
      ELSE IF pc[t] \in {"index", "done", "respond"} THEN "answered" ELSE "pending"

AnswerOf(t) == IF pc[t] = "index" THEN Inserted(NewRow(t).id) ELSE answer[t]

\* In a step of t the others look the same as before.
LEMMA OthersLookTheSame ==
    ASSUME IInv, NEW t \in Threads, \A u \in Threads \ {t} : Idles(u),
           \A u \in Threads \ {t} :
              pc[u] = "index" => cache'[req[u].table].next = cache[req[u].table].next
    PROVE  /\ AtomicCall' = [AtomicCall EXCEPT ![t] = CallOf(t)']
           /\ AtomicAnswer' = [AtomicAnswer EXCEPT ![t] = AnswerOf(t)']
           /\ AtomicCall[t] = CallOf(t) /\ AtomicAnswer[t] = AnswerOf(t)
  <1>1. \A u \in Threads \ {t} : CallOf(u)' = CallOf(u)
    BY DEF CallOf, Idles
  <1>2. \A u \in Threads \ {t} : AnswerOf(u)' = AnswerOf(u)
    BY DEF AnswerOf, Idles, NewRow, Inserted
  <1>3. /\ AtomicCall = [u \in Threads |-> CallOf(u)]
        /\ AtomicAnswer = [u \in Threads |-> AnswerOf(u)]
    BY DEF AtomicCall, AtomicAnswer, CallOf, AnswerOf
  <1>4. /\ AtomicCall' = [u \in Threads |-> CallOf(u)']
        /\ AtomicAnswer' = [u \in Threads |-> AnswerOf(u)']
    BY DEF AtomicCall, AtomicAnswer, CallOf, AnswerOf
  <1>. HIDE DEF CallOf, AnswerOf
  <1>5. AtomicCall' = [AtomicCall EXCEPT ![t] = CallOf(t)']
    BY <1>1, <1>3, <1>4
  <1>6. AtomicAnswer' = [AtomicAnswer EXCEPT ![t] = AnswerOf(t)']
    BY <1>2, <1>3, <1>4
  <1>. QED
    BY <1>3, <1>5, <1>6

\* A step that cannot be seen.
LEMMA Invisible ==
    ASSUME IInv, NEW t \in Threads, \A u \in Threads \ {t} : Idles(u),
           \A u \in Threads \ {t} :
              pc[u] = "index" => cache'[req[u].table].next = cache[req[u].table].next,
           UNCHANGED <<file, req>>, CallOf(t)' = CallOf(t), AnswerOf(t)' = AnswerOf(t)
    PROVE  UNCHANGED Atomic!vars
  <1>. HIDE DEF CallOf, AnswerOf
  <1>1. /\ AtomicCall' = [AtomicCall EXCEPT ![t] = CallOf(t)']
        /\ AtomicAnswer' = [AtomicAnswer EXCEPT ![t] = AnswerOf(t)']
        /\ AtomicCall[t] = CallOf(t) /\ AtomicAnswer[t] = AnswerOf(t)
    BY OthersLookTheSame
  <1>2. AtomicCall \in [Threads -> {"idle", "answered", "pending"}] /\ DOMAIN AtomicAnswer = Threads
        /\ AtomicAnswer = [u \in Threads |-> AtomicAnswer[u]]
    BY DEF AtomicCall, AtomicAnswer
  <1>3. UNCHANGED <<AtomicCall, AtomicAnswer>>
    BY <1>1, <1>2
  <1>. QED
    BY <1>3 DEF Atomic!vars

\* The step in which a statement takes effect.
Effect(t) ==
    LET r == req[t] IN
    \/ Atomic!Fails(r) /\ AnswerOf(t)' = Error /\ file' = file
    \/ /\ ~Atomic!Fails(r) /\ r.op = "insert"
       /\ file' = [file EXCEPT ![r.table] = Append(file[r.table], [id |-> LastId(r.table) + 1, val |-> r.val])]
       /\ AnswerOf(t)' = Inserted(LastId(r.table) + 1)
    \/ /\ ~Atomic!Fails(r) /\ r.op # "insert" /\ file' = file
       /\ AnswerOf(t)' = Selected(Atomic!Chosen(file[r.table], r))

LEMMA TakesEffect ==
    ASSUME IInv, NEW t \in Threads, \A u \in Threads \ {t} : Idles(u),
           \A u \in Threads \ {t} :
              pc[u] = "index" => cache'[req[u].table].next = cache[req[u].table].next,
           UNCHANGED req, CallOf(t) = "pending", CallOf(t)' = "answered", Effect(t)
    PROVE  Atomic!Apply(t)
  <1>1. /\ AtomicCall' = [AtomicCall EXCEPT ![t] = "answered"] /\ AtomicCall[t] = "pending"
        /\ AtomicAnswer' = [AtomicAnswer EXCEPT ![t] = AnswerOf(t)']
    <2>. HIDE DEF CallOf, AnswerOf
    <2>. QED
      BY OthersLookTheSame
  <1>2. \A tb : Atomic!LastId(tb) = LastId(tb)
    BY DEF Atomic!LastId, LastId, Ids, Max, Atomic!Max
  <1>3. Atomic!Error = Error /\ \A x : Atomic!Inserted(x) = Inserted(x) /\ Atomic!Selected(x) = Selected(x)
    BY DEF Atomic!Error, Error, Atomic!Inserted, Inserted, Atomic!Selected, Selected
  <1>. HIDE DEF CallOf, AnswerOf
  <1>4. CASE Atomic!Fails(req[t]) /\ AnswerOf(t)' = Error /\ file' = file
    BY <1>1, <1>3, <1>4 DEF Atomic!Apply
  <1>5. CASE /\ ~Atomic!Fails(req[t]) /\ req[t].op = "insert"
             /\ file' = [file EXCEPT ![req[t].table] =
                            Append(file[req[t].table], [id |-> LastId(req[t].table) + 1, val |-> req[t].val])]
             /\ AnswerOf(t)' = Inserted(LastId(req[t].table) + 1)
    BY <1>1, <1>2, <1>3, <1>5 DEF Atomic!Apply
  <1>6. CASE /\ ~Atomic!Fails(req[t]) /\ req[t].op # "insert" /\ file' = file
             /\ AnswerOf(t)' = Selected(Atomic!Chosen(file[req[t].table], req[t]))
    BY <1>1, <1>3, <1>6 DEF Atomic!Apply
  <1>. QED
    BY <1>4, <1>5, <1>6 DEF Effect

\* What other threads found out stays true.
LEMMA OthersFound ==
    ASSUME IInv, NEW t \in Threads, NEW u \in Threads, u # t, Found(u), Idles(u),
           \/ UNCHANGED file /\ \A tb \in Tables : cache[tb].loaded => cache'[tb] = cache[tb]
           \/ writer = t
    PROVE  Found(u)'
  <1>1. pc[u] \in {"scan", "search", "fetch"} => writer # t
    BY NoThreadAssumption DEF IInv, Exclusion, Holds, Reading
  <1>2. pc[u] \in {"scan", "search", "fetch"}
           => req[u].table \in Tables /\ cache[req[u].table].loaded
    BY RequestType DEF IInv, Statements, Relies, Cached
  <1>3. pc[u] \in {"scan", "search", "fetch"}
           => file' = file /\ cache'[req[u].table] = cache[req[u].table]
    BY <1>1, <1>2
  <1>4. /\ pc[u] = "scan" => /\ loc'[u].pos \in 1..(Len(file'[req'[u].table]) + 1)
                             /\ loc'[u].rows = Atomic!ChosenUpTo(file'[req'[u].table], req'[u])[loc'[u].pos - 1]
        /\ pc[u] = "fetch" => /\ req'[u].id \in DOMAIN cache'[req'[u].table].index
                              /\ loc'[u].place = cache'[req'[u].table].index[req'[u].id]
    BY <1>3 DEF Found, Idles
  <1>. QED
    BY <1>4 DEF Found, Idles, Indexable

-----------------------------------------------------------------------------
(* One lemma per kind of step: it keeps Agrees, and is a step of           *)
(* AtomicTables or invisible.                                              *)

Visible == (\E t \in Threads : Atomic!Call(t) \/ Atomic!Apply(t) \/ Atomic!Return(t))
           \/ UNCHANGED Atomic!vars

\* A quiet step leaves what others see alone.
LEMMA QuietLin ==
    ASSUME Lin, NEW t \in Threads, Quiet(t), Found(t)'
    PROVE  /\ Agrees'
           /\ \A u \in Threads \ {t} : Idles(u)
           /\ \A u \in Threads \ {t} :
                 pc[u] = "index" => cache'[req[u].table].next = cache[req[u].table].next
           /\ file' = file /\ cache' = cache
  <1>1. UNCHANGED <<file, frag, cache, gen>> /\ \A u \in Threads \ {t} : Idles(u)
    BY QuietFrame DEF Lin
  <1>2. \A u \in Threads \ {t} : Found(u)'
    BY <1>1, OthersFound DEF Lin, Agrees
  <1>. QED
    BY <1>1, <1>2 DEF Lin, Agrees

LEMMA CallLin ==
    ASSUME Lin, NEW t \in Threads, Call(t)
    PROVE  Agrees' /\ Visible
  <1>. USE DEF Lin, IInv, Types, ThreadTypeOK, Goto
  <1>1. PICK r \in Requests : req' = [req EXCEPT ![t] = r]
    BY DEF Call
  <1>2. /\ pc[t] = "idle" /\ pc'[t] \in {"wantInsert", "wantPreload"} /\ answer' = answer
    BY DEF Call
  <1>3. answer[t] = Error
    BY <1>2 DEF Agrees, Found
  <1>4. Found(t)'
    BY <1>2, <1>3 DEF Found
  <1>5. Agrees' /\ file' = file
    BY <1>4, QuietLin DEF Quiet
  <1>6. CallOf(t) = "idle" /\ CallOf(t)' = "pending" /\ AnswerOf(t)' = AnswerOf(t)
    BY <1>2 DEF CallOf, AnswerOf
  <1>7. /\ AtomicCall' = [AtomicCall EXCEPT ![t] = "pending"] /\ AtomicCall[t] = "idle"
        /\ AtomicAnswer' = [AtomicAnswer EXCEPT ![t] = AtomicAnswer[t]]
    BY <1>4, <1>6, QuietLin, OthersLookTheSame DEF Quiet
  <1>8. AtomicAnswer' = AtomicAnswer
    BY <1>7 DEF AtomicAnswer
  <1>9. Atomic!Call(t)
    BY <1>1, <1>5, <1>7, <1>8 DEF Atomic!Call
  <1>. QED
    BY <1>5, <1>9 DEF Visible

LEMMA LockLin ==
    ASSUME Lin, NEW t \in Threads,
           LockForPreload(t) \/ UnlockPreload(t) \/ LockForRead(t) \/ LockForInsert(t) \/ Unlock(t)
    PROVE  Agrees' /\ Visible
  <1>. USE DEF Lin, IInv, Types, ThreadTypeOK, Goto
  <1>1. /\ UNCHANGED <<req, answer>>
        /\ \/ /\ pc[t] \in {"wantPreload", "preloaded", "wantRead", "wantInsert"}
              /\ pc'[t] \in {"preload", "wantRead", "locate", "load"}
           \/ pc[t] = "done" /\ pc'[t] = "respond"
    BY DEF LockForPreload, UnlockPreload, LockForRead, LockForInsert, Unlock
  <1>2. Found(t)'
    BY <1>1 DEF Agrees, Found
  <1>3. CallOf(t)' = CallOf(t) /\ AnswerOf(t)' = AnswerOf(t)
    BY <1>1 DEF CallOf, AnswerOf
  <1>4. Quiet(t)
    BY DEF Quiet
  <1>. QED
    BY <1>1, <1>2, <1>3, <1>4, QuietLin, Invisible DEF Visible

\* Nobody has a row to index while another thread holds the lock, ...
LEMMA NobodyAppends ==
    ASSUME Lin, NEW t \in Threads, pc[t] \in Reading \cup {"append"}, NEW tb \in Tables
    PROVE  ~Appending(tb)
  BY NoThreadAssumption DEF Lin, IInv, Exclusion, Holds, Reading, Writing, Appending

\* ... so there the table is as the file says.
LEMMA TableKnown ==
    ASSUME Lin, NEW t \in Threads, pc[t] \in {"scan", "search", "fetch", "append"}
    PROVE  LET tb == req[t].table IN
           /\ req[t] \in Requests /\ tb \in Tables /\ tb \in Schemas /\ req[t].valid
           /\ Numbered(tb) /\ Level(tb) /\ file[tb] \in Seq(Row)
           /\ Len(file[tb]) \in 0..MaxId /\ DOMAIN file[tb] = 1..Len(file[tb])
           /\ LastId(tb) = Len(file[tb])
           /\ Atomic!Fails(req[t]) <=> (req[t].op = "insert" /\ LastId(tb) = MaxId)
  <1>. DEFINE tb == req[t].table
  <1>1. req[t] \in Requests /\ tb \in Tables /\ cache[tb].loaded
    BY RequestType DEF Lin, IInv, Statements, Relies, Cached
  <1>2. tb \in Schemas /\ req[t].valid
    BY <1>1 DEF Lin, Agrees, Found
  <1>3. ~Appending(tb)
    BY <1>1, NobodyAppends DEF Reading
  <1>4. Numbered(tb) /\ Level(tb)
    BY <1>1, <1>3 DEF Lin, Numbers
  <1>5. /\ file[tb] \in Seq(Row) /\ Len(file[tb]) \in 0..MaxId
        /\ DOMAIN file[tb] = 1..Len(file[tb]) /\ LastId(tb) = Len(file[tb])
    BY <1>1, <1>4, NumberedIds DEF Lin, IInv, Types, StoreTypeOK
  <1>6. Atomic!LastId(tb) = LastId(tb)
    BY DEF Atomic!LastId, LastId, Ids, Max, Atomic!Max
  <1>7. Atomic!Fails(req[t]) <=> (req[t].op = "insert" /\ LastId(tb) = MaxId)
    BY <1>2, <1>6 DEF Atomic!Fails
  <1>. QED
    BY <1>1, <1>2, <1>4, <1>5, <1>7

\* row_matches_where_clause selects the rows that are asked for.
LEMMA MatchesWanted ==
    ASSUME NEW r \in Requests, r.op # "insert", NEW row
    PROVE  Matches(r, row) <=> Atomic!Wanted(r, row)
  BY RequestType DEF Matches, Atomic!Wanted

LEMMA ScanRowLin ==
    ASSUME Lin, NEW t \in Threads, ScanRow(t)
    PROVE  Agrees' /\ Visible
  <1>. USE DEF Goto
  <1>. DEFINE r == req[t]  s == file[r.table]  k == loc[t].pos  row == s[k]
              c == Atomic!ChosenUpTo(s, r)
  <1>1. pc[t] = "scan" /\ k <= Len(s) /\ UNCHANGED <<req, answer>>
    BY DEF ScanRow
  <1>2. /\ r \in Requests /\ s \in Seq(Row) /\ Numbered(r.table) /\ DOMAIN s = 1..Len(s)
        /\ Len(s) \in Nat /\ r.valid
    BY <1>1, TableKnown
  <1>3. k \in 1..Len(s) /\ loc[t].rows = c[k - 1] /\ answer[t] = Error /\ r.op # "insert"
    BY <1>1, <1>2 DEF Lin, Agrees, Found, IInv, Statements, Relies
  <1>4. row.val # Malformed
    BY <1>2, <1>3 DEF Numbered
  <1>5. /\ UNCHANGED pc
        /\ loc' = [loc EXCEPT ![t].rows = IF Matches(r, row) THEN Append(@, row) ELSE @,
                              ![t].pos = @ + 1]
    BY <1>4 DEF ScanRow
  <1>6. loc[t] \in [gen : Nat, pos : Nat, place : Place, rows : Seq(Row)] /\ t \in DOMAIN loc
    BY DEF Lin, IInv, Types, ThreadTypeOK
  <1>7. /\ loc'[t].rows = IF Matches(r, row) THEN Append(loc[t].rows, row) ELSE loc[t].rows
        /\ loc'[t].pos = k + 1
    <2>. HIDE DEF r, row
    <2>. QED
      BY <1>5, <1>6
  <1>8. c[k] = IF Atomic!Wanted(r, row) THEN Append(c[k - 1], row) ELSE c[k - 1]
    BY <1>2, <1>3, ChosenUnfolds
  <1>9. Matches(r, row) <=> Atomic!Wanted(r, row)
    BY <1>2, <1>3, MatchesWanted
  <1>10. loc'[t].rows = c[k]
    <2>. HIDE DEF c, r, row
    <2>. QED
      BY <1>3, <1>7, <1>8, <1>9
  <1>11. Quiet(t)
    BY DEF Quiet
  <1>12. file' = file
    BY <1>11, QuietFrame DEF Lin
  <1>13. /\ loc'[t].pos \in 1..(Len(file'[req'[t].table]) + 1) /\ loc'[t].pos - 1 = k
    BY <1>1, <1>2, <1>3, <1>7, <1>12
  <1>14. Found(t)'
    BY <1>1, <1>2, <1>3, <1>5, <1>10, <1>12, <1>13 DEF Found
  <1>15. CallOf(t)' = CallOf(t) /\ AnswerOf(t)' = AnswerOf(t)
    BY <1>1, <1>5 DEF CallOf, AnswerOf
  <1>. QED
    BY <1>1, <1>11, <1>14, <1>15, QuietLin, Invisible DEF Visible, Lin

\* A quiet step that ends a statement.
LEMMA EndsQuietly ==
    ASSUME Lin, NEW t \in Threads, Quiet(t), UNCHANGED req,
           pc[t] \in {"scan", "search", "fetch", "append"}, pc'[t] = "done",
           \/ Atomic!Fails(req[t]) /\ answer'[t] = Error
           \/ /\ ~Atomic!Fails(req[t]) /\ req[t].op # "insert"
              /\ answer'[t] = Selected(Atomic!Chosen(file[req[t].table], req[t]))
    PROVE  Agrees' /\ Visible
  <1>1. Found(t)'
    BY DEF Found
  <1>2. /\ Agrees' /\ file' = file /\ \A u \in Threads \ {t} : Idles(u)
        /\ \A u \in Threads \ {t} :
              pc[u] = "index" => cache'[req[u].table].next = cache[req[u].table].next
    BY <1>1, QuietLin
  <1>3. CallOf(t) = "pending" /\ CallOf(t)' = "answered" /\ AnswerOf(t)' = answer'[t]
    BY DEF CallOf, AnswerOf
  <1>4. Effect(t)
    BY <1>2, <1>3 DEF Effect
  <1>5. Atomic!Apply(t)
    BY <1>2, <1>3, <1>4, TakesEffect DEF Lin
  <1>. QED
    BY <1>2, <1>5 DEF Visible

LEMMA ScanEndLin ==
    ASSUME Lin, NEW t \in Threads, ScanEnd(t)
    PROVE  Agrees' /\ Visible
  <1>. DEFINE r == req[t]  s == file[r.table]  c == Atomic!ChosenUpTo(s, r)
  <1>1. /\ pc[t] = "scan" /\ loc[t].pos > Len(s) /\ UNCHANGED req
        /\ answer'[t] = Selected(loc[t].rows) /\ pc'[t] = "done"
    BY DEF ScanEnd, Goto, Lin, IInv, Types, ThreadTypeOK
  <1>2. Len(s) \in Nat /\ r.op # "insert" /\ ~Atomic!Fails(r)
    BY <1>1, TableKnown DEF Lin, IInv, Statements, Relies
  <1>3. loc[t].pos \in 1..(Len(s) + 1) /\ loc[t].rows = c[loc[t].pos - 1]
    BY <1>1 DEF Lin, Agrees, Found
  <1>4. loc[t].pos - 1 = Len(s)
    BY <1>1, <1>2, <1>3
  <1>5. loc[t].rows = Atomic!Chosen(s, r)
    BY <1>3, <1>4 DEF Atomic!Chosen
  <1>6. Quiet(t)
    BY DEF Quiet
  <1>. QED
    BY <1>1, <1>2, <1>5, <1>6, EndsQuietly

LEMMA LookupLin ==
    ASSUME Lin, NEW t \in Threads, Search(t) \/ Fetch(t)
    PROVE  Agrees' /\ Visible
  <1>. DEFINE r == req[t]  tb == r.table  s == file[tb]  index == cache[tb].index
  <1>1. pc[t] \in {"search", "fetch"} /\ UNCHANGED req /\ Quiet(t)
    BY DEF Search, Fetch, Quiet
  <1>2. /\ r \in Requests /\ s \in Seq(Row) /\ Numbered(tb) /\ DOMAIN s = 1..Len(s) /\ tb \in Tables
        /\ Len(s) \in Nat /\ r.valid /\ DOMAIN index = 1..Len(s)
    BY <1>1, TableKnown DEF Level
  <1>3. r.op = "lookup" /\ r.id \in Nat /\ ~Atomic!Fails(r) /\ Indexable(r)
    <2>1. Indexable(r) /\ r.op = "lookup"
      BY <1>1 DEF Lin, Agrees, Found, Indexable
    <2>2. r.id \in Nat
      BY <1>2, RequestType, MaxIdAssumption
    <2>. QED
      BY <1>1, <2>1, <2>2, TableKnown
  <1>4. Atomic!Chosen(s, r) = IF r.id \in 1..Len(s) THEN <<s[r.id]>> ELSE <<>>
    BY <1>2, <1>3, ChosenById DEF Numbered
  <1>5. answer[t] = Error
    BY <1>1 DEF Lin, Agrees, Found
  <1>6. CASE Search(t) /\ r.id \notin DOMAIN index
    <2>1. answer'[t] = Selected(<<>>) /\ pc'[t] = "done"
      BY <1>6 DEF Search, Goto, Lin, IInv, Types, ThreadTypeOK
    <2>2. Atomic!Chosen(s, r) = <<>>
      BY <1>2, <1>4, <1>6
    <2>. QED
      BY <1>1, <1>3, <2>1, <2>2, EndsQuietly
  <1>7. CASE Search(t) /\ r.id \in DOMAIN index
    <2>1. loc' = [loc EXCEPT ![t].place = index[r.id]] /\ pc' = [pc EXCEPT ![t] = "fetch"] /\ UNCHANGED answer
      BY <1>7 DEF Search, Goto
    <2>2. loc[t] \in [gen : Nat, pos : Nat, place : Place, rows : Seq(Row)] /\ t \in DOMAIN loc
      BY DEF Lin, IInv, Types, ThreadTypeOK
    <2>3. loc'[t].place = index[r.id]
      <3>. HIDE DEF index, r
      <3>. QED
        BY <2>1, <2>2
    <2>4. pc[t] = "search" /\ pc'[t] = "fetch"
      BY <1>7, <2>1 DEF Search, Lin, IInv, Types, ThreadTypeOK
    <2>5. cache' = cache
      BY <1>7 DEF Search
    <2>6. Found(t)'
      BY <1>1, <1>2, <1>3, <1>5, <1>7, <2>1, <2>3, <2>4, <2>5 DEF Found
    <2>7. CallOf(t)' = CallOf(t) /\ AnswerOf(t)' = AnswerOf(t)
      BY <2>1, <2>4 DEF CallOf, AnswerOf
    <2>. QED
      BY <1>1, <2>6, <2>7, QuietLin, Invisible DEF Visible, Lin
  <1>8. CASE Fetch(t)
    <2>1. r.id \in 1..Len(s) /\ loc[t].place = index[r.id]
      BY <1>2, <1>8 DEF Fetch, Lin, Agrees, Found
    <2>2. index[r.id].start /\ index[r.id].line = r.id
      BY <1>2, <2>1 DEF Numbered
    <2>3. ReadAt(tb, loc[t].place) = s[r.id]
      BY <2>1, <2>2 DEF ReadAt
    <2>4. s[r.id].id = r.id /\ s[r.id].val # Malformed
      BY <1>2, <2>1 DEF Numbered
    <2>5. Matches(r, s[r.id])
      BY <1>3, <2>4 DEF Matches
    <2>6. answer'[t] = Selected(<<s[r.id]>>) /\ pc'[t] = "done"
      BY <1>8, <2>3, <2>4, <2>5 DEF Fetch, Goto, Lin, IInv, Types, ThreadTypeOK
    <2>. QED
      BY <1>1, <1>3, <1>4, <2>1, <2>6, EndsQuietly
  <1>. QED
    BY <1>6, <1>7, <1>8

LEMMA NoIdLeftLin ==
    ASSUME Lin, NEW t \in Threads, NoIdLeft(t)
    PROVE  Agrees' /\ Visible
  <1>. DEFINE tb == req[t].table
  <1>1. pc[t] = "append" /\ pc'[t] = "done" /\ UNCHANGED <<req, answer>> /\ cache[tb].next = 0 /\ Quiet(t)
    BY DEF NoIdLeft, Goto, NewRow, Quiet, Lin, IInv, Types, ThreadTypeOK
  <1>2. /\ Len(file[tb]) \in 0..MaxId /\ LastId(tb) = Len(file[tb])
        /\ cache[tb].next = (Len(file[tb]) + 1) % (MaxId + 1)
        /\ Atomic!Fails(req[t]) <=> (req[t].op = "insert" /\ LastId(tb) = MaxId)
    BY <1>1, TableKnown DEF Level
  <1>3. LastId(tb) = MaxId
    <2>1. (Len(file[tb]) + 1) % (MaxId + 1) = IF Len(file[tb]) = MaxId THEN 0 ELSE Len(file[tb]) + 1
      BY <1>2, WrapAround
    <2>2. Len(file[tb]) + 1 # 0
      BY <1>2
    <2>. QED
      BY <1>1, <1>2, <2>1, <2>2
  <1>4. req[t].op = "insert" /\ answer[t] = Error
    BY <1>1 DEF Lin, IInv, Statements, Relies, Agrees, Found
  <1>. QED
    BY <1>1, <1>2, <1>3, <1>4, EndsQuietly

LEMMA ReturnLin ==
    ASSUME Lin, NEW t \in Threads, Return(t)
    PROVE  Agrees' /\ Visible
  <1>. USE DEF Goto
  <1>1. /\ pc[t] = "respond" /\ pc'[t] = "idle" /\ answer'[t] = Error
        /\ req' = [req EXCEPT ![t] = NoRequest] /\ Quiet(t)
    BY DEF Return, Quiet, Lin, IInv, Types, ThreadTypeOK
  <1>2. Found(t)'
    BY <1>1 DEF Found
  <1>3. CallOf(t) = "answered" /\ CallOf(t)' = "idle" /\ AnswerOf(t)' = Error
    BY <1>1 DEF CallOf, AnswerOf
  <1>4. Agrees' /\ file' = file
    BY <1>1, <1>2, QuietLin
  <1>5. /\ AtomicCall' = [AtomicCall EXCEPT ![t] = "idle"] /\ AtomicCall[t] = "answered"
        /\ AtomicAnswer' = [AtomicAnswer EXCEPT ![t] = Error]
    BY <1>1, <1>2, <1>3, QuietLin, OthersLookTheSame DEF Lin
  <1>6. Atomic!Return(t)
    BY <1>1, <1>4, <1>5 DEF Atomic!Return, Atomic!Error, Error
  <1>. QED
    BY <1>4, <1>6 DEF Visible

\* A table that is not in the cache is empty: it can be loaded if it has a schema.
LEMMA EmptyLoadable ==
    ASSUME Lin, NEW tb \in Tables, ~cache[tb].loaded
    PROVE  Loadable(tb) <=> tb \in Schemas
  <1>1. file[tb] = <<>> /\ Numbered(tb)
    BY DEF Lin, Agrees, Numbers
  <1>2. LastId(tb) = 0 /\ Cardinality(Ids(tb)) = 0 /\ DOMAIN file[tb] = {} /\ Len(file[tb]) = 0
    BY <1>1, NumberedIds DEF Lin, IInv, Types
  <1>. QED
    BY <1>2, MaxIdAssumption DEF Loadable

\* get_or_load_table_runtime succeeds if, and only if, the table has a schema.
LEMMA GetOrLoadLin ==
    ASSUME Lin, "oom" \notin Faults, NEW t \in Threads, NEW tb \in Tables, NEW found, NEW failed,
           GetOrLoad(t, tb, found, failed)
    PROVE  pc' = [pc EXCEPT ![t] = IF tb \in Schemas THEN found ELSE failed]
  <1>1. CASE cache[tb].loaded
    <2>1. tb \in Schemas
      BY <1>1 DEF Lin, Agrees
    <2>. QED
      BY <1>1, <2>1 DEF GetOrLoad, Goto
  <1>2. CASE ~cache[tb].loaded
    BY <1>2, EmptyLoadable DEF GetOrLoad, Goto
  <1>. QED
    BY <1>1, <1>2

LEMMA LoadingLin ==
    ASSUME Lin, "oom" \notin Faults, NEW t \in Threads, Loading(t)
    PROVE  Agrees' /\ Visible
  <1>. DEFINE r == req[t]  tb == r.table
  <1>1. /\ UNCHANGED <<file, frag, req, answer, acked>> /\ \A u \in Threads \ {t} : Idles(u)
        /\ pc[t] \in {"preload", "locate", "load"} /\ tb \in Tables
        /\ \A x \in Tables :
              \/ cache'[x] = cache[x]
              \/ ~cache[x].loaded /\ Loadable(x) /\ cache'[x] = Loaded(x)
    BY LoadingFrame DEF Lin
  <1>2. /\ \A x \in Tables : cache[x].loaded => cache'[x] = cache[x]
        /\ \A u \in Threads \ {t} : pc[u] = "index" => cache'[req[u].table].next = cache[req[u].table].next
    <2>1. \A u \in Threads : pc[u] = "index" => req[u].table \in Tables /\ cache[req[u].table].loaded
      BY NewRowType DEF Lin
    <2>. QED
      BY <1>1, <2>1
  <1>3. r \in Requests /\ r.valid \in BOOLEAN /\ answer[t] = Error
    BY <1>1, RequestType DEF Lin, IInv, Statements, Relies, Agrees, Found
  <1>4. \A x \in Tables : IF cache'[x].loaded THEN x \in Schemas ELSE file'[x] = <<>>
    BY <1>1 DEF Lin, Agrees, Loadable
  <1>5. \A u \in Threads \ {t} : Found(u)'
    BY <1>1, <1>2, OthersFound DEF Lin, Agrees
  <1>6. /\ pc'[t] \in {"preloaded", "search", "scan", "append", "done"}
        /\ pc'[t] \in {"search", "scan", "append"} => r.valid
        /\ pc'[t] = "search" => Indexable(r)
        /\ pc'[t] = "scan" => loc'[t].pos = 1 /\ loc'[t].rows = <<>>
        /\ pc'[t] = "done" => tb \notin Schemas \/ ~r.valid
    <2>1. CASE Preload(t)
      <3>1. GetOrLoad(t, tb, "preloaded", "done")
        BY <2>1 DEF Preload
      <3>2. pc' = [pc EXCEPT ![t] = IF tb \in Schemas THEN "preloaded" ELSE "done"]
        BY <1>1, <3>1, GetOrLoadLin
      <3>3. pc'[t] = IF tb \in Schemas THEN "preloaded" ELSE "done"
        BY <3>2 DEF Lin, IInv, Types, ThreadTypeOK
      <3>. QED
        BY <3>3
    <2>2. CASE LoadForInsert(t)
      <3>. DEFINE found == IF r.valid THEN "append" ELSE "done"
      <3>1. GetOrLoad(t, tb, found, "done")
        BY <2>2 DEF LoadForInsert
      <3>2. pc' = [pc EXCEPT ![t] = IF tb \in Schemas THEN found ELSE "done"]
        <4>. HIDE DEF found
        <4>. QED
          BY <1>1, <3>1, GetOrLoadLin
      <3>3. pc'[t] = IF tb \in Schemas THEN found ELSE "done"
        BY <3>2 DEF Lin, IInv, Types, ThreadTypeOK
      <3>. QED
        BY <3>3
    <2>3. CASE Locate(t)
      <3>. DEFINE found == IF ~r.valid THEN "done" ELSE IF Indexable(r) THEN "search" ELSE "scan"
                  start == [NoLocals EXCEPT !.gen = gen', !.pos = 1]
      <3>1. GetOrLoad(t, tb, found, "done") /\ loc' = [loc EXCEPT ![t] = start]
        BY <2>3 DEF Locate
      <3>2. pc' = [pc EXCEPT ![t] = IF tb \in Schemas THEN found ELSE "done"]
        <4>. HIDE DEF found
        <4>. QED
          BY <1>1, <3>1, GetOrLoadLin
      <3>3. pc'[t] = IF tb \in Schemas THEN found ELSE "done"
        BY <3>2 DEF Lin, IInv, Types, ThreadTypeOK
      <3>4. NoLocals \in [gen : Nat, pos : Nat, place : Place, rows : Seq(Row)] /\ NoLocals.rows = <<>>
        BY LocalsType DEF NoLocals
      <3>5. start.pos = 1 /\ start.rows = <<>>
        BY <3>4
      <3>6. loc'[t] = start
        <4>. HIDE DEF start
        <4>. QED
          BY <3>1 DEF Lin, IInv, Types, ThreadTypeOK
      <3>. QED
        BY <3>3, <3>5, <3>6
    <2>. QED
      BY <2>1, <2>2, <2>3 DEF Loading
  <1>7. Found(t)'
    <2>1. pc'[t] = "scan" => /\ loc'[t].pos \in 1..(Len(file'[req'[t].table]) + 1)
                             /\ loc'[t].rows = Atomic!ChosenUpTo(file'[req'[t].table], req'[t])[loc'[t].pos - 1]
      <3>1. file[tb] \in Seq(Row) /\ Len(file[tb]) \in Nat
        BY <1>1 DEF Lin, IInv, Types, StoreTypeOK
      <3>2. Atomic!ChosenUpTo(file[tb], r)[0] = <<>> /\ 1 - 1 = 0
        BY <3>1, ChosenUnfolds
      <3>3. 1 \in 1..(Len(file[tb]) + 1)
        BY <3>1
      <3>. QED
        BY <1>1, <1>6, <3>2, <3>3
    <2>. QED
      BY <1>1, <1>3, <1>6, <2>1 DEF Found
  <1>8. Agrees'
    BY <1>4, <1>5, <1>7 DEF Agrees
  <1>9. CASE pc'[t] # "done"
    <2>1. CallOf(t)' = CallOf(t) /\ AnswerOf(t)' = AnswerOf(t)
      BY <1>1, <1>6, <1>9 DEF CallOf, AnswerOf
    <2>. QED
      BY <1>1, <1>2, <1>8, <2>1, Invisible DEF Visible, Lin
  <1>10. CASE pc'[t] = "done"
    <2>1. CallOf(t) = "pending" /\ CallOf(t)' = "answered" /\ AnswerOf(t)' = Error
      BY <1>1, <1>3, <1>10 DEF CallOf, AnswerOf
    <2>2. Effect(t)
      BY <1>1, <1>6, <1>10, <2>1 DEF Effect, Atomic!Fails
    <2>3. Atomic!Apply(t)
      BY <1>1, <1>2, <2>1, <2>2, TakesEffect DEF Lin
    <2>. QED
      BY <1>8, <2>3 DEF Visible
  <1>. QED
    BY <1>9, <1>10

\* An INSERT takes effect when its row is in the file, ...
LEMMA AppendLin ==
    ASSUME Lin, NEW t \in Threads, AppendToFile(t)
    PROVE  Agrees' /\ Visible
  <1>. DEFINE tb == req[t].table  n == Len(file[tb])
  <1>1. /\ UNCHANGED <<cache, req, answer>> /\ \A u \in Threads \ {t} : Idles(u)
        /\ pc[t] = "append" /\ tb \in Tables /\ writer = t /\ cache[tb].loaded
        /\ NewRow(t).id # 0 /\ \A x \in Tables \ {tb} : file'[x] = file[x]
    BY AppendFrame DEF Lin
  <1>2. /\ tb \in Schemas /\ Numbered(tb) /\ Level(tb) /\ n \in 0..MaxId /\ LastId(tb) = n
        /\ req[t].valid /\ req[t].op = "insert" /\ answer[t] = Error
        /\ Atomic!Fails(req[t]) <=> (req[t].op = "insert" /\ LastId(tb) = MaxId)
    BY <1>1, TableKnown DEF Lin, IInv, Statements, Relies, Agrees, Found
  <1>3. NewRow(t).id = n + 1 /\ pc'[t] = "index"
    BY <1>2, NumbersAppend, AppendsLine DEF Lin, Numbered
  <1>4. NewRow(t) = [id |-> LastId(tb) + 1, val |-> req[t].val]
    BY <1>2, <1>3 DEF NewRow
  <1>5. ~Atomic!Fails(req[t])
    <2>1. NewRow(t).id = (n + 1) % (MaxId + 1)
      BY <1>2 DEF NewRow, Level
    <2>2. (n + 1) % (MaxId + 1) = IF n = MaxId THEN 0 ELSE n + 1
      BY <1>2, WrapAround
    <2>. QED
      BY <1>1, <1>2, <2>1, <2>2
  <1>6. file' = [file EXCEPT ![tb] = Append(file[tb], NewRow(t))]
    BY <1>2 DEF AppendToFile, AppendRow, Extended, Numbered
  <1>7. CallOf(t) = "pending" /\ CallOf(t)' = "answered" /\ AnswerOf(t)' = Inserted(LastId(tb) + 1)
    BY <1>1, <1>2, <1>3 DEF CallOf, AnswerOf, NewRow
  <1>8. Effect(t)
    BY <1>2, <1>4, <1>5, <1>6, <1>7 DEF Effect
  <1>9. Atomic!Apply(t)
    BY <1>1, <1>7, <1>8, TakesEffect DEF Lin
  <1>10. Found(t)'
    BY <1>1, <1>2, <1>3 DEF Found
  <1>11. \A u \in Threads \ {t} : Found(u)'
    BY <1>1, OthersFound DEF Lin, Agrees
  <1>12. \A x \in Tables : IF cache'[x].loaded THEN x \in Schemas ELSE file'[x] = <<>>
    BY <1>1 DEF Lin, Agrees
  <1>. QED
    BY <1>9, <1>10, <1>11, <1>12 DEF Agrees, Visible

\* ... and the index follows unseen.
LEMMA AddToIndexLin ==
    ASSUME Lin, NEW t \in Threads, AddToIndex(t)
    PROVE  Agrees' /\ Visible
  <1>. DEFINE tb == req[t].table
  <1>1. /\ UNCHANGED <<file, req, loc>> /\ \A u \in Threads \ {t} : Idles(u)
        /\ pc[t] = "index" /\ pc'[t] = "done" /\ tb \in Tables /\ writer = t
        /\ cache[tb].loaded /\ \A x \in Tables \ {tb} : cache'[x] = cache[x]
    BY IndexFrame DEF Lin
  <1>2. answer'[t] = Inserted(cache[tb].next)
    BY NumbersIndex DEF Lin
  <1>3. \A u \in Threads \ {t} : pc[u] # "index"
    BY <1>1 DEF Lin, IInv, Exclusion, Holds, Writing
  <1>4. CallOf(t)' = CallOf(t) /\ AnswerOf(t)' = AnswerOf(t)
    BY <1>1, <1>2 DEF CallOf, AnswerOf, NewRow
  <1>5. UNCHANGED Atomic!vars
    BY <1>1, <1>3, <1>4, Invisible DEF Lin
  <1>6. Found(t)'
    BY <1>1 DEF Found
  <1>7. \A u \in Threads \ {t} : Found(u)'
    BY <1>1, OthersFound DEF Lin, Agrees
  <1>8. cache'[tb].loaded
    BY <1>1, IndexesRow DEF Lin
  <1>9. \A x \in Tables : IF cache'[x].loaded THEN x \in Schemas ELSE file'[x] = <<>>
    BY <1>1, <1>8 DEF Lin, Agrees
  <1>. QED
    BY <1>5, <1>6, <1>7, <1>9 DEF Agrees, Visible

LEMMA LinStep ==
    ASSUME Faults = {}, Lin, [Next]_vars
    PROVE  Agrees' /\ Visible
  <1>1. ASSUME NEW t \in Threads, Quiet(t) PROVE Agrees' /\ Visible
    <2>1. ~LockFails(t) /\ ~ExecutionFails(t) /\ ~ResponseFails(t)
      BY DEF LockFails, ExecutionFails, ResponseFails
    <2>. QED
      BY Zenon, <1>1, <2>1, CallLin, LockLin, ScanRowLin, ScanEndLin, LookupLin, NoIdLeftLin, ReturnLin
         DEF Quiet
  <1>2. ASSUME NEW t \in Threads, Loading(t) PROVE Agrees' /\ Visible
    BY <1>2, LoadingLin
  <1>3. ~Crash /\ \A t \in Threads : ~AppendToFileFails(t) /\ ~AddToIndexFails(t)
    BY DEF Crash, AppendToFileFails, AddToIndexFails
  <1>4. CASE UNCHANGED vars
    <2>. USE <1>4 DEF vars
    <2>1. \A t \in Threads : Found(t)'
      BY DEF Lin, Agrees, Found
    <2>2. Agrees'
      BY <2>1 DEF Lin, Agrees
    <2>3. UNCHANGED <<AtomicCall, AtomicAnswer>>
      BY DEF AtomicCall, AtomicAnswer, NewRow
    <2>. QED
      BY <2>2, <2>3 DEF Visible, Atomic!vars
  <1>. QED
    BY Zenon, <1>1, <1>2, <1>3, <1>4, StepCases, AppendLin, AddToIndexLin

-----------------------------------------------------------------------------
\* While nothing fails, for any number of threads, tables, values and
\* statements: db_api_execute_sql, which holds its lock in two separate sections
\* for a SELECT and changes file, index and next_id one after the other for an
\* INSERT, looks to its callers like statements that are executed one at a time.
THEOREM DbImplementsAtomicTables ==
    ASSUME Faults = {}
    PROVE  Spec => ImplementsAtomicTables
  <1>1. Init => Atomic!Init /\ Agrees
    <2>. SUFFICES ASSUME Init PROVE Atomic!Init /\ Agrees
      OBVIOUS
    <2>1. AtomicCall = [t \in Threads |-> "idle"] /\ AtomicAnswer = [t \in Threads |-> Error]
      BY DEF Init, AtomicCall, AtomicAnswer
    <2>2. Atomic!Init
      BY <2>1 DEF Init, Atomic!Init, Atomic!Error, Error
    <2>3. \A t \in Threads : Found(t)
      BY DEF Init, Found
    <2>4. \A tb \in Tables : IF cache[tb].loaded THEN tb \in Schemas ELSE file[tb] = <<>>
      BY DEF Init, NotLoaded
    <2>. QED
      BY <2>2, <2>3, <2>4 DEF Agrees
  <1>2. IInv /\ Numbers /\ Agrees /\ [Next]_vars => Agrees' /\ [Atomic!Next]_(Atomic!vars)
    BY LinStep DEF Lin, Visible, Atomic!Next
  <1>3. Spec => []Numbers
    BY NumbersHolds
  <1>. QED
    BY <1>1, <1>2, <1>3, DbInvariant, PTL DEF Spec, ImplementsAtomicTables, Atomic!Spec
=============================================================================
