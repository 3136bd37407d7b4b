---------------------------- MODULE TableColumns ----------------------------
(***************************************************************************)
(* One table and its columns: the schema file, read a line at a step       *)
(* (src/schema.c), and the statements of src/executor.c as far as they are *)
(* about columns: which values of an INSERT go where, in tables with and   *)
(* without an id, and what a SELECT picks, by scan or by index. A name is  *)
(* a sequence of symbols, a value a text.                                  *)
(***************************************************************************)
EXTENDS Integers, SequencesExt, FiniteSetsExt

CONSTANTS
    InsertLists,    \* column lists of an INSERT; the empty one is none
    SelectLists,    \* column lists of a SELECT; the empty one is *
    ValueLists,     \* value lists of an INSERT
    Conditions,     \* WHERE clauses, as <<column, value>>
    MaxTableRows,   \* bound on the rows inserted
    MaxLiteral      \* the largest id a literal can be read as, UINT64_MAX

ASSUME MaxTableRowsAssumption == MaxTableRows \in Nat

ASSUME MaxLiteralAssumption == MaxLiteral \in Nat

ASSUME InsertListsAssumption == InsertLists \subseteq Seq(Seq(STRING))

VARIABLES
    lines,      \* the lines of the schema file not yet read
    columns,    \* schema.columns
    table,      \* "schema", "ready", "bad", "refused" or "answered"
    rowsOf,     \* the rows of the table
    index,      \* id -> the place of its row
    named,      \* for each row, the values its INSERT gave, by column name
    query,      \* the SELECT
    result      \* its rows

tableVars == <<lines, columns, table, rowsOf, index, named, query, result>>

NoQuery == [list |-> <<>>, where |-> <<>>]

TableInit(files) ==
    /\ lines \in files
    /\ columns = <<>>
    /\ table = "schema"
    /\ rowsOf = <<>>
    /\ index = <<>>
    /\ named = <<>>
    /\ query = NoQuery
    /\ result = <<>>

\* The members of S among 1..n, in ascending order.
AscendingUpTo(S, n) ==
    LET upTo[k \in 0..n] ==
          IF k = 0 THEN <<>> ELSE IF k \in S THEN Append(upTo[k - 1], k) ELSE upTo[k - 1]
    IN  upTo

Ascending(S, n) == AscendingUpTo(S, n)[n]

-----------------------------------------------------------------------------
(* load_table_schema.                                                      *)

\* trim_in_place
Trimmed(line) ==
    LET ink == {i \in DOMAIN line : line[i] \notin {"SPACE", "CR"}} IN
    IF ink = {} THEN <<>> ELSE SubSeq(line, Min(ink), Max(ink))

\* A line is a column unless it is blank; a column that is there already is an error.
LoadColumn ==
    LET name == Trimmed(Head(lines)) IN
    /\ table = "schema" /\ lines # <<>>
    /\ lines' = Tail(lines)
    /\ CASE name = <<>> -> UNCHANGED <<columns, table>>
         [] name # <<>> /\ name \in Range(columns) -> columns' = <<>> /\ table' = "bad"
         [] OTHER -> columns' = Append(columns, name) /\ UNCHANGED table
    /\ UNCHANGED <<rowsOf, index, named, query, result>>

SchemaEnd ==
    /\ table = "schema" /\ lines = <<>>
    /\ table' = IF columns = <<>> THEN "bad" ELSE "ready"
    /\ UNCHANGED <<lines, columns, rowsOf, index, named, query, result>>

\* A line cannot be read, or there is no memory; the columns so far are freed.
SchemaFails ==
    /\ table = "schema"
    /\ columns' = <<>>
    /\ table' = "bad"
    /\ UNCHANGED <<lines, rowsOf, index, named, query, result>>

\* schema_find_column_index; 0 if there is none.
ColumnIndex(name) == Max({i \in DOMAIN columns : columns[i] = name} \cup {0})

Id == <<"id">>
HasId == ColumnIndex(Id) # 0

-----------------------------------------------------------------------------
(* execute_insert.                                                         *)

\* validate_insert_columns_for_auto_id
ValidForAutoId(list, values) ==
    IF list = <<>>
      THEN Len(values) = Len(columns) - 1
      ELSE /\ Len(list) = Len(values)
           /\ \A i \in DOMAIN list : ColumnIndex(list[i]) \notin {0, ColumnIndex(Id)}
           /\ IsInjective(list)

\* The tests in build_insert_row_existing_behavior.
ValidWithoutId(list, values) ==
    IF list = <<>>
      THEN Len(values) = Len(columns)
      ELSE /\ Len(list) = Len(values)
           /\ \A i \in DOMAIN list : ColumnIndex(list[i]) # 0
           /\ IsInjective(list)

\* The value a list of columns gives to column i; "" if it is not in the list.
Listed(list, values, i) ==
    LET k == Max({j \in DOMAIN list : list[j] = columns[i]} \cup {0}) IN
    IF k = 0 THEN "" ELSE values[k]

Numeral(n) == ToString(n)

\* snprintf writes different numbers as different texts.
ASSUME NumeralAssumption ==
    \A n \in 1..MaxLiteral : \A m \in 1..MaxTableRows : Numeral(n) = Numeral(m) => n = m

\* Faulty RowWithGeneratedId: the id is taken to be the first column.
RowWithIdInFront(list, values, id) ==
    [i \in DOMAIN columns |->
        CASE i = 1 -> Numeral(id)
          [] i # 1 /\ list = <<>> -> values[i - 1]
          [] OTHER -> Listed(list, values, i)]

\* build_insert_row_with_generated_id
RowWithGeneratedId(list, values, id) ==
    [i \in DOMAIN columns |->
        CASE i = ColumnIndex(Id) -> Numeral(id)
          [] i # ColumnIndex(Id) /\ list = <<>> -> values[IF i < ColumnIndex(Id) THEN i ELSE i - 1]
          [] OTHER -> Listed(list, values, i)]

\* build_insert_row_existing_behavior
RowWithoutId(list, values) ==
    [i \in DOMAIN columns |-> IF list = <<>> THEN values[i] ELSE Listed(list, values, i)]

\* What the statement says, by name: the values in the order of its list, or of
\* the columns a client has to give, and the id.
Said(list, values, id) ==
    LET free == Ascending({i \in DOMAIN columns : columns[i] # Id}, Len(columns))
        names == IF list # <<>> THEN list ELSE [k \in DOMAIN free |-> columns[free[k]]]
        given(c) == {values[k] : k \in {j \in DOMAIN names : names[j] = c}}
    IN  [c \in Range(columns) |->
            IF c = Id THEN Numeral(id)
            ELSE IF given(c) = {} THEN ""
            ELSE CHOOSE v \in given(c) : TRUE]

\* The id of a row in a fresh table is its number.
ExecuteInsert(list, values) ==
    LET id == Len(rowsOf) + 1 IN
    /\ table = "ready" /\ Len(rowsOf) < MaxTableRows
    /\ IF IF HasId THEN ValidForAutoId(list, values) ELSE ValidWithoutId(list, values)
         THEN /\ rowsOf' = Append(rowsOf, IF HasId THEN RowWithGeneratedId(list, values, id)
                                                    ELSE RowWithoutId(list, values))
              /\ index' = IF HasId THEN Append(index, id) ELSE index
              /\ named' = Append(named, Said(list, values, id))
              /\ UNCHANGED table
         ELSE /\ table' = "refused"
              /\ UNCHANGED <<rowsOf, index, named>>
    /\ UNCHANGED <<lines, columns, query, result>>

-----------------------------------------------------------------------------
(* execute_select.                                                         *)

HasCondition(q) == q.where # <<>>

\* validate_select_columns
ValidSelect(q) ==
    /\ \A i \in DOMAIN q.list : ColumnIndex(q.list[i]) # 0
    /\ HasCondition(q) => ColumnIndex(q.where[1]) # 0

\* row_matches_where_clause: the texts are equal.
RowMatches(q, row) == HasCondition(q) => row[ColumnIndex(q.where[1])] = q.where[2]

\* project_single_row
Projected(q, row) ==
    IF q.list = <<>> THEN row ELSE [i \in DOMAIN q.list |-> row[ColumnIndex(q.list[i])]]

\* parse_canonical_positive_uint64: no sign, no leading zero, not over 64 bits.
Canonical(text) == \E n \in 1..MaxLiteral : text = Numeral(n)
ValueOf(text) == CHOOSE n \in 1..MaxLiteral : text = Numeral(n)

CanUseIdIndex(q) ==
    HasId /\ HasCondition(q) /\ q.where[1] = Id /\ Canonical(q.where[2])

\* execute_select_with_id_index: one row at most, and it is tested as well.
ByIndex(q) ==
    LET id == ValueOf(q.where[2]) IN
    IF id \in DOMAIN index /\ RowMatches(q, rowsOf[index[id]])
      THEN <<Projected(q, rowsOf[index[id]])>>
      ELSE <<>>

\* execute_select_with_full_scan
ByScan(q) ==
    LET picked == Ascending({k \in DOMAIN rowsOf : RowMatches(q, rowsOf[k])}, Len(rowsOf)) IN
    [i \in DOMAIN picked |-> Projected(q, rowsOf[picked[i]])]

ExecuteSelect(q) ==
    /\ table = "ready" /\ Len(rowsOf) = MaxTableRows
    /\ IF ValidSelect(q)
         THEN /\ result' = IF CanUseIdIndex(q) THEN ByIndex(q) ELSE ByScan(q)
              /\ query' = q
              /\ table' = "answered"
         ELSE /\ table' = "refused"
              /\ UNCHANGED <<query, result>>
    /\ UNCHANGED <<lines, columns, rowsOf, index, named>>

Queries == [list : SelectLists, where : Conditions \cup {<<>>}]

TableNext ==
    \/ LoadColumn \/ SchemaEnd \/ SchemaFails
    \/ \E list \in InsertLists, values \in ValueLists : ExecuteInsert(list, values)
    \/ \E q \in Queries : ExecuteSelect(q)

-----------------------------------------------------------------------------
\* A SELECT answers by name what the INSERTs said by name: every column has the
\* value that was given to it, wherever the columns and the id stand in the
\* schema and in the statements, nothing if none was given, and WHERE id = n
\* finds the same through the index as without it.
SelectAnswersByName ==
    table = "answered" =>
        LET list == IF query.list = <<>> THEN columns ELSE query.list
            meant == Ascending({k \in DOMAIN named : HasCondition(query) =>
                                  named[k][query.where[1]] = query.where[2]}, Len(named))
        IN  result = [k \in DOMAIN meant |-> [i \in DOMAIN list |-> named[meant[k]][list[i]]]]
=============================================================================
