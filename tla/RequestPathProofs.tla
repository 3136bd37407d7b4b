------------------------- MODULE RequestPathProofs -------------------------
(***************************************************************************)
(* What holds on the way of a request for every text a client may send,    *)
(* every limit on header and body, and every way recv and send cut the     *)
(* bytes into pieces; and of an SQL text, of whatever tokens and of any    *)
(* length: the memory of its statements, the answer it gets from the API,  *)
(* and what of it the command line program executes. The SQL front is in   *)
(* the second half: the grammar as a walk of the parser, then the          *)
(* invariants of the tokens, the statement under way, the texts it keeps   *)
(* and what was executed.                                                  *)
(***************************************************************************)
EXTENDS RequestPath, SetInduction, SequenceTheorems, FiniteSetTheorems, TLAPS

-----------------------------------------------------------------------------
(* The inductive invariants.                                               *)

\* How far the answer is sent.
SendInv ==
    /\ sent \in Nat
    /\ io = "sendHead" => /\ sent < Len(ResponseHead) /\ ~delivered
                         /\ wire = SubSeq(Response, 1, sent)
    /\ io = "sendBody" => /\ sent < Len(ResponseBody) /\ ~delivered
                         /\ wire = SubSeq(Response, 1, Len(ResponseHead) + sent)
    /\ io = "closed" => ResponseIsWhole
    /\ io \notin {"sendHead", "sendBody", "closed"} => sent = 0 /\ wire = <<>> /\ ~delivered

\* What of the stream is in the buffer before the header is looked at.
InBuffer ==
    /\ arrived = Len(buffer) /\ buffer = SubSeq(stream, 1, arrived)
    /\ Len(buffer) <= Capacity - 1 /\ body = <<>> /\ length = 0 /\ ~gone

\* What of it is in the body: everything that arrived behind the header, as
\* long as some is missing.
InBody ==
    LET h == HeaderLength(stream)
        parsed == BodyLength(SubSeq(stream, 1, h))
    IN
    /\ buffer = SubSeq(stream, 1, Len(buffer)) /\ Len(buffer) <= Capacity - 1
    /\ HeaderEnds(stream) # {} /\ h <= Len(buffer) /\ h <= MaxHeader
    /\ Len(buffer) <= arrived /\ ~gone
    /\ parsed.status = "ok" /\ parsed.length = length
    /\ Len(body) <= length /\ body = SubSeq(stream, h + 1, h + Len(body))
    /\ h + Len(body) <= arrived /\ (Len(body) < length => arrived = h + Len(body))

ReadTypes ==
    /\ stream \in Seq(STRING) /\ buffer \in Seq(STRING) /\ body \in Seq(STRING)
    /\ arrived \in 0..Len(stream) /\ length \in Nat

ReadInv ==
    /\ ReadTypes
    /\ io \in {"header", "parse", "body", "read", "handle", "sendHead", "sendBody", "closed"}
    /\ io = "header" => InBuffer /\ HeaderEnds(buffer) = {}
    /\ io = "parse" => InBuffer /\ HeaderEnds(buffer) # {}
    /\ io = "body" => InBody
    /\ io = "read" => BytesAccountedFor /\ PiecesMakeNoDifference
    /\ io \in {"handle", "sendHead", "sendBody", "closed"} =>
          stream = <<>> /\ buffer = <<>> /\ body = <<>> /\ length = 0

\* Where the parser is, by what the statement has not got yet.
NothingYet == {"idle", "front", "statement", "into", "intoTable", "done"}
TableMissing == NothingYet \cup {"items", "item", "moreItems", "from", "fromTable"}
ColumnMissing == TableMissing \cup {"where", "whereColumn"}
ValueMissing == ColumnMissing \cup {"equal", "whereValue"}

StatementType ==
    [type : {"insert", "select"}, table : Nat, columns : Seq(Nat), values : Seq(Nat),
     whereColumn : Nat, whereValue : Nat]

HeapInv ==
    /\ cur \in Nat \ {0}
    /\ stmt \in StatementType
    /\ heap = Owned(stmt)
    /\ at \in NothingYet => Owned(stmt) = {}
    /\ at \in TableMissing => stmt.table = 0
    /\ at \in ColumnMissing => stmt.whereColumn = 0
    /\ at \in ValueMissing => stmt.whereValue = 0

-----------------------------------------------------------------------------
(* The memory of a statement.                                              *)

LEMMA EmptyStatement ==
    ASSUME NEW type \in {"insert", "select"}
    PROVE  LET s == [NoStatement EXCEPT !.type = type] IN
           /\ s \in StatementType /\ Owned(s) = {}
           /\ s.table = 0 /\ s.whereColumn = 0 /\ s.whereValue = 0
  <1>. DEFINE s == [NoStatement EXCEPT !.type = type]
  <1>0. NoStatement \in StatementType
    BY DEF NoStatement, StatementType
  <1>1. s \in StatementType
    BY <1>0 DEF StatementType
  <1>2. /\ s.table = 0 /\ s.whereColumn = 0 /\ s.whereValue = 0
        /\ s.columns = <<>> /\ s.values = <<>>
    BY DEF NoStatement
  <1>3. Range(<<>>) = {}
    BY DEF Range
  <1>4. Owned(s) = {}
    <2>. HIDE DEF s
    <2>. QED
      BY <1>2, <1>3 DEF Owned
  <1>. QED
    BY <1>1, <1>2, <1>4

LEMMA RangeAppend ==
    ASSUME NEW s \in Seq(Nat), NEW c
    PROVE  Range(Append(s, c)) = Range(s) \cup {c}
  <1>1. /\ DOMAIN s = 1..Len(s) /\ DOMAIN Append(s, c) = 1..(Len(s) + 1) /\ Len(s) \in Nat
        /\ \A i \in 1..Len(s) : Append(s, c)[i] = s[i]
        /\ Append(s, c)[Len(s) + 1] = c
    OBVIOUS
  <1>2. \A p : p \in Range(Append(s, c)) <=> p \in Range(s) \/ p = c
    BY <1>1 DEF Range
  <1>. QED
    BY <1>2

\* parse_identifier and parse_literal set a pointer that was NULL ...
LEMMA SetsPointer ==
    ASSUME NEW s \in StatementType, NEW c \in Nat \ {0}, NEW n,
           \/ s.table = 0 /\ n = [s EXCEPT !.table = c]
           \/ s.whereColumn = 0 /\ n = [s EXCEPT !.whereColumn = c]
           \/ s.whereValue = 0 /\ n = [s EXCEPT !.whereValue = c]
    PROVE  n \in StatementType /\ Owned(n) = Owned(s) \cup {c}
  <1>1. n \in StatementType /\ n.columns = s.columns /\ n.values = s.values
    BY DEF StatementType
  <1>2. {n.table, n.whereColumn, n.whereValue} \cup {0} = {s.table, s.whereColumn, s.whereValue} \cup {0, c}
    BY DEF StatementType
  <1>. QED
    BY <1>1, <1>2 DEF Owned

\* ... or append to a list.
LEMMA ExtendsList ==
    ASSUME NEW s \in StatementType, NEW c \in Nat \ {0}, NEW n,
           \/ n = [s EXCEPT !.columns = Append(@, c)]
           \/ n = [s EXCEPT !.values = Append(@, c)]
    PROVE  n \in StatementType /\ Owned(n) = Owned(s) \cup {c}
  <1>1. /\ s.columns \in Seq(Nat) /\ s.values \in Seq(Nat)
        /\ Append(s.columns, c) \in Seq(Nat) /\ Append(s.values, c) \in Seq(Nat)
    BY DEF StatementType
  <1>2. /\ Range(Append(s.columns, c)) = Range(s.columns) \cup {c}
        /\ Range(Append(s.values, c)) = Range(s.values) \cup {c}
    BY <1>1, RangeAppend
  <1>3. CASE n = [s EXCEPT !.columns = Append(@, c)]
    <2>1. /\ n \in StatementType /\ n.columns = Append(s.columns, c) /\ n.values = s.values
          /\ n.table = s.table /\ n.whereColumn = s.whereColumn /\ n.whereValue = s.whereValue
      BY <1>1, <1>3 DEF StatementType
    <2>. QED
      BY <1>2, <2>1 DEF Owned
  <1>4. CASE n = [s EXCEPT !.values = Append(@, c)]
    <2>1. /\ n \in StatementType /\ n.columns = s.columns /\ n.values = Append(s.values, c)
          /\ n.table = s.table /\ n.whereColumn = s.whereColumn /\ n.whereValue = s.whereValue
      BY <1>1, <1>4 DEF StatementType
    <2>. QED
      BY <1>2, <2>1 DEF Owned
  <1>. QED
    BY <1>3, <1>4

\* What free_statement leaves behind owns nothing.
LEMMA Freed ==
    ASSUME HeapInv, FreeStatement, cur' \in Nat \ {0}
    PROVE  HeapInv'
  <1>1. stmt.type \in {"insert", "select"}
    BY DEF HeapInv, StatementType
  <1>. QED
    BY <1>1, EmptyStatement DEF HeapInv, FreeStatement

\* A step that neither allocates nor frees, and goes to a place where no more is
\* missing than before.
LEMMA HeapUntouched ==
    ASSUME HeapInv, UNCHANGED <<stmt, heap>>, cur' \in Nat \ {0},
           \/ at' \notin ValueMissing
           \/ Owned(stmt) = {} /\ at' \in NothingYet
           \/ at \in TableMissing /\ at' \in ValueMissing \ NothingYet
           \/ at \in ColumnMissing /\ at' \in ValueMissing \ TableMissing
           \/ at \in ValueMissing /\ at' \in ValueMissing \ ColumnMissing
    PROVE  HeapInv'
  <1>1. Owned(stmt) = {} => stmt.table = 0 /\ stmt.whereColumn = 0 /\ stmt.whereValue = 0
    BY DEF Owned
  <1>. QED
    BY <1>1 DEF HeapInv, ValueMissing, ColumnMissing, TableMissing

\* Where the parser goes on behind an expected token.
LEMMA MatchLeads ==
    ASSUME Match
    PROVE  /\ UNCHANGED <<stmt, heap>> /\ cur' = cur + 1
           /\ \/ at = "into" /\ at' = "intoTable"
              \/ /\ at \in {"afterTable", "moreColumns", "values", "open", "moreValues"}
                 /\ at' \in {"column", "open", "values", "value", "end"}
              \/ at \in {"items", "moreItems", "from"} /\ at' \in {"from", "item", "fromTable"}
              \/ at = "where" /\ at' = "whereColumn"
              \/ at = "equal" /\ at' = "whereValue"
  <1>1. at \in DOMAIN Expected /\ toks[cur] \in DOMAIN Expected[at] /\ at' = Expected[at][toks[cur]]
    BY DEF Match, Sees, Skip
  <1>2. UNCHANGED <<stmt, heap>> /\ cur' = cur + 1
    BY DEF Match, Skip
  <1>3. at \in {"into", "afterTable", "moreColumns", "values", "open", "moreValues",
              "items", "moreItems", "from", "where", "equal"}
    BY <1>1 DEF Expected
  <1>4. CASE at = "into"
    BY <1>1, <1>2, <1>4 DEF Expected
  <1>5. CASE at = "afterTable"
    BY <1>1, <1>2, <1>5 DEF Expected
  <1>6. CASE at = "moreColumns"
    BY <1>1, <1>2, <1>6 DEF Expected
  <1>7. CASE at = "values"
    BY <1>1, <1>2, <1>7 DEF Expected
  <1>8. CASE at = "open"
    BY <1>1, <1>2, <1>8 DEF Expected
  <1>9. CASE at = "moreValues"
    BY <1>1, <1>2, <1>9 DEF Expected
  <1>10. CASE at = "items"
    BY <1>1, <1>2, <1>10 DEF Expected
  <1>11. CASE at = "moreItems"
    BY <1>1, <1>2, <1>11 DEF Expected
  <1>12. CASE at = "from"
    BY <1>1, <1>2, <1>12 DEF Expected
  <1>13. CASE at = "where"
    BY <1>1, <1>2, <1>13 DEF Expected
  <1>14. CASE at = "equal"
    BY <1>1, <1>2, <1>14 DEF Expected
  <1>. QED
    BY <1>3, <1>4, <1>5, <1>6, <1>7, <1>8, <1>9, <1>10, <1>11, <1>12, <1>13, <1>14

\* A text that is kept is allocated and owned.
LEMMA Kept ==
    ASSUME HeapInv, NEW n, NEW place, Keep(n, place),
           n \in StatementType, Owned(n) = Owned(stmt) \cup {cur},
           \/ place \notin ValueMissing
           \/ /\ place \in ColumnMissing \ NothingYet
              /\ n.whereColumn = 0 /\ n.whereValue = 0 /\ (place \in TableMissing => n.table = 0)
           \/ place \in ValueMissing \ ColumnMissing /\ n.whereValue = 0
    PROVE  HeapInv'
  BY DEF HeapInv, Keep, ValueMissing, ColumnMissing, TableMissing

LEMMA TextKept ==
    ASSUME HeapInv, ParseIdentifier \/ ParseLiteral
    PROVE  HeapInv'
  <1>. DEFINE table == [stmt EXCEPT !.table = cur]
              columns == [stmt EXCEPT !.columns = Append(@, cur)]
              values == [stmt EXCEPT !.values = Append(@, cur)]
              column == [stmt EXCEPT !.whereColumn = cur]
              value == [stmt EXCEPT !.whereValue = cur]
  <1>1. \/ at = "intoTable" /\ Keep(table, "afterTable")
        \/ at = "fromTable" /\ Keep(table, "where")
        \/ at = "column" /\ Keep(columns, "moreColumns")
        \/ at \in {"items", "item"} /\ Keep(columns, "moreItems")
        \/ at = "whereColumn" /\ Keep(column, "equal")
        \/ at = "value" /\ Keep(values, "moreValues")
        \/ at = "whereValue" /\ Keep(value, "end")
    BY Zenon DEF ParseIdentifier, ParseLiteral
  <1>2. stmt \in StatementType /\ cur \in Nat \ {0}
    BY DEF HeapInv
  <1>3. /\ stmt.table = 0 => table \in StatementType /\ Owned(table) = Owned(stmt) \cup {cur}
        /\ stmt.whereColumn = 0 => column \in StatementType /\ Owned(column) = Owned(stmt) \cup {cur}
        /\ stmt.whereValue = 0 => value \in StatementType /\ Owned(value) = Owned(stmt) \cup {cur}
    <2>1. ASSUME stmt.table = 0 PROVE table \in StatementType /\ Owned(table) = Owned(stmt) \cup {cur}
      BY <1>2, <2>1, SetsPointer
    <2>2. ASSUME stmt.whereColumn = 0
          PROVE  column \in StatementType /\ Owned(column) = Owned(stmt) \cup {cur}
      BY <1>2, <2>2, SetsPointer
    <2>3. ASSUME stmt.whereValue = 0 PROVE value \in StatementType /\ Owned(value) = Owned(stmt) \cup {cur}
      BY <1>2, <2>3, SetsPointer
    <2>. QED
      BY <2>1, <2>2, <2>3, Zenon
  <1>4. /\ columns \in StatementType /\ Owned(columns) = Owned(stmt) \cup {cur}
        /\ values \in StatementType /\ Owned(values) = Owned(stmt) \cup {cur}
    BY <1>2, ExtendsList
  <1>5. /\ table.whereColumn = stmt.whereColumn /\ table.whereValue = stmt.whereValue
        /\ columns.table = stmt.table
        /\ columns.whereColumn = stmt.whereColumn /\ columns.whereValue = stmt.whereValue
        /\ column.whereValue = stmt.whereValue
    BY <1>2 DEF StatementType
  <1>. HIDE DEF table, columns, values, column, value
  <1>. USE DEF NothingYet, TableMissing, ColumnMissing, ValueMissing
  <1>6. CASE at = "intoTable" /\ Keep(table, "afterTable")
    BY <1>3, <1>6, Kept DEF HeapInv
  <1>7. CASE at = "fromTable" /\ Keep(table, "where")
    BY <1>3, <1>5, <1>7, Kept DEF HeapInv
  <1>8. CASE at = "column" /\ Keep(columns, "moreColumns")
    BY <1>4, <1>8, Kept
  <1>9. CASE at \in {"items", "item"} /\ Keep(columns, "moreItems")
    BY <1>4, <1>5, <1>9, Kept DEF HeapInv
  <1>10. CASE at = "whereColumn" /\ Keep(column, "equal")
    BY <1>3, <1>5, <1>10, Kept DEF HeapInv
  <1>11. CASE at = "value" /\ Keep(values, "moreValues")
    BY <1>4, <1>11, Kept
  <1>12. CASE at = "whereValue" /\ Keep(value, "end")
    BY <1>3, <1>12, Kept DEF HeapInv
  <1>. QED
    BY <1>1, <1>6, <1>7, <1>8, <1>9, <1>10, <1>11, <1>12

LEMMA ParserKeeps ==
    ASSUME HeapInv, Parser
    PROVE  HeapInv'
  <1>. USE DEF NothingYet, TableMissing, ColumnMissing, ValueMissing
  <1>0. cur \in Nat \ {0} /\ cur + 1 \in Nat \ {0}
    BY DEF HeapInv
  <1>1. CASE BeginStatement
    <2>1. Owned(stmt) = {} /\ heap = {} /\ at = "statement"
      BY <1>1 DEF HeapInv, BeginStatement
    <2>2. CASE Sees({"SEMICOLON"}) /\ Skip("statement")
      BY <1>0, <2>1, <2>2, HeapUntouched DEF Skip
    <2>3. CASE \E type \in {"insert", "select"} : /\ stmt' = [NoStatement EXCEPT !.type = type]
                                                  /\ UNCHANGED heap /\ cur' \in {cur, cur + 1}
      <3>1. PICK type \in {"insert", "select"} : stmt' = [NoStatement EXCEPT !.type = type]
        BY <2>3
      <3>2. /\ stmt' \in StatementType /\ Owned(stmt)' = {}
            /\ stmt'.table = 0 /\ stmt'.whereColumn = 0 /\ stmt'.whereValue = 0
        BY <3>1, EmptyStatement
      <3>. QED
        BY <1>0, <2>1, <2>3, <3>2 DEF HeapInv
    <2>4. stmt' = NoStatement => stmt' = [NoStatement EXCEPT !.type = "insert"]
      BY DEF NoStatement
    <2>. QED
      BY <1>1, <2>2, <2>3, <2>4 DEF BeginStatement
  <1>2. CASE Match
    BY <1>0, <1>2, MatchLeads, HeapUntouched DEF HeapInv
  <1>3. CASE ParseIdentifier \/ ParseLiteral
    BY <1>3, TextKept
  <1>4. CASE Unexpected
    <2>1. cur' = cur /\ at' = "failed"
      BY <1>4 DEF Unexpected
    <2>2. CASE FreeStatement
      BY <1>0, <2>1, <2>2, Freed
    <2>3. CASE UNCHANGED <<stmt, heap>>
      BY <1>0, <2>1, <2>3, HeapUntouched
    <2>. QED
      BY <1>4, <2>2, <2>3 DEF Unexpected, FreeAt
  <1>5. CASE ListAllocationFails
    BY <1>0, <1>5, Freed DEF ListAllocationFails
  <1>6. CASE EndStatement
    BY <1>0, <1>6, HeapUntouched DEF EndStatement, Skip, Goto
  <1>. QED
    BY <1>1, <1>2, <1>3, <1>4, <1>5, <1>6 DEF Parser

LEMMA HeapStep ==
    ASSUME HeapInv, [Next]_vars
    PROVE  HeapInv'
  <1>. USE DEF NothingYet, TableMissing, ColumnMissing, ValueMissing
  <1>0. cur \in Nat \ {0} /\ cur + 1 \in Nat \ {0}
    BY DEF HeapInv
  <1>1. CASE UNCHANGED sqlVars
    BY <1>1 DEF sqlVars, HeapInv
  <1>2. CASE BeginSql
    BY <1>2 DEF BeginSql, HeapInv
  <1>3. CASE Reveal
    BY <1>3 DEF Reveal, HeapInv
  <1>4. CASE LexerFails \/ ContextFails
    BY <1>0, <1>4, HeapUntouched DEF LexerFails, ContextFails
  <1>5. CASE ApiFront \/ CliFront
    <2>1. at = "front" /\ UNCHANGED <<stmt, heap>> /\ cur' \in {cur, cur + 1}
          /\ at' \in {"front", "cleanup", "statement"}
      BY <1>5 DEF ApiFront, CliFront, Skip, Answer, Goto
    <2>2. Owned(stmt) = {}
      BY <2>1 DEF HeapInv
    <2>. QED
      BY <1>0, <2>1, <2>2, HeapUntouched
  <1>6. CASE ApiParseError \/ CliParseError \/ ApiGate \/ CliParsed
    BY <1>0, <1>6, HeapUntouched DEF ApiParseError, CliParseError, ApiGate, CliParsed, Skip, Answer, Goto
  <1>7. CASE ApiExecute \/ CliExecuteFails
    BY <1>0, <1>7, HeapUntouched DEF ApiExecute, CliExecuteFails
  <1>8. CASE CliExecute \/ Cleanup
    BY <1>0, <1>8, Freed DEF CliExecute, Cleanup
  <1>9. CASE Parser
    BY <1>9, ParserKeeps
  <1>. QED
    BY Zenon, <1>1, <1>2, <1>3, <1>4, <1>5, <1>6, <1>7, <1>8, <1>9
       DEF Next, SqlNext, Respond, Finished, vars, sqlVars

\* For texts of any length: whatever the parser meets and wherever an allocation
\* of a list fails, what is allocated is exactly what the statement points to,
\* and when the caller is done, nothing is.
THEOREM StatementMemoryIsOwned == Spec => []HeapIsOwned
  <1>1. Init => HeapInv
    <2>1. NoStatement = [NoStatement EXCEPT !.type = "insert"]
      BY DEF NoStatement
    <2>. QED
      BY <2>1, EmptyStatement DEF Init, SqlInit, HeapInv
  <1>2. HeapInv /\ [Next]_vars => HeapInv'
    BY HeapStep
  <1>3. HeapInv => HeapIsOwned
    BY DEF HeapInv, HeapIsOwned, NothingYet
  <1>. QED
    BY <1>1, <1>2, <1>3, PTL DEF Spec

-----------------------------------------------------------------------------
(* The answer.                                                             *)

LEMMA ResponseType ==
    /\ ResponseHead \in Seq(STRING) /\ ResponseBody \in Seq(STRING) /\ Response \in Seq(STRING)
    /\ Len(ResponseHead) \in Nat \ {0} /\ Len(ResponseBody) \in Nat
    /\ Len(Response) = Len(ResponseHead) + Len(ResponseBody)
  BY ResponseAssumption DEF Response

\* The first part of the answer is a prefix of it.
LEMMA PartIsPrefix ==
    ASSUME NEW k \in 0..Len(Response)
    PROVE  IsPrefix(SubSeq(Response, 1, k), Response)
  <1>1. Response \in Seq(STRING) /\ Len(Response) \in Nat
    BY ResponseType
  <1>. DEFINE p == SubSeq(Response, 1, k)
  <1>2. p \in Seq(STRING) /\ Len(p) = k
    BY <1>1
  <1>3. SubSeq(p, 1, Len(p)) = p
    BY <1>2, SubSeqFull
  <1>. QED
    BY <1>1, <1>2, <1>3 DEF IsPrefix

\* Two parts of a text that follow one another.
LEMMA Adjacent ==
    ASSUME NEW s \in Seq(STRING), NEW i \in Nat, NEW k \in i..Len(s), NEW m \in k..Len(s)
    PROVE  SubSeq(s, i + 1, k) \o SubSeq(s, k + 1, m) = SubSeq(s, i + 1, m)
  <1>1. i + 1 \in 1..Len(s) + 1 /\ k \in (i + 1) - 1..Len(s)
    OBVIOUS
  <1>. QED
    BY <1>1, ConcatAdjacentSubSeq

\* A part of the body is a part of the answer.
LEMMA PartOfBody ==
    ASSUME NEW i \in 1..Len(ResponseBody), NEW j \in 1..Len(ResponseBody)
    PROVE  LET head == Len(ResponseHead) IN
           SubSeq(Response, head + i, head + j) = SubSeq(ResponseBody, i, j)
  <1>. DEFINE head == Len(ResponseHead)  m == head + i  n == head + j
  <1>1. /\ m \in head + 1..head + Len(ResponseBody) /\ n \in head + 1..head + Len(ResponseBody)
        /\ m - head = i /\ n - head = j
    BY ResponseType
  <1>. HIDE DEF m, n
  <1>2. SubSeq(ResponseHead \o ResponseBody, m, n) = SubSeq(ResponseBody, m - head, n - head)
    BY <1>1, ResponseType, SubSeqOfConcat2
  <1>. QED
    BY <1>1, <1>2 DEF Response, m, n

\* What is sent continues what was sent.
LEMMA SendKeeps ==
    ASSUME SendInv, Send
    PROVE  SendInv'
  <1>. DEFINE head == Len(ResponseHead)
              k == IF io = "sendHead" THEN sent ELSE head + sent
  <1>1. io \in {"sendHead", "sendBody"}
    BY DEF Send
  <1>2. PICK n \in 1..Len(Sending) - sent :
                wire' = wire \o SubSeq(Sending, sent + 1, sent + n) /\ Accepted(n)
    BY DEF Send
  <1>3. /\ sent \in Nat /\ head \in Nat \ {0} /\ Len(ResponseBody) \in Nat /\ Response \in Seq(STRING)
        /\ Len(Response) = head + Len(ResponseBody)
        /\ wire = SubSeq(Response, 1, k) /\ ~delivered /\ sent < Len(Sending)
    BY <1>1, ResponseType DEF SendInv, Sending
  <1>4. n \in Nat \ {0} /\ sent + n <= Len(Sending) /\ Len(Sending) \in Nat
    BY <1>2, <1>3, ResponseType DEF Sending
  <1>5. SubSeq(Sending, sent + 1, sent + n) = SubSeq(Response, k + 1, k + n)
    <2>1. CASE io = "sendHead"
      BY <1>3, <1>4, <2>1, ResponseType, SubSeqOfConcat1 DEF Sending, Response
    <2>2. CASE io = "sendBody"
      <3>1. /\ Sending = ResponseBody /\ k = head + sent
            /\ sent + 1 \in 1..Len(ResponseBody) /\ sent + n \in 1..Len(ResponseBody)
        BY <1>3, <1>4, <2>2 DEF Sending
      <3>2. SubSeq(Response, head + (sent + 1), head + (sent + n)) = SubSeq(ResponseBody, sent + 1, sent + n)
        BY <3>1, PartOfBody
      <3>3. head + (sent + 1) = k + 1 /\ head + (sent + n) = k + n
        BY <1>3, <1>4, <3>1
      <3>. QED
        BY <3>1, <3>2, <3>3
    <2>. QED
      BY <1>1, <2>1, <2>2
  <1>6. k \in 0..Len(Response) /\ k + n \in k..Len(Response)
    BY <1>1, <1>3, <1>4, ResponseType DEF Sending
  <1>7. wire' = SubSeq(Response, 1, k + n)
    <2>. DEFINE m == k + n
    <2>1. m \in k..Len(Response) /\ k \in 0..Len(Response)
      BY <1>6
    <2>. HIDE DEF m, k
    <2>2. SubSeq(Response, 0 + 1, k) \o SubSeq(Response, k + 1, m) = SubSeq(Response, 0 + 1, m)
      BY <1>3, <2>1, Adjacent
    <2>3. wire' = SubSeq(Response, 1, k) \o SubSeq(Response, k + 1, m)
      BY <1>2, <1>3, <1>5 DEF m
    <2>4. 0 + 1 = 1
      OBVIOUS
    <2>. QED
      BY <2>2, <2>3, <2>4 DEF m
  <1>8. CASE sent + n < Len(Sending)
    <2>1. sent' = sent + n /\ UNCHANGED <<io, delivered>>
      BY <1>2, <1>8 DEF Accepted
    <2>. QED
      BY <1>1, <1>3, <1>4, <1>7, <1>8, <2>1 DEF SendInv, Sending
  <1>9. CASE ~(sent + n < Len(Sending))
    <2>1. /\ sent' = 0 /\ delivered' = (io' = "closed")
          /\ io' = IF io = "sendHead" /\ ResponseBody # <<>> THEN "sendBody" ELSE "closed"
      BY <1>2, <1>9 DEF Accepted
    <2>2. sent + n = Len(Sending)
      BY <1>3, <1>4, <1>9
    <2>3. CASE io = "sendHead" /\ ResponseBody # <<>>
      <3>1. io' = "sendBody" /\ ~delivered'
        BY <2>1, <2>3
      <3>3. k + n = head + 0
        BY <1>3, <2>2, <2>3 DEF Sending
      <3>2. 0 < Len(ResponseBody)
        BY <2>3, ResponseType
      <3>. QED
        BY <1>7, <2>1, <3>1, <3>2, <3>3 DEF SendInv
    <2>4. CASE ~(io = "sendHead" /\ ResponseBody # <<>>)
      <3>0. ResponseBody = <<>> => Len(ResponseBody) = 0
        OBVIOUS
      <3>1. k + n = Len(Response)
        <4>1. CASE io = "sendHead"
          BY <1>3, <2>2, <2>4, <3>0, <4>1 DEF Sending
        <4>2. CASE io = "sendBody"
          BY <1>3, <1>4, <2>2, <4>2 DEF Sending
        <4>. QED
          BY <1>1, <4>1, <4>2
      <3>2. wire' = Response /\ io' = "closed"
        BY <1>3, <1>7, <2>1, <2>4, <3>1, SubSeqFull
      <3>3. IsPrefix(wire', Response)
        BY <1>6, <1>7, PartIsPrefix
      <3>. QED
        BY <2>1, <3>2, <3>3 DEF SendInv, ResponseIsWhole
    <2>. QED
      BY <2>3, <2>4
  <1>. QED
    BY <1>8, <1>9

\* What is on the wire is a prefix of the answer at every moment.
LEMMA SendInvWhole == SendInv => ResponseIsWhole
  <1>. SUFFICES ASSUME SendInv PROVE ResponseIsWhole
    OBVIOUS
  <1>1. CASE io = "sendHead"
    <2>1. sent \in 0..Len(Response)
      BY <1>1, ResponseType DEF SendInv
    <2>. QED
      BY <1>1, <2>1, PartIsPrefix DEF SendInv, ResponseIsWhole
  <1>2. CASE io = "sendBody"
    <2>1. Len(ResponseHead) + sent \in 0..Len(Response)
      BY <1>2, ResponseType DEF SendInv
    <2>. QED
      BY <1>2, <2>1, PartIsPrefix DEF SendInv, ResponseIsWhole
  <1>3. CASE io \notin {"sendHead", "sendBody", "closed"}
    <2>1. SubSeq(Response, 1, 0) = <<>> /\ 0 \in 0..Len(Response)
      BY ResponseType
    <2>2. IsPrefix(<<>>, Response)
      BY <2>1, PartIsPrefix
    <2>. QED
      BY <1>3, <2>2 DEF SendInv, ResponseIsWhole
  <1>. QED
    BY <1>1, <1>2, <1>3 DEF SendInv

LEMMA SendInvStep ==
    ASSUME SendInv, [Next]_vars
    PROVE  SendInv'
  <1>1. CASE UNCHANGED httpVars
    BY <1>1 DEF httpVars, sendVars, SendInv, ResponseIsWhole
  <1>2. CASE ReadStep
    <2>1. /\ UNCHANGED sendVars
          /\ io \in {"header", "parse", "body", "read"}
          /\ io' \in {"header", "parse", "body", "read", "handle"}
      BY <1>2 DEF ReadStep, HeaderTooLong, RecvHeader, RecvFails, ParseHeader, BodyAllocationFails,
                  RecvBody, BodyComplete, LeaveRead, ReadReturns
    <2>. QED
      BY <2>1 DEF sendVars, SendInv
  <1>3. CASE BeginResponse
    <2>1. io = "handle" /\ io' = "sendHead" /\ UNCHANGED sendVars
      BY <1>3 DEF BeginResponse
    <2>2. SubSeq(Response, 1, 0) = <<>>
      BY ResponseType
    <2>. QED
      BY <2>1, <2>2, ResponseType DEF sendVars, SendInv
  <1>4. CASE Send
    BY <1>4, SendKeeps
  <1>5. CASE SendFails
    <2>1. io' = "closed" /\ UNCHANGED sendVars
      BY <1>5 DEF SendFails
    <2>. QED
      BY <2>1, SendInvWhole DEF SendInv, sendVars, ResponseIsWhole
  <1>. QED
    BY Zenon, <1>1, <1>2, <1>3, <1>4, <1>5 DEF Next, SendStep, BeginSql, Respond, Finished, vars, httpVars

\* For every answer and every way send cuts it into pieces: what the client has
\* been sent is a prefix of the answer, and all of it when write_all has
\* succeeded for head and body.
THEOREM AnswerIsWhole == Spec => []ResponseIsWhole
  <1>1. Init => SendInv
    BY DEF Init, HttpInit, SendInv
  <1>2. SendInv /\ [Next]_vars => SendInv'
    BY SendInvStep
  <1>. QED
    BY <1>1, <1>2, SendInvWhole, PTL DEF Spec

-----------------------------------------------------------------------------
(* Texts and their first parts.                                            *)

\* The least of some natural numbers.
LEMMA LeastOf ==
    ASSUME NEW S, S \subseteq Nat, S # {}
    PROVE  Min(S) \in S /\ \A y \in S : Min(S) <= y
  <1>1. \E x \in S : \A y \in S : x =< y
    BY NatMin
  <1>. QED
    BY <1>1 DEF Min

LEMMA LesserOf ==
    ASSUME NEW m \in Nat, NEW n \in Nat
    PROVE  Min({m, n}) = IF m <= n THEN m ELSE n
  <1>1. {m, n} \subseteq Nat /\ {m, n} # {}
    OBVIOUS
  <1>2. Min({m, n}) \in {m, n} /\ \A y \in {m, n} : Min({m, n}) <= y
    BY <1>1, LeastOf
  <1>. QED
    BY <1>2

LEMMA FirstPart ==
    ASSUME NEW t \in Seq(STRING), NEW n \in 0..Len(t)
    PROVE  LET p == SubSeq(t, 1, n) IN
           /\ p \in Seq(STRING) /\ Len(p) = n /\ n \in Nat /\ Len(t) \in Nat
           /\ \A i \in 1..n : p[i] = t[i]
  OBVIOUS

LEMMA PartLength ==
    ASSUME NEW t \in Seq(STRING), NEW i \in Nat, NEW k \in Nat, i + k <= Len(t)
    PROVE  SubSeq(t, i + 1, i + k) \in Seq(STRING) /\ Len(SubSeq(t, i + 1, i + k)) = k
  <1>1. \A j \in i + 1..i + k : t[j] \in STRING
    <2>1. \A j \in 1..Len(t) : t[j] \in STRING
      BY ElementOfSeq
    <2>. QED
      BY <2>1
  <1>2. /\ SubSeq(t, i + 1, i + k) \in Seq(STRING)
        /\ Len(SubSeq(t, i + 1, i + k)) = IF i + 1 <= i + k THEN (i + k) - (i + 1) + 1 ELSE 0
    BY <1>1, SubSeqProperties
  <1>. QED
    BY <1>2

\* A part of the first part.
LEMMA PartOfPart ==
    ASSUME NEW t \in Seq(STRING), NEW n \in 0..Len(t), NEW i \in Nat, NEW j \in i..n
    PROVE  SubSeq(SubSeq(t, 1, n), i + 1, j) = SubSeq(t, i + 1, j)
  <1>. DEFINE p == SubSeq(t, 1, n)
  <1>1. /\ p \in Seq(STRING) /\ Len(p) = n /\ n \in Nat /\ Len(t) \in Nat
        /\ \A k \in 1..n : p[k] = t[k]
    BY FirstPart
  <1>. HIDE DEF p
  <1>2. CASE i = j
    <2>1. SubSeq(p, i + 1, j) = <<>> /\ SubSeq(t, i + 1, j) = <<>>
      BY <1>1, <1>2, SubSeqEmpty
    <2>. QED
      BY <2>1 DEF p
  <1>3. CASE i # j
    <2>1. /\ SubSeq(p, i + 1, j) \in Seq(STRING) /\ SubSeq(t, i + 1, j) \in Seq(STRING)
          /\ Len(SubSeq(p, i + 1, j)) = j - i /\ Len(SubSeq(t, i + 1, j)) = j - i
          /\ \A k \in 1..j - i : SubSeq(p, i + 1, j)[k] = p[i + k] /\ SubSeq(t, i + 1, j)[k] = t[i + k]
      BY <1>1, <1>3
    <2>2. \A k \in 1..j - i : p[i + k] = t[i + k]
      BY <1>1
    <2>. QED
      BY <2>1, <2>2, SeqEqual DEF p
  <1>. QED
    BY <1>2, <1>3

\* Line ends and ends of a header in the first part of a text are those of the
\* text that are complete in it.
LEMMA LineEndsOfPart ==
    ASSUME NEW t \in Seq(STRING), NEW n \in 0..Len(t)
    PROVE  CrLfs(SubSeq(t, 1, n)) = {i \in CrLfs(t) : i + 1 <= n}
  <1>. DEFINE p == SubSeq(t, 1, n)
  <1>1. Len(p) = n /\ n \in Nat /\ Len(t) \in Nat /\ n <= Len(t) /\ \A i \in 1..n : p[i] = t[i]
    BY FirstPart
  <1>. HIDE DEF p
  <1>2. \A i \in 1..n - 1 : p[i] = t[i] /\ p[i + 1] = t[i + 1]
    BY <1>1
  <1>3. 1..n - 1 = {i \in 1..Len(t) - 1 : i + 1 <= n}
    BY <1>1
  <1>4. CrLfs(p) = {i \in 1..n - 1 : p[i] = "CR" /\ p[i + 1] = "LF"}
    BY <1>1 DEF CrLfs
  <1>5. \A i : i \in CrLfs(p) <=> i \in CrLfs(t) /\ i + 1 <= n
    BY <1>2, <1>3, <1>4 DEF CrLfs
  <1>. QED
    BY <1>5 DEF p

LEMMA HeaderEndsOfPart ==
    ASSUME NEW t \in Seq(STRING), NEW n \in 0..Len(t)
    PROVE  HeaderEnds(SubSeq(t, 1, n)) = {i \in HeaderEnds(t) : i + 3 <= n}
  <1>. DEFINE p == SubSeq(t, 1, n)
  <1>1. CrLfs(p) = {i \in CrLfs(t) : i + 1 <= n} /\ CrLfs(t) \subseteq Nat /\ n \in Nat
    BY LineEndsOfPart DEF CrLfs
  <1>. HIDE DEF p
  <1>2. \A i : i \in HeaderEnds(p) <=> i \in HeaderEnds(t) /\ i + 3 <= n
    BY <1>1 DEF HeaderEnds
  <1>. QED
    BY <1>2 DEF p

\* find_header_end
LEMMA HeaderLengthType ==
    ASSUME NEW t \in Seq(STRING), HeaderEnds(t) # {}
    PROVE  /\ HeaderLength(t) \in 4..Len(t)
           /\ Min(HeaderEnds(t)) \in HeaderEnds(t) /\ HeaderLength(t) = Min(HeaderEnds(t)) + 3
           /\ \A i \in HeaderEnds(t) : HeaderLength(t) <= i + 3
  <1>1. HeaderEnds(t) \subseteq Nat \ {0} /\ \A i \in HeaderEnds(t) : i + 3 <= Len(t) /\ Len(t) \in Nat
    BY DEF HeaderEnds, CrLfs
  <1>2. Min(HeaderEnds(t)) \in HeaderEnds(t) /\ \A y \in HeaderEnds(t) : Min(HeaderEnds(t)) <= y
    BY <1>1, LeastOf
  <1>. QED
    BY <1>1, <1>2 DEF HeaderLength

\* A header is found in the first part of a text if, and only if, it is complete
\* there, and then it is the header of the text.
LEMMA HeaderOfPart ==
    ASSUME NEW t \in Seq(STRING), NEW n \in 0..Len(t)
    PROVE  LET p == SubSeq(t, 1, n) IN
           /\ HeaderEnds(p) # {} <=> HeaderEnds(t) # {} /\ HeaderLength(t) <= n
           /\ HeaderEnds(p) # {} => HeaderLength(p) = HeaderLength(t)
  <1>. DEFINE p == SubSeq(t, 1, n)
  <1>1. HeaderEnds(p) = {i \in HeaderEnds(t) : i + 3 <= n} /\ p \in Seq(STRING)
    BY HeaderEndsOfPart, FirstPart
  <1>. HIDE DEF p
  <1>2. HeaderEnds(t) \subseteq Nat
    BY DEF HeaderEnds, CrLfs
  <1>3. ASSUME HeaderEnds(t) # {}, HeaderLength(t) <= n PROVE HeaderEnds(p) # {}
    BY <1>1, <1>3, HeaderLengthType
  <1>4. ASSUME HeaderEnds(p) # {}
        PROVE  HeaderEnds(t) # {} /\ HeaderLength(t) <= n /\ HeaderLength(p) = HeaderLength(t)
    <2>1. HeaderEnds(t) # {} /\ HeaderEnds(p) \subseteq HeaderEnds(t)
      BY <1>1, <1>4
    <2>. DEFINE a == Min(HeaderEnds(p))  b == Min(HeaderEnds(t))
    <2>2. /\ a \in HeaderEnds(p) /\ HeaderLength(p) = a + 3 /\ HeaderLength(t) = b + 3
          /\ b \in HeaderEnds(t) /\ \A i \in HeaderEnds(t) : b + 3 <= i + 3
          /\ \A i \in HeaderEnds(p) : a + 3 <= i + 3
      <3>1. /\ Min(HeaderEnds(p)) \in HeaderEnds(p) /\ HeaderLength(p) = Min(HeaderEnds(p)) + 3
            /\ \A i \in HeaderEnds(p) : HeaderLength(p) <= i + 3
        BY <1>1, <1>4, HeaderLengthType
      <3>2. /\ Min(HeaderEnds(t)) \in HeaderEnds(t) /\ HeaderLength(t) = Min(HeaderEnds(t)) + 3
            /\ \A i \in HeaderEnds(t) : HeaderLength(t) <= i + 3
        BY <2>1, HeaderLengthType
      <3>. QED
        BY <3>1, <3>2
    <2>. HIDE DEF a, b
    <2>3. a \in Nat /\ b \in Nat /\ a + 3 <= n /\ b <= a
      BY <1>1, <1>2, <2>1, <2>2
    <2>4. b \in HeaderEnds(p)
      BY <1>1, <2>2, <2>3
    <2>. QED
      BY <2>1, <2>2, <2>3, <2>4
  <1>. QED
    BY <1>3, <1>4 DEF p

\* parse_request_line sees the same in both.
LEMMA MethodOfPart ==
    ASSUME NEW t \in Seq(STRING), NEW n \in 0..Len(t), HeaderEnds(SubSeq(t, 1, n)) # {}
    PROVE  MethodOf(SubSeq(t, 1, n)) = MethodOf(t)
  <1>. DEFINE p == SubSeq(t, 1, n)
              A == {i \in CrLfs(p) : i >= 1}  B == {i \in CrLfs(t) : i >= 1}
  <1>1. CrLfs(p) = {i \in CrLfs(t) : i + 1 <= n} /\ n \in Nat /\ Len(t) \in Nat
    BY LineEndsOfPart
  <1>2. A \subseteq Nat /\ B \subseteq Nat /\ A # {} /\ A = {i \in B : i + 1 <= n} /\ \A i \in B : i >= 1
    <2>. HIDE DEF p
    <2>1. CrLfs(t) \subseteq Nat \ {0}
      BY DEF CrLfs
    <2>2. CrLfs(p) # {}
      BY DEF HeaderEnds, p
    <2>. QED
      BY <1>1, <2>1, <2>2
  <1>. HIDE DEF A, B
  <1>3. /\ Min(A) \in A /\ \A i \in A : Min(A) <= i
        /\ Min(B) \in B /\ \A i \in B : Min(B) <= i
    BY <1>2, LeastOf
  <1>4. Min(A) = Min(B) /\ Min(B) - 1 \in 0..n
    <2>1. Min(A) \in Nat /\ Min(B) \in Nat /\ Min(A) \in B /\ Min(A) + 1 <= n /\ Min(B) >= 1
      BY <1>2, <1>3
    <2>2. Min(B) <= Min(A)
      BY <1>3, <2>1
    <2>3. Min(B) + 1 <= n
      BY <1>1, <2>1, <2>2
    <2>4. Min(B) \in A
      BY <1>2, <1>3, <2>3
    <2>5. Min(A) <= Min(B)
      BY <1>3, <2>4
    <2>. QED
      BY <1>1, <2>1, <2>2, <2>3, <2>5
  <1>5. EndOfLine(p, 1) = Min(A) /\ EndOfLine(t, 1) = Min(B)
    BY DEF EndOfLine, A, B
  <1>6. SubSeq(p, 0 + 1, Min(B) - 1) = SubSeq(t, 0 + 1, Min(B) - 1)
    BY <1>4, PartOfPart
  <1>7. LineAt(p, 1) = LineAt(t, 1)
    BY <1>4, <1>5, <1>6 DEF LineAt
  <1>. HIDE DEF p
  <1>8. MethodOf(p) = MethodOf(t)
    BY <1>7 DEF MethodOf
  <1>. QED
    BY <1>8 DEF p

LEMMA BodyLengthType ==
    ASSUME NEW h
    PROVE  BodyLength(h).length \in Nat
  BY DEF BodyLength, MethodOf, Declared

LEMMA PiecesType ==
    ASSUME ReadTypes, NEW room \in Nat, NEW n \in Pieces(room)
    PROVE  /\ n \in Nat \ {0} /\ n <= room /\ arrived + n \in arrived..Len(stream)
           /\ Arriving(n) = SubSeq(stream, arrived + 1, arrived + n)
  <1>1. Len(stream) - arrived \in Nat /\ Len(stream) \in Nat /\ arrived \in Nat
    BY DEF ReadTypes
  <1>. QED
    BY <1>1, LesserOf DEF Pieces, Arriving

-----------------------------------------------------------------------------
(* The request.                                                            *)

\* What BytesAccountedFor says before there is a body.
LEMMA NoBodyYet ==
    ASSUME ReadTypes, InBuffer, UNCHANGED <<stream, buffer, body, length>>
    PROVE  BytesAccountedFor'
  BY DEF ReadTypes, InBuffer, BytesAccountedFor

LEMMA HeaderTooLongKeeps ==
    ASSUME ReadInv, HeaderTooLong
    PROVE  ReadInv'
  <1>1. /\ ReadTypes /\ InBuffer /\ HeaderEnds(buffer) = {} /\ Len(buffer) >= MaxHeader
        /\ UNCHANGED <<stream, arrived, gone, buffer, body, length>>
        /\ io' = "read" /\ request' = Refused("bad")
    BY DEF ReadInv, HeaderTooLong, ReadReturns
  <1>2. BytesAccountedFor'
    BY <1>1, NoBodyYet
  <1>3. ~(HeaderEnds(stream) # {} /\ HeaderLength(stream) <= arrived)
    BY <1>1, HeaderOfPart DEF ReadTypes, InBuffer
  <1>4. HeaderEnds(stream) = {} \/ HeaderLength(stream) > MaxHeader
    <2>1. HeaderEnds(stream) # {} => HeaderLength(stream) \in Nat
      BY <1>1, HeaderLengthType DEF ReadTypes
    <2>. QED
      BY <1>1, <1>3, <2>1, LimitsAssumption DEF ReadTypes, InBuffer
  <1>5. Meaning(stream) = Refused("bad")
    BY <1>4 DEF Meaning
  <1>6. PiecesMakeNoDifference'
    BY <1>1, <1>5 DEF PiecesMakeNoDifference, InBuffer
  <1>. QED
    BY <1>1, <1>2, <1>6 DEF ReadInv, ReadTypes

LEMMA RecvHeaderKeeps ==
    ASSUME ReadInv, RecvHeader
    PROVE  ReadInv'
  <1>1. /\ ReadTypes /\ InBuffer /\ Len(buffer) < MaxHeader
        /\ UNCHANGED <<stream, gone, body, length>>
        /\ io' = IF HeaderEnds(buffer') = {} THEN "header" ELSE "parse"
    BY DEF ReadInv, RecvHeader
  <1>2. Capacity - 1 - Len(buffer) \in Nat /\ Capacity - 1 \in Nat
    BY <1>1, LimitsAssumption DEF InBuffer, ReadTypes, Capacity
  <1>3. PICK n \in Pieces(Capacity - 1 - Len(buffer)) :
               buffer' = buffer \o Arriving(n) /\ arrived' = arrived + n
    BY DEF RecvHeader
  <1>4. /\ n \in Nat \ {0} /\ n <= Capacity - 1 - Len(buffer) /\ arrived + n \in arrived..Len(stream)
        /\ Arriving(n) = SubSeq(stream, arrived + 1, arrived + n)
    BY <1>1, <1>2, <1>3, PiecesType
  <1>5. /\ stream \in Seq(STRING) /\ arrived \in 0..Len(stream) /\ arrived = Len(buffer)
        /\ buffer = SubSeq(stream, 1, arrived) /\ Len(stream) \in Nat
    BY <1>1 DEF ReadTypes, InBuffer
  <1>6. buffer' = SubSeq(stream, 1, arrived')
    <2>1. SubSeq(stream, 0 + 1, arrived) \o SubSeq(stream, arrived + 1, arrived + n)
             = SubSeq(stream, 0 + 1, arrived + n)
      BY <1>4, <1>5, Adjacent
    <2>2. 0 + 1 = 1
      OBVIOUS
    <2>. QED
      BY <1>3, <1>4, <1>5, <2>1, <2>2
  <1>7. arrived' \in 0..Len(stream)
    BY <1>3, <1>4, <1>5
  <1>8. buffer' \in Seq(STRING) /\ Len(buffer') = arrived'
    BY <1>5, <1>6, <1>7, FirstPart
  <1>9. Len(buffer') <= Capacity - 1
    <2>1. arrived \in Nat /\ n <= Capacity - 1 - arrived /\ Len(buffer') = arrived + n
      <3>1. Len(stream) \in Nat /\ arrived \in 0..Len(stream)
        BY <1>5
      <3>2. arrived \in Nat
        BY <3>1
      <3>3. n <= Capacity - 1 - arrived
        BY <1>4, <1>5
      <3>. QED
        BY <1>3, <1>8, <3>2, <3>3
    <2>. QED
      BY <1>4, <2>1, LimitsAssumption DEF Capacity
  <1>10. InBuffer'
    BY <1>1, <1>6, <1>8, <1>9 DEF InBuffer, Capacity
  <1>11. ReadTypes'
    BY <1>1, <1>7, <1>8 DEF ReadTypes
  <1>. QED
    BY <1>1, <1>10, <1>11 DEF ReadInv

\* The header has been found; what follows is about the header of the stream.
LEMMA HeaderFound ==
    ASSUME ReadInv, io = "parse"
    PROVE  LET h == HeaderLength(stream) IN
           /\ ReadTypes /\ InBuffer /\ HeaderEnds(stream) # {}
           /\ HeaderLength(buffer) = h /\ h \in 4..Len(buffer) /\ Len(buffer) \in 0..Len(stream)
           /\ SubSeq(buffer, 1, h) = SubSeq(stream, 1, h)
  <1>. DEFINE h == HeaderLength(stream)
  <1>1. ReadTypes /\ InBuffer /\ HeaderEnds(buffer) # {}
    BY DEF ReadInv
  <1>2. /\ stream \in Seq(STRING) /\ arrived \in 0..Len(stream) /\ arrived = Len(buffer)
        /\ buffer = SubSeq(stream, 1, arrived) /\ Len(stream) \in Nat
    BY <1>1 DEF ReadTypes, InBuffer
  <1>3. HeaderEnds(stream) # {} /\ h <= arrived /\ HeaderLength(buffer) = h
    BY <1>1, <1>2, HeaderOfPart
  <1>4. h \in 4..Len(stream)
    BY <1>2, <1>3, HeaderLengthType
  <1>. HIDE DEF h
  <1>5. SubSeq(SubSeq(stream, 1, arrived), 0 + 1, h) = SubSeq(stream, 0 + 1, h)
    BY <1>2, <1>3, <1>4, PartOfPart
  <1>6. 0 + 1 = 1
    OBVIOUS
  <1>7. SubSeq(buffer, 1, h) = SubSeq(stream, 1, h)
    BY <1>2, <1>5, <1>6
  <1>. QED
    BY <1>1, <1>2, <1>3, <1>4, <1>7 DEF h

LEMMA ParseHeaderKeeps ==
    ASSUME ReadInv, ParseHeader
    PROVE  ReadInv'
  <1>. DEFINE h == HeaderLength(stream)  parsed == BodyLength(SubSeq(stream, 1, h))
  <1>1. io = "parse" /\ UNCHANGED <<stream, arrived, gone, buffer>>
    BY DEF ParseHeader
  <1>2. /\ ReadTypes /\ InBuffer /\ HeaderEnds(stream) # {}
        /\ HeaderLength(buffer) = h /\ h \in 4..Len(buffer) /\ Len(buffer) \in 0..Len(stream)
        /\ BodyLength(SubSeq(buffer, 1, h)) = parsed
    BY <1>1, HeaderFound
  <1>3. parsed.length \in Nat /\ MaxHeader \in Nat
    BY BodyLengthType, LimitsAssumption
  <1>4. CASE h > MaxHeader \/ parsed.status # "ok"
    <2>1. /\ request' = Refused(IF h > MaxHeader THEN "bad" ELSE parsed.status) /\ io' = "read"
          /\ UNCHANGED <<body, length>>
      BY <1>2, <1>4 DEF ParseHeader, ReadReturns
    <2>2. Meaning(stream) = Refused(IF h > MaxHeader THEN "bad" ELSE parsed.status)
      BY <1>2, <1>4 DEF Meaning
    <2>3. PiecesMakeNoDifference'
      BY <1>1, <1>2, <2>1, <2>2 DEF PiecesMakeNoDifference, InBuffer
    <2>4. BytesAccountedFor'
      BY <1>1, <1>2, <2>1, NoBodyYet
    <2>. QED
      BY <1>1, <1>2, <2>1, <2>3, <2>4 DEF ReadInv, ReadTypes
  <1>5. CASE ~(h > MaxHeader \/ parsed.status # "ok")
    <2>1. length' = parsed.length /\ body' = InitialBody(parsed.length) /\ io' = "body"
      BY <1>2, <1>5 DEF ParseHeader
    <2>. DEFINE k == Min({parsed.length, Len(buffer) - h})
    <2>2. k \in Nat /\ k = IF parsed.length <= Len(buffer) - h THEN parsed.length ELSE Len(buffer) - h
      <3>1. Len(buffer) - h \in Nat
        BY <1>2
      <3>. HIDE DEF h, parsed
      <3>. QED
        BY <1>3, <3>1, LesserOf
    <2>3. body' = SubSeq(buffer, h + 1, h + k)
      BY <1>2, <2>1 DEF InitialBody
    <2>. HIDE DEF k, parsed
    <2>4. /\ stream \in Seq(STRING) /\ arrived \in 0..Len(stream) /\ arrived = Len(buffer)
          /\ buffer = SubSeq(stream, 1, arrived) /\ Len(stream) \in Nat
      BY <1>2 DEF ReadTypes, InBuffer
    <2>5. h \in Nat /\ h + k \in h..arrived
      BY <1>2, <2>2, <2>4
    <2>. HIDE DEF h
    <2>6. body' = SubSeq(stream, h + 1, h + k)
      BY <2>3, <2>4, <2>5, PartOfPart
    <2>7. body' \in Seq(STRING) /\ Len(body') = k
      <3>1. h + k <= Len(stream)
        BY <2>2, <2>4, <2>5
      <3>2. SubSeq(stream, h + 1, h + k) \in Seq(STRING) /\ Len(SubSeq(stream, h + 1, h + k)) = k
        BY <2>2, <2>4, <2>5, <3>1, PartLength
      <3>. QED
        BY <2>6, <3>2
    <2>8. /\ Len(body') <= length' /\ h + Len(body') <= arrived
          /\ Len(body') < length' => arrived = h + Len(body')
      BY <1>2, <1>3, <2>1, <2>2, <2>4, <2>5, <2>7
    <2>9. ReadTypes'
      BY <1>1, <1>2, <1>3, <2>1, <2>7 DEF ReadTypes
    <2>10. InBody'
      BY SMTT(30), <1>1, <1>2, <1>3, <1>5, <2>1, <2>4, <2>6, <2>7, <2>8 DEF InBody, InBuffer, Capacity, h, parsed
    <2>. QED
      BY <2>1, <2>9, <2>10 DEF ReadInv
  <1>. QED
    BY <1>4, <1>5

LEMMA BodyAllocationFailsKeeps ==
    ASSUME ReadInv, BodyAllocationFails
    PROVE  ReadInv'
  <1>1. /\ io = "parse" /\ UNCHANGED <<stream, arrived, gone, buffer, body, length>>
        /\ io' = "read" /\ request' = Refused("internal")
    BY DEF BodyAllocationFails, ReadReturns
  <1>2. ReadTypes /\ InBuffer
    BY <1>1 DEF ReadInv
  <1>3. BytesAccountedFor' /\ PiecesMakeNoDifference'
    BY <1>1, <1>2, NoBodyYet DEF PiecesMakeNoDifference, Refused
  <1>. QED
    BY <1>1, <1>2, <1>3 DEF ReadInv, ReadTypes

LEMMA RecvBodyKeeps ==
    ASSUME ReadInv, RecvBody
    PROVE  ReadInv'
  <1>. DEFINE h == HeaderLength(stream)
  <1>1. /\ io = "body" /\ Len(body) < length /\ UNCHANGED <<stream, gone, buffer, length, io>>
        /\ ReadTypes /\ InBody
    BY DEF ReadInv, RecvBody
  <1>2. PICK n \in Pieces(length - Len(body)) : body' = body \o Arriving(n) /\ arrived' = arrived + n
    BY DEF RecvBody
  <1>3. /\ stream \in Seq(STRING) /\ Len(stream) \in Nat /\ Len(body) \in Nat /\ length \in Nat
        /\ arrived \in 0..Len(stream) /\ HeaderEnds(stream) # {}
        /\ body = SubSeq(stream, h + 1, h + Len(body)) /\ arrived = h + Len(body)
    BY <1>1 DEF ReadTypes, InBody
  <1>4. h \in Nat
    BY <1>3, HeaderLengthType
  <1>. HIDE DEF h
  <1>5. /\ n \in Nat \ {0} /\ n <= length - Len(body) /\ arrived + n \in arrived..Len(stream)
        /\ Arriving(n) = SubSeq(stream, arrived + 1, arrived + n)
    BY <1>1, <1>2, <1>3, PiecesType
  <1>6. body' = SubSeq(stream, h + 1, arrived + n)
    <2>1. SubSeq(stream, h + 1, arrived) \o SubSeq(stream, arrived + 1, arrived + n)
             = SubSeq(stream, h + 1, arrived + n)
      <3>1. arrived \in h..Len(stream)
        BY <1>3, <1>4
      <3>. QED
        BY <1>3, <1>4, <1>5, <3>1, Adjacent
    <2>. QED
      BY <1>2, <1>3, <1>5, <2>1
  <1>7. arrived + n = h + (Len(body) + n) /\ Len(body) + n \in Nat /\ h + (Len(body) + n) <= Len(stream)
    BY <1>3, <1>4, <1>5
  <1>8. body' \in Seq(STRING) /\ Len(body') = Len(body) + n
    <2>. DEFINE k == Len(body) + n
    <2>1. body' = SubSeq(stream, h + 1, h + k) /\ k \in Nat /\ h + k <= Len(stream)
      BY <1>6, <1>7
    <2>. HIDE DEF k
    <2>2. SubSeq(stream, h + 1, h + k) \in Seq(STRING) /\ Len(SubSeq(stream, h + 1, h + k)) = k
      BY <1>3, <1>4, <2>1, PartLength
    <2>. QED
      BY <2>1, <2>2 DEF k
  <1>9. /\ body' = SubSeq(stream, h + 1, h + Len(body')) /\ Len(body') <= length
        /\ arrived' = h + Len(body') /\ arrived <= arrived' /\ arrived' \in 0..Len(stream)
    BY SMTT(30), <1>2, <1>3, <1>4, <1>5, <1>6, <1>7, <1>8
  <1>10. ReadTypes'
    BY <1>1, <1>8, <1>9 DEF ReadTypes
  <1>11. InBody'
    <2>1. Len(buffer) \in Nat /\ Len(buffer) <= arrived'
      BY <1>1, <1>3, <1>9 DEF ReadTypes, InBody
    <2>2. h + Len(body') <= arrived'
      BY <1>4, <1>8, <1>9
    <2>. QED
      BY <1>1, <1>9, <2>1, <2>2 DEF InBody, Capacity, h
  <1>. QED
    BY <1>1, <1>10, <1>11 DEF ReadInv

\* What is known of a stream once its header is found.
LEMMA BodyBegun ==
    ASSUME ReadTypes, InBody
    PROVE  LET h == HeaderLength(stream)
               parsed == BodyLength(SubSeq(stream, 1, h))
           IN
           /\ HeaderEnds(stream) # {} /\ h \in 4..Len(stream) /\ h <= MaxHeader /\ MaxHeader \in Nat
           /\ h + Len(body) <= arrived /\ Len(body) \in Nat
           /\ Len(stream) \in Nat /\ arrived \in 0..Len(stream) /\ Len(buffer) \in 0..Len(stream)
           /\ parsed.status = "ok" /\ parsed.length = length /\ length \in Nat
           /\ HeaderEnds(buffer) # {}
  <1>1. /\ stream \in Seq(STRING) /\ HeaderEnds(stream) # {} /\ Len(buffer) \in 0..Len(stream)
        /\ HeaderLength(stream) <= Len(buffer) /\ buffer = SubSeq(stream, 1, Len(buffer))
    BY DEF ReadTypes, InBody
  <1>2. HeaderLength(stream) \in 4..Len(stream) /\ HeaderEnds(buffer) # {}
    BY <1>1, HeaderLengthType, HeaderOfPart
  <1>. QED
    BY SMTT(30), <1>1, <1>2, LimitsAssumption DEF ReadTypes, InBody

LEMMA BodyAccountedFor ==
    ASSUME ReadTypes, InBody, UNCHANGED <<stream, buffer, body, length>>
    PROVE  BytesAccountedFor'
  BY DEF InBody, BytesAccountedFor, Capacity

LEMMA BodyCompleteKeeps ==
    ASSUME ReadInv, BodyComplete
    PROVE  ReadInv'
  <1>. DEFINE h == HeaderLength(stream)
              parsed == BodyLength(SubSeq(stream, 1, h))
  <1>1. /\ Len(body) = length /\ UNCHANGED <<stream, arrived, gone, buffer, body, length>>
        /\ ReadTypes /\ InBody /\ io' = "read" /\ request' = Read(MethodOf(buffer), body)
    BY DEF ReadInv, BodyComplete, ReadReturns
  <1>2. /\ HeaderEnds(stream) # {} /\ h \in 4..Len(stream) /\ h <= MaxHeader /\ MaxHeader \in Nat
        /\ h + Len(body) <= arrived /\ Len(body) \in Nat
        /\ Len(stream) \in Nat /\ arrived \in 0..Len(stream) /\ Len(buffer) \in 0..Len(stream)
        /\ parsed.status = "ok" /\ parsed.length = length /\ length \in Nat
        /\ HeaderEnds(buffer) # {}
    BY <1>1, BodyBegun
  <1>3. MethodOf(buffer) = MethodOf(stream)
    <2>1. stream \in Seq(STRING) /\ buffer = SubSeq(stream, 1, Len(buffer))
      BY <1>1 DEF ReadTypes, InBody
    <2>2. MethodOf(SubSeq(stream, 1, Len(buffer))) = MethodOf(stream)
      BY <1>2, <2>1, MethodOfPart
    <2>. QED
      BY <2>1, <2>2
  <1>4. body = SubSeq(stream, h + 1, h + length)
    BY <1>1 DEF InBody
  <1>5. Meaning(stream) = Read(MethodOf(stream), body)
    <2>. HIDE DEF h, parsed
    <2>1. ~(h > MaxHeader) /\ ~(Len(stream) - h < parsed.length)
      BY <1>1, <1>2
    <2>. QED
      BY <1>2, <1>4, <2>1 DEF Meaning, h, parsed
  <1>6. PiecesMakeNoDifference'
    BY <1>1, <1>3, <1>5 DEF PiecesMakeNoDifference, InBody
  <1>. QED
    BY <1>1, <1>6, BodyAccountedFor DEF ReadInv, ReadTypes

LEMMA RecvFailsKeeps ==
    ASSUME ReadInv, RecvFails
    PROVE  ReadInv'
  <1>1. /\ UNCHANGED <<stream, arrived, buffer, body, length>> /\ gone'
        /\ io' = "read" /\ request' = Refused("bad") /\ ReadTypes
        /\ \/ io = "header" /\ InBuffer /\ HeaderEnds(buffer) = {}
           \/ io = "body" /\ InBody /\ Len(body) < length
    BY DEF ReadInv, RecvFails, ReadReturns
  <1>. DEFINE t == SubSeq(stream, 1, arrived)
  <1>2. BytesAccountedFor'
    BY <1>1, NoBodyYet, BodyAccountedFor
  <1>3. Meaning(t) = Refused("bad")
    <2>1. CASE InBuffer /\ HeaderEnds(buffer) = {}
      BY <2>1 DEF InBuffer, Meaning
    <2>2. CASE InBody /\ Len(body) < length
      <3>. DEFINE h == HeaderLength(stream)
                  parsed == BodyLength(SubSeq(stream, 1, h))
      <3>1. /\ HeaderEnds(stream) # {} /\ h \in 4..Len(stream) /\ h <= MaxHeader /\ MaxHeader \in Nat
            /\ h + Len(body) <= arrived /\ Len(body) \in Nat
            /\ Len(stream) \in Nat /\ arrived \in 0..Len(stream) /\ Len(buffer) \in 0..Len(stream)
            /\ parsed.status = "ok" /\ parsed.length = length /\ length \in Nat
        BY <1>1, <2>2, BodyBegun
      <3>2. arrived = h + Len(body) /\ stream \in Seq(STRING)
        BY <1>1, <2>2 DEF InBody, ReadTypes
      <3>3. HeaderEnds(t) # {} /\ HeaderLength(t) = h /\ Len(t) = arrived
        <4>1. h <= arrived
          BY <3>1
        <4>. QED
          BY <3>1, <3>2, <4>1, HeaderOfPart, FirstPart
      <3>4. SubSeq(t, 1, h) = SubSeq(stream, 1, h)
        <4>. HIDE DEF h
        <4>1. SubSeq(SubSeq(stream, 1, arrived), 0 + 1, h) = SubSeq(stream, 0 + 1, h)
          BY <3>1, <3>2, PartOfPart
        <4>2. 0 + 1 = 1
          OBVIOUS
        <4>. QED
          BY <4>1, <4>2
      <3>. HIDE DEF t, h, parsed
      <3>5. ~(h > MaxHeader) /\ Len(t) - h < parsed.length
        BY <2>2, <3>1, <3>2, <3>3
      <3>. QED
        BY <3>1, <3>3, <3>4, <3>5 DEF Meaning, parsed
    <2>. QED
      BY <1>1, <2>1, <2>2
  <1>4. PiecesMakeNoDifference'
    BY <1>1, <1>3 DEF PiecesMakeNoDifference
  <1>. QED
    BY <1>1, <1>2, <1>4 DEF ReadInv, ReadTypes

LEMMA ReadInvStep ==
    ASSUME ReadInv, [Next]_vars
    PROVE  ReadInv'
  <1>1. CASE UNCHANGED httpVars
    BY <1>1 DEF httpVars, readVars, ReadInv, ReadTypes, InBuffer, InBody, BytesAccountedFor,
                PiecesMakeNoDifference, HeaderLength, BodyLength
  <1>2. CASE LeaveRead
    BY <1>2 DEF LeaveRead, ReadInv, ReadTypes
  <1>3. CASE BeginResponse \/ SendStep
    <2>1. /\ UNCHANGED readVars /\ io \in {"handle", "sendHead", "sendBody"}
          /\ io' \in {"sendHead", "sendBody", "closed"}
      BY <1>3 DEF BeginResponse, SendStep, Send, SendFails, Accepted
    <2>. QED
      BY <2>1 DEF readVars, ReadInv, ReadTypes
  <1>. QED
    BY Zenon, <1>1, <1>2, <1>3, HeaderTooLongKeeps, RecvHeaderKeeps, RecvFailsKeeps, ParseHeaderKeeps,
       BodyAllocationFailsKeeps, RecvBodyKeeps, BodyCompleteKeeps
       DEF Next, ReadStep, BeginSql, Respond, Finished, vars, httpVars

LEMMA ReadInvHolds == Spec => []ReadInv
  <1>1. Init => ReadInv
    <2>. SUFFICES ASSUME Init PROVE ReadInv
      OBVIOUS
    <2>1. /\ stream \in Seq(STRING) /\ arrived = 0 /\ gone = FALSE /\ buffer = <<>> /\ body = <<>>
          /\ length = 0 /\ io = "header"
      <3>1. <<>> \in Seq(STRING)
        OBVIOUS
      <3>2. stream \in IF mode = "api" THEN Streams ELSE {<<>>}
        BY DEF Init, HttpInit
      <3>3. stream \in Seq(STRING)
        BY <3>1, <3>2, StreamsAssumption
      <3>. QED
        BY <3>3 DEF Init, HttpInit
    <2>2. SubSeq(stream, 1, 0) = <<>> /\ Len(<<>>) = 0 /\ Len(stream) \in Nat /\ 0 <= Capacity - 1
      BY <2>1, LimitsAssumption DEF Capacity
    <2>3. HeaderEnds(<<>>) = {}
      BY DEF HeaderEnds, CrLfs
    <2>. QED
      BY <2>1, <2>2, <2>3 DEF ReadInv, ReadTypes, InBuffer
  <1>2. ReadInv /\ [Next]_vars => ReadInv'
    BY ReadInvStep
  <1>. QED
    BY <1>1, <1>2, PTL DEF Spec

\* For every text and every limit: the buffer of http_read_request has room for
\* the NUL whatever recv returns, the body stays within its memory, and no byte
\* is lost or used twice where the first loop ends and the second begins.
THEOREM RequestBytesAccountedFor == Spec => []BytesAccountedFor
  <1>1. ReadInv => BytesAccountedFor
    <2>1. ASSUME ReadTypes, InBuffer PROVE BytesAccountedFor
      BY <2>1 DEF ReadTypes, InBuffer, BytesAccountedFor
    <2>2. ASSUME ReadTypes, InBody PROVE BytesAccountedFor
      BY <2>2 DEF InBody, BytesAccountedFor
    <2>3. ASSUME stream = <<>>, buffer = <<>>, body = <<>>, length = 0 PROVE BytesAccountedFor
      BY <2>3, LimitsAssumption DEF BytesAccountedFor, Capacity
    <2>. QED
      BY <2>1, <2>2, <2>3 DEF ReadInv
  <1>. QED
    BY <1>1, ReadInvHolds, PTL

\* For every text and every way recv cuts it into pieces: http_read_request
\* returns what the text up to where recv failed, or else the whole text means.
THEOREM PiecesDoNotMatter == Spec => []PiecesMakeNoDifference
  <1>1. ReadInv => PiecesMakeNoDifference
    BY DEF ReadInv, PiecesMakeNoDifference
  <1>. QED
    BY <1>1, ReadInvHolds, PTL

-----------------------------------------------------------------------------
(* The SQL front: numbers of items.                                        *)

\* i is odd: an item of a list, and no comma.
Odd(i) == i % 2 = 1

\* Odd and even numbers alternate.
LEMMA Parity ==
    ASSUME NEW i \in Int
    PROVE  /\ Odd(i + 1) <=> ~Odd(i)
           /\ Odd(i - 1) <=> ~Odd(i)
           /\ ~Odd(2 * i) /\ Odd(2 * i - 1)
           /\ Odd(i) => \E j \in Int : i = 2 * j - 1
           /\ ~Odd(i) => \E j \in Int : i = 2 * j
  <1>1. (Odd(i + 1) <=> ~Odd(i)) /\ (Odd(i - 1) <=> ~Odd(i))
    BY DEF Odd
  <1>2. ~Odd(2 * i) /\ Odd(2 * i - 1)
    BY DEF Odd
  <1>3. i = 2 * (i \div 2) + (i % 2) /\ i \div 2 \in Int /\ i % 2 \in 0..1
    OBVIOUS
  <1>4. Odd(i) => i = 2 * ((i \div 2) + 1) - 1
    BY <1>3 DEF Odd
  <1>5. ~Odd(i) => i = 2 * (i \div 2)
    BY <1>3 DEF Odd
  <1>6. (i \div 2) + 1 \in Int
    BY <1>3
  <1>. QED
    BY <1>1, <1>2, <1>3, <1>4, <1>5, <1>6

\* A list that begins within the bound has no more than MaxItems items.
LEMMA ItemsAre == MaxItems \in Nat /\ 1 <= MaxItems /\ \A n \in Nat : 2 * n <= MaxTokens + 1 => n <= MaxItems
  BY MaxTokensAssumption DEF MaxItems

-----------------------------------------------------------------------------
(* The grammar token by token.                                             *)

\* The i-th token of InsertText(c, v), and the place of a parser that has read
\* n of its tokens; b tokens come before VALUES.
BeforeValues(c) == IF c = 0 THEN 3 ELSE 2 * c + 4
InsertSize(c, v) == BeforeValues(c) + 2 * v + 2
InsertToken(c, v, i) ==
    LET b == BeforeValues(c) IN
    IF i = 1 THEN "INSERT" ELSE IF i = 2 THEN "INTO" ELSE IF i = 3 THEN "identifier"
    ELSE IF i <= b THEN IF i = 4 THEN "LPAREN" ELSE IF i = b THEN "RPAREN"
                        ELSE IF Odd(i) THEN "identifier" ELSE "COMMA"
    ELSE IF i = b + 1 THEN "VALUES" ELSE IF i = b + 2 THEN "LPAREN"
    ELSE IF i = InsertSize(c, v) THEN "RPAREN" ELSE IF Odd(i - b) THEN "literal" ELSE "COMMA"
InsertPlace(c, v, n) ==
    LET b == BeforeValues(c) IN
    IF n = 0 THEN "start" ELSE IF n = 1 THEN "into" ELSE IF n = 2 THEN "intoTable"
    ELSE IF n = 3 THEN "afterTable"
    ELSE IF n < b THEN IF Odd(n) THEN "moreColumns" ELSE "column"
    ELSE IF n = b THEN "values" ELSE IF n = b + 1 THEN "open"
    ELSE IF n = InsertSize(c, v) THEN "end" ELSE IF Odd(n - b) THEN "moreValues" ELSE "value"

\* The same of SelectText(c, w); d tokens come before FROM.
BeforeFrom(c) == IF c = 0 THEN 2 ELSE 2 * c
SelectSize(c, w) == IF w THEN BeforeFrom(c) + 6 ELSE BeforeFrom(c) + 2
SelectToken(c, w, i) ==
    LET d == BeforeFrom(c) IN
    IF i = 1 THEN "SELECT"
    ELSE IF i <= d THEN IF c = 0 THEN "STAR" ELSE IF Odd(i) THEN "COMMA" ELSE "identifier"
    ELSE IF i = d + 1 THEN "FROM" ELSE IF i = d + 2 THEN "identifier"
    ELSE IF i = d + 3 THEN "WHERE" ELSE IF i = d + 4 THEN "identifier"
    ELSE IF i = d + 5 THEN "EQUAL" ELSE "literal"
SelectPlace(c, w, n) ==
    LET d == BeforeFrom(c) IN
    IF n = 0 THEN "start" ELSE IF n = 1 THEN "items"
    ELSE IF n <= d THEN IF c = 0 THEN "from" ELSE IF Odd(n) THEN "item" ELSE "moreItems"
    ELSE IF n = d + 1 THEN "fromTable" ELSE IF n = d + 2 THEN "where"
    ELSE IF n = d + 3 THEN "whereColumn" ELSE IF n = d + 4 THEN "equal"
    ELSE IF n = d + 5 THEN "whereValue" ELSE "end"

\* What the parser does with a token of class k at its place p.
Edge(p, k, q) ==
    \/ p = "start" /\ ((k = "INSERT" /\ q = "into") \/ (k = "SELECT" /\ q = "items"))
    \/ p = "into" /\ k = "INTO" /\ q = "intoTable"
    \/ p = "intoTable" /\ k = "identifier" /\ q = "afterTable"
    \/ p = "afterTable" /\ ((k = "LPAREN" /\ q = "column") \/ (k = "VALUES" /\ q = "open"))
    \/ p = "column" /\ k = "identifier" /\ q = "moreColumns"
    \/ p = "moreColumns" /\ ((k = "COMMA" /\ q = "column") \/ (k = "RPAREN" /\ q = "values"))
    \/ p = "values" /\ k = "VALUES" /\ q = "open"
    \/ p = "open" /\ k = "LPAREN" /\ q = "value"
    \/ p = "value" /\ k = "literal" /\ q = "moreValues"
    \/ p = "moreValues" /\ ((k = "COMMA" /\ q = "value") \/ (k = "RPAREN" /\ q = "end"))
    \/ p = "items" /\ ((k = "STAR" /\ q = "from") \/ (k = "identifier" /\ q = "moreItems"))
    \/ p = "item" /\ k = "identifier" /\ q = "moreItems"
    \/ p = "moreItems" /\ ((k = "COMMA" /\ q = "item") \/ (k = "FROM" /\ q = "fromTable"))
    \/ p = "from" /\ k = "FROM" /\ q = "fromTable"
    \/ p = "fromTable" /\ k = "identifier" /\ q = "where"
    \/ p = "where" /\ k = "WHERE" /\ q = "whereColumn"
    \/ p = "whereColumn" /\ k = "identifier" /\ q = "equal"
    \/ p = "equal" /\ k = "EQUAL" /\ q = "whereValue"
    \/ p = "whereValue" /\ k = "literal" /\ q = "end"

\* Along an INSERT each token is an edge of the parser ...
LEMMA InsertWalk ==
    ASSUME NEW c \in Nat, NEW v \in Nat \ {0}, NEW n \in Nat, n < InsertSize(c, v)
    PROVE  Edge(InsertPlace(c, v, n), InsertToken(c, v, n + 1), InsertPlace(c, v, n + 1))
  <1>. DEFINE b == BeforeValues(c)
              e == InsertSize(c, v)
  <1>0. b \in Nat /\ (b = 3 \/ (b >= 6 /\ b = 2 * c + 4))
    BY DEF BeforeValues
  <1>1. e = b + 2 * v + 2 /\ e \in Nat
    BY <1>0 DEF InsertSize
  <1>2. /\ Odd(n + 1) <=> ~Odd(n)
        /\ Odd(n + 1 - b) <=> ~Odd(n - b)
        /\ n + 1 = e => Odd(n - b)
        /\ ~Odd(4) /\ ~Odd(2)
        /\ b >= 6 /\ n + 1 = b => Odd(n)
    BY <1>0, <1>1 DEF Odd
  <1>. HIDE DEF b, e
  <1>3. CASE n < 3
    BY <1>0, <1>3 DEF InsertPlace, InsertToken, Edge, b
  <1>4. CASE n >= 3 /\ n < b
    <2>1. InsertPlace(c, v, n) = IF n = 3 THEN "afterTable" ELSE IF Odd(n) THEN "moreColumns" ELSE "column"
      BY <1>0, <1>4 DEF InsertPlace, b
    <2>2. InsertToken(c, v, n + 1) = IF n = 3 THEN "LPAREN" ELSE IF n + 1 = b THEN "RPAREN"
                                     ELSE IF Odd(n + 1) THEN "identifier" ELSE "COMMA"
      BY <1>0, <1>4 DEF InsertToken, b
    <2>3. InsertPlace(c, v, n + 1) = IF n + 1 = b THEN "values"
                                     ELSE IF Odd(n + 1) THEN "moreColumns" ELSE "column"
      BY <1>0, <1>4 DEF InsertPlace, b
    <2>4. CASE n = 3
      BY <1>0, <1>2, <1>4, <2>1, <2>2, <2>3, <2>4 DEF Edge
    <2>5. CASE n > 3
      BY <1>0, <1>2, <1>4, <2>1, <2>2, <2>3, <2>5 DEF Edge
    <2>. QED
      BY <1>4, <2>4, <2>5
  <1>5. CASE n >= 3 /\ n >= b
    <2>1. InsertPlace(c, v, n) = IF n = 3 THEN "afterTable" ELSE IF n = b THEN "values" ELSE IF n = b + 1 THEN "open"
                                 ELSE IF Odd(n - b) THEN "moreValues" ELSE "value"
      BY <1>0, <1>5 DEF InsertPlace, b
    <2>2. InsertToken(c, v, n + 1) = IF n = b THEN "VALUES" ELSE IF n = b + 1 THEN "LPAREN"
                                     ELSE IF n + 1 = e THEN "RPAREN" ELSE IF Odd(n + 1 - b) THEN "literal" ELSE "COMMA"
      BY <1>0, <1>5 DEF InsertToken, b, e
    <2>3. InsertPlace(c, v, n + 1) = IF n = b THEN "open" ELSE IF n + 1 = e THEN "end"
                                     ELSE IF Odd(n + 1 - b) THEN "moreValues" ELSE "value"
      BY <1>0, <1>5 DEF InsertPlace, b, e
    <2>4. CASE n = b
      BY <1>0, <1>2, <1>5, <2>1, <2>2, <2>3, <2>4 DEF Edge
    <2>5. CASE n = b + 1
      <3>1. n + 1 # e /\ ~Odd(n + 1 - b) /\ n # 3
        BY <1>0, <1>1, <1>2, <1>5, <2>5
      <3>. QED
        BY <1>0, <2>1, <2>2, <2>3, <2>5, <3>1 DEF Edge
    <2>6. CASE n > b + 1
      BY <1>0, <1>2, <2>1, <2>2, <2>3, <2>6 DEF Edge
    <2>. QED
      BY <1>0, <1>5, <2>4, <2>5, <2>6
  <1>. QED
    BY <1>3, <1>4, <1>5, <1>0

\* ... and along a SELECT.
LEMMA SelectWalk ==
    ASSUME NEW c \in Nat, NEW w \in BOOLEAN, NEW n \in Nat, n < SelectSize(c, w)
    PROVE  Edge(SelectPlace(c, w, n), SelectToken(c, w, n + 1), SelectPlace(c, w, n + 1))
  <1>. DEFINE d == BeforeFrom(c)
  <1>0. d \in Nat /\ ((c = 0 /\ d = 2) \/ (c > 0 /\ d = 2 * c))
    BY DEF BeforeFrom
  <1>1. n < d + 6
    BY <1>0 DEF SelectSize
  <1>2. (Odd(n + 1) <=> ~Odd(n)) /\ (c > 0 => ~Odd(d)) /\ Odd(1)
    BY <1>0 DEF Odd
  <1>. HIDE DEF d
  <1>3. CASE n = 0
    BY <1>0, <1>3 DEF SelectPlace, SelectToken, Edge, d
  <1>4. CASE n > 0 /\ n < d
    <2>1. SelectPlace(c, w, n) = IF n = 1 THEN "items" ELSE IF Odd(n) THEN "item" ELSE "moreItems"
      BY <1>0, <1>4 DEF SelectPlace, d
    <2>2. SelectToken(c, w, n + 1) = IF c = 0 THEN "STAR" ELSE IF Odd(n + 1) THEN "COMMA" ELSE "identifier"
      BY <1>0, <1>4 DEF SelectToken, d
    <2>3. SelectPlace(c, w, n + 1) = IF c = 0 THEN "from" ELSE IF Odd(n + 1) THEN "item" ELSE "moreItems"
      BY <1>0, <1>4 DEF SelectPlace, d
    <2>4. c = 0 => n = 1
      BY <1>0, <1>4
    <2>. QED
      BY <1>2, <2>1, <2>2, <2>3, <2>4 DEF Edge
  <1>5. CASE n = d
    BY <1>0, <1>2, <1>5 DEF SelectPlace, SelectToken, Edge, d
  <1>6. CASE n > d
    BY <1>0, <1>1, <1>6 DEF SelectPlace, SelectToken, Edge, d
  <1>. QED
    BY <1>0, <1>3, <1>4, <1>5, <1>6

\* A statement of the grammar, by the number of its items.
Plans == [insert : BOOLEAN, columns : 0..MaxItems, values : 1..MaxItems, where : BOOLEAN]
Insert(c, v) == [insert |-> TRUE, columns |-> c, values |-> v, where |-> FALSE]
Select(c, w) == [insert |-> FALSE, columns |-> c, values |-> 1, where |-> w]
Text(x) == IF x.insert THEN InsertText(x.columns, x.values) ELSE SelectText(x.columns, x.where)
Size(x) == IF x.insert THEN InsertSize(x.columns, x.values) ELSE SelectSize(x.columns, x.where)
TokenOf(x, i) ==
    IF x.insert THEN InsertToken(x.columns, x.values, i) ELSE SelectToken(x.columns, x.where, i)
PlaceIn(x, n) ==
    IF x.insert THEN InsertPlace(x.columns, x.values, n) ELSE SelectPlace(x.columns, x.where, n)

\* The plans of an INSERT and of a SELECT.
LEMMA PlanOf ==
    /\ \A c \in 0..MaxItems, v \in 1..MaxItems : Insert(c, v) \in Plans
    /\ \A c \in 0..MaxItems, w \in BOOLEAN : Select(c, w) \in Plans
    /\ \A c, v, i : /\ Text(Insert(c, v)) = InsertText(c, v)
                    /\ Size(Insert(c, v)) = InsertSize(c, v)
                    /\ TokenOf(Insert(c, v), i) = InsertToken(c, v, i)
                    /\ PlaceIn(Insert(c, v), i) = InsertPlace(c, v, i)
    /\ \A c, w, i : /\ Text(Select(c, w)) = SelectText(c, w)
                    /\ Size(Select(c, w)) = SelectSize(c, w)
                    /\ TokenOf(Select(c, w), i) = SelectToken(c, w, i)
                    /\ PlaceIn(Select(c, w), i) = SelectPlace(c, w, i)
  BY ItemsAre DEF Plans, Insert, Select, Text, Size, TokenOf, PlaceIn

\* A plan is one of an INSERT or of a SELECT.
LEMMA PlanIs ==
    ASSUME NEW x \in Plans
    PROVE  \/ \E c \in 0..MaxItems, v \in 1..MaxItems :
                 /\ Text(x) = InsertText(c, v) /\ Size(x) = InsertSize(c, v)
                 /\ \A i : TokenOf(x, i) = InsertToken(c, v, i) /\ PlaceIn(x, i) = InsertPlace(c, v, i)
           \/ \E c \in 0..MaxItems, w \in BOOLEAN :
                 /\ Text(x) = SelectText(c, w) /\ Size(x) = SelectSize(c, w)
                 /\ \A i : TokenOf(x, i) = SelectToken(c, w, i) /\ PlaceIn(x, i) = SelectPlace(c, w, i)
  BY ItemsAre DEF Plans, Text, Size, TokenOf, PlaceIn

\* The sentences of the grammar are the texts of the plans.
LEMMA SentencesArePlans == Sentences = {Text(x) : x \in Plans}
  <1>1. ASSUME NEW s \in Sentences PROVE \E x \in Plans : s = Text(x)
    BY <1>1, PlanOf DEF Sentences
  <1>2. ASSUME NEW x \in Plans PROVE Text(x) \in Sentences
    BY PlanIs DEF Sentences
  <1>. QED
    BY <1>1, <1>2

\* Along every sentence each token is an edge of the parser.
LEMMA Walk ==
    ASSUME NEW x \in Plans, NEW n \in Nat, n < Size(x)
    PROVE  Edge(PlaceIn(x, n), TokenOf(x, n + 1), PlaceIn(x, n + 1))
  <1>. USE ItemsAre
  <1>1. CASE \E c \in 0..MaxItems, v \in 1..MaxItems :
                 /\ Size(x) = InsertSize(c, v)
                 /\ \A i : TokenOf(x, i) = InsertToken(c, v, i) /\ PlaceIn(x, i) = InsertPlace(c, v, i)
    BY <1>1, InsertWalk
  <1>2. CASE \E c \in 0..MaxItems, w \in BOOLEAN :
                 /\ Size(x) = SelectSize(c, w)
                 /\ \A i : TokenOf(x, i) = SelectToken(c, w, i) /\ PlaceIn(x, i) = SelectPlace(c, w, i)
    BY <1>2, SelectWalk
  <1>. QED
    BY <1>1, <1>2, PlanIs

\* A token leads from one place to one place only.
LEMMA Deterministic ==
    ASSUME NEW p, NEW k, NEW q, NEW r, Edge(p, k, q), Edge(p, k, r)
    PROVE  q = r
  BY DEF Edge

\* The length of a sentence.
LEMMA SizeType ==
    /\ \A c \in Nat, v \in Nat \ {0} : InsertSize(c, v) \in Nat /\ InsertSize(c, v) >= 7 /\ BeforeValues(c) \in Nat
    /\ \A c \in Nat, w \in BOOLEAN : SelectSize(c, w) \in Nat /\ SelectSize(c, w) >= 4 /\ BeforeFrom(c) \in Nat
    /\ \A x \in Plans : Size(x) \in Nat /\ Size(x) >= 4
  <1>1. \A c \in Nat : BeforeValues(c) \in Nat /\ BeforeValues(c) >= 3
    BY DEF BeforeValues
  <1>2. \A c \in Nat, v \in Nat \ {0} : InsertSize(c, v) \in Nat /\ InsertSize(c, v) >= 7 /\ BeforeValues(c) \in Nat
    BY <1>1 DEF InsertSize
  <1>3. \A c \in Nat : BeforeFrom(c) \in Nat /\ BeforeFrom(c) >= 2
    BY DEF BeforeFrom
  <1>4. \A c \in Nat, w \in BOOLEAN : SelectSize(c, w) \in Nat /\ SelectSize(c, w) >= 4 /\ BeforeFrom(c) \in Nat
    BY <1>3 DEF SelectSize
  <1>5. \A x \in Plans : Size(x) \in Nat /\ Size(x) >= 4
    BY <1>2, <1>4, PlanIs, ItemsAre
  <1>. QED
    BY <1>2, <1>4, <1>5

\* Plans that agree on what was read are at one place.
LEMMA SamePlace ==
    ASSUME NEW x \in Plans, NEW y \in Plans, NEW n \in Nat, n <= Size(x), n <= Size(y),
           \A i \in 1..n : TokenOf(x, i) = TokenOf(y, i)
    PROVE  PlaceIn(x, n) = PlaceIn(y, n)
  <1>. DEFINE S == {m \in Nat : m <= n => PlaceIn(x, m) = PlaceIn(y, m)}
  <1>1. 0 \in S
    BY DEF PlaceIn, InsertPlace, SelectPlace
  <1>2. ASSUME NEW m \in Nat, m \in S PROVE m + 1 \in S
    <2>. SUFFICES ASSUME m + 1 <= n PROVE PlaceIn(x, m + 1) = PlaceIn(y, m + 1)
      OBVIOUS
    <2>1. m < Size(x) /\ m < Size(y) /\ TokenOf(x, m + 1) = TokenOf(y, m + 1) /\ PlaceIn(x, m) = PlaceIn(y, m)
      BY SMTT(30), <1>2, SizeType
    <2>2. /\ Edge(PlaceIn(x, m), TokenOf(x, m + 1), PlaceIn(x, m + 1))
          /\ Edge(PlaceIn(y, m), TokenOf(y, m + 1), PlaceIn(y, m + 1))
      BY <2>1, Walk
    <2>. QED
      BY <2>1, <2>2, Deterministic
  <1>3. Nat \subseteq S
    <2>. HIDE DEF S
    <2>. QED
      BY <1>1, <1>2, NatInductive
  <1>. QED
    BY <1>3

\* An INSERT with other numbers of items is the same up to where they matter.
LEMMA OtherColumns ==
    ASSUME NEW c \in Nat, NEW v \in Nat \ {0}, NEW e \in Nat, NEW u \in Nat \ {0}, NEW n \in Nat,
           \/ n < BeforeValues(c) /\ n < BeforeValues(e)
           \/ n <= 3
           \/ c = e /\ n < InsertSize(c, v) /\ n < InsertSize(c, u)
    PROVE  \A i \in 1..n : InsertToken(c, v, i) = InsertToken(e, u, i)
  <1>1. BeforeValues(c) \in Nat /\ BeforeValues(c) >= 3 /\ BeforeValues(e) \in Nat /\ BeforeValues(e) >= 3
    BY DEF BeforeValues
  <1>. SUFFICES ASSUME NEW i \in 1..n PROVE InsertToken(c, v, i) = InsertToken(e, u, i)
    OBVIOUS
  <1>2. InsertSize(c, v) \in Nat /\ InsertSize(c, u) \in Nat
    BY SizeType
  <1>. QED
    BY <1>1, <1>2 DEF InsertToken

\* A SELECT with another number of items is the same up to where it matters.
LEMMA OtherItems ==
    ASSUME NEW c \in Nat, NEW w \in BOOLEAN, NEW e \in Nat, NEW u \in BOOLEAN, NEW n \in Nat,
           \/ c > 0 /\ e > 0 /\ n <= BeforeFrom(c) /\ n <= BeforeFrom(e)
           \/ n <= 1
           \/ c = e
    PROVE  \A i \in 1..n : SelectToken(c, w, i) = SelectToken(e, u, i)
  <1>1. BeforeFrom(c) \in Nat /\ BeforeFrom(e) \in Nat
    BY DEF BeforeFrom
  <1>. SUFFICES ASSUME NEW i \in 1..n PROVE SelectToken(c, w, i) = SelectToken(e, u, i)
    OBVIOUS
  <1>. QED
    BY <1>1 DEF SelectToken

Continues(x, n, k, q) ==
    \E y \in Plans : /\ n + 1 <= Size(y)
                     /\ \A i \in 1..n : TokenOf(y, i) = TokenOf(x, i)
                     /\ TokenOf(y, n + 1) = k /\ PlaceIn(y, n + 1) = q

\* What a parser of an INSERT can go on with, some INSERT goes on with.
LEMMA ExtendInsert ==
    ASSUME NEW x \in Plans, NEW c \in 0..MaxItems, NEW v \in 1..MaxItems,
           Size(x) = InsertSize(c, v),
           \A i : TokenOf(x, i) = InsertToken(c, v, i) /\ PlaceIn(x, i) = InsertPlace(c, v, i),
           NEW n \in 1..MaxTokens - 1, n <= Size(x),
           NEW k, NEW q, Edge(PlaceIn(x, n), k, q)
    PROVE  Continues(x, n, k, q)
  <1>. DEFINE b == BeforeValues(c)
  <1>0. /\ c \in Nat /\ v \in Nat \ {0} /\ n \in Nat /\ MaxItems \in Nat /\ n + 1 <= MaxTokens /\ MaxTokens \in Nat
        /\ b \in Nat /\ ((b = 3 /\ c = 0) \/ (b >= 6 /\ b = 2 * c + 4))
        /\ Size(x) = b + 2 * v + 2
    BY ItemsAre, MaxTokensAssumption DEF BeforeValues, InsertSize
  <1>1. ASSUME NEW e \in 0..MaxItems, NEW u \in 1..MaxItems, n < InsertSize(e, u),
               \/ n < b /\ n < BeforeValues(e)
               \/ n <= 3
               \/ c = e /\ n < InsertSize(c, v),
               InsertToken(e, u, n + 1) = k
        PROVE  Continues(x, n, k, q)
    <2>0. e \in Nat /\ u \in Nat \ {0} /\ InsertSize(e, u) \in Nat
      <3>1. e \in Nat /\ u \in Nat \ {0}
        BY <1>0, <1>1
      <3>. QED
        BY <3>1, SizeType
    <2>1. \A i \in 1..n : InsertToken(c, v, i) = InsertToken(e, u, i)
      <3>1. \/ n < BeforeValues(c) /\ n < BeforeValues(e)
            \/ n <= 3
            \/ c = e /\ n < InsertSize(c, v) /\ n < InsertSize(c, u)
        BY <1>1
      <3>2. c \in Nat /\ v \in Nat \ {0} /\ n \in Nat
        BY <1>0
      <3>3. CASE n < BeforeValues(c) /\ n < BeforeValues(e)
        BY <2>0, <3>2, <3>3, OtherColumns
      <3>4. CASE n <= 3
        BY <2>0, <3>2, <3>4, OtherColumns
      <3>5. CASE c = e /\ n < InsertSize(c, v) /\ n < InsertSize(c, u)
        BY <2>0, <3>2, <3>5, OtherColumns
      <3>. QED
        BY <3>1, <3>3, <3>4, <3>5
    <2>. DEFINE y == Insert(e, u)
    <2>2. /\ y \in Plans /\ Size(y) = InsertSize(e, u)
          /\ \A i : TokenOf(y, i) = InsertToken(e, u, i) /\ PlaceIn(y, i) = InsertPlace(e, u, i)
      BY PlanOf
    <2>. HIDE DEF y
    <2>3. n < Size(y) /\ n <= Size(y) /\ n + 1 <= Size(y)
      BY <1>0, <1>1, <2>0, <2>2
    <2>4. \A i \in 1..n : TokenOf(y, i) = TokenOf(x, i)
      BY <2>1, <2>2
    <2>5. PlaceIn(y, n) = PlaceIn(x, n)
      BY <1>0, <2>2, <2>3, <2>4, SamePlace
    <2>6. TokenOf(y, n + 1) = k
      BY <1>1, <2>2
    <2>7. Edge(PlaceIn(x, n), k, PlaceIn(y, n + 1))
      BY <1>0, <2>2, <2>3, <2>5, <2>6, Walk
    <2>8. PlaceIn(y, n + 1) = q
      BY <2>7, Deterministic
    <2>. QED
      BY <2>2, <2>3, <2>4, <2>6, <2>8 DEF Continues
  <1>2. CASE n < Size(x) /\ k = InsertToken(c, v, n + 1)
    BY <1>0, <1>1, <1>2
  <1>. SUFFICES ASSUME ~(n < Size(x) /\ k = InsertToken(c, v, n + 1)) PROVE Continues(x, n, k, q)
    BY <1>2
  <1>3. CASE n < Size(x) /\ \A r, s : Edge(PlaceIn(x, n), r, s) => r = k
    BY <1>0, <1>3, Walk
  <1>. SUFFICES ASSUME ~(n < Size(x) /\ \A r, s : Edge(PlaceIn(x, n), r, s) => r = k)
                PROVE  Continues(x, n, k, q)
    BY <1>3
  <1>4. n = Size(x) => InsertPlace(c, v, n) = "end"
    BY <1>0 DEF InsertPlace
  <1>5. n < Size(x) /\ InsertPlace(c, v, n) \in {"afterTable", "moreColumns", "moreValues"}
    <2>1. n < Size(x)
      BY <1>0, <1>4 DEF Edge
    <2>2. PICK r, s : Edge(PlaceIn(x, n), r, s) /\ r # k
      BY <2>1
    <2>3. Edge(InsertPlace(c, v, n), r, s) /\ Edge(InsertPlace(c, v, n), k, q)
      BY <2>2
    <2>4. InsertPlace(c, v, n) \in {"start", "afterTable", "moreColumns", "moreValues", "items", "moreItems"}
      BY <2>2, <2>3 DEF Edge
    <2>. QED
      BY <1>0, <2>1, <2>4 DEF InsertPlace
  <1>6. CASE InsertPlace(c, v, n) = "afterTable"
    <2>1. n = 3
      BY <1>0, <1>6 DEF InsertPlace
    <2>2. CASE k = "VALUES"
      <3>1. 0 \in 0..MaxItems /\ InsertToken(0, v, n + 1) = k /\ n < InsertSize(0, v)
        BY <1>0, <2>1, <2>2 DEF InsertToken, InsertSize, BeforeValues
      <3>. QED
        BY <1>1, <2>1, <3>1
    <2>3. CASE k = "LPAREN"
      <3>1. 1 \in 0..MaxItems /\ InsertToken(1, v, n + 1) = k /\ n < InsertSize(1, v)
        BY <1>0, <2>1, <2>3, ItemsAre DEF InsertToken, InsertSize, BeforeValues
      <3>. QED
        BY <1>1, <2>1, <3>1
    <2>. QED
      BY <1>6, <2>2, <2>3 DEF Edge
  <1>7. CASE InsertPlace(c, v, n) = "moreColumns"
    <2>1. n > 3 /\ n < b /\ Odd(n)
      BY <1>0, <1>7 DEF InsertPlace
    <2>2. CASE k = "COMMA"
      <3>1. n + 1 = b
        BY <1>0, <1>5, <2>1, <2>2, Parity DEF InsertToken
      <3>2. c + 1 <= MaxItems
        BY <1>0, <2>1, <3>1, ItemsAre
      <3>3. BeforeValues(c + 1) = b + 2
        BY <1>0, <2>1 DEF BeforeValues
      <3>4. n < InsertSize(c + 1, v)
        BY <1>0, <2>1, <3>3 DEF InsertSize
      <3>5. ~Odd(n + 1)
        BY <1>0, <2>1 DEF Odd
      <3>6. InsertToken(c + 1, v, n + 1) = k
        BY <1>0, <2>1, <2>2, <3>1, <3>3, <3>5 DEF InsertToken
      <3>. QED
        BY <1>0, <1>1, <2>1, <3>2, <3>3, <3>4, <3>6
    <2>3. CASE k = "RPAREN"
      <3>0. n \in Int
        BY <1>0
      <3>1. PICK j \in Int : n = 2 * j - 1
        BY <2>1, <3>0, Parity
      <3>2. j - 2 \in 0..MaxItems /\ j - 2 > 0
        BY <1>0, <2>1, <3>1
      <3>3. BeforeValues(j - 2) = n + 1
        BY <3>1, <3>2 DEF BeforeValues
      <3>4. n < InsertSize(j - 2, v)
        BY <1>0, <3>3 DEF InsertSize
      <3>5. InsertToken(j - 2, v, n + 1) = k
        BY <1>0, <2>1, <2>3, <3>3 DEF InsertToken
      <3>. QED
        BY <1>0, <1>1, <2>1, <3>2, <3>3, <3>4, <3>5
    <2>. QED
      BY <1>7, <2>2, <2>3 DEF Edge
  <1>8. CASE InsertPlace(c, v, n) = "moreValues"
    <2>1. n > b + 2 /\ n < Size(x) /\ Odd(n - b) /\ n > 3
      BY <1>0, <1>5, <1>8 DEF InsertPlace, Odd
    <2>2. CASE k = "COMMA"
      <3>1. n + 1 = Size(x)
        <4>1. ~Odd(n + 1 - b)
          BY <1>0, <2>1, Parity DEF Odd
        <4>. QED
          BY <1>0, <1>5, <2>1, <2>2, <4>1 DEF InsertToken
      <3>2. v + 1 <= MaxItems
        BY <1>0, <2>1, <3>1, ItemsAre
      <3>3. InsertSize(c, v + 1) = Size(x) + 2
        BY <1>0 DEF InsertSize
      <3>4. ~Odd(n + 1 - b)
        BY <1>0, <2>1 DEF Odd
      <3>5. InsertToken(c, v + 1, n + 1) = k
        BY <1>0, <2>1, <2>2, <3>1, <3>3, <3>4 DEF InsertToken
      <3>. QED
        BY <1>0, <1>1, <2>1, <3>1, <3>2, <3>3, <3>5
    <2>3. CASE k = "RPAREN"
      <3>0. n - b \in Int
        BY <1>0
      <3>1. PICK j \in Int : n - b = 2 * j - 1
        BY <2>1, <3>0, Parity
      <3>2. j - 1 \in 1..MaxItems
        BY <1>0, <2>1, <3>1
      <3>3. InsertSize(c, j - 1) = n + 1
        BY <1>0, <3>1, <3>2 DEF InsertSize
      <3>5. InsertToken(c, j - 1, n + 1) = k
        BY <1>0, <2>1, <2>3, <3>3 DEF InsertToken
      <3>. QED
        BY <1>0, <1>1, <2>1, <3>2, <3>3, <3>5
    <2>. QED
      BY <1>8, <2>2, <2>3 DEF Edge
  <1>. QED
    BY <1>5, <1>6, <1>7, <1>8

\* The same of a SELECT.
LEMMA ExtendSelect ==
    ASSUME NEW x \in Plans, NEW c \in 0..MaxItems, NEW w \in BOOLEAN,
           Size(x) = SelectSize(c, w),
           \A i : TokenOf(x, i) = SelectToken(c, w, i) /\ PlaceIn(x, i) = SelectPlace(c, w, i),
           NEW n \in 1..MaxTokens - 1, n <= Size(x),
           NEW k, NEW q, Edge(PlaceIn(x, n), k, q)
    PROVE  Continues(x, n, k, q)
  <1>. DEFINE d == BeforeFrom(c)
  <1>0. /\ c \in Nat /\ n \in Nat /\ MaxItems \in Nat /\ n + 1 <= MaxTokens /\ MaxTokens \in Nat
        /\ d \in Nat /\ ((d = 2 /\ c = 0) \/ (d >= 2 /\ c > 0 /\ d = 2 * c))
        /\ Size(x) = IF w THEN d + 6 ELSE d + 2
    BY ItemsAre, MaxTokensAssumption DEF BeforeFrom, SelectSize
  <1>1. ASSUME NEW e \in 0..MaxItems, NEW u \in BOOLEAN, n < SelectSize(e, u),
               \/ c > 0 /\ e > 0 /\ n <= d /\ n <= BeforeFrom(e)
               \/ n <= 1
               \/ c = e,
               SelectToken(e, u, n + 1) = k
        PROVE  Continues(x, n, k, q)
    <2>0. e \in Nat /\ SelectSize(e, u) \in Nat
      <3>1. e \in Nat
        BY <1>0, <1>1
      <3>. QED
        BY <3>1, SizeType
    <2>1. \A i \in 1..n : SelectToken(c, w, i) = SelectToken(e, u, i)
      <3>1. \/ c > 0 /\ e > 0 /\ n <= BeforeFrom(c) /\ n <= BeforeFrom(e)
            \/ n <= 1
            \/ c = e
        BY <1>1
      <3>2. c \in Nat /\ n \in Nat
        BY <1>0
      <3>3. CASE c > 0 /\ e > 0 /\ n <= BeforeFrom(c) /\ n <= BeforeFrom(e)
        BY <2>0, <3>2, <3>3, OtherItems
      <3>4. CASE n <= 1
        BY <2>0, <3>2, <3>4, OtherItems
      <3>5. CASE c = e
        BY <2>0, <3>2, <3>5, OtherItems
      <3>. QED
        BY <3>1, <3>3, <3>4, <3>5
    <2>. DEFINE y == Select(e, u)
    <2>2. /\ y \in Plans /\ Size(y) = SelectSize(e, u)
          /\ \A i : TokenOf(y, i) = SelectToken(e, u, i) /\ PlaceIn(y, i) = SelectPlace(e, u, i)
      BY PlanOf
    <2>. HIDE DEF y
    <2>3. n < Size(y) /\ n <= Size(y) /\ n + 1 <= Size(y)
      BY <1>0, <1>1, <2>0, <2>2
    <2>4. \A i \in 1..n : TokenOf(y, i) = TokenOf(x, i)
      BY <2>1, <2>2
    <2>5. PlaceIn(y, n) = PlaceIn(x, n)
      BY <1>0, <2>2, <2>3, <2>4, SamePlace
    <2>6. TokenOf(y, n + 1) = k
      BY <1>1, <2>2
    <2>7. Edge(PlaceIn(x, n), k, PlaceIn(y, n + 1))
      BY <1>0, <2>2, <2>3, <2>5, <2>6, Walk
    <2>8. PlaceIn(y, n + 1) = q
      BY <2>7, Deterministic
    <2>. QED
      BY <2>2, <2>3, <2>4, <2>6, <2>8 DEF Continues
  <1>2. CASE n < Size(x) /\ k = SelectToken(c, w, n + 1)
    BY <1>0, <1>1, <1>2
  <1>. SUFFICES ASSUME ~(n < Size(x) /\ k = SelectToken(c, w, n + 1)) PROVE Continues(x, n, k, q)
    BY <1>2
  <1>3. CASE n < Size(x) /\ \A r, s : Edge(PlaceIn(x, n), r, s) => r = k
    BY <1>0, <1>3, Walk
  <1>. SUFFICES ASSUME ~(n < Size(x) /\ \A r, s : Edge(PlaceIn(x, n), r, s) => r = k)
                PROVE  Continues(x, n, k, q)
    BY <1>3
  <1>4. n = Size(x) => SelectPlace(c, w, n) = IF w THEN "end" ELSE "where"
    BY <1>0 DEF SelectPlace
  <1>5. SelectPlace(c, w, n) \in {"items", "moreItems", "where"}
    <2>1. n < Size(x) \/ SelectPlace(c, w, n) = "where"
      BY <1>0, <1>4 DEF Edge
    <2>2. CASE n < Size(x)
      <3>2. PICK r, s : Edge(PlaceIn(x, n), r, s) /\ r # k
        BY <2>2
      <3>3. Edge(SelectPlace(c, w, n), r, s) /\ Edge(SelectPlace(c, w, n), k, q)
        BY <3>2
      <3>4. SelectPlace(c, w, n) \in {"start", "afterTable", "moreColumns", "moreValues", "items", "moreItems"}
        BY <3>2, <3>3 DEF Edge
      <3>. QED
        BY <1>0, <3>4 DEF SelectPlace
    <2>. QED
      BY <2>1, <2>2
  <1>6. CASE SelectPlace(c, w, n) = "items"
    <2>1. n = 1
      BY <1>0, <1>6 DEF SelectPlace
    <2>2. CASE k = "STAR"
      <3>1. 0 \in 0..MaxItems /\ SelectToken(0, w, n + 1) = k /\ n < SelectSize(0, w)
        BY <1>0, <2>1, <2>2 DEF SelectToken, SelectSize, BeforeFrom
      <3>. QED
        BY <1>1, <2>1, <3>1
    <2>3. CASE k = "identifier"
      <3>0. ~Odd(2)
        BY DEF Odd
      <3>1. 1 \in 0..MaxItems /\ SelectToken(1, w, n + 1) = k /\ n < SelectSize(1, w)
        BY <1>0, <2>1, <2>3, <3>0, ItemsAre DEF SelectToken, SelectSize, BeforeFrom
      <3>. QED
        BY <1>1, <2>1, <3>1
    <2>. QED
      BY <1>6, <2>2, <2>3 DEF Edge
  <1>7. CASE SelectPlace(c, w, n) = "moreItems"
    <2>1. n > 1 /\ n <= d /\ ~Odd(n) /\ c > 0
      BY <1>0, <1>7 DEF SelectPlace
    <2>2. CASE k = "COMMA"
      <3>0. Odd(n + 1) /\ n < Size(x)
        BY <1>0, <2>1 DEF Odd
      <3>1. n = d
        BY <1>0, <2>1, <2>2, <3>0 DEF SelectToken
      <3>2. c + 1 <= MaxItems
        BY <1>0, <2>1, <3>1, ItemsAre
      <3>3. BeforeFrom(c + 1) = d + 2
        BY <1>0, <2>1 DEF BeforeFrom
      <3>4. n < SelectSize(c + 1, w)
        BY <1>0, <2>1, <3>3 DEF SelectSize
      <3>5. SelectToken(c + 1, w, n + 1) = k
        BY <1>0, <2>1, <2>2, <3>0, <3>1, <3>3 DEF SelectToken
      <3>. QED
        BY <1>0, <1>1, <2>1, <3>2, <3>3, <3>4, <3>5
    <2>3. CASE k = "FROM"
      <3>0. n \in Int
        BY <1>0
      <3>1. PICK j \in Int : n = 2 * j
        BY <2>1, <3>0, Parity
      <3>2. j \in 0..MaxItems /\ j > 0
        BY <1>0, <2>1, <3>1
      <3>3. BeforeFrom(j) = n
        BY <3>1, <3>2 DEF BeforeFrom
      <3>4. n < SelectSize(j, w)
        BY <1>0, <3>3 DEF SelectSize
      <3>5. SelectToken(j, w, n + 1) = k
        BY <1>0, <2>1, <2>3, <3>3 DEF SelectToken
      <3>. QED
        BY <1>0, <1>1, <2>1, <3>2, <3>3, <3>4, <3>5
    <2>. QED
      BY <1>7, <2>2, <2>3 DEF Edge
  <1>8. CASE SelectPlace(c, w, n) = "where"
    <2>1. n = d + 2 /\ k = "WHERE"
      BY <1>0, <1>8 DEF SelectPlace, Edge
    <2>2. SelectToken(c, TRUE, n + 1) = k /\ n < SelectSize(c, TRUE)
      BY <1>0, <2>1 DEF SelectToken, SelectSize
    <2>. QED
      BY <1>1, <2>2
  <1>. QED
    BY <1>5, <1>6, <1>7, <1>8

\* Whatever token the parser can go on with, the grammar can, within the bound.
LEMMA Extend ==
    ASSUME NEW x \in Plans, NEW n \in 0..MaxTokens - 1, n <= Size(x),
           NEW k, NEW q, Edge(PlaceIn(x, n), k, q)
    PROVE  Continues(x, n, k, q)
  <1>0. MaxTokens \in Nat /\ n \in Nat /\ MaxItems \in Nat /\ 1 <= MaxItems
    BY MaxTokensAssumption, ItemsAre
  <1>1. CASE n = 0
    <2>1. (k = "INSERT" /\ q = "into") \/ (k = "SELECT" /\ q = "items")
      BY <1>1 DEF PlaceIn, InsertPlace, SelectPlace, Edge
    <2>2. CASE k = "INSERT" /\ q = "into"
      <3>1. Insert(0, 1) \in Plans /\ 0 + 1 <= Size(Insert(0, 1))
        BY <1>0, PlanOf, SizeType
      <3>2. TokenOf(Insert(0, 1), 0 + 1) = "INSERT" /\ PlaceIn(Insert(0, 1), 0 + 1) = "into"
        BY PlanOf DEF InsertToken, InsertPlace
      <3>. QED
        BY <1>1, <2>2, <3>1, <3>2 DEF Continues
    <2>3. CASE k = "SELECT" /\ q = "items"
      <3>0. PICK w \in BOOLEAN : TRUE
        OBVIOUS
      <3>1. Select(0, w) \in Plans /\ 0 + 1 <= Size(Select(0, w))
        BY <1>0, PlanOf, SizeType
      <3>2. TokenOf(Select(0, w), 0 + 1) = "SELECT" /\ PlaceIn(Select(0, w), 0 + 1) = "items"
        BY PlanOf DEF SelectToken, SelectPlace
      <3>. QED
        BY <1>1, <2>3, <3>1, <3>2 DEF Continues
    <2>. QED
      BY <2>1, <2>2, <2>3
  <1>2. CASE n > 0
    <2>0. n \in 1..MaxTokens - 1
      BY <1>0, <1>2
    <2>1. CASE \E c \in 0..MaxItems, v \in 1..MaxItems :
                 /\ Size(x) = InsertSize(c, v)
                 /\ \A i : TokenOf(x, i) = InsertToken(c, v, i) /\ PlaceIn(x, i) = InsertPlace(c, v, i)
      BY <2>0, <2>1, ExtendInsert
    <2>2. CASE \E c \in 0..MaxItems, w \in BOOLEAN :
                 /\ Size(x) = SelectSize(c, w)
                 /\ \A i : TokenOf(x, i) = SelectToken(c, w, i) /\ PlaceIn(x, i) = SelectPlace(c, w, i)
      BY <2>0, <2>2, ExtendSelect
    <2>. QED
      BY <2>1, <2>2, PlanIs
  <1>. QED
    BY <1>0, <1>1, <1>2

\* A statement may end where its parser needs no more tokens, and nowhere else.
LEMMA EndPlace ==
    ASSUME NEW x \in Plans
    PROVE  PlaceIn(x, Size(x)) \in {"where", "end"}
  <1>1. CASE \E c \in 0..MaxItems, v \in 1..MaxItems :
               /\ Size(x) = InsertSize(c, v)
               /\ \A i : PlaceIn(x, i) = InsertPlace(c, v, i)
    <2>1. PICK c \in 0..MaxItems, v \in 1..MaxItems :
               Size(x) = InsertSize(c, v) /\ \A i : PlaceIn(x, i) = InsertPlace(c, v, i)
      BY <1>1
    <2>2. c \in Nat /\ v \in Nat \ {0}
      BY ItemsAre
    <2>3. BeforeValues(c) \in Nat /\ BeforeValues(c) >= 3 /\ InsertSize(c, v) = BeforeValues(c) + 2 * v + 2
      BY <2>2 DEF BeforeValues, InsertSize
    <2>. QED
      BY <2>1, <2>2, <2>3 DEF InsertPlace
  <1>2. CASE \E c \in 0..MaxItems, w \in BOOLEAN :
               /\ Size(x) = SelectSize(c, w)
               /\ \A i : PlaceIn(x, i) = SelectPlace(c, w, i)
    <2>1. PICK c \in 0..MaxItems, w \in BOOLEAN :
               Size(x) = SelectSize(c, w) /\ \A i : PlaceIn(x, i) = SelectPlace(c, w, i)
      BY <1>2
    <2>2. c \in Nat
      BY ItemsAre
    <2>3. BeforeFrom(c) \in Nat /\ BeforeFrom(c) >= 2
      BY <2>2 DEF BeforeFrom
    <2>. QED
      BY <2>1, <2>2, <2>3 DEF SelectPlace, SelectSize
  <1>. QED
    BY <1>1, <1>2, PlanIs

\* Where a statement may end, some sentence ends.
LEMMA Accept ==
    ASSUME NEW x \in Plans, NEW n \in Nat, n <= Size(x), PlaceIn(x, n) \in {"where", "end"}
    PROVE  \E y \in Plans : Size(y) = n /\ \A i \in 1..n : TokenOf(y, i) = TokenOf(x, i)
  <1>1. CASE n = Size(x)
    BY <1>1
  <1>2. CASE n < Size(x)
    <2>1. PlaceIn(x, n) = "where"
      BY <1>2, Walk DEF Edge
    <2>2. CASE \E c \in 0..MaxItems, v \in 1..MaxItems : \A i : PlaceIn(x, i) = InsertPlace(c, v, i)
      BY <2>1, <2>2 DEF InsertPlace
    <2>3. CASE \E c \in 0..MaxItems, w \in BOOLEAN :
                 /\ Size(x) = SelectSize(c, w)
                 /\ \A i : TokenOf(x, i) = SelectToken(c, w, i) /\ PlaceIn(x, i) = SelectPlace(c, w, i)
      <3>1. PICK c \in 0..MaxItems, w \in BOOLEAN :
                 /\ Size(x) = SelectSize(c, w)
                 /\ \A i : TokenOf(x, i) = SelectToken(c, w, i) /\ PlaceIn(x, i) = SelectPlace(c, w, i)
        BY <2>3
      <3>2. c \in Nat
        BY ItemsAre
      <3>3. n = BeforeFrom(c) + 2
        BY <2>1, <3>1 DEF SelectPlace
      <3>4. SelectSize(c, FALSE) = n
        BY <3>3 DEF SelectSize
      <3>5. \A i \in 1..n : SelectToken(c, w, i) = SelectToken(c, FALSE, i)
        BY ZenonT(60), <3>2, OtherItems
      <3>6. /\ Select(c, FALSE) \in Plans /\ Size(Select(c, FALSE)) = n
            /\ \A i \in 1..n : TokenOf(Select(c, FALSE), i) = TokenOf(x, i)
        BY <3>1, <3>4, <3>5, PlanOf
      <3>. QED
        BY <3>6
    <2>. QED
      BY <2>2, <2>3, PlanIs
  <1>3. Size(x) \in Nat
    BY SizeType
  <1>. QED
    BY <1>1, <1>2, <1>3

Classes == Kinds \cup {"EOF", "literal"}

\* The tokens of two sequences, one behind the other.
LEMMA Joined ==
    ASSUME NEW s \in Seq(Classes), NEW t \in Seq(Classes)
    PROVE  /\ s \o t \in Seq(Classes) /\ Len(s \o t) = Len(s) + Len(t)
           /\ \A i \in 1..Len(s) : (s \o t)[i] = s[i]
           /\ \A i \in Len(s) + 1..Len(s) + Len(t) : (s \o t)[i] = t[i - Len(s)]
  OBVIOUS

\* The tokens of a list.
LEMMA ListIs ==
    ASSUME NEW item \in Classes, NEW n \in Nat \ {0}
    PROVE  /\ ListOf(item, n) \in Seq(Classes) /\ Len(ListOf(item, n)) = 2 * n - 1
           /\ \A i \in 1..2 * n - 1 : ListOf(item, n)[i] = IF Odd(i) THEN item ELSE "COMMA"
  <1>1. \A i \in 1..2 * n - 1 : ListOf(item, n)[i] = IF Odd(i) THEN item ELSE "COMMA"
    BY DEF ListOf, Odd
  <1>2. 2 * n - 1 \in Nat
    OBVIOUS
  <1>3. \A i : (IF i % 2 = 1 THEN item ELSE "COMMA") \in Classes
    BY DEF Classes, Kinds, Symbols
  <1>4. ListOf(item, n) \in [1..2 * n - 1 -> Classes]
    BY <1>3, Zenon DEF ListOf
  <1>5. ListOf(item, n) \in Seq(Classes) /\ Len(ListOf(item, n)) = 2 * n - 1
    BY <1>2, <1>4
  <1>. QED
    BY <1>1, <1>5

\* InsertText, token by token.
LEMMA InsertTextIs ==
    ASSUME NEW c \in Nat, NEW v \in Nat \ {0}
    PROVE  /\ InsertText(c, v) \in Seq(Classes) /\ Len(InsertText(c, v)) = InsertSize(c, v)
           /\ \A i \in 1..InsertSize(c, v) : InsertText(c, v)[i] = InsertToken(c, v, i)
  <1>. DEFINE b == BeforeValues(c)
              intro == <<"INSERT", "INTO", "identifier">>
              list == ListOf("identifier", c)
              columns == IF c = 0 THEN <<>> ELSE <<"LPAREN">> \o list \o <<"RPAREN">>
              open == <<"VALUES", "LPAREN">>
              values == ListOf("literal", v)
              close == <<"RPAREN">>
  <1>0. b \in Nat /\ ((c = 0 /\ b = 3) \/ (c > 0 /\ b >= 6 /\ b = 2 * c + 4)) /\ InsertSize(c, v) = b + 2 * v + 2
    BY DEF BeforeValues, InsertSize
  <1>1. intro \in Seq(Classes) /\ open \in Seq(Classes) /\ close \in Seq(Classes) /\ <<"LPAREN">> \in Seq(Classes)
    <2>1. {"INSERT", "INTO", "identifier", "VALUES", "LPAREN", "RPAREN"} \subseteq Classes
      BY DEF Classes, Kinds, Symbols, Keywords
    <2>. QED
      BY <2>1
  <1>2. /\ Len(intro) = 3 /\ intro[1] = "INSERT" /\ intro[2] = "INTO" /\ intro[3] = "identifier"
        /\ Len(open) = 2 /\ open[1] = "VALUES" /\ open[2] = "LPAREN"
        /\ Len(close) = 1 /\ close[1] = "RPAREN"
    <2>1. Len(intro) = 3 /\ intro[1] = "INSERT" /\ intro[2] = "INTO" /\ intro[3] = "identifier"
      OBVIOUS
    <2>2. Len(open) = 2 /\ open[1] = "VALUES" /\ open[2] = "LPAREN"
      OBVIOUS
    <2>3. Len(close) = 1 /\ close[1] = "RPAREN"
      OBVIOUS
    <2>. QED
      BY <2>1, <2>2, <2>3
  <1>3. /\ columns \in Seq(Classes) /\ Len(columns) = b - 3
        /\ \A i \in 1..b - 3 : columns[i] = IF i = 1 THEN "LPAREN" ELSE IF i = b - 3 THEN "RPAREN"
                                            ELSE IF Odd(i + 3) THEN "identifier" ELSE "COMMA"
    <2>1. CASE c = 0
      BY <1>0, <2>1
    <2>2. CASE c > 0
      <3>1. columns = (<<"LPAREN">> \o list) \o close
        BY <2>2
      <3>2. /\ list \in Seq(Classes) /\ Len(list) = 2 * c - 1
            /\ \A i \in 1..2 * c - 1 : list[i] = IF Odd(i) THEN "identifier" ELSE "COMMA"
        <4>1. c \in Nat \ {0} /\ "identifier" \in Classes
          BY <2>2 DEF Classes, Kinds
        <4>. QED
          BY <4>1, ListIs
      <3>. DEFINE head == <<"LPAREN">> \o list
      <3>. HIDE DEF list, close, columns
      <3>3. /\ head \in Seq(Classes) /\ Len(head) = 2 * c /\ head[1] = "LPAREN"
            /\ \A i \in 2..2 * c : head[i] = list[i - 1]
        BY <1>1, <2>2, <3>2
      <3>. HIDE DEF head
      <3>4. columns = head \o close
        BY <3>1 DEF head
      <3>5. /\ columns \in Seq(Classes) /\ Len(columns) = 2 * c + 1
            /\ \A i \in 1..2 * c : columns[i] = head[i]
            /\ columns[2 * c + 1] = "RPAREN"
        <4>1. close \in Seq(Classes) /\ Len(close) = 1 /\ close[1] = "RPAREN" /\ 2 * c \in Nat
          BY <1>1, <1>2
        <4>2. /\ columns \in Seq(Classes) /\ Len(columns) = Len(head) + Len(close)
              /\ \A i \in 1..Len(head) : columns[i] = head[i]
              /\ \A i \in Len(head) + 1..Len(head) + Len(close) : columns[i] = close[i - Len(head)]
          BY <3>3, <3>4, <4>1, Joined
        <4>. QED
          BY <3>3, <4>1, <4>2
      <3>6. ASSUME NEW i \in 1..b - 3, i # 1, i # b - 3
            PROVE  columns[i] = IF Odd(i + 3) THEN "identifier" ELSE "COMMA"
        <4>1. i \in 2..2 * c /\ i - 1 \in 1..2 * c - 1 /\ (Odd(i + 3) <=> Odd(i - 1))
          BY <1>0, <2>2, <3>6 DEF Odd
        <4>2. columns[i] = list[i - 1]
          BY <3>3, <3>5, <4>1
        <4>. QED
          BY <3>2, <4>1, <4>2
      <3>. QED
        BY SMTT(30), <1>0, <2>2, <3>3, <3>5, <3>6
    <2>. QED
      BY <2>1, <2>2
  <1>4. /\ values \in Seq(Classes) /\ Len(values) = 2 * v - 1
        /\ \A i \in 1..2 * v - 1 : values[i] = IF Odd(i) THEN "literal" ELSE "COMMA"
    <2>1. "literal" \in Classes
      BY DEF Classes
    <2>. QED
      BY <2>1, ListIs
  <1>5. InsertText(c, v) = (((intro \o columns) \o open) \o values) \o close
    BY Zenon DEF InsertText
  <1>. DEFINE t1 == intro \o columns
              t2 == t1 \o open
              t3 == t2 \o values
              t4 == t3 \o close
  <1>. HIDE DEF intro, columns, open, values, close, b
  <1>6. /\ t1 \in Seq(Classes) /\ Len(t1) = b
        /\ \A i \in 1..3 : t1[i] = intro[i]
        /\ \A i \in 4..b : t1[i] = columns[i - 3]
    <2>1. /\ t1 \in Seq(Classes) /\ Len(t1) = Len(intro) + Len(columns)
          /\ \A i \in 1..Len(intro) : t1[i] = intro[i]
          /\ \A i \in Len(intro) + 1..Len(intro) + Len(columns) : t1[i] = columns[i - Len(intro)]
      BY <1>1, <1>3, Joined
    <2>. HIDE DEF t1
    <2>2. Len(intro) + Len(columns) = b
      BY <1>0, <1>2, <1>3
    <2>. QED
      BY <1>2, <2>1, <2>2
  <1>. HIDE DEF t1
  <1>7. /\ t2 \in Seq(Classes) /\ Len(t2) = b + 2
        /\ \A i \in 1..b : t2[i] = t1[i]
        /\ \A i \in b + 1..b + 2 : t2[i] = open[i - b]
    <2>1. /\ t2 \in Seq(Classes) /\ Len(t2) = Len(t1) + Len(open)
          /\ \A i \in 1..Len(t1) : t2[i] = t1[i]
          /\ \A i \in Len(t1) + 1..Len(t1) + Len(open) : t2[i] = open[i - Len(t1)]
      BY <1>1, <1>6, Joined
    <2>. HIDE DEF t2
    <2>. QED
      BY <1>2, <1>6, <2>1
  <1>. HIDE DEF t2
  <1>8. /\ t3 \in Seq(Classes) /\ Len(t3) = b + 2 * v + 1
        /\ \A i \in 1..b + 2 : t3[i] = t2[i]
        /\ \A i \in b + 3..b + 2 * v + 1 : t3[i] = values[i - b - 2]
    <2>1. /\ t3 \in Seq(Classes) /\ Len(t3) = Len(t2) + Len(values)
          /\ \A i \in 1..Len(t2) : t3[i] = t2[i]
          /\ \A i \in Len(t2) + 1..Len(t2) + Len(values) : t3[i] = values[i - Len(t2)]
      BY <1>4, <1>7, Joined
    <2>. HIDE DEF t3
    <2>2. Len(t2) + 1 = b + 3 /\ Len(t2) + Len(values) = b + 2 * v + 1
      BY <1>0, <1>4, <1>7
    <2>3. \A i \in b + 3..b + 2 * v + 1 : i - Len(t2) = i - b - 2
      BY <1>0, <1>7
    <2>4. \A i \in b + 3..b + 2 * v + 1 : t3[i] = values[i - b - 2]
      BY <2>1, <2>2, <2>3
    <2>. QED
      BY <1>7, <2>1, <2>2, <2>4
  <1>. HIDE DEF t3
  <1>9. /\ t4 \in Seq(Classes) /\ Len(t4) = b + 2 * v + 2
        /\ \A i \in 1..b + 2 * v + 1 : t4[i] = t3[i]
        /\ t4[b + 2 * v + 2] = close[1]
    <2>1. /\ t4 \in Seq(Classes) /\ Len(t4) = Len(t3) + Len(close)
          /\ \A i \in 1..Len(t3) : t4[i] = t3[i]
          /\ \A i \in Len(t3) + 1..Len(t3) + Len(close) : t4[i] = close[i - Len(t3)]
      BY <1>1, <1>8, Joined
    <2>. HIDE DEF t4
    <2>. QED
      BY <1>0, <1>2, <1>8, <2>1
  <1>10. InsertText(c, v) = t4
    BY <1>5 DEF t1, t2, t3
  <1>. HIDE DEF t4
  <1>11. ASSUME NEW i \in 1..b + 2 * v + 2 PROVE t4[i] = InsertToken(c, v, i)
    <2>1. CASE i <= 3
      <3>1. t4[i] = intro[i]
        BY <1>0, <1>6, <1>7, <1>8, <1>9, <2>1
      <3>. QED
        BY <1>0, <1>2, <2>1, <3>1 DEF InsertToken
    <2>2. CASE i > 3 /\ i <= b
      <3>1. t4[i] = columns[i - 3] /\ i - 3 \in 1..b - 3
        BY <1>0, <1>6, <1>7, <1>8, <1>9, <2>2
      <3>2. columns[i - 3] = IF i - 3 = 1 THEN "LPAREN" ELSE IF i - 3 = b - 3 THEN "RPAREN"
                              ELSE IF Odd(i) THEN "identifier" ELSE "COMMA"
        <4>1. (i - 3) + 3 = i
          OBVIOUS
        <4>. QED
          BY <1>3, <3>1, <4>1
      <3>. QED
        BY <1>0, <2>2, <3>1, <3>2 DEF InsertToken, b
    <2>3. CASE i > b /\ i <= b + 2
      <3>1. t4[i] = open[i - b]
        <4>1. i \in 1..b + 2 * v + 1 /\ i \in 1..b + 2 /\ i \in b + 1..b + 2
          BY <1>0, <1>11, <2>3
        <4>. QED
          BY <1>7, <1>8, <1>9, <4>1
      <3>. QED
        BY <1>0, <1>2, <2>3, <3>1 DEF InsertToken, b
    <2>4. CASE i > b + 2 /\ i < b + 2 * v + 2
      <3>1. t4[i] = values[i - b - 2] /\ i - b - 2 \in 1..2 * v - 1
        <4>1. i \in 1..b + 2 * v + 1 /\ i \in b + 3..b + 2 * v + 1 /\ i - b - 2 \in 1..2 * v - 1
          BY <1>0, <1>11, <2>4
        <4>. QED
          BY <1>8, <1>9, <4>1
      <3>2. Odd(i - b - 2) <=> Odd(i - b)
        BY <1>0 DEF Odd
      <3>3. values[i - b - 2] = IF Odd(i - b) THEN "literal" ELSE "COMMA"
        BY <1>4, <3>1, <3>2
      <3>. QED
        BY <1>0, <2>4, <3>1, <3>3 DEF InsertToken, b
    <2>5. CASE i = b + 2 * v + 2
      BY <1>0, <1>2, <1>9, <2>5 DEF InsertToken, b
    <2>. QED
      BY <1>0, <2>1, <2>2, <2>3, <2>4, <2>5
  <1>. QED
    BY <1>0, <1>9, <1>10, <1>11

\* SelectText, token by token.
LEMMA SelectTextIs ==
    ASSUME NEW c \in Nat, NEW w \in BOOLEAN
    PROVE  /\ SelectText(c, w) \in Seq(Classes) /\ Len(SelectText(c, w)) = SelectSize(c, w)
           /\ \A i \in 1..SelectSize(c, w) : SelectText(c, w)[i] = SelectToken(c, w, i)
  <1>. DEFINE d == BeforeFrom(c)
              z == IF w THEN 4 ELSE 0
              select == <<"SELECT">>
              columns == IF c = 0 THEN <<"STAR">> ELSE ListOf("identifier", c)
              from == <<"FROM", "identifier">>
              where == IF w THEN <<"WHERE", "identifier", "EQUAL", "literal">> ELSE <<>>
  <1>0. d \in Nat /\ ((c = 0 /\ d = 2) \/ (c > 0 /\ d >= 2 /\ d = 2 * c)) /\ SelectSize(c, w) = d + 2 + z
    BY DEF BeforeFrom, SelectSize
  <1>1. {"SELECT", "STAR", "FROM", "identifier", "WHERE", "EQUAL", "literal"} \subseteq Classes
    BY DEF Classes, Kinds, Symbols, Keywords
  <1>2. select \in Seq(Classes) /\ Len(select) = 1 /\ select[1] = "SELECT"
    BY <1>1
  <1>3. from \in Seq(Classes) /\ Len(from) = 2 /\ from[1] = "FROM" /\ from[2] = "identifier"
    BY <1>1
  <1>4. /\ columns \in Seq(Classes) /\ Len(columns) = d - 1
        /\ \A i \in 1..d - 1 : columns[i] = IF c = 0 THEN "STAR" ELSE IF Odd(i) THEN "identifier" ELSE "COMMA"
    <2>1. CASE c = 0
      BY <1>0, <1>1, <2>1
    <2>2. CASE c > 0
      <3>1. c \in Nat \ {0} /\ "identifier" \in Classes /\ columns = ListOf("identifier", c) /\ d - 1 = 2 * c - 1
        BY <1>0, <1>1, <2>2
      <3>. HIDE DEF columns, d
      <3>2. /\ columns \in Seq(Classes) /\ Len(columns) = 2 * c - 1
            /\ \A i \in 1..2 * c - 1 : columns[i] = IF Odd(i) THEN "identifier" ELSE "COMMA"
        BY <3>1, ListIs
      <3>. QED
        BY <2>2, <3>1, <3>2
    <2>. QED
      BY <2>1, <2>2
  <1>5. /\ where \in Seq(Classes) /\ Len(where) = z /\ z \in {0, 4}
        /\ z = 4 => /\ where[1] = "WHERE" /\ where[2] = "identifier"
                    /\ where[3] = "EQUAL" /\ where[4] = "literal"
    <2>1. CASE w
      BY <1>1, <2>1
    <2>2. CASE ~w
      BY <2>2
    <2>. QED
      BY <2>1, <2>2
  <1>6. SelectText(c, w) = ((select \o columns) \o from) \o where
    BY Zenon DEF SelectText
  <1>. DEFINE t1 == select \o columns
              t2 == t1 \o from
              t3 == t2 \o where
  <1>. HIDE DEF select, columns, from, where, d, z
  <1>7. /\ t1 \in Seq(Classes) /\ Len(t1) = d
        /\ t1[1] = "SELECT"
        /\ \A i \in 2..d : t1[i] = columns[i - 1]
    <2>1. /\ t1 \in Seq(Classes) /\ Len(t1) = Len(select) + Len(columns)
          /\ \A i \in 1..Len(select) : t1[i] = select[i]
          /\ \A i \in Len(select) + 1..Len(select) + Len(columns) : t1[i] = columns[i - Len(select)]
      BY <1>2, <1>4, Joined
    <2>. HIDE DEF t1
    <2>2. Len(select) + Len(columns) = d
      BY <1>0, <1>2, <1>4
    <2>. QED
      BY <1>2, <2>1, <2>2
  <1>. HIDE DEF t1
  <1>8. /\ t2 \in Seq(Classes) /\ Len(t2) = d + 2
        /\ \A i \in 1..d : t2[i] = t1[i]
        /\ \A i \in d + 1..d + 2 : t2[i] = from[i - d]
    <2>1. /\ t2 \in Seq(Classes) /\ Len(t2) = Len(t1) + Len(from)
          /\ \A i \in 1..Len(t1) : t2[i] = t1[i]
          /\ \A i \in Len(t1) + 1..Len(t1) + Len(from) : t2[i] = from[i - Len(t1)]
      BY <1>3, <1>7, Joined
    <2>. HIDE DEF t2
    <2>. QED
      BY <1>3, <1>7, <2>1
  <1>. HIDE DEF t2
  <1>9. /\ t3 \in Seq(Classes) /\ Len(t3) = d + 2 + z
        /\ \A i \in 1..d + 2 : t3[i] = t2[i]
        /\ \A i \in d + 3..d + 2 + z : t3[i] = where[i - d - 2]
    <2>1. /\ t3 \in Seq(Classes) /\ Len(t3) = Len(t2) + Len(where)
          /\ \A i \in 1..Len(t2) : t3[i] = t2[i]
          /\ \A i \in Len(t2) + 1..Len(t2) + Len(where) : t3[i] = where[i - Len(t2)]
      BY <1>5, <1>8, Joined
    <2>. HIDE DEF t3
    <2>2. Len(t2) + 1 = d + 3 /\ Len(t2) + Len(where) = d + 2 + z
      BY <1>0, <1>5, <1>8
    <2>3. \A i \in d + 3..d + 2 + z : i - Len(t2) = i - d - 2
      BY <1>0, <1>5, <1>8
    <2>4. \A i \in d + 3..d + 2 + z : t3[i] = where[i - d - 2]
      BY <2>1, <2>2, <2>3
    <2>. QED
      BY <1>8, <2>1, <2>2, <2>4
  <1>10. SelectText(c, w) = t3
    BY <1>6 DEF t1, t2
  <1>. HIDE DEF t3
  <1>11. ASSUME NEW i \in 1..d + 2 + z PROVE t3[i] = SelectToken(c, w, i)
    <2>1. CASE i = 1
      <3>1. 1 \in 1..d + 2 /\ 1 \in 1..d
        BY <1>0
      <3>. QED
        BY <1>7, <1>8, <1>9, <2>1, <3>1 DEF SelectToken
    <2>2. CASE i > 1 /\ i <= d
      <3>1. i \in 1..d + 2 /\ i \in 1..d /\ i \in 2..d /\ i - 1 \in 1..d - 1
        BY <1>0, <1>11, <2>2
      <3>2. t3[i] = columns[i - 1]
        BY <1>7, <1>8, <1>9, <3>1
      <3>3. Odd(i - 1) <=> ~Odd(i)
        BY <3>1 DEF Odd
      <3>. QED
        BY <1>0, <1>4, <2>2, <3>1, <3>2, <3>3 DEF SelectToken, d
    <2>3. CASE i > d /\ i <= d + 2
      <3>1. i \in 1..d + 2 /\ i \in d + 1..d + 2
        BY <1>0, <1>11, <2>3
      <3>2. t3[i] = from[i - d]
        BY <1>8, <1>9, <3>1
      <3>. QED
        BY <1>0, <1>3, <2>3, <3>2 DEF SelectToken, d
    <2>4. CASE i > d + 2
      <3>1. i \in d + 3..d + 2 + z /\ z = 4
        BY <1>0, <1>5, <1>11, <2>4
      <3>2. t3[i] = where[i - d - 2]
        BY <1>9, <3>1
      <3>. QED
        <4>1. i \in {d + 3, d + 4, d + 5, d + 6}
          BY <1>0, <3>1
        <4>2. CASE i = d + 3
          <5>1. i - d - 2 = 1 /\ SelectToken(c, w, i) = "WHERE"
            BY <1>0, <4>2 DEF SelectToken, d
          <5>. QED
            BY <1>5, <3>1, <3>2, <5>1
        <4>3. CASE i = d + 4
          <5>1. i - d - 2 = 2 /\ SelectToken(c, w, i) = "identifier"
            BY <1>0, <4>3 DEF SelectToken, d
          <5>. QED
            BY <1>5, <3>1, <3>2, <5>1
        <4>4. CASE i = d + 5
          <5>1. i - d - 2 = 3 /\ SelectToken(c, w, i) = "EQUAL"
            BY <1>0, <4>4 DEF SelectToken, d
          <5>. QED
            BY <1>5, <3>1, <3>2, <5>1
        <4>5. CASE i = d + 6
          <5>1. i - d - 2 = 4 /\ SelectToken(c, w, i) = "literal"
            BY <1>0, <4>5 DEF SelectToken, d
          <5>. QED
            BY <1>5, <3>1, <3>2, <5>1
        <4>. QED
          BY <4>1, <4>2, <4>3, <4>4, <4>5
    <2>. QED
      BY <1>0, <1>5, <1>11, <2>1, <2>2, <2>3, <2>4
  <1>. QED
    BY <1>0, <1>9, <1>10, <1>11

\* The text of a plan, token by token.
LEMMA TextIs ==
    ASSUME NEW x \in Plans
    PROVE  /\ Text(x) \in Seq(Classes) /\ Len(Text(x)) = Size(x)
           /\ \A i \in 1..Size(x) : Text(x)[i] = TokenOf(x, i)
  <1>1. CASE \E c \in 0..MaxItems, v \in 1..MaxItems :
                 /\ Text(x) = InsertText(c, v) /\ Size(x) = InsertSize(c, v)
                 /\ \A i : TokenOf(x, i) = InsertToken(c, v, i)
    <2>1. PICK c \in 0..MaxItems, v \in 1..MaxItems :
                 /\ Text(x) = InsertText(c, v) /\ Size(x) = InsertSize(c, v)
                 /\ \A i : TokenOf(x, i) = InsertToken(c, v, i)
      BY <1>1
    <2>2. c \in Nat /\ v \in Nat \ {0}
      BY ItemsAre
    <2>3. /\ InsertText(c, v) \in Seq(Classes) /\ Len(InsertText(c, v)) = InsertSize(c, v)
          /\ \A i \in 1..InsertSize(c, v) : InsertText(c, v)[i] = InsertToken(c, v, i)
      BY <2>2, InsertTextIs
    <2>. QED
      BY <2>1, <2>3
  <1>2. CASE \E c \in 0..MaxItems, w \in BOOLEAN :
                 /\ Text(x) = SelectText(c, w) /\ Size(x) = SelectSize(c, w)
                 /\ \A i : TokenOf(x, i) = SelectToken(c, w, i)
    BY <1>2, SelectTextIs, ItemsAre
  <1>. QED
    BY <1>1, <1>2, PlanIs

-----------------------------------------------------------------------------
(* What of a text the grammar can go on from.                              *)

Tokens == Kinds \cup {"EOF"}
ClassOf(k) == IF k \in Literals THEN "literal" ELSE k

\* The n tokens from f on begin a statement, and its parser is at p then.
Fits(x, t, f, n) == n <= Size(x) /\ \A i \in 1..n : TokenOf(x, i) = ClassOf(t[f + i - 1])
Reads(t, f, n, p) == \E x \in Plans : Fits(x, t, f, n) /\ PlaceIn(x, n) = p

\* Before the first token the parser is at the start.
LEMMA ReadsNothing ==
    ASSUME NEW t, NEW f
    PROVE  Reads(t, f, 0, "start")
  <1>1. PICK x : x = Insert(0, 1) /\ x \in Plans
    BY PlanOf, ItemsAre
  <1>2. 0 <= Size(x)
    BY <1>1, SizeType
  <1>3. PlaceIn(x, 0) = "start"
    BY DEF PlaceIn, InsertPlace, SelectPlace
  <1>. QED
    BY <1>1, <1>2, <1>3 DEF Reads, Fits

\* One token more, along an edge.
LEMMA ReadsMore ==
    ASSUME NEW t, NEW f \in Nat, NEW n \in 0..MaxTokens - 1, NEW p, NEW q,
           Reads(t, f, n, p), Edge(p, ClassOf(t[f + n]), q)
    PROVE  Reads(t, f, n + 1, q)
  <1>1. PICK x \in Plans : Fits(x, t, f, n) /\ PlaceIn(x, n) = p
    BY DEF Reads
  <1>2. Continues(x, n, ClassOf(t[f + n]), q)
    BY <1>1, Extend DEF Fits
  <1>3. PICK y \in Plans : /\ n + 1 <= Size(y)
                           /\ \A i \in 1..n : TokenOf(y, i) = TokenOf(x, i)
                           /\ TokenOf(y, n + 1) = ClassOf(t[f + n]) /\ PlaceIn(y, n + 1) = q
    BY <1>2 DEF Continues
  <1>4. n \in Nat
    BY MaxTokensAssumption
  <1>5. ASSUME NEW i \in 1..n + 1 PROVE TokenOf(y, i) = ClassOf(t[f + i - 1])
    <2>1. CASE i \in 1..n
      BY <1>1, <1>3, <2>1 DEF Fits
    <2>2. CASE i = n + 1
      <3>1. f + i - 1 = f + n
        BY <1>4, <2>2
      <3>. QED
        BY <1>3, <2>2, <3>1
    <2>. QED
      BY <1>4, <2>1, <2>2
  <1>. QED
    BY <1>3, <1>5 DEF Reads, Fits

\* A part of what was read is followed by an edge.
LEMMA ReadsLess ==
    ASSUME NEW t, NEW f \in Nat, NEW n \in Nat, NEW m \in Nat, n < m, NEW r, Reads(t, f, m, r),
           NEW p, Reads(t, f, n, p)
    PROVE  \E q : Edge(p, ClassOf(t[f + n]), q)
  <1>1. PICK x \in Plans : Fits(x, t, f, m)
    BY DEF Reads
  <1>2. PICK y \in Plans : Fits(y, t, f, n) /\ PlaceIn(y, n) = p
    BY DEF Reads
  <1>3. Size(x) \in Nat /\ Size(y) \in Nat
    BY SizeType
  <1>4. PlaceIn(x, n) = p
    <2>1. n <= Size(x) /\ n <= Size(y) /\ \A i \in 1..n : TokenOf(x, i) = TokenOf(y, i)
      BY <1>1, <1>2, <1>3 DEF Fits
    <2>. QED
      BY <1>2, <2>1, SamePlace
  <1>5. n < Size(x) /\ TokenOf(x, n + 1) = ClassOf(t[f + n])
    <2>1. n + 1 \in 1..m /\ f + (n + 1) - 1 = f + n
      OBVIOUS
    <2>. QED
      BY <1>1, <1>3, <2>1 DEF Fits
  <1>6. Edge(PlaceIn(x, n), TokenOf(x, n + 1), PlaceIn(x, n + 1))
    BY <1>5, Walk
  <1>. QED
    BY <1>4, <1>5, <1>6

\* The place is determined by the tokens.
LEMMA ReadsUnique ==
    ASSUME NEW t, NEW f \in Nat, NEW n \in Nat, NEW p, NEW q, Reads(t, f, n, p), Reads(t, f, n, q)
    PROVE  p = q
  <1>1. PICK x \in Plans : Fits(x, t, f, n) /\ PlaceIn(x, n) = p
    BY DEF Reads
  <1>2. PICK y \in Plans : Fits(y, t, f, n) /\ PlaceIn(y, n) = q
    BY DEF Reads
  <1>. QED
    BY <1>1, <1>2, SamePlace DEF Fits

\* The tokens that are read are a part of the text.
LEMMA TokensOfPart ==
    ASSUME NEW t \in Seq(Tokens), NEW f \in Nat \ {0}, NEW n \in Nat, f + n - 1 <= Len(t)
    PROVE  LET s == SubSeq(t, f, f + n - 1) IN
           s \in Seq(Tokens) /\ Len(s) = n /\ \A i \in 1..n : s[i] = t[f + i - 1]
  <1>. DEFINE s == SubSeq(t, f, f + n - 1)
  <1>1. \A i \in f..f + n - 1 : i \in 1..Len(t)
    OBVIOUS
  <1>2. s \in Seq(Tokens) /\ Len(s) = n
    BY <1>1, SubSeqProperties
  <1>3. \A i \in 1..n : s[i] = t[f + i - 1]
    BY <1>1, SubSeqProperties
  <1>. QED
    BY <1>2, <1>3

\* The classes of tokens, one by one.
LEMMA ClassIs ==
    ASSUME NEW s \in Seq(Tokens)
    PROVE  /\ Class(s) \in Seq(Classes) /\ Len(Class(s)) = Len(s)
           /\ \A i \in 1..Len(s) : Class(s)[i] = ClassOf(s[i])
  <1>1. Len(s) \in Nat /\ DOMAIN s = 1..Len(s) /\ \A i \in 1..Len(s) : s[i] \in Tokens
    OBVIOUS
  <1>2. \A i \in 1..Len(s) : Class(s)[i] = ClassOf(s[i])
    BY <1>1 DEF Class, ClassOf
  <1>3. \A k \in Tokens : ClassOf(k) \in Classes
    BY DEF Tokens, Classes, ClassOf
  <1>4. Class(s) = [i \in 1..Len(s) |-> ClassOf(s[i])]
    BY <1>1 DEF Class, ClassOf
  <1>5. Class(s) \in [1..Len(s) -> Classes]
    <2>1. \A i \in 1..Len(s) : ClassOf(s[i]) \in Classes
      BY <1>1, <1>3
    <2>. QED
      BY <1>4, <2>1
  <1>6. Class(s) \in Seq(Classes) /\ Len(Class(s)) = Len(s)
    BY <1>1, <1>5
  <1>. QED
    BY <1>2, <1>6

\* A prefix agrees token by token.
LEMMA PrefixIs ==
    ASSUME NEW a \in Seq(Classes), NEW b \in Seq(Classes)
    PROVE  IsPrefix(a, b) <=> Len(a) <= Len(b) /\ \A i \in 1..Len(a) : a[i] = b[i]
  <1>0. Len(a) \in Nat /\ Len(b) \in Nat
    OBVIOUS
  <1>. SUFFICES ASSUME Len(a) <= Len(b)
                PROVE  SubSeq(a, 1, Len(a)) = SubSeq(b, 1, Len(a)) <=> \A i \in 1..Len(a) : a[i] = b[i]
    BY DEF IsPrefix
  <1>1. SubSeq(a, 1, Len(a)) = [i \in 1..Len(a) |-> a[i]]
    OBVIOUS
  <1>2. SubSeq(b, 1, Len(a)) = [i \in 1..Len(a) |-> b[i]]
    OBVIOUS
  <1>. QED
    BY <1>1, <1>2

\* A part of the text is viable if a parser can have read it ...
LEMMA ViablePart ==
    ASSUME NEW t \in Seq(Tokens), NEW f \in Nat \ {0}, NEW n \in Nat, f + n - 1 <= Len(t)
    PROVE  Viable(SubSeq(t, f, f + n - 1)) <=> \E p : Reads(t, f, n, p)
  <1>. DEFINE s == SubSeq(t, f, f + n - 1)
  <1>1. s \in Seq(Tokens) /\ Len(s) = n /\ \A i \in 1..n : s[i] = t[f + i - 1]
    BY TokensOfPart
  <1>. HIDE DEF s
  <1>2. /\ Class(s) \in Seq(Classes) /\ Len(Class(s)) = n
        /\ \A i \in 1..n : Class(s)[i] = ClassOf(t[f + i - 1])
    BY <1>1, ClassIs
  <1>3. ASSUME NEW x \in Plans PROVE IsPrefix(Class(s), Text(x)) <=> Fits(x, t, f, n)
    <2>1. /\ Text(x) \in Seq(Classes) /\ Len(Text(x)) = Size(x) /\ Size(x) \in Nat
          /\ \A i \in 1..Size(x) : Text(x)[i] = TokenOf(x, i)
      BY TextIs, SizeType
    <2>2. IsPrefix(Class(s), Text(x)) <=> n <= Size(x) /\ \A i \in 1..n : Class(s)[i] = Text(x)[i]
      BY <1>2, <2>1, PrefixIs
    <2>. QED
      BY <1>2, <2>1, <2>2 DEF Fits
  <1>4. Viable(s) <=> \E x \in Plans : Fits(x, t, f, n)
    BY <1>3, SentencesArePlans DEF Viable
  <1>. QED
    BY <1>4 DEF Reads, s

\* ... and a sentence if the parser may stop behind it.
LEMMA SentencePart ==
    ASSUME NEW t \in Seq(Tokens), NEW f \in Nat \ {0}, NEW n \in Nat, f + n - 1 <= Len(t)
    PROVE  IsSentence(SubSeq(t, f, f + n - 1)) <=> \E p \in {"where", "end"} : Reads(t, f, n, p)
  <1>. DEFINE s == SubSeq(t, f, f + n - 1)
  <1>1. s \in Seq(Tokens) /\ Len(s) = n /\ \A i \in 1..n : s[i] = t[f + i - 1]
    BY TokensOfPart
  <1>. HIDE DEF s
  <1>2. /\ Class(s) \in Seq(Classes) /\ Len(Class(s)) = n
        /\ \A i \in 1..n : Class(s)[i] = ClassOf(t[f + i - 1])
    BY <1>1, ClassIs
  <1>3. ASSUME NEW x \in Plans PROVE Class(s) = Text(x) <=> Fits(x, t, f, n) /\ Size(x) = n
    <2>1. /\ Text(x) \in Seq(Classes) /\ Len(Text(x)) = Size(x) /\ Size(x) \in Nat
          /\ \A i \in 1..Size(x) : Text(x)[i] = TokenOf(x, i)
      BY TextIs, SizeType
    <2>2. CASE Class(s) = Text(x)
      BY <1>2, <2>1, <2>2 DEF Fits
    <2>3. CASE Fits(x, t, f, n) /\ Size(x) = n
      <3>1. Len(Class(s)) = Len(Text(x)) /\ \A i \in 1..Len(Class(s)) : Class(s)[i] = Text(x)[i]
        BY <1>2, <2>1, <2>3 DEF Fits
      <3>. QED
        BY <1>2, <2>1, <2>3, <3>1, SeqEqual
    <2>. QED
      BY <2>2, <2>3
  <1>4. IsSentence(s) <=> \E x \in Plans : Fits(x, t, f, n) /\ Size(x) = n
    BY <1>3, SentencesArePlans DEF IsSentence
  <1>5. ASSUME NEW x \in Plans, Fits(x, t, f, n), Size(x) = n PROVE \E p \in {"where", "end"} : Reads(t, f, n, p)
    BY <1>5, EndPlace DEF Reads
  <1>6. ASSUME NEW p \in {"where", "end"}, Reads(t, f, n, p) PROVE \E x \in Plans : Fits(x, t, f, n) /\ Size(x) = n
    <2>1. PICK x \in Plans : Fits(x, t, f, n) /\ PlaceIn(x, n) = p
      BY <1>6 DEF Reads
    <2>2. PICK y \in Plans : Size(y) = n /\ \A i \in 1..n : TokenOf(y, i) = TokenOf(x, i)
      BY <2>1, <1>6, Accept DEF Fits
    <2>. QED
      BY <2>1, <2>2 DEF Fits
  <1>. QED
    BY <1>4, <1>5, <1>6 DEF s

\* AfterSemicolons begins at the first token that is no semicolon.
LEMMA SkipSemicolons ==
    ASSUME NEW t \in Seq(Tokens), NEW f \in 1..Len(t),
           \A i \in 1..f - 1 : t[i] = "SEMICOLON", t[f] # "SEMICOLON"
    PROVE  /\ AfterSemicolons(t) = SubSeq(t, f, Len(t))
           /\ AfterSemicolons(t) \in Seq(Tokens) /\ Len(AfterSemicolons(t)) = Len(t) - f + 1
           /\ \A i \in 1..Len(t) - f + 1 : AfterSemicolons(t)[i] = t[f + i - 1]
  <1>. DEFINE S == {i \in DOMAIN t : t[i] # "SEMICOLON"} \cup {Len(t) + 1}
  <1>0. Len(t) \in Nat /\ DOMAIN t = 1..Len(t) /\ f \in Nat \ {0} /\ Len(t) - f + 1 \in Nat
    OBVIOUS
  <1>1. f \in S /\ \A i \in S : f <= i /\ i \in Nat
    BY <1>0
  <1>2. Min(S) = f
    <2>. HIDE DEF S
    <2>1. \A z \in S : (\A y \in S : z =< y) => z = f
      BY <1>0, <1>1
    <2>2. \A y \in S : f =< y
      BY <1>1
    <2>. QED
      BY <1>1, <2>1, <2>2 DEF Min
  <1>3. AfterSemicolons(t) = SubSeq(t, f, Len(t))
    BY <1>2 DEF AfterSemicolons, From
  <1>4. f + (Len(t) - f + 1) - 1 = Len(t)
    BY <1>0
  <1>. QED
    BY <1>0, <1>3, <1>4, TokensOfPart

\* The text up to the second statement, as the answer it deserves looks at it.
DeservedFrom(s, n) ==
    IF ~IsSentence(SubSeq(s, 1, n)) THEN "SQL_PARSE_ERROR"
      ELSE IF AfterSemicolons(From(s, n + 1)) = <<"EOF">> THEN "executed"
      ELSE "MULTI_STATEMENT_NOT_ALLOWED"

\* Deserved, by the first token and the length of the first statement.
LEMMA DeservedIs ==
    ASSUME NEW t, NEW s, s = AfterSemicolons(t)
    PROVE  /\ s[1] = "EOF" => Deserved(t) = "EMPTY_QUERY"
           /\ s[1] \notin {"EOF", "INSERT", "SELECT"} => Deserved(t) = "UNSUPPORTED_QUERY"
           /\ s[1] \in {"INSERT", "SELECT"} =>
                 Deserved(t) = DeservedFrom(s, Max({k \in DOMAIN s : Viable(SubSeq(s, 1, k))}))
  <1>. DEFINE n == Max({k \in DOMAIN s : Viable(SubSeq(s, 1, k))})
              d == DeservedFrom(s, n)
  <1>1. Deserved(t) =
          CASE s[1] = "EOF" -> "EMPTY_QUERY"
            [] s[1] \notin {"EOF", "INSERT", "SELECT"} -> "UNSUPPORTED_QUERY"
            [] s[1] \in {"INSERT", "SELECT"} -> d
    BY Zenon DEF Deserved, DeservedFrom
  <1>. HIDE DEF d
  <1>. QED
    BY <1>1 DEF d

\* Where in the text a statement begins makes no difference.
LEMMA ReadsShifted ==
    ASSUME NEW t, NEW s, NEW f \in Nat \ {0}, NEW m \in Nat,
           \A i \in 1..m : s[i] = t[f + i - 1], NEW n \in 0..m, NEW p
    PROVE  Reads(s, 1, n, p) <=> Reads(t, f, n, p)
  <1>1. \A i \in 1..n : s[1 + i - 1] = t[f + i - 1]
    <2>1. \A i \in 1..n : 1 + i - 1 = i
      OBVIOUS
    <2>. QED
      BY <2>1
  <1>. QED
    BY <1>1 DEF Reads, Fits

\* The first statement of a text ends where the grammar has no use for the next
\* token, if it may end there.
LEMMA FirstStatement ==
    ASSUME NEW t \in Seq(Tokens), NEW f \in 1..Len(t),
           \A i \in 1..f - 1 : t[i] = "SEMICOLON", t[f] \in {"INSERT", "SELECT"},
           NEW n \in 1..Len(t) - f, NEW p, Reads(t, f, n, p),
           \A q : ~Edge(p, ClassOf(t[f + n]), q)
    PROVE  /\ p \notin {"where", "end"} => Deserved(t) = "SQL_PARSE_ERROR"
           /\ p \in {"where", "end"} =>
                 Deserved(t) = IF AfterSemicolons(SubSeq(t, f + n, Len(t))) = <<"EOF">>
                                 THEN "executed" ELSE "MULTI_STATEMENT_NOT_ALLOWED"
  <1>. DEFINE s == AfterSemicolons(t)
              V == {k \in DOMAIN s : Viable(SubSeq(s, 1, k))}
  <1>0. Len(t) \in Nat /\ f \in Nat \ {0} /\ n \in Nat \ {0} /\ f + n <= Len(t)
    OBVIOUS
  <1>1. /\ s = SubSeq(t, f, Len(t)) /\ s \in Seq(Tokens) /\ Len(s) = Len(t) - f + 1
        /\ \A i \in 1..Len(t) - f + 1 : s[i] = t[f + i - 1]
    BY SkipSemicolons
  <1>. HIDE DEF s
  <1>2. Deserved(t) = DeservedFrom(s, Max(V))
    <2>1. 1 \in 1..Len(t) - f + 1 /\ f + 1 - 1 = f
      BY <1>0
    <2>2. s[1] = t[f]
      BY <1>1, <2>1
    <2>. QED
      BY <2>2, DeservedIs DEF s
  <1>3. ASSUME NEW k \in 1..Len(s)
        PROVE  /\ Viable(SubSeq(s, 1, k)) <=> \E r : Reads(t, f, k, r)
               /\ IsSentence(SubSeq(s, 1, k)) <=> \E r \in {"where", "end"} : Reads(t, f, k, r)
    <2>1. k \in Nat /\ 1 + k - 1 = k /\ k <= Len(s) /\ k \in 0..Len(t) - f + 1 /\ Len(t) - f + 1 \in Nat
      BY <1>0, <1>1, <1>3
    <2>2. PICK m \in Nat : m = Len(t) - f + 1
      BY <2>1
    <2>3. k \in 0..m /\ \A i \in 1..m : s[i] = t[f + i - 1]
      BY <1>1, <2>1, <2>2
    <2>4. \A r : Reads(s, 1, k, r) <=> Reads(t, f, k, r)
      BY <1>0, <2>3, ReadsShifted
    <2>5. 1 \in Nat \ {0} /\ 1 + k - 1 <= Len(s) /\ SubSeq(s, 1, 1 + k - 1) = SubSeq(s, 1, k)
      BY <2>1
    <2>6. Viable(SubSeq(s, 1, 1 + k - 1)) <=> \E r : Reads(s, 1, k, r)
      BY <1>1, <2>1, <2>5, ViablePart
    <2>7. IsSentence(SubSeq(s, 1, 1 + k - 1)) <=> \E r \in {"where", "end"} : Reads(s, 1, k, r)
      BY <1>1, <2>1, <2>5, SentencePart
    <2>. QED
      BY <2>4, <2>5, <2>6, <2>7
  <1>4. n \in V /\ \A k \in V : k <= n /\ k \in Nat
    <2>1. n \in 1..Len(s) /\ DOMAIN s = 1..Len(s) /\ Len(s) \in Nat
      BY <1>0, <1>1
    <2>2. n \in V
      BY <1>3, <2>1
    <2>3. ASSUME NEW k \in V, k > n PROVE FALSE
      <3>1. k \in 1..Len(s) /\ k \in Nat
        BY <2>1
      <3>2. PICK r : Reads(t, f, k, r)
        BY <1>3, <3>1
      <3>. QED
        BY <1>0, <2>3, <3>1, <3>2, ReadsLess
    <2>. QED
      BY <2>1, <2>2, <2>3
  <1>5. Max(V) = n
    <2>. HIDE DEF V
    <2>1. \A z \in V : (\A y \in V : z >= y) => z = n
      BY <1>0, <1>4
    <2>2. \A y \in V : n >= y
      BY <1>0, <1>4
    <2>. QED
      BY <1>4, <2>1, <2>2 DEF Max
  <1>6. IsSentence(SubSeq(s, 1, n)) <=> p \in {"where", "end"}
    <2>1. n \in 1..Len(s)
      BY <1>0, <1>1
    <2>2. \A r : Reads(t, f, n, r) <=> r = p
      BY <1>0, ReadsUnique
    <2>. QED
      BY <1>3, <2>1, <2>2
  <1>7. From(s, n + 1) = SubSeq(t, f + n, Len(t))
    <2>0. PICK m \in Nat : m = Len(t) - f - n + 1
      <3>1. Len(t) - f - n + 1 \in Nat
        BY <1>0
      <3>. QED
        BY <3>1
    <2>. DEFINE a == SubSeq(s, n + 1, (n + 1) + m - 1)
                b == SubSeq(t, f + n, (f + n) + m - 1)
    <2>1. /\ n + 1 \in Nat \ {0} /\ f + n \in Nat \ {0}
          /\ (n + 1) + m - 1 = Len(s) /\ (f + n) + m - 1 = Len(t)
          /\ (n + 1) + m - 1 <= Len(s) /\ (f + n) + m - 1 <= Len(t)
      BY <1>0, <1>1, <2>0
    <2>2. a \in Seq(Tokens) /\ Len(a) = m /\ \A i \in 1..m : a[i] = s[(n + 1) + i - 1]
      BY <1>1, <2>1, TokensOfPart
    <2>3. b \in Seq(Tokens) /\ Len(b) = m /\ \A i \in 1..m : b[i] = t[(f + n) + i - 1]
      BY <2>1, TokensOfPart
    <2>4. ASSUME NEW i \in 1..m PROVE s[(n + 1) + i - 1] = t[(f + n) + i - 1]
      <3>1. (n + 1) + i - 1 \in 1..Len(t) - f + 1 /\ f + ((n + 1) + i - 1) - 1 = (f + n) + i - 1
        BY <1>0, <2>0, <2>4
      <3>. QED
        BY <1>1, <3>1
    <2>5. From(s, n + 1) = a /\ SubSeq(t, f + n, Len(t)) = b
      BY <2>1 DEF From
    <2>. HIDE DEF a, b
    <2>6. Len(a) = Len(b) /\ \A i \in 1..Len(a) : a[i] = b[i]
      BY <2>2, <2>3, <2>4
    <2>7. a = b
      BY <2>2, <2>3, <2>6, SeqEqual
    <2>. QED
      BY <2>5, <2>7
  <1>. QED
    BY <1>2, <1>5, <1>6, <1>7 DEF DeservedFrom

\* What follows a statement at h, when g is the first token that is no semicolon.
LEMMA AfterStatement ==
    ASSUME NEW t \in Seq(Tokens), NEW h \in 1..Len(t), NEW g \in h..Len(t),
           \A i \in h..g - 1 : t[i] = "SEMICOLON", t[g] # "SEMICOLON"
    PROVE  /\ t[g] = "EOF" /\ g = Len(t) => AfterSemicolons(SubSeq(t, h, Len(t))) = <<"EOF">>
           /\ t[g] # "EOF" => AfterSemicolons(SubSeq(t, h, Len(t))) # <<"EOF">>
  <1>0. Len(t) \in Nat /\ h \in Nat \ {0} /\ g \in Nat \ {0} /\ h <= g /\ g <= Len(t)
    OBVIOUS
  <1>1. PICK m \in Nat : m = Len(t) - h + 1
    <2>1. Len(t) - h + 1 \in Nat
      BY <1>0
    <2>. QED
      BY <2>1
  <1>. DEFINE s == SubSeq(t, h, h + m - 1)
              e == g - h + 1
  <1>2. h + m - 1 = Len(t) /\ h + m - 1 <= Len(t) /\ e \in 1..m /\ e \in Nat \ {0} /\ h + e - 1 = g
    BY <1>0, <1>1
  <1>3. s \in Seq(Tokens) /\ Len(s) = m /\ \A i \in 1..m : s[i] = t[h + i - 1]
    BY <1>0, <1>2, TokensOfPart
  <1>4. s = SubSeq(t, h, Len(t))
    BY <1>2
  <1>. HIDE DEF s, e
  <1>5. \A i \in 1..e - 1 : s[i] = "SEMICOLON"
    <2>. TAKE i \in 1..e - 1
    <2>1. i \in 1..m /\ h + i - 1 \in h..g - 1
      BY <1>0, <1>2
    <2>. QED
      BY <1>3, <2>1
  <1>6. s[e] = t[g]
    BY <1>2, <1>3
  <1>7. /\ AfterSemicolons(s) \in Seq(Tokens) /\ Len(AfterSemicolons(s)) = m - e + 1
        /\ \A i \in 1..m - e + 1 : AfterSemicolons(s)[i] = s[e + i - 1]
    BY <1>2, <1>3, <1>5, <1>6, SkipSemicolons
  <1>8. AfterSemicolons(s)[1] = t[g]
    <2>1. 1 \in 1..m - e + 1 /\ e + 1 - 1 = e
      BY <1>2
    <2>. QED
      BY <1>6, <1>7, <2>1
  <1>9. ASSUME t[g] = "EOF", g = Len(t) PROVE AfterSemicolons(s) = <<"EOF">>
    <2>1. m - e + 1 = 1
      BY <1>0, <1>1, <1>2, <1>9 DEF e
    <2>2. <<"EOF">> \in Seq(Tokens) /\ Len(<<"EOF">>) = 1 /\ <<"EOF">>[1] = "EOF"
      BY DEF Tokens
    <2>3. Len(AfterSemicolons(s)) = Len(<<"EOF">>)
      BY <1>7, <2>1, <2>2
    <2>4. \A i \in 1..Len(AfterSemicolons(s)) : AfterSemicolons(s)[i] = <<"EOF">>[i]
      BY <1>7, <1>8, <1>9, <2>1, <2>2
    <2>. QED
      BY <1>7, <2>2, <2>3, <2>4, SeqEqual
  <1>10. ASSUME AfterSemicolons(s) = <<"EOF">> PROVE t[g] = "EOF"
    BY <1>8, <1>10
  <1>. QED
    BY <1>4, <1>9, <1>10

\* Only the tokens that are read make a difference.
LEMMA ReadsStable ==
    ASSUME NEW t, NEW u, NEW f \in Nat, NEW n \in Nat, NEW p,
           \A i \in f..f + n - 1 : u[i] = t[i], Reads(t, f, n, p)
    PROVE  Reads(u, f, n, p)
  <1>1. \A i \in 1..n : u[f + i - 1] = t[f + i - 1]
    <2>. TAKE i \in 1..n
    <2>1. f + i - 1 \in f..f + n - 1
      OBVIOUS
    <2>. QED
      BY <2>1
  <1>. QED
    BY <1>1 DEF Reads, Fits

-----------------------------------------------------------------------------
(* The parser and the grammar.                                             *)

ParserPlaces ==
    {"into", "intoTable", "afterTable", "column", "moreColumns", "values", "open", "value", "moreValues",
     "items", "item", "moreItems", "from", "fromTable", "where", "whereColumn", "equal", "whereValue"}

\* A token is consumed along an edge ...
LEMMA Advances ==
    ASSUME Match \/ ParseIdentifier \/ ParseLiteral
    PROVE  /\ Edge(at, ClassOf(toks[cur]), at') /\ at \in ParserPlaces /\ at' \in ParserPlaces \cup {"end"}
           /\ cur <= Len(toks) /\ cur' = cur + 1 /\ toks[cur] # "EOF"
           /\ UNCHANGED <<mode, toks, first, broken, executed, verdict>>
  <1>1. CASE Match
    <2>1. at \in DOMAIN Expected /\ toks[cur] \in DOMAIN Expected[at] /\ at' = Expected[at][toks[cur]]
      BY <1>1 DEF Match, Sees, Skip
    <2>2. /\ cur <= Len(toks) /\ cur' = cur + 1
          /\ UNCHANGED <<mode, toks, first, broken, executed, verdict>>
      BY <1>1 DEF Match, Sees, Skip
    <2>3. at \in {"into", "afterTable", "moreColumns", "values", "open", "moreValues",
                "items", "moreItems", "from", "where", "equal"}
      BY <2>1 DEF Expected
    <2>. USE DEF Expected, Edge, ClassOf, Literals, ParserPlaces
    <2>4. CASE at = "into"
      BY <2>1, <2>2, <2>4
    <2>5. CASE at = "afterTable"
      BY <2>1, <2>2, <2>5
    <2>6. CASE at = "moreColumns"
      BY <2>1, <2>2, <2>6
    <2>7. CASE at = "values"
      BY <2>1, <2>2, <2>7
    <2>8. CASE at = "open"
      BY <2>1, <2>2, <2>8
    <2>9. CASE at = "moreValues"
      BY <2>1, <2>2, <2>9
    <2>10. CASE at = "items"
      BY <2>1, <2>2, <2>10
    <2>11. CASE at = "moreItems"
      BY <2>1, <2>2, <2>11
    <2>12. CASE at = "from"
      BY <2>1, <2>2, <2>12
    <2>13. CASE at = "where"
      BY <2>1, <2>2, <2>13
    <2>14. CASE at = "equal"
      BY <2>1, <2>2, <2>14
    <2>. QED
      BY <2>2, <2>3, <2>4, <2>5, <2>6, <2>7, <2>8, <2>9, <2>10, <2>11, <2>12, <2>13, <2>14
  <1>2. CASE ParseIdentifier
    BY <1>2 DEF ParseIdentifier, Sees, Keep, Edge, ClassOf, Literals, ParserPlaces
  <1>3. CASE ParseLiteral
    BY <1>3 DEF ParseLiteral, Sees, Keep, Edge, ClassOf, Literals, ParserPlaces
  <1>. QED
    BY <1>1, <1>2, <1>3

\* ... and a token without an edge is refused.
LEMMA Refuses ==
    ASSUME Unexpected, toks[cur] \in Tokens
    PROVE  /\ at \in ParserPlaces \ {"where"} /\ \A q : ~Edge(at, ClassOf(toks[cur]), q)
           /\ cur <= Len(toks) /\ at' = "failed"
           /\ UNCHANGED <<mode, toks, cur, first, broken, executed, verdict>>
  <1>1. /\ Wanted(at) # {} /\ at # "where" /\ toks[cur] \notin Wanted(at)
        /\ cur <= Len(toks) /\ at' = "failed"
        /\ UNCHANGED <<mode, toks, cur, first, broken, executed, verdict>>
    BY DEF Unexpected, SeesOther
  <1>2. DOMAIN Expected = {"into", "afterTable", "moreColumns", "values", "open", "moreValues",
                "items", "moreItems", "from", "where", "equal"}
    BY DEF Expected
  <1>3. at \in ParserPlaces \ {"where"}
    BY <1>1, <1>2 DEF Wanted, ParserPlaces
  <1>4. /\ DOMAIN Expected.into = {"INTO"} /\ DOMAIN Expected.afterTable = {"LPAREN", "VALUES"}
        /\ DOMAIN Expected.moreColumns = {"COMMA", "RPAREN"} /\ DOMAIN Expected.values = {"VALUES"}
        /\ DOMAIN Expected.open = {"LPAREN"} /\ DOMAIN Expected.moreValues = {"COMMA", "RPAREN"}
        /\ DOMAIN Expected.items = {"STAR"} /\ DOMAIN Expected.moreItems = {"COMMA", "FROM"}
        /\ DOMAIN Expected.from = {"FROM"} /\ DOMAIN Expected.equal = {"EQUAL"}
    BY DEF Expected
  <1>5. ASSUME NEW q, Edge(at, ClassOf(toks[cur]), q) PROVE toks[cur] \in Wanted(at)
    <2>1. CASE toks[cur] \in Literals
      <3>1. at \in {"value", "whereValue"}
        BY <1>5, <2>1 DEF Edge, ClassOf
      <3>. QED
        BY <2>1, <3>1 DEF Wanted
    <2>2. CASE toks[cur] \notin Literals
      <3>1. Edge(at, toks[cur], q) /\ toks[cur] # "literal"
        BY <1>5, <2>2 DEF ClassOf, Tokens, Kinds, Keywords, Symbols, Literals
      <3>2. CASE toks[cur] = "identifier"
        BY <3>1, <3>2 DEF Wanted, Edge
      <3>3. CASE toks[cur] # "identifier"
        <4>1. at \in DOMAIN Expected
          BY <1>2, <1>3, <3>1, <3>3 DEF Edge, ParserPlaces
        <4>2. toks[cur] \in DOMAIN Expected[at]
          <5>1. at \in {"into", "afterTable", "moreColumns", "values", "open", "moreValues"} =>
                   toks[cur] \in DOMAIN Expected[at]
            BY <1>4, <3>1, <3>3 DEF Edge
          <5>2. at \in {"items", "moreItems", "from", "equal"} => toks[cur] \in DOMAIN Expected[at]
            BY <1>4, <3>1, <3>3 DEF Edge
          <5>. QED
            BY <1>2, <1>3, <4>1, <5>1, <5>2
        <4>. QED
          BY <4>1, <4>2 DEF Wanted
      <3>. QED
        BY <3>2, <3>3
    <2>. QED
      BY <2>1, <2>2
  <1>. QED
    BY <1>1, <1>3, <1>5

-----------------------------------------------------------------------------
(* The tokens that are looked at.                                          *)

\* The cursor is at the last token that was looked at or behind it, and never
\* behind EOF.
TokensInv ==
    /\ toks \in Seq(Tokens) /\ cur \in Nat \ {0} /\ first \in Nat \ {0} /\ first <= cur
    /\ Len(toks) \in {cur - 1, cur} /\ Len(toks) <= MaxTokens + 1
    /\ Len(toks) = MaxTokens + 1 => toks[Len(toks)] = "EOF"
    /\ \A i \in 1..cur - 1 : toks[i] # "EOF"

\* A step that looks at no new token.
Looks ==
    /\ UNCHANGED <<mode, toks>>
    /\ \/ UNCHANGED <<cur, first>>
       \/ /\ cur <= Len(toks) /\ toks[cur] # "EOF" /\ cur' = cur + 1
          /\ first' \in {first, cur}

\* Every step of the SQL front looks at a new token or at none.
LEMMA RevealOrLook ==
    ASSUME SqlNext
    PROVE  Reveal \/ Looks
  <1>. USE DEF Looks
  <1>1. CASE BeginStatement
    BY <1>1 DEF BeginStatement, Sees, Skip
  <1>2. CASE Match \/ ParseIdentifier \/ ParseLiteral
    BY <1>2, Advances
  <1>3. CASE Unexpected \/ ListAllocationFails
    BY <1>3 DEF Unexpected, ListAllocationFails
  <1>4. CASE EndStatement
    BY <1>4 DEF EndStatement, Sees, Skip, Goto
  <1>5. CASE LexerFails \/ ContextFails \/ ApiParseError \/ ApiExecute \/ Cleanup
    BY <1>5 DEF LexerFails, ContextFails, ApiParseError, ApiExecute, Cleanup, Answer
  <1>6. CASE ApiFront \/ ApiGate
    BY <1>6 DEF ApiFront, ApiGate, Sees, Skip, Goto, Answer
  <1>7. CASE CliFront
    BY <1>7 DEF CliFront, Sees, Skip, Goto, Answer
  <1>8. CASE CliParsed \/ CliParseError \/ CliExecute \/ CliExecuteFails
    BY <1>8 DEF CliParsed, CliParseError, CliExecute, CliExecuteFails, Goto, Answer
  <1>. QED
    BY <1>1, <1>2, <1>3, <1>4, <1>5, <1>6, <1>7, <1>8 DEF SqlNext, Parser

\* The new token is the last one, and the others stay.
LEMMA RevealAppends ==
    ASSUME TokensInv, Reveal
    PROVE  /\ Len(toks) = cur - 1 /\ toks' \in Seq(Tokens) /\ Len(toks') = cur
           /\ \A i \in 1..cur - 1 : toks'[i] = toks[i]
           /\ TokensInv'
  <1>1. PICK k \in (IF Len(toks) < MaxTokens THEN Kinds ELSE {}) \cup {"EOF"} : toks' = Append(toks, k)
    BY DEF Reveal
  <1>2. k \in Tokens /\ (Len(toks) >= MaxTokens => k = "EOF")
    BY <1>1, MaxTokensAssumption DEF Tokens, TokensInv
  <1>3. Len(toks) = cur - 1 /\ cur \in Nat \ {0}
    BY DEF Reveal, TokensInv
  <1>4. /\ toks' \in Seq(Tokens) /\ Len(toks') = cur
        /\ \A i \in 1..cur - 1 : toks'[i] = toks[i]
        /\ toks'[cur] = k
    BY <1>1, <1>2, <1>3 DEF TokensInv
  <1>5. Len(toks) <= MaxTokens
    <2>1. CASE Len(toks) = MaxTokens + 1
      <3>1. Len(toks) \in 1..cur - 1
        BY <1>3, <2>1, MaxTokensAssumption
      <3>. QED
        BY <2>1, <3>1 DEF TokensInv
    <2>. QED
      BY <1>3, <2>1, MaxTokensAssumption DEF TokensInv
  <1>6. UNCHANGED <<cur, first>>
    BY DEF Reveal
  <1>7. Len(toks') <= MaxTokens + 1 /\ (Len(toks') = MaxTokens + 1 => toks'[Len(toks')] = "EOF")
    BY <1>2, <1>3, <1>4, <1>5, MaxTokensAssumption
  <1>8. \A i \in 1..cur - 1 : toks'[i] # "EOF"
    BY <1>4 DEF TokensInv
  <1>9. /\ cur' \in Nat \ {0} /\ first' \in Nat \ {0} /\ first' <= cur' /\ Len(toks') \in {cur' - 1, cur'}
        /\ \A i \in 1..cur' - 1 : toks'[i] # "EOF"
    BY <1>3, <1>4, <1>6, <1>8 DEF TokensInv
  <1>. QED
    BY <1>3, <1>4, <1>7, <1>9 DEF TokensInv

\* The tokens that are looked at, at every step.
LEMMA TokensStep ==
    ASSUME TokensInv, SqlNext
    PROVE  TokensInv'
  <1>1. CASE Reveal
    BY <1>1, RevealAppends
  <1>2. CASE Looks
    <2>1. CASE UNCHANGED <<cur, first>>
      BY <1>2, <2>1 DEF Looks, TokensInv
    <2>2. CASE cur <= Len(toks) /\ toks[cur] # "EOF" /\ cur' = cur + 1 /\ first' \in {first, cur}
      <3>1. UNCHANGED toks /\ cur \in Nat \ {0} /\ first \in Nat \ {0} /\ Len(toks) = cur
        BY <1>2, <2>2 DEF Looks, TokensInv
      <3>2. \A i \in 1..cur' - 1 : toks'[i] # "EOF"
        BY <2>2, <3>1 DEF TokensInv
      <3>3. cur' \in Nat \ {0} /\ first' \in Nat \ {0} /\ first' <= cur' /\ Len(toks') \in {cur' - 1, cur'}
        BY <2>2, <3>1 DEF TokensInv
      <3>4. toks' \in Seq(Tokens) /\ Len(toks') <= MaxTokens + 1 /\ (Len(toks') = MaxTokens + 1 => toks'[Len(toks')] = "EOF")
        BY <3>1 DEF TokensInv
      <3>. QED
        BY <3>2, <3>3, <3>4 DEF TokensInv
    <2>. QED
      BY <1>2, <2>1, <2>2 DEF Looks
  <1>. QED
    BY <1>1, <1>2, RevealOrLook

-----------------------------------------------------------------------------
(* The statement under way.                                                *)

\* n tokens make a statement that cannot be longer; only semicolons follow.
CompleteAt(n, p) ==
    /\ n \in 1..cur - first /\ p \in {"where", "end"}
    /\ Reads(toks, first, n, p)
    /\ \A i \in first + n..cur - 1 : toks[i] = "SEMICOLON"
    /\ p = "where" => first + n <= Len(toks) /\ toks[first + n] # "WHERE"

GrammarInv ==
    /\ at \in ParserPlaces => first < cur /\ Reads(toks, first, cur - first, at)
    /\ at \in {"end", "parsed", "execute"} => \E n, p : CompleteAt(n, p)

\* One more semicolon.
LEMMA OneMoreSemicolon ==
    ASSUME TokensInv, NEW n, NEW p, CompleteAt(n, p), UNCHANGED <<toks, first>>,
           \/ cur' = cur
           \/ cur' = cur + 1 /\ toks[cur] = "SEMICOLON"
    PROVE  CompleteAt(n, p)'
  <1>1. cur \in Nat /\ first \in Nat /\ n \in 1..cur - first
    BY DEF TokensInv, CompleteAt
  <1>2. n \in 1..cur' - first
    BY <1>1
  <1>3. \A i \in first + n..cur' - 1 : toks[i] = "SEMICOLON"
    <2>1. \A i \in first + n..cur' - 1 : i \in first + n..cur - 1 \/ (i = cur /\ cur' = cur + 1)
      BY <1>1
    <2>. QED
      BY <2>1 DEF CompleteAt
  <1>. QED
    BY <1>2, <1>3 DEF CompleteAt

\* A token is consumed, and what is read still begins a statement.
LEMMA Advanced ==
    ASSUME TokensInv, GrammarInv, Match \/ ParseIdentifier \/ ParseLiteral
    PROVE  GrammarInv' /\ first < cur
  <1>1. /\ Edge(at, ClassOf(toks[cur]), at') /\ at \in ParserPlaces /\ at' \in ParserPlaces \cup {"end"}
        /\ cur <= Len(toks) /\ cur' = cur + 1 /\ toks[cur] # "EOF"
        /\ UNCHANGED <<toks, first>>
    BY Advances
  <1>2. first < cur /\ Reads(toks, first, cur - first, at) /\ first \in Nat \ {0} /\ cur \in Nat
    BY <1>1 DEF GrammarInv, TokensInv
  <1>3. cur <= MaxTokens
    BY <1>1, MaxTokensAssumption DEF TokensInv
  <1>4. cur - first \in 0..MaxTokens - 1 /\ first + (cur - first) = cur
    BY <1>2, <1>3, MaxTokensAssumption
  <1>5. Reads(toks, first, (cur - first) + 1, at')
    BY <1>1, <1>2, <1>4, ReadsMore
  <1>6. (cur - first) + 1 = cur' - first'
    BY <1>1, <1>2
  <1>7. Reads(toks', first', cur' - first', at') /\ first' < cur'
    BY <1>1, <1>2, <1>5, <1>6
  <1>8. ASSUME at' = "end" PROVE CompleteAt(cur - first, "end")'
    <2>1. cur' - first' \in 1..cur' - first' /\ first' + (cur' - first') = cur'
      BY <1>1, <1>2
    <2>2. \A i \in first' + (cur' - first')..cur' - 1 : FALSE
      BY <1>1, <1>2
    <2>. QED
      BY <1>7, <1>8, <2>1, <2>2 DEF CompleteAt
  <1>9. at' = "end" => \E n, p : CompleteAt(n, p)'
    BY <1>8
  <1>. QED
    BY <1>1, <1>2, <1>7, <1>9 DEF GrammarInv, ParserPlaces

\* A step to a place where no statement is under way.
Elsewhere == {"idle", "front", "statement", "failed", "cleanup", "done"}

\* The statement under way, at every step.
LEMMA GrammarStep ==
    ASSUME TokensInv, GrammarInv, SqlNext
    PROVE  GrammarInv'
  <1>0. cur \in Nat \ {0} /\ first \in Nat \ {0} /\ first <= cur
    BY DEF TokensInv
  <1>1. CASE at' \in Elsewhere
    BY <1>1 DEF GrammarInv, ParserPlaces, Elsewhere
  <1>2. CASE Reveal
    <2>1. /\ Len(toks) = cur - 1 /\ \A i \in 1..cur - 1 : toks'[i] = toks[i]
          /\ Len(toks') = cur
      BY <1>2, RevealAppends
    <2>2. UNCHANGED <<cur, first, at>>
      BY <1>2 DEF Reveal
    <2>3. ASSUME NEW n \in 1..cur - first, NEW p, Reads(toks, first, n, p) PROVE Reads(toks', first, n, p)
      <3>1. n \in Nat
        BY <1>0, <2>3
      <3>2. \A i \in first..first + n - 1 : i \in 1..cur - 1
        BY <1>0, <2>3
      <3>. QED
        BY <1>0, <2>1, <2>3, <3>1, <3>2, ReadsStable
    <2>4. at \in ParserPlaces => first < cur /\ Reads(toks', first, cur - first, at)
      <3>1. first < cur => cur - first \in 1..cur - first
        BY <1>0
      <3>. QED
        BY <2>3, <3>1 DEF GrammarInv
    <2>5. ASSUME NEW n, NEW p, CompleteAt(n, p) PROVE CompleteAt(n, p)'
      <3>1. n \in 1..cur - first /\ Reads(toks', first, n, p)
        BY <2>3, <2>5 DEF CompleteAt
      <3>2. \A i \in first + n..cur - 1 : toks'[i] = "SEMICOLON"
        <4>1. \A i \in first + n..cur - 1 : i \in 1..cur - 1
          BY <1>0, <3>1
        <4>. QED
          BY <2>1, <2>5, <4>1 DEF CompleteAt
      <3>3. p = "where" => first + n <= Len(toks') /\ toks'[first + n] # "WHERE"
        <4>1. first + n <= Len(toks) => first + n \in 1..cur - 1
          BY <1>0, <2>1, <3>1
        <4>. QED
          BY <1>0, <2>1, <2>5, <3>1, <4>1 DEF CompleteAt
      <3>. QED
        BY <2>2, <2>5, <3>1, <3>2, <3>3 DEF CompleteAt
    <2>. QED
      BY <2>2, <2>4, <2>5 DEF GrammarInv
  <1>3. CASE BeginStatement /\ at' \notin Elsewhere
    <2>1. /\ toks[cur] \in {"INSERT", "SELECT"} /\ cur <= Len(toks)
          /\ first' = cur /\ cur' = cur + 1 /\ UNCHANGED toks
          /\ at' = IF toks[cur] = "INSERT" THEN "into" ELSE "items"
      BY <1>3 DEF BeginStatement, Sees, Skip, Elsewhere
    <2>2. Edge("start", ClassOf(toks[cur]), at')
      BY <2>1 DEF Edge, ClassOf, Literals
    <2>3. 0 \in 0..MaxTokens - 1 /\ cur + 0 = cur /\ 0 + 1 = 1
      BY <1>0, MaxTokensAssumption
    <2>4. Reads(toks, cur, 0, "start")
      BY ReadsNothing
    <2>5. Reads(toks, cur, 0 + 1, at')
      BY <1>0, <2>2, <2>3, <2>4, ReadsMore
    <2>6. cur' - first' = 0 + 1 /\ first' < cur'
      BY <1>0, <2>1
    <2>7. Reads(toks', first', cur' - first', at')
      BY <2>1, <2>5, <2>6
    <2>. QED
      BY <2>1, <2>6, <2>7 DEF GrammarInv
  <1>4. CASE Match \/ ParseIdentifier \/ ParseLiteral
    BY <1>4, Advanced
  <1>5. CASE EndStatement
    <2>1. CASE at = "where" /\ SeesOther({"WHERE"}) /\ Goto("end")
      <3>1. /\ first < cur /\ Reads(toks, first, cur - first, "where")
            /\ cur <= Len(toks) /\ toks[cur] # "WHERE"
        BY <2>1 DEF GrammarInv, ParserPlaces, SeesOther
      <3>2. cur - first \in 1..cur - first /\ first + (cur - first) = cur
        BY <1>0, <3>1
      <3>3. CompleteAt(cur - first, "where")
        BY <1>0, <3>1, <3>2 DEF CompleteAt
      <3>4. UNCHANGED <<toks, first, cur>> /\ at' = "end"
        BY <2>1 DEF Goto
      <3>5. \E n, p : CompleteAt(n, p)'
        BY <3>3, <3>4, OneMoreSemicolon
      <3>. QED
        BY <3>4, <3>5 DEF GrammarInv, ParserPlaces
    <2>2. CASE at = "end" /\ at' = "parsed"
      <3>1. PICK n, p : CompleteAt(n, p)
        BY <2>2 DEF GrammarInv
      <3>2. UNCHANGED <<toks, first>> /\ (cur' = cur \/ (cur' = cur + 1 /\ toks[cur] = "SEMICOLON"))
        BY <1>5, <2>2 DEF EndStatement, Sees, Skip, Goto
      <3>3. CompleteAt(n, p)'
        BY <3>1, <3>2, OneMoreSemicolon
      <3>. QED
        BY <2>2, <3>3 DEF GrammarInv, ParserPlaces
    <2>. QED
      BY <1>5, <2>1, <2>2 DEF EndStatement, Skip, Goto
  <1>6. CASE (ApiGate \/ CliParsed) /\ at' \notin Elsewhere
    <2>1. /\ at = "parsed" /\ at' \in {"parsed", "execute"} /\ UNCHANGED <<toks, first>>
          /\ cur' = cur \/ (cur' = cur + 1 /\ toks[cur] = "SEMICOLON")
      BY <1>6 DEF ApiGate, CliParsed, Sees, Skip, Goto, Answer, Elsewhere
    <2>2. PICK n, p : CompleteAt(n, p)
      BY <2>1 DEF GrammarInv
    <2>3. CompleteAt(n, p)'
      BY <2>1, <2>2, OneMoreSemicolon
    <2>. QED
      BY <2>1, <2>3 DEF GrammarInv, ParserPlaces
  <1>7. CASE Unexpected \/ ListAllocationFails \/ LexerFails \/ ContextFails \/ ApiParseError \/ ApiExecute \/ Cleanup
    BY <1>1, <1>7 DEF Unexpected, ListAllocationFails, LexerFails, ContextFails, ApiParseError, ApiExecute,
                      Cleanup, Answer, Elsewhere
  <1>8. CASE ApiFront \/ CliFront \/ CliParseError \/ CliExecute \/ CliExecuteFails
    BY <1>1, <1>8 DEF ApiFront, CliFront, CliParseError, CliExecute, CliExecuteFails, Skip, Goto, Answer, Elsewhere
  <1>. QED
    BY <1>1, <1>2, <1>3, <1>4, <1>5, <1>6, <1>7, <1>8 DEF SqlNext, Parser

-----------------------------------------------------------------------------
(* The answer of the API.                                                  *)

\* The parser is stuck at a token no statement goes on with.
StuckAt(p) ==
    /\ p \in ParserPlaces \ {"where"} /\ cur = Len(toks)
    /\ Reads(toks, first, cur - first, p)
    /\ \A q : ~Edge(p, ClassOf(toks[cur]), q)

\* A statement is under way, and none was before it.
Begun == {"end", "parsed", "execute", "failed"} \cup ParserPlaces

ApiInv ==
    /\ at \in {"idle", "front", "statement"} => \A i \in 1..cur - 1 : toks[i] = "SEMICOLON"
    /\ at = "statement" => cur <= Len(toks) /\ toks[cur] \in {"INSERT", "SELECT"}
    /\ at \in Begun => /\ first < cur /\ toks[first] \in {"INSERT", "SELECT"}
                       /\ \A i \in 1..first - 1 : toks[i] = "SEMICOLON"
    /\ at = "failed" /\ broken = "no" => \E p : StuckAt(p)
    /\ at = "execute" => cur = Len(toks) /\ toks[cur] = "EOF"
    /\ verdict # "none" => at \in {"cleanup", "done"}
    /\ verdict # "none" /\ broken = "no" => verdict = Deserved(toks)

\* The first token that is no semicolon begins no statement.
LEMMA DeservesNoStatement ==
    ASSUME TokensInv, cur <= Len(toks), \A i \in 1..cur - 1 : toks[i] = "SEMICOLON"
    PROVE  /\ toks[cur] = "EOF" => Deserved(toks) = "EMPTY_QUERY"
           /\ toks[cur] \notin {"SEMICOLON", "EOF", "INSERT", "SELECT"} => Deserved(toks) = "UNSUPPORTED_QUERY"
  <1>. SUFFICES ASSUME toks[cur] # "SEMICOLON"
                PROVE  /\ toks[cur] = "EOF" => Deserved(toks) = "EMPTY_QUERY"
                       /\ toks[cur] \notin {"SEMICOLON", "EOF", "INSERT", "SELECT"} => Deserved(toks) = "UNSUPPORTED_QUERY"
    OBVIOUS
  <1>1. cur \in Nat \ {0} /\ Len(toks) \in Nat /\ cur \in 1..Len(toks) /\ toks \in Seq(Tokens)
    BY DEF TokensInv
  <1>2. \A i \in 1..Len(toks) - cur + 1 : AfterSemicolons(toks)[i] = toks[cur + i - 1]
    BY <1>1, SkipSemicolons
  <1>3. 1 \in 1..Len(toks) - cur + 1 /\ cur + 1 - 1 = cur
    BY <1>1
  <1>4. AfterSemicolons(toks)[1] = toks[cur]
    BY <1>2, <1>3
  <1>. QED
    BY <1>4, DeservedIs

\* A parser that is stuck has met a parse error.
LEMMA DeservesParseError ==
    ASSUME TokensInv, NEW p, StuckAt(p), first < cur, toks[first] \in {"INSERT", "SELECT"},
           \A i \in 1..first - 1 : toks[i] = "SEMICOLON"
    PROVE  Deserved(toks) = "SQL_PARSE_ERROR"
  <1>1. /\ cur \in Nat \ {0} /\ first \in Nat \ {0} /\ cur = Len(toks) /\ toks \in Seq(Tokens)
    BY DEF TokensInv, StuckAt
  <1>2. first \in 1..Len(toks) /\ cur - first \in 1..Len(toks) - first /\ first + (cur - first) = cur
    BY <1>1
  <1>3. \A q : ~Edge(p, ClassOf(toks[first + (cur - first)]), q)
    BY <1>2 DEF StuckAt
  <1>4. Reads(toks, first, cur - first, p) /\ p \notin {"where", "end"}
    BY DEF StuckAt, ParserPlaces
  <1>. QED
    BY <1>1, <1>2, <1>3, <1>4, FirstStatement

\* Behind a whole statement the next token decides.
LEMMA DeservesStatement ==
    ASSUME TokensInv, NEW n, NEW p, CompleteAt(n, p), first < cur, toks[first] \in {"INSERT", "SELECT"},
           \A i \in 1..first - 1 : toks[i] = "SEMICOLON",
           cur <= Len(toks), toks[cur] # "SEMICOLON"
    PROVE  Deserved(toks) = IF toks[cur] = "EOF" THEN "executed" ELSE "MULTI_STATEMENT_NOT_ALLOWED"
  <1>1. /\ cur \in Nat \ {0} /\ first \in Nat \ {0} /\ cur = Len(toks) /\ toks \in Seq(Tokens)
    BY DEF TokensInv
  <1>2. n \in 1..cur - first /\ p \in {"where", "end"} /\ Reads(toks, first, n, p)
    BY DEF CompleteAt
  <1>3. first \in 1..Len(toks) /\ n \in 1..Len(toks) - first /\ first + n \in 1..Len(toks) /\ cur \in first + n..Len(toks)
    BY <1>1, <1>2
  <1>4. \A q : ~Edge(p, ClassOf(toks[first + n]), q)
    BY <1>2 DEF CompleteAt, Edge, ClassOf
  <1>5. Deserved(toks) = IF AfterSemicolons(SubSeq(toks, first + n, Len(toks))) = <<"EOF">>
                           THEN "executed" ELSE "MULTI_STATEMENT_NOT_ALLOWED"
    BY <1>1, <1>2, <1>3, <1>4, FirstStatement
  <1>6. \A i \in first + n..cur - 1 : toks[i] = "SEMICOLON"
    BY DEF CompleteAt
  <1>7. /\ toks[cur] = "EOF" => AfterSemicolons(SubSeq(toks, first + n, Len(toks))) = <<"EOF">>
        /\ toks[cur] # "EOF" => AfterSemicolons(SubSeq(toks, first + n, Len(toks))) # <<"EOF">>
    BY <1>1, <1>3, <1>6, AfterStatement
  <1>. QED
    BY <1>5, <1>7

\* The answer of the API, at every step.
LEMMA ApiStep ==
    ASSUME TokensInv, GrammarInv, ApiInv, mode = "api", SqlNext
    PROVE  ApiInv'
  <1>0. cur \in Nat \ {0} /\ first \in Nat \ {0} /\ first <= cur /\ toks \in Seq(Tokens)
    BY DEF TokensInv
  <1>. USE DEF Begun, ParserPlaces
  <1>1. CASE Reveal
    <2>1. /\ Len(toks) = cur - 1 /\ \A i \in 1..cur - 1 : toks'[i] = toks[i]
          /\ Len(toks') = cur
      BY <1>1, RevealAppends
    <2>2. UNCHANGED <<cur, first, at, broken, verdict>> /\ at \notin {"idle", "execute", "failed", "cleanup", "done"}
      BY <1>1 DEF Reveal
    <2>3. at # "statement"
      BY <1>0, <2>1 DEF ApiInv
    <2>4. verdict = "none"
      BY <2>2 DEF ApiInv
    <2>5. \A i \in 1..first - 1 : i \in 1..cur - 1
      BY <1>0
    <2>6. first < cur => first \in 1..cur - 1
      BY <1>0
    <2>7. at \in {"idle", "front", "statement"} => \A i \in 1..cur - 1 : toks'[i] = "SEMICOLON"
      BY <2>1 DEF ApiInv
    <2>8. at \in Begun => /\ first < cur /\ toks'[first] \in {"INSERT", "SELECT"}
                          /\ \A i \in 1..first - 1 : toks'[i] = "SEMICOLON"
      BY <2>1, <2>5, <2>6 DEF ApiInv
    <2>. QED
      BY <2>2, <2>3, <2>4, <2>7, <2>8 DEF ApiInv
  <1>2. CASE BeginStatement
    <2>1. cur <= Len(toks) /\ toks[cur] \in {"INSERT", "SELECT"} /\ verdict = "none"
          /\ \A i \in 1..cur - 1 : toks[i] = "SEMICOLON"
      BY <1>2 DEF BeginStatement, ApiInv
    <2>2. /\ first' = cur /\ cur' = cur + 1 /\ UNCHANGED <<toks, verdict>>
          /\ at' \in {"into", "items"}
      BY <1>2, <2>1 DEF BeginStatement, Sees, SeesOther, Skip
    <2>3. first' < cur'
      BY <1>0, <2>2
    <2>. QED
      BY <2>1, <2>2, <2>3 DEF ApiInv
  <1>3. CASE Match \/ ParseIdentifier \/ ParseLiteral
    <2>1. /\ at \in ParserPlaces /\ at' \in ParserPlaces \cup {"end"} /\ cur' = cur + 1
          /\ UNCHANGED <<mode, toks, first, broken, verdict>>
      BY <1>3, Advances
    <2>2. first < cur' /\ verdict = "none" /\ toks[first] \in {"INSERT", "SELECT"}
          /\ \A i \in 1..first - 1 : toks[i] = "SEMICOLON"
      BY <1>0, <2>1 DEF ApiInv
    <2>. QED
      BY <2>1, <2>2 DEF ApiInv
  <1>4. CASE Unexpected
    <2>0. toks[cur] \in Tokens
      BY <1>0, <1>4 DEF Unexpected, SeesOther
    <2>1. /\ at \in ParserPlaces \ {"where"} /\ \A q : ~Edge(at, ClassOf(toks[cur]), q)
          /\ cur <= Len(toks) /\ at' = "failed"
          /\ UNCHANGED <<mode, toks, cur, first, broken, verdict>>
      BY <1>4, <2>0, Refuses
    <2>2. StuckAt(at)
      BY <1>0, <2>1 DEF StuckAt, GrammarInv, TokensInv
    <2>3. \E p : StuckAt(p)'
      <3>1. PICK p : StuckAt(p)
        BY <2>2
      <3>2. StuckAt(p)'
        BY <2>1, <3>1 DEF StuckAt
      <3>. QED
        BY <3>2
    <2>. QED
      BY <2>1, <2>3 DEF ApiInv
  <1>5. CASE ListAllocationFails
    BY <1>5 DEF ListAllocationFails, ApiInv
  <1>6. CASE EndStatement
    <2>1. /\ at \in {"where", "end"} /\ at' \in {"end", "parsed"} /\ cur' \in {cur, cur + 1}
          /\ UNCHANGED <<toks, first, broken, verdict>>
      BY <1>6 DEF EndStatement, Skip, Goto
    <2>2. first < cur'
      BY <1>0, <2>1 DEF ApiInv
    <2>. QED
      BY <2>1, <2>2 DEF ApiInv
  <1>7. CASE LexerFails \/ ContextFails
    BY <1>7 DEF LexerFails, ContextFails, ApiInv
  <1>8. CASE ApiFront
    <2>1. /\ at = "front" /\ verdict = "none" /\ \A i \in 1..cur - 1 : toks[i] = "SEMICOLON"
          /\ UNCHANGED <<toks, broken>> /\ cur <= Len(toks)
      BY <1>8 DEF ApiFront, Sees, SeesOther, Skip, Goto, Answer, ApiInv
    <2>2. CASE Sees({"SEMICOLON"}) /\ Skip("front")
      <3>1. at' = "front" /\ cur' = cur + 1 /\ toks[cur] = "SEMICOLON" /\ UNCHANGED verdict
        BY <2>2 DEF Sees, Skip
      <3>2. \A i \in 1..cur' - 1 : i \in 1..cur - 1 \/ i = cur
        BY <1>0, <3>1
      <3>. QED
        BY <2>1, <3>1, <3>2 DEF ApiInv
    <2>3. CASE Sees({"INSERT", "SELECT"}) /\ Goto("statement")
      BY <2>1, <2>3 DEF Sees, Goto, ApiInv
    <2>4. CASE Sees({"EOF"}) /\ Answer("EMPTY_QUERY")
      <3>1. Deserved(toks) = "EMPTY_QUERY" /\ at' = "cleanup" /\ verdict' = "EMPTY_QUERY"
        BY <2>1, <2>4, DeservesNoStatement DEF Sees, Answer
      <3>. QED
        BY <2>1, <3>1 DEF ApiInv
    <2>5. CASE SeesOther({"SEMICOLON", "EOF", "INSERT", "SELECT"}) /\ Answer("UNSUPPORTED_QUERY")
      <3>1. Deserved(toks) = "UNSUPPORTED_QUERY" /\ at' = "cleanup" /\ verdict' = "UNSUPPORTED_QUERY"
        BY <2>1, <2>5, DeservesNoStatement DEF SeesOther, Answer
      <3>. QED
        BY <2>1, <3>1 DEF ApiInv
    <2>. QED
      BY <1>8, <2>2, <2>3, <2>4, <2>5 DEF ApiFront
  <1>9. CASE ApiParseError
    <2>1. at = "failed" /\ at' = "cleanup" /\ verdict' = "SQL_PARSE_ERROR" /\ UNCHANGED <<toks, broken>>
      BY <1>9 DEF ApiParseError, Answer
    <2>2. broken = "no" => Deserved(toks) = "SQL_PARSE_ERROR"
      BY <2>1, DeservesParseError DEF ApiInv
    <2>. QED
      BY <2>1, <2>2 DEF ApiInv
  <1>10. CASE ApiGate
    <2>0. PICK n, p : CompleteAt(n, p)
      BY <1>10 DEF ApiGate, GrammarInv
    <2>1. /\ at = "parsed" /\ verdict = "none" /\ first < cur /\ toks[first] \in {"INSERT", "SELECT"}
          /\ \A i \in 1..first - 1 : toks[i] = "SEMICOLON"
          /\ UNCHANGED <<toks, first, broken>> /\ cur <= Len(toks) /\ cur = Len(toks)
      BY <1>0, <1>10 DEF ApiGate, Sees, SeesOther, Skip, Goto, Answer, ApiInv, TokensInv
    <2>2. CASE Sees({"SEMICOLON"}) /\ Skip("parsed")
      <3>1. at' = "parsed" /\ first < cur' /\ UNCHANGED verdict
        BY <1>0, <2>1, <2>2 DEF Skip
      <3>. QED
        BY <2>1, <3>1 DEF ApiInv
    <2>3. CASE Sees({"EOF"}) /\ Goto("execute")
      BY <2>1, <2>3 DEF Sees, Goto, ApiInv
    <2>4. CASE SeesOther({"SEMICOLON", "EOF"}) /\ Answer("MULTI_STATEMENT_NOT_ALLOWED")
      <3>1. toks[cur] \notin {"SEMICOLON", "EOF"} /\ at' = "cleanup" /\ verdict' = "MULTI_STATEMENT_NOT_ALLOWED"
        BY <2>4 DEF SeesOther, Answer
      <3>2. Deserved(toks) = "MULTI_STATEMENT_NOT_ALLOWED"
        BY <2>0, <2>1, <3>1, DeservesStatement
      <3>. QED
        BY <2>1, <3>1, <3>2 DEF ApiInv
    <2>. QED
      BY <1>10, <2>2, <2>3, <2>4 DEF ApiGate
  <1>11. CASE ApiExecute
    <2>0. PICK n, p : CompleteAt(n, p)
      BY <1>11 DEF ApiExecute, GrammarInv
    <2>1. /\ at = "execute" /\ first < cur /\ toks[first] \in {"INSERT", "SELECT"}
          /\ \A i \in 1..first - 1 : toks[i] = "SEMICOLON"
          /\ UNCHANGED <<toks, broken>> /\ cur <= Len(toks) /\ toks[cur] = "EOF"
          /\ at' = "cleanup" /\ verdict' = "executed"
      BY <1>0, <1>11 DEF ApiExecute, ApiInv
    <2>2. Deserved(toks) = "executed"
      BY <2>0, <2>1, DeservesStatement
    <2>. QED
      BY <2>1, <2>2 DEF ApiInv
  <1>12. CASE Cleanup
    BY <1>12 DEF Cleanup, ApiInv
  <1>13. CASE CliFront \/ CliParsed \/ CliParseError \/ CliExecute \/ CliExecuteFails
    BY <1>13 DEF CliFront, CliParsed, CliParseError, CliExecute, CliExecuteFails
  <1>. QED
    BY <1>1, <1>2, <1>3, <1>4, <1>5, <1>6, <1>7, <1>8, <1>9, <1>10, <1>11, <1>12, <1>13 DEF SqlNext, Parser

SyntaxInv == TokensInv /\ GrammarInv /\ (mode = "api" => ApiInv)

\* The inductive invariant of the tokens, the parser and the API.
LEMMA SyntaxInvHolds == Spec => []SyntaxInv
  <1>1. Init => SyntaxInv
    <2>. SUFFICES ASSUME Init PROVE SyntaxInv
      OBVIOUS
    <2>1. toks = <<>> /\ cur = 1 /\ first = 1 /\ at \in {"idle", "front"} /\ verdict = "none"
      BY DEF Init, SqlInit
    <2>2. TokensInv
      <3>1. toks \in Seq(Tokens) /\ Len(toks) = 0
        BY <2>1
      <3>. QED
        BY <2>1, <3>1, MaxTokensAssumption DEF TokensInv
    <2>3. GrammarInv /\ ApiInv
      BY <2>1 DEF GrammarInv, ApiInv, ParserPlaces, Begun
    <2>. QED
      BY <2>2, <2>3 DEF SyntaxInv
  <1>2. SyntaxInv /\ [Next]_vars => SyntaxInv'
    <2>. SUFFICES ASSUME SyntaxInv, [Next]_vars PROVE SyntaxInv'
      OBVIOUS
    <2>1. CASE UNCHANGED sqlVars
      BY <2>1 DEF sqlVars, SyntaxInv, TokensInv, GrammarInv, ApiInv, CompleteAt, StuckAt
    <2>2. CASE BeginSql
      <3>1. /\ at = "idle" /\ at' = "front"
            /\ UNCHANGED <<mode, toks, cur, first, broken, verdict>>
        BY <2>2 DEF BeginSql
      <3>. QED
        BY <3>1 DEF SyntaxInv, TokensInv, GrammarInv, ApiInv, ParserPlaces, Begun
    <2>3. CASE SqlNext
      <3>1. UNCHANGED mode
        BY <2>3, RevealOrLook DEF Reveal, Looks
      <3>. QED
        BY <2>3, <3>1, TokensStep, GrammarStep, ApiStep DEF SyntaxInv
    <2>. QED
      BY Zenon, <2>1, <2>2, <2>3 DEF Next, Respond, Finished, vars, sqlVars
  <1>. QED
    BY <1>1, <1>2, PTL DEF Spec

\* For every text of up to MaxTokens tokens, for every MaxTokens: the API
\* executes it exactly if it is one statement of the grammar among semicolons,
\* and tells apart why it does not.
THEOREM ApiAnswersAsDeserved == Spec => []ApiVerdictIsDeserved
  <1>1. SyntaxInv => ApiVerdictIsDeserved
    BY DEF SyntaxInv, ApiInv, ApiVerdictIsDeserved
  <1>. QED
    BY <1>1, SyntaxInvHolds, PTL

-----------------------------------------------------------------------------
(* The texts the statement under way keeps.                                *)

KeptTokens == Literals \cup {"identifier"}
KeptIn(t, a, b) == {i \in a..b : t[i] \in KeptTokens}

InsertLists == {"afterTable", "column", "moreColumns", "values", "open", "value", "moreValues"}
SelectLists == {"items", "item", "moreItems", "from", "fromTable"}

\* They are those of its tokens up to the cursor, in their order.
PartsInv ==
    LET kept == KeptIn(toks, first, cur - 1) IN
    /\ at \in {"into", "intoTable"} =>
          stmt.type = "insert" /\ stmt.columns = <<>> /\ stmt.values = <<>> /\ kept = {}
    /\ at \in InsertLists =>
          /\ stmt.type = "insert" /\ InOrder(<<stmt.table>> \o stmt.columns \o stmt.values, kept)
          /\ at \notin {"value", "moreValues"} => stmt.values = <<>>
    /\ at \in SelectLists => stmt.type = "select" /\ InOrder(stmt.columns, kept)
    /\ at \in {"where", "whereColumn"} =>
          stmt.type = "select" /\ stmt.whereColumn = 0 /\ InOrder(stmt.columns \o <<stmt.table>>, kept)
    /\ at \in {"equal", "whereValue"} =>
          /\ stmt.type = "select" /\ stmt.whereColumn # 0
          /\ InOrder(stmt.columns \o <<stmt.table>> \o <<stmt.whereColumn>>, kept)
    /\ at \in {"end", "parsed", "execute"} => InOrder(Written(stmt), kept)

\* One token more, whose text is kept or not.
LEMMA KeptMore ==
    ASSUME NEW t, NEW a \in Nat, NEW b \in Nat, a <= b
    PROVE  /\ t[b] \in KeptTokens => KeptIn(t, a, b) = KeptIn(t, a, b - 1) \cup {b}
           /\ t[b] \notin KeptTokens => KeptIn(t, a, b) = KeptIn(t, a, b - 1)
           /\ \A i \in KeptIn(t, a, b - 1) : i < b /\ i \in Nat
  <1>1. a..b = (a..b - 1) \cup {b} /\ b \notin a..b - 1
    OBVIOUS
  <1>. QED
    BY <1>1 DEF KeptIn

\* A list in order stays so if something larger is appended.
LEMMA InOrderAppend ==
    ASSUME NEW w \in Seq(Nat), NEW S, InOrder(w, S), NEW c \in Nat, \A i \in S : i < c
    PROVE  InOrder(Append(w, c), S \cup {c})
  <1>1. Range(Append(w, c)) = S \cup {c}
    BY RangeAppend DEF InOrder
  <1>2. /\ DOMAIN w = 1..Len(w) /\ DOMAIN Append(w, c) = 1..(Len(w) + 1) /\ Len(w) \in Nat
        /\ \A i \in 1..Len(w) : Append(w, c)[i] = w[i]
        /\ Append(w, c)[Len(w) + 1] = c
    OBVIOUS
  <1>3. \A i \in 1..Len(w) : w[i] < c
    BY <1>2 DEF InOrder, Range
  <1>4. ASSUME NEW i \in DOMAIN Append(w, c), NEW j \in DOMAIN Append(w, c), i < j
        PROVE  Append(w, c)[i] < Append(w, c)[j]
    <2>1. i \in 1..Len(w) /\ i \in Nat /\ j \in Nat
      BY <1>2, <1>4
    <2>2. CASE j \in 1..Len(w)
      <3>1. w[i] < w[j]
        BY <1>2, <1>4, <2>1, <2>2 DEF InOrder
      <3>. QED
        BY <1>2, <2>1, <2>2, <3>1
    <2>3. CASE j = Len(w) + 1
      BY <1>2, <1>3, <2>1, <2>3
    <2>. QED
      BY <1>2, <2>2, <2>3
  <1>. QED
    BY <1>1, <1>4 DEF InOrder

\* A list that is appended to at its end, whatever it consists of.
LEMMA ListsAppend ==
    ASSUME NEW p \in Nat, NEW c \in Nat, NEW l \in Seq(Nat), NEW m \in Seq(Nat)
    PROVE  /\ <<p>> \o l \o m \in Seq(Nat) /\ l \o <<p>> \in Seq(Nat) /\ l \o <<p>> \o <<c>> \in Seq(Nat)
           /\ <<p>> \o Append(l, c) \o <<>> = Append(<<p>> \o l \o <<>>, c)
           /\ <<p>> \o l \o Append(m, c) = Append(<<p>> \o l \o m, c)
           /\ l \o <<p>> = Append(l, p)
           /\ l \o <<p>> \o <<c>> = Append(l \o <<p>>, c)
  <1>1. <<p>> \in Seq(Nat) /\ <<c>> \in Seq(Nat) /\ <<>> \in Seq(Nat)
    OBVIOUS
  <1>2. \A s \in Seq(Nat), k \in Nat : s \o <<k>> = Append(s, k) /\ s \o <<k>> \in Seq(Nat) /\ Append(s, k) \in Seq(Nat)
    OBVIOUS
  <1>3. \A s, t, u \in Seq(Nat) : (s \o t) \o u = s \o (t \o u) /\ s \o t \in Seq(Nat) /\ s \o <<>> = s
    <2>. TAKE s, t, u \in Seq(Nat)
    <2>1. (s \o t) \o u = s \o (t \o u)
      BY SMTT(30), ConcatAssociative
    <2>2. s \o <<>> = s
      BY ConcatEmptySeq
    <2>3. s \o t \in Seq(Nat)
      BY ConcatProperties
    <2>. QED
      BY <2>1, <2>2, <2>3
  <1>4. <<p>> \o Append(l, c) = Append(<<p>> \o l, c)
    <2>1. Append(l, c) = l \o <<c>> /\ <<p>> \o l \in Seq(Nat)
      BY <1>1, <1>2, <1>3
    <2>2. Append(<<p>> \o l, c) = (<<p>> \o l) \o <<c>>
      BY <1>2, <2>1
    <2>. QED
      BY <1>1, <1>3, <2>1, <2>2
  <1>5. (<<p>> \o l) \o Append(m, c) = Append((<<p>> \o l) \o m, c)
    <2>1. Append(m, c) = m \o <<c>> /\ <<p>> \o l \in Seq(Nat)
      BY <1>1, <1>2, <1>3
    <2>2. (<<p>> \o l) \o m \in Seq(Nat)
      BY <1>3, <2>1
    <2>3. Append((<<p>> \o l) \o m, c) = ((<<p>> \o l) \o m) \o <<c>>
      BY <1>2, <2>2
    <2>. QED
      BY SMTT(30), <1>1, <1>3, <2>1, <2>3
  <1>6. <<p>> \o l \in Seq(Nat) /\ Append(l, c) \in Seq(Nat) /\ <<p>> \o Append(l, c) \in Seq(Nat)
    BY <1>1, <1>2, <1>3
  <1>7. /\ (<<p>> \o Append(l, c)) \o <<>> = <<p>> \o Append(l, c)
        /\ (<<p>> \o l) \o <<>> = <<p>> \o l
    BY <1>3, <1>6
  <1>. QED
    BY ZenonT(60), <1>1, <1>2, <1>3, <1>4, <1>5, <1>6, <1>7

\* Looking at a token keeps nothing.
LEMMA KeptStays ==
    ASSUME TokensInv, UNCHANGED <<first, cur>>,
           \A i \in 1..cur - 1 : toks'[i] = toks[i]
    PROVE  KeptIn(toks', first', cur' - 1) = KeptIn(toks, first, cur - 1)
  <1>1. \A i \in first..cur - 1 : i \in 1..cur - 1
    BY DEF TokensInv
  <1>. QED
    BY <1>1 DEF KeptIn

\* A step over a token whose text is not kept, or over none.
LEMMA PartsKept ==
    ASSUME TokensInv, PartsInv, stmt \in StatementType, UNCHANGED <<toks, first, stmt>>,
           \/ cur' = cur
           \/ cur' = cur + 1 /\ toks[cur] \notin KeptTokens,
           \/ at = "into" /\ at' = "intoTable"
           \/ at \in InsertLists /\ at' \in InsertLists /\ at \notin {"value", "moreValues"}
           \/ at \in InsertLists /\ at' \in {"value", "moreValues"}
           \/ at = "moreValues" /\ at' = "end"
           \/ at \in SelectLists /\ at' \in SelectLists
           \/ at = "where" /\ at' \in {"whereColumn", "end"}
           \/ at = "equal" /\ at' = "whereValue"
           \/ at \in {"end", "parsed", "execute"} /\ at' \in {"end", "parsed", "execute"}
    PROVE  PartsInv'
  <1>. DEFINE kept == KeptIn(toks, first, cur - 1)
  <1>1. first \in Nat /\ cur \in Nat /\ first <= cur
    BY DEF TokensInv
  <1>2. (cur + 1) - 1 = cur
    BY <1>1
  <1>3. kept' = kept
    BY <1>1, <1>2, KeptMore
  <1>. HIDE DEF kept
  <1>4. at = "moreValues" => Written(stmt) = <<stmt.table>> \o stmt.columns \o stmt.values
    BY DEF PartsInv, Written, InsertLists
  <1>5. at = "where" => Written(stmt) = stmt.columns \o <<stmt.table>>
    <2>1. stmt.columns \o <<stmt.table>> \in Seq(Nat)
      BY ListsAppend DEF StatementType
    <2>2. stmt.columns \o <<stmt.table>> \o <<>> = stmt.columns \o <<stmt.table>>
      BY <2>1, ConcatEmptySeq
    <2>. QED
      BY <2>2 DEF PartsInv, Written
  <1>. USE DEF InsertLists, SelectLists
  <1>6. CASE at = "into" /\ at' = "intoTable"
    BY <1>3, <1>6 DEF PartsInv, kept
  <1>7. CASE at \in InsertLists /\ at' \in InsertLists /\ (at \notin {"value", "moreValues"} \/ at' \in {"value", "moreValues"})
    <2>1. stmt.type = "insert" /\ InOrder(<<stmt.table>> \o stmt.columns \o stmt.values, kept)
          /\ (at' \notin {"value", "moreValues"} => stmt.values = <<>>)
      BY <1>7 DEF PartsInv, kept
    <2>2. InOrder(<<stmt.table>> \o stmt.columns \o stmt.values, kept)'
      BY <1>3, <2>1
    <2>. QED
      BY <1>7, <2>1, <2>2 DEF PartsInv, kept
  <1>8. CASE at = "moreValues" /\ at' = "end"
    <2>1. InOrder(Written(stmt), kept)
      BY <1>4, <1>8 DEF PartsInv, kept
    <2>2. InOrder(Written(stmt), kept)'
      BY <1>3, <2>1
    <2>. QED
      BY <1>8, <2>2 DEF PartsInv, kept
  <1>9. CASE at \in SelectLists /\ at' \in SelectLists
    <2>1. stmt.type = "select" /\ InOrder(stmt.columns, kept)
      BY <1>9 DEF PartsInv, kept
    <2>2. InOrder(stmt.columns, kept)'
      BY <1>3, <2>1
    <2>. QED
      BY <1>9, <2>1, <2>2 DEF PartsInv, kept
  <1>10. CASE at = "where" /\ at' \in {"whereColumn", "end"}
    <2>1. stmt.type = "select" /\ stmt.whereColumn = 0 /\ InOrder(stmt.columns \o <<stmt.table>>, kept)
      BY <1>10 DEF PartsInv, kept
    <2>2. InOrder(stmt.columns \o <<stmt.table>>, kept)' /\ InOrder(Written(stmt), kept)'
      BY <1>3, <1>5, <1>10, <2>1
    <2>. QED
      BY <1>10, <2>1, <2>2 DEF PartsInv, kept
  <1>11. CASE at = "equal" /\ at' = "whereValue"
    <2>1. /\ stmt.type = "select" /\ stmt.whereColumn # 0
          /\ InOrder(stmt.columns \o <<stmt.table>> \o <<stmt.whereColumn>>, kept)
      BY <1>11 DEF PartsInv, kept
    <2>2. InOrder(stmt.columns \o <<stmt.table>> \o <<stmt.whereColumn>>, kept)'
      BY <1>3, <2>1
    <2>. QED
      BY <1>11, <2>1, <2>2 DEF PartsInv, kept
  <1>12. CASE at \in {"end", "parsed", "execute"} /\ at' \in {"end", "parsed", "execute"}
    <2>1. InOrder(Written(stmt), kept)
      BY <1>12 DEF PartsInv, kept
    <2>2. InOrder(Written(stmt), kept)'
      BY <1>3, <2>1
    <2>. QED
      BY <1>12, <2>2 DEF PartsInv, kept
  <1>. QED
    BY <1>6, <1>7, <1>8, <1>9, <1>10, <1>11, <1>12

\* The text of the current token is kept, behind the others.
LEMMA PartsGrow ==
    ASSUME TokensInv, HeapInv, PartsInv, ParseIdentifier \/ ParseLiteral
    PROVE  PartsInv'
  <1>. DEFINE kept == KeptIn(toks, first, cur - 1)
  <1>1. first \in Nat /\ cur \in Nat /\ cur # 0 /\ first <= cur /\ stmt \in StatementType /\ (cur + 1) - 1 = cur
    BY DEF TokensInv, HeapInv
  <1>2. /\ stmt.table \in Nat /\ stmt.columns \in Seq(Nat) /\ stmt.values \in Seq(Nat)
        /\ stmt.whereColumn \in Nat /\ stmt.whereValue \in Nat
    BY <1>1 DEF StatementType
  <1>3. toks[cur] \in KeptTokens /\ cur' = cur + 1 /\ UNCHANGED <<toks, first>>
    BY DEF ParseIdentifier, ParseLiteral, Sees, Keep, KeptTokens
  <1>4. kept' = kept \cup {cur} /\ \A i \in kept : i < cur
    BY <1>1, <1>3, KeptMore
  <1>. HIDE DEF kept
  <1>5. \A w \in Seq(Nat) : InOrder(w, kept) => InOrder(Append(w, cur), kept')
    BY <1>1, <1>4, InOrderAppend
  <1>. USE DEF InsertLists, SelectLists
  <1>6. CASE at = "intoTable" /\ Keep([stmt EXCEPT !.table = cur], "afterTable")
    <2>1. /\ stmt.columns = <<>> /\ stmt.values = <<>> /\ stmt.type = "insert" /\ kept = {}
      BY <1>6 DEF PartsInv, kept
    <2>2. /\ stmt'.table = cur /\ stmt'.columns = <<>> /\ stmt'.values = <<>> /\ stmt'.type = "insert"
          /\ at' = "afterTable"
      BY <1>1, <1>6, <2>1 DEF Keep, StatementType
    <2>3. <<cur>> \o <<>> \o <<>> = <<cur>> /\ <<cur>> = Append(<<>>, cur)
      BY <1>1
    <2>4. InOrder(<<>>, kept)
      BY <2>1 DEF InOrder, Range
    <2>5. InOrder(<<stmt'.table>> \o stmt'.columns \o stmt'.values, kept')
      <3>1. <<>> \in Seq(Nat)
        OBVIOUS
      <3>2. InOrder(Append(<<>>, cur), kept')
        BY <1>5, <2>4, <3>1
      <3>. QED
        BY <2>2, <2>3, <3>2
    <2>. QED
      BY <2>2, <2>5 DEF PartsInv, kept
  <1>7. CASE at = "fromTable" /\ Keep([stmt EXCEPT !.table = cur], "where")
    <2>1. stmt.type = "select" /\ InOrder(stmt.columns, kept) /\ stmt.whereColumn = 0
      BY <1>7 DEF PartsInv, kept, HeapInv, ColumnMissing, TableMissing
    <2>2. /\ stmt'.table = cur /\ stmt'.columns = stmt.columns /\ stmt'.whereColumn = 0
          /\ stmt'.type = "select" /\ at' = "where"
      BY <1>1, <1>7, <2>1 DEF Keep, StatementType
    <2>3. stmt.columns \o <<cur>> = Append(stmt.columns, cur)
      BY <1>1, <1>2, ListsAppend
    <2>4. InOrder(stmt'.columns \o <<stmt'.table>>, kept')
      BY <1>2, <1>5, <2>1, <2>2, <2>3
    <2>. QED
      BY <2>2, <2>4 DEF PartsInv, kept
  <1>8. CASE at = "column" /\ Keep([stmt EXCEPT !.columns = Append(@, cur)], "moreColumns")
    <2>1. /\ stmt.type = "insert" /\ InOrder(<<stmt.table>> \o stmt.columns \o stmt.values, kept)
          /\ stmt.values = <<>>
      BY <1>8 DEF PartsInv, kept
    <2>2. /\ stmt'.table = stmt.table /\ stmt'.columns = Append(stmt.columns, cur)
          /\ stmt'.values = <<>> /\ stmt'.type = "insert" /\ at' = "moreColumns"
      BY <1>1, <1>8, <2>1 DEF Keep, StatementType
    <2>3. /\ <<stmt.table>> \o Append(stmt.columns, cur) \o <<>> = Append(<<stmt.table>> \o stmt.columns \o <<>>, cur)
          /\ <<stmt.table>> \o stmt.columns \o stmt.values \in Seq(Nat)
      BY SMTT(30), <1>1, <1>2, ListsAppend
    <2>4. InOrder(Append(<<stmt.table>> \o stmt.columns \o <<>>, cur), kept')
      BY <1>5, <2>1, <2>3
    <2>5. InOrder(<<stmt'.table>> \o stmt'.columns \o stmt'.values, kept')
      BY <2>2, <2>3, <2>4
    <2>. QED
      BY <2>2, <2>5 DEF PartsInv, kept
  <1>9. CASE at \in {"items", "item"} /\ Keep([stmt EXCEPT !.columns = Append(@, cur)], "moreItems")
    <2>1. stmt.type = "select" /\ InOrder(stmt.columns, kept)
      BY <1>9 DEF PartsInv, kept
    <2>2. stmt'.columns = Append(stmt.columns, cur) /\ stmt'.type = "select" /\ at' = "moreItems"
      BY <1>1, <1>9, <2>1 DEF Keep, StatementType
    <2>3. InOrder(stmt'.columns, kept')
      BY <1>2, <1>5, <2>1, <2>2
    <2>. QED
      BY <2>2, <2>3 DEF PartsInv, kept
  <1>10. CASE at = "whereColumn" /\ Keep([stmt EXCEPT !.whereColumn = cur], "equal")
    <2>1. stmt.type = "select" /\ InOrder(stmt.columns \o <<stmt.table>>, kept)
      BY <1>10 DEF PartsInv, kept
    <2>2. /\ stmt'.table = stmt.table /\ stmt'.columns = stmt.columns /\ stmt'.whereColumn = cur
          /\ stmt'.type = "select" /\ at' = "equal"
      BY <1>1, <1>10, <2>1 DEF Keep, StatementType
    <2>3. /\ stmt.columns \o <<stmt.table>> \o <<cur>> = Append(stmt.columns \o <<stmt.table>>, cur)
          /\ stmt.columns \o <<stmt.table>> \in Seq(Nat)
      BY <1>1, <1>2, ListsAppend
    <2>4. InOrder(Append(stmt.columns \o <<stmt.table>>, cur), kept')
      BY <1>5, <2>1, <2>3
    <2>5. InOrder(stmt'.columns \o <<stmt'.table>> \o <<stmt'.whereColumn>>, kept')
      BY <2>2, <2>3, <2>4
    <2>. QED
      BY <1>1, <2>2, <2>5 DEF PartsInv, kept
  <1>11. CASE at = "value" /\ Keep([stmt EXCEPT !.values = Append(@, cur)], "moreValues")
    <2>1. stmt.type = "insert" /\ InOrder(<<stmt.table>> \o stmt.columns \o stmt.values, kept)
      BY <1>11 DEF PartsInv, kept
    <2>2. /\ stmt'.table = stmt.table /\ stmt'.columns = stmt.columns
          /\ stmt'.values = Append(stmt.values, cur) /\ stmt'.type = "insert" /\ at' = "moreValues"
      BY <1>1, <1>11, <2>1 DEF Keep, StatementType
    <2>3. /\ <<stmt.table>> \o stmt.columns \o Append(stmt.values, cur) = Append(<<stmt.table>> \o stmt.columns \o stmt.values, cur)
          /\ <<stmt.table>> \o stmt.columns \o stmt.values \in Seq(Nat)
      <3>. DEFINE t == stmt.table
      <3>. DEFINE l == stmt.columns
      <3>. DEFINE m == stmt.values
      <3>1. t \in Nat /\ l \in Seq(Nat) /\ m \in Seq(Nat) /\ cur \in Nat
        BY <1>1, <1>2
      <3>. HIDE DEF t, l, m
      <3>2. <<t>> \o l \o Append(m, cur) = Append(<<t>> \o l \o m, cur)
        BY <3>1, ListsAppend
      <3>3. <<t>> \o l \o m \in Seq(Nat)
        BY <3>1, ListsAppend
      <3>. QED
        BY <3>2, <3>3 DEF t, l, m
    <2>4. InOrder(Append(<<stmt.table>> \o stmt.columns \o stmt.values, cur), kept')
      BY <1>5, <2>1, <2>3
    <2>5. InOrder(<<stmt'.table>> \o stmt'.columns \o stmt'.values, kept')
      BY <2>2, <2>3, <2>4
    <2>. QED
      BY <2>2, <2>5 DEF PartsInv, kept
  <1>12. CASE at = "whereValue" /\ Keep([stmt EXCEPT !.whereValue = cur], "end")
    <2>. DEFINE w == stmt.columns \o <<stmt.table>>
    <2>1. stmt.type = "select" /\ stmt.whereColumn # 0 /\ InOrder(w \o <<stmt.whereColumn>>, kept)
      BY <1>12 DEF PartsInv, kept
    <2>2. /\ stmt'.table = stmt.table /\ stmt'.columns = stmt.columns /\ stmt'.whereColumn = stmt.whereColumn
          /\ stmt'.whereValue = cur /\ stmt'.type = "select" /\ at' = "end"
      BY <1>1, <1>12, <2>1 DEF Keep, StatementType
    <2>3. w \in Seq(Nat) /\ w \o <<stmt.whereColumn>> \in Seq(Nat)
      BY <1>2, ListsAppend
    <2>4. Written(stmt)' = w \o <<stmt.whereColumn, cur>>
      BY <2>1, <2>2 DEF Written
    <2>. HIDE DEF w
    <2>5. w \o <<stmt.whereColumn, cur>> = Append(w \o <<stmt.whereColumn>>, cur)
      <3>1. /\ <<stmt.whereColumn, cur>> = <<stmt.whereColumn>> \o <<cur>>
            /\ <<stmt.whereColumn>> \in Seq(Nat) /\ <<cur>> \in Seq(Nat)
        BY <1>1, <1>2
      <3>2. w \o (<<stmt.whereColumn>> \o <<cur>>) = (w \o <<stmt.whereColumn>>) \o <<cur>>
        BY <2>3, <3>1, ConcatAssociative
      <3>3. (w \o <<stmt.whereColumn>>) \o <<cur>> = Append(w \o <<stmt.whereColumn>>, cur)
        BY <1>1, <2>3, ListsAppend
      <3>. QED
        BY <3>1, <3>2, <3>3
    <2>6. InOrder(Append(w \o <<stmt.whereColumn>>, cur), kept')
      BY <1>5, <2>1, <2>3
    <2>7. InOrder(Written(stmt), kept)'
      BY <2>4, <2>5, <2>6
    <2>. QED
      BY <2>2, <2>7 DEF PartsInv, kept
  <1>. QED
    BY <1>6, <1>7, <1>8, <1>9, <1>10, <1>11, <1>12, Zenon DEF ParseIdentifier, ParseLiteral

\* A keyword or a symbol, which is not kept.
LEMMA MatchKeepsNothing ==
    ASSUME Match
    PROVE  /\ toks[cur] \notin KeptTokens /\ cur' = cur + 1 /\ UNCHANGED <<toks, first, stmt>>
           /\ \/ at = "into" /\ at' = "intoTable"
              \/ at \in InsertLists /\ at' \in InsertLists /\ at \notin {"value", "moreValues"}
              \/ at \in InsertLists /\ at' \in {"value", "moreValues"}
              \/ at = "moreValues" /\ at' = "end"
              \/ at \in SelectLists /\ at' \in SelectLists
              \/ at = "where" /\ at' \in {"whereColumn", "end"}
              \/ at = "equal" /\ at' = "whereValue"
  <1>1. /\ at \in DOMAIN Expected /\ toks[cur] \in DOMAIN Expected[at] /\ at' = Expected[at][toks[cur]]
        /\ cur' = cur + 1 /\ UNCHANGED <<toks, first, stmt>>
    BY DEF Match, Sees, Skip
  <1>2. Edge(at, ClassOf(toks[cur]), at')
    BY Advances
  <1>3. at \in {"into", "afterTable", "moreColumns", "values", "open", "moreValues",
                "items", "moreItems", "from", "where", "equal"}
    BY <1>1 DEF Expected
  <1>4. DOMAIN Expected.items = {"STAR"}
    BY DEF Expected
  <1>5. toks[cur] \notin Literals
    BY <1>2, <1>3 DEF Edge, ClassOf
  <1>6. toks[cur] # "identifier"
    <2>1. CASE at = "items"
      BY <1>1, <1>4, <2>1
    <2>2. CASE at # "items"
      BY <1>2, <1>3, <1>5, <2>2 DEF Edge, ClassOf
    <2>. QED
      BY <2>1, <2>2
  <1>7. Edge(at, toks[cur], at') /\ (at = "items" => at' = "from")
    BY <1>1, <1>2, <1>5, <1>4 DEF ClassOf, Edge
  <1>. QED
    BY <1>1, <1>3, <1>5, <1>6, <1>7 DEF Edge, KeptTokens, InsertLists, SelectLists

\* The texts the statement under way keeps, at every step.
LEMMA PartsStep ==
    ASSUME TokensInv, HeapInv, PartsInv, SqlNext
    PROVE  PartsInv'
  <1>0. cur \in Nat \ {0} /\ first \in Nat \ {0} /\ first <= cur /\ stmt \in StatementType
    BY DEF TokensInv, HeapInv
  <1>1. CASE at' \in Elsewhere
    BY <1>1 DEF PartsInv, Elsewhere, InsertLists, SelectLists
  <1>2. CASE Reveal
    <2>1. UNCHANGED <<cur, first, at, stmt>> /\ \A i \in 1..cur - 1 : toks'[i] = toks[i]
      BY <1>2, RevealAppends DEF Reveal
    <2>2. KeptIn(toks', first', cur' - 1) = KeptIn(toks, first, cur - 1)
      BY <2>1, KeptStays
    <2>. QED
      BY <2>1, <2>2 DEF PartsInv, Written
  <1>3. CASE BeginStatement /\ at' \notin Elsewhere
    <2>1. /\ toks[cur] \in {"INSERT", "SELECT"} /\ first' = cur /\ cur' = cur + 1 /\ UNCHANGED toks
          /\ at' = IF toks[cur] = "INSERT" THEN "into" ELSE "items"
          /\ stmt' = [NoStatement EXCEPT !.type = IF toks[cur] = "INSERT" THEN "insert" ELSE "select"]
      BY <1>3 DEF BeginStatement, Sees, Skip, Elsewhere
    <2>2. /\ stmt'.columns = <<>> /\ stmt'.values = <<>>
          /\ stmt'.type = IF toks[cur] = "INSERT" THEN "insert" ELSE "select"
      BY <2>1 DEF NoStatement
    <2>3. toks[cur] \notin KeptTokens
      BY <2>1 DEF KeptTokens, Literals
    <2>4. KeptIn(toks', first', cur' - 1) = {}
      <3>1. first'..cur' - 1 = {cur}
        BY <1>0, <2>1
      <3>. QED
        BY <2>1, <2>3, <3>1 DEF KeptIn
    <2>5. InOrder(<<>>, {})
      BY DEF InOrder, Range
    <2>. QED
      BY <2>1, <2>2, <2>4, <2>5 DEF PartsInv, InsertLists, SelectLists
  <1>4. CASE Match
    BY <1>0, <1>4, MatchKeepsNothing, PartsKept
  <1>5. CASE ParseIdentifier \/ ParseLiteral
    BY <1>5, PartsGrow
  <1>6. CASE EndStatement
    <2>1. /\ UNCHANGED <<toks, first, stmt>>
          /\ cur' = cur \/ (cur' = cur + 1 /\ toks[cur] = "SEMICOLON")
          /\ (at = "where" /\ at' = "end") \/ (at = "end" /\ at' = "parsed")
      BY <1>6 DEF EndStatement, Sees, Skip, Goto
    <2>2. "SEMICOLON" \notin KeptTokens
      BY DEF KeptTokens, Literals
    <2>. QED
      BY <1>0, <2>1, <2>2, PartsKept
  <1>7. CASE (ApiGate \/ CliParsed) /\ at' \notin Elsewhere
    <2>1. /\ at = "parsed" /\ at' \in {"parsed", "execute"} /\ UNCHANGED <<toks, first, stmt>>
          /\ cur' = cur \/ (cur' = cur + 1 /\ toks[cur] = "SEMICOLON")
      BY <1>7 DEF ApiGate, CliParsed, Sees, Skip, Goto, Answer, Elsewhere
    <2>2. "SEMICOLON" \notin KeptTokens
      BY DEF KeptTokens, Literals
    <2>. QED
      BY <1>0, <2>1, <2>2, PartsKept
  <1>8. CASE Unexpected \/ ListAllocationFails \/ LexerFails \/ ContextFails \/ ApiParseError \/ ApiExecute \/ Cleanup
    BY <1>1, <1>8 DEF Unexpected, ListAllocationFails, LexerFails, ContextFails, ApiParseError, ApiExecute,
                      Cleanup, Answer, Elsewhere
  <1>9. CASE ApiFront \/ CliFront \/ CliParseError \/ CliExecute \/ CliExecuteFails
    BY <1>1, <1>9 DEF ApiFront, CliFront, CliParseError, CliExecute, CliExecuteFails, Skip, Goto, Answer, Elsewhere
  <1>. QED
    BY <1>1, <1>2, <1>3, <1>4, <1>5, <1>6, <1>7, <1>8, <1>9 DEF SqlNext, Parser

-----------------------------------------------------------------------------
(* What was executed.                                                      *)

\* e is a statement of the text t, with its semicolons and with its own texts.
EntryOf(t, e) ==
    /\ e.from \in Nat \ {0} /\ e.to \in Nat /\ e.from <= e.to
    /\ \E n \in 1..e.to - e.from + 1, p \in {"where", "end"} :
          Reads(t, e.from, n, p) /\ \A i \in e.from + n..e.to : t[i] = "SEMICOLON"
    /\ InOrder(Written(e.stmt), KeptIn(t, e.from, e.to))

\* Before b there is nothing but semicolons and statements that were executed.
Covered(t, x, b) ==
    \A i \in 1..b - 1 : t[i] = "SEMICOLON" \/ \E k \in DOMAIN x : x[k].from <= i /\ i <= x[k].to

EntryType == [from : Nat, to : Int, stmt : StatementType]

HistoryInv ==
    /\ executed \in Seq(EntryType)
    /\ \A k \in DOMAIN executed : EntryOf(toks, executed[k]) /\ executed[k].to < cur
    /\ \A j, k \in DOMAIN executed : j < k => executed[j].to < executed[k].from
    /\ at \in {"idle", "front", "statement"} => Covered(toks, executed, cur)
    /\ at \in ParserPlaces \cup {"end", "parsed", "execute"} =>
          \A k \in DOMAIN executed : executed[k].to < first
    /\ Covered(toks, executed, first)
    /\ verdict # "none" => at \in {"cleanup", "done"}
    /\ verdict \in {"OK", "executed"} => Covered(toks, executed, cur) /\ cur = Len(toks) /\ toks[cur] = "EOF"

\* Tokens that are looked at later make no difference.
LEMMA EntryStays ==
    ASSUME NEW t, NEW u, NEW c \in Nat, \A i \in 1..c - 1 : u[i] = t[i],
           NEW e, EntryOf(t, e), e.to < c
    PROVE  EntryOf(u, e)
  <1>0. e.from \in Nat \ {0} /\ e.to \in Nat /\ e.from <= e.to
    BY DEF EntryOf
  <1>1. PICK n \in 1..e.to - e.from + 1, p \in {"where", "end"} :
          Reads(t, e.from, n, p) /\ \A i \in e.from + n..e.to : t[i] = "SEMICOLON"
    BY DEF EntryOf
  <1>2. \A i \in e.from..e.to : i \in 1..c - 1
    BY <1>0
  <1>3. /\ \A i \in e.from..e.from + n - 1 : i \in e.from..e.to
        /\ \A i \in e.from + n..e.to : i \in e.from..e.to
    BY <1>0, <1>1
  <1>4. n \in Nat /\ e.from \in Nat
    BY <1>0, <1>1
  <1>5. Reads(u, e.from, n, p)
    BY <1>1, <1>2, <1>3, <1>4, ReadsStable
  <1>6. \A i \in e.from + n..e.to : u[i] = "SEMICOLON"
    BY <1>1, <1>2, <1>3
  <1>7. KeptIn(u, e.from, e.to) = KeptIn(t, e.from, e.to)
    BY <1>2 DEF KeptIn
  <1>. QED
    BY <1>0, <1>1, <1>5, <1>6, <1>7 DEF EntryOf

\* What is covered up to c is covered up to any place before it.
LEMMA CoveredStays ==
    ASSUME NEW t, NEW u, NEW x, NEW c \in Nat, NEW b \in Nat, b <= c,
           \A i \in 1..c - 1 : u[i] = t[i], Covered(t, x, c)
    PROVE  Covered(u, x, b)
  <1>1. \A i \in 1..b - 1 : i \in 1..c - 1
    OBVIOUS
  <1>. QED
    BY <1>1 DEF Covered

\* One more semicolon is covered.
LEMMA CoveredMore ==
    ASSUME NEW t, NEW x, NEW c \in Nat \ {0}, Covered(t, x, c), t[c] = "SEMICOLON"
    PROVE  Covered(t, x, c + 1)
  <1>1. \A i \in 1..(c + 1) - 1 : i \in 1..c - 1 \/ i = c
    OBVIOUS
  <1>. QED
    BY <1>1 DEF Covered

\* The statement under way is executed.
LEMMA ExecutesNext ==
    ASSUME TokensInv, HeapInv, GrammarInv, PartsInv, HistoryInv, at = "execute",
           executed' = Append(executed, Executing)
    PROVE  /\ executed' \in Seq(EntryType)
           /\ \A k \in DOMAIN executed' : EntryOf(toks, executed'[k]) /\ executed'[k].to < cur
           /\ \A j, k \in DOMAIN executed' : j < k => executed'[j].to < executed'[k].from
           /\ Covered(toks, executed', cur) /\ Covered(toks, executed', first)
  <1>0. cur \in Nat \ {0} /\ first \in Nat \ {0} /\ first <= cur /\ stmt \in StatementType
    BY DEF TokensInv, HeapInv
  <1>. DEFINE e == Executing
  <1>1. e.from = first /\ e.to = cur - 1 /\ e.stmt = stmt /\ e \in EntryType
    BY <1>0 DEF Executing, EntryType
  <1>2. PICK n, p : CompleteAt(n, p)
    BY DEF GrammarInv
  <1>3. /\ n \in 1..cur - first /\ p \in {"where", "end"} /\ Reads(toks, first, n, p)
        /\ \A i \in first + n..cur - 1 : toks[i] = "SEMICOLON"
    BY <1>2 DEF CompleteAt
  <1>4. first < cur /\ e.to - e.from + 1 = cur - first /\ e.to \in Nat /\ e.from <= e.to
    BY <1>0, <1>1, <1>3
  <1>5. InOrder(Written(stmt), KeptIn(toks, first, cur - 1))
    BY DEF PartsInv
  <1>6. EntryOf(toks, e)
    BY <1>0, <1>1, <1>3, <1>4, <1>5 DEF EntryOf
  <1>. HIDE DEF e
  <1>7. /\ executed' \in Seq(EntryType) /\ Len(executed) \in Nat
        /\ DOMAIN executed = 1..Len(executed) /\ DOMAIN executed' = 1..Len(executed) + 1
        /\ \A k \in 1..Len(executed) : executed'[k] = executed[k]
        /\ executed'[Len(executed) + 1] = e
    <2>1. executed' = Append(executed, e) /\ executed \in Seq(EntryType)
      BY DEF HistoryInv, e
    <2>. QED
      BY <1>1, <2>1
  <1>8. \A k \in DOMAIN executed : EntryOf(toks, executed[k]) /\ executed[k].to < first /\ executed[k].to < cur
    BY DEF HistoryInv
  <1>9. \A k \in DOMAIN executed' : EntryOf(toks, executed'[k]) /\ executed'[k].to < cur
    <2>. TAKE k \in DOMAIN executed'
    <2>1. CASE k \in 1..Len(executed)
      BY <1>7, <1>8, <2>1
    <2>2. CASE k = Len(executed) + 1
      BY <1>0, <1>1, <1>6, <1>7, <2>2
    <2>. QED
      BY <1>7, <2>1, <2>2
  <1>10. \A j, k \in DOMAIN executed' : j < k => executed'[j].to < executed'[k].from
    <2>. SUFFICES ASSUME NEW j \in DOMAIN executed', NEW k \in DOMAIN executed', j < k
                  PROVE  executed'[j].to < executed'[k].from
      OBVIOUS
    <2>0. j \in 1..Len(executed)
      BY <1>7
    <2>1. CASE k \in 1..Len(executed)
      BY <1>7, <2>0, <2>1 DEF HistoryInv
    <2>2. CASE k = Len(executed) + 1
      BY <1>1, <1>7, <1>8, <2>0, <2>2
    <2>. QED
      BY <1>7, <2>1, <2>2
  <1>11. Covered(toks, executed', cur)
    <2>. SUFFICES ASSUME NEW i \in 1..cur - 1
                  PROVE  toks[i] = "SEMICOLON" \/ \E k \in DOMAIN executed' : executed'[k].from <= i /\ i <= executed'[k].to
      BY DEF Covered
    <2>1. CASE i \in 1..first - 1
      <3>1. toks[i] = "SEMICOLON" \/ \E k \in DOMAIN executed : executed[k].from <= i /\ i <= executed[k].to
        BY <2>1 DEF HistoryInv, Covered
      <3>. QED
        BY <1>7, <3>1
    <2>2. CASE i \in first..cur - 1
      <3>1. Len(executed) + 1 \in DOMAIN executed'
        BY <1>7
      <3>2. e.from <= i /\ i <= e.to
        BY <1>1, <2>2, <1>0
      <3>. QED
        BY <1>7, <3>1, <3>2
    <2>. QED
      BY <1>0, <2>1, <2>2
  <1>12. Covered(toks, executed', first)
    BY <1>0, <1>11, CoveredStays
  <1>. QED
    BY <1>7, <1>9, <1>10, <1>11, <1>12

\* No statement is executed: what was executed stays, wherever the parser is.
LEMMA HistoryKept ==
    ASSUME TokensInv, TokensInv', HistoryInv, UNCHANGED <<executed, verdict>>,
           \A i \in 1..cur - 1 : toks'[i] = toks[i],
           cur' \in {cur, cur + 1}, verdict # "none" => UNCHANGED <<toks, cur>> /\ at' \in {"cleanup", "done"},
           at' \in {"idle", "front", "statement"} =>
              at \in {"idle", "front", "statement"} /\ (cur' = cur \/ toks'[cur] = "SEMICOLON"),
           first' = first \/ (first' = cur /\ at = "statement"),
           at' \in ParserPlaces \cup {"end", "parsed", "execute"} =>
              first' = cur \/ (at \in ParserPlaces \cup {"end", "parsed", "execute"} /\ first' = first)
    PROVE  HistoryInv'
  <1>0. /\ cur \in Nat \ {0} /\ first \in Nat \ {0} /\ first <= cur /\ cur' \in Nat \ {0}
        /\ first' \in Nat \ {0} /\ first' <= cur /\ cur + 1 \in Nat
    BY DEF TokensInv
  <1>1. \A k \in DOMAIN executed : EntryOf(toks', executed[k]) /\ executed[k].to < cur /\ executed[k].to < cur'
    <2>. TAKE k \in DOMAIN executed
    <2>1. EntryOf(toks, executed[k]) /\ executed[k].to < cur
      BY DEF HistoryInv
    <2>2. EntryOf(toks', executed[k])
      BY <1>0, <2>1, EntryStays
    <2>3. executed[k].to \in Nat
      BY <2>1 DEF EntryOf
    <2>. QED
      BY <1>0, <2>1, <2>2, <2>3
  <1>2. at \in {"idle", "front", "statement"} => Covered(toks', executed, cur)
    BY <1>0, CoveredStays DEF HistoryInv
  <1>3. at' \in {"idle", "front", "statement"} => Covered(toks', executed, cur')
    BY <1>0, <1>2, CoveredMore
  <1>4. Covered(toks', executed, first')
    <2>1. CASE first' = first
      <3>1. \A i \in 1..first - 1 : i \in 1..cur - 1
        BY <1>0
      <3>. QED
        BY <2>1, <3>1 DEF HistoryInv, Covered
    <2>2. CASE first' = cur /\ at = "statement"
      BY <1>2, <2>2
    <2>. QED
      BY <2>1, <2>2
  <1>5. at' \in ParserPlaces \cup {"end", "parsed", "execute"} =>
          \A k \in DOMAIN executed : executed[k].to < first'
    BY <1>1 DEF HistoryInv
  <1>6. verdict # "none" => at' \in {"cleanup", "done"}
    OBVIOUS
  <1>7. verdict \in {"OK", "executed"} => Covered(toks', executed, cur') /\ cur' = Len(toks') /\ toks'[cur'] = "EOF"
    <2>. SUFFICES ASSUME verdict \in {"OK", "executed"}
                  PROVE  Covered(toks', executed, cur') /\ cur' = Len(toks') /\ toks'[cur'] = "EOF"
      OBVIOUS
    <2>1. UNCHANGED <<toks, cur>>
      OBVIOUS
    <2>. QED
      BY <2>1 DEF HistoryInv
  <1>. QED
    BY <1>1, <1>3, <1>4, <1>5, <1>6, <1>7 DEF HistoryInv

\* The caller answers, and executes nothing for it.
LEMMA HistoryAnswered ==
    ASSUME TokensInv, HistoryInv, at' \in {"cleanup", "done"}, UNCHANGED <<toks, cur, first, executed>>,
           verdict' = verdict \/ verdict' \notin {"OK", "executed"}
    PROVE  HistoryInv'
  <1>1. verdict' \in {"OK", "executed"} => Covered(toks', executed', cur') /\ cur' = Len(toks') /\ toks'[cur'] = "EOF"
    BY DEF HistoryInv
  <1>. QED
    BY <1>1 DEF HistoryInv, ParserPlaces

\* What was executed, at every step.
LEMMA HistoryStep ==
    ASSUME TokensInv, HeapInv, GrammarInv, mode = "api" => ApiInv, PartsInv, HistoryInv, SqlNext
    PROVE  HistoryInv'
  <1>0. cur \in Nat \ {0} /\ first \in Nat \ {0} /\ first <= cur /\ TokensInv'
    BY TokensStep DEF TokensInv
  <1>1. CASE Reveal
    <2>1. /\ UNCHANGED <<cur, first, at, executed, verdict>> /\ at \notin {"idle", "cleanup", "done"}
          /\ \A i \in 1..cur - 1 : toks'[i] = toks[i]
      BY <1>1, RevealAppends DEF Reveal
    <2>2. verdict = "none"
      BY <2>1 DEF HistoryInv
    <2>. QED
      BY <1>0, <2>1, <2>2, HistoryKept
  <1>2. CASE BeginStatement
    <2>1. /\ at = "statement" /\ UNCHANGED <<toks, executed, verdict>>
          /\ \/ at' = "statement" /\ cur' = cur + 1 /\ toks[cur] = "SEMICOLON" /\ UNCHANGED first
             \/ at' \in {"into", "items"} /\ cur' = cur + 1 /\ first' = cur
             \/ at' = "failed" /\ UNCHANGED <<cur, first>>
      BY <1>2 DEF BeginStatement, Sees, SeesOther, Skip
    <2>2. verdict = "none"
      BY <2>1 DEF HistoryInv
    <2>. QED
      BY <1>0, <2>1, <2>2, HistoryKept DEF ParserPlaces
  <1>3. CASE Match \/ ParseIdentifier \/ ParseLiteral
    <2>1. /\ at \in ParserPlaces /\ at' \in ParserPlaces \cup {"end"} /\ cur' = cur + 1
          /\ UNCHANGED <<toks, first, executed, verdict>>
      BY <1>3, Advances
    <2>2. verdict = "none"
      BY <2>1 DEF HistoryInv, ParserPlaces
    <2>3. at' \notin {"idle", "front", "statement"}
      BY <2>1 DEF ParserPlaces
    <2>. QED
      BY <1>0, <2>1, <2>2, <2>3, HistoryKept
  <1>4. CASE Unexpected \/ ListAllocationFails
    <2>1. at' = "failed" /\ UNCHANGED <<toks, cur, first, executed, verdict>> /\ at \notin {"cleanup", "done"}
      <3>1. CASE Unexpected
        BY <1>0, <3>1, Refuses DEF Unexpected, SeesOther, TokensInv, ParserPlaces
      <3>2. CASE ListAllocationFails
        BY <3>2 DEF ListAllocationFails
      <3>. QED
        BY <1>4, <3>1, <3>2
    <2>2. verdict = "none"
      BY <2>1 DEF HistoryInv
    <2>. QED
      BY <1>0, <2>1, <2>2, HistoryKept DEF ParserPlaces
  <1>5. CASE EndStatement
    <2>1. /\ at \in {"where", "end"} /\ at' \in {"end", "parsed"} /\ cur' \in {cur, cur + 1}
          /\ UNCHANGED <<toks, first, executed, verdict>>
      BY <1>5 DEF EndStatement, Skip, Goto
    <2>2. verdict = "none"
      BY <2>1 DEF HistoryInv
    <2>. QED
      BY <1>0, <2>1, <2>2, HistoryKept DEF ParserPlaces
  <1>6. CASE LexerFails \/ ContextFails
    <2>1. at' = "cleanup" /\ UNCHANGED <<toks, cur, first, executed>> /\ verdict' \notin {"OK", "executed"}
      BY <1>6 DEF LexerFails, ContextFails
    <2>. QED
      BY <2>1, HistoryAnswered
  <1>7. CASE ApiFront
    <2>1. at = "front" /\ verdict = "none"
      BY <1>7 DEF ApiFront, HistoryInv
    <2>2. CASE at' = "cleanup"
      BY <1>7, <2>2, HistoryAnswered DEF ApiFront, Skip, Goto, Answer
    <2>3. CASE at' # "cleanup"
      <3>1. /\ at' \in {"front", "statement"} /\ UNCHANGED <<toks, first, executed, verdict>>
            /\ cur' = cur \/ (cur' = cur + 1 /\ toks[cur] = "SEMICOLON")
        BY <1>7, <2>3 DEF ApiFront, Sees, Skip, Goto, Answer
      <3>. QED
        BY <1>0, <2>1, <3>1, HistoryKept DEF ParserPlaces
    <2>. QED
      BY <2>2, <2>3
  <1>8. CASE ApiParseError \/ CliParseError
    BY <1>8, HistoryAnswered DEF ApiParseError, CliParseError, Answer
  <1>9. CASE ApiGate \/ CliParsed
    <2>1. at = "parsed" /\ verdict = "none"
      BY <1>9 DEF ApiGate, CliParsed, HistoryInv
    <2>2. CASE at' = "cleanup"
      BY <1>9, <2>2, HistoryAnswered DEF ApiGate, CliParsed, Skip, Goto, Answer
    <2>3. CASE at' # "cleanup"
      <3>1. /\ at' \in {"parsed", "execute"} /\ UNCHANGED <<toks, first, executed, verdict>>
            /\ cur' \in {cur, cur + 1}
        BY <1>9, <2>3 DEF ApiGate, CliParsed, Sees, Skip, Goto, Answer
      <3>. QED
        BY <1>0, <2>1, <3>1, HistoryKept DEF ParserPlaces
    <2>. QED
      BY <2>2, <2>3
  <1>10. CASE ApiExecute
    <2>1. /\ mode = "api" /\ at = "execute" /\ executed' = Append(executed, Executing) /\ at' = "cleanup"
          /\ UNCHANGED <<toks, cur, first>>
      BY <1>10 DEF ApiExecute
    <2>2. cur = Len(toks) /\ toks[cur] = "EOF"
      BY <2>1 DEF ApiInv
    <2>. QED
      BY <2>1, <2>2, ExecutesNext DEF HistoryInv, ParserPlaces
  <1>11. CASE CliExecute \/ CliExecuteFails
    <2>1. /\ at = "execute" /\ executed' = Append(executed, Executing) /\ at' \in {"front", "cleanup"}
          /\ UNCHANGED <<toks, cur, first>>
          /\ (at' = "front" /\ verdict' = verdict) \/ (at' = "cleanup" /\ verdict' = "EXEC_ERROR")
      BY <1>11 DEF CliExecute, CliExecuteFails
    <2>2. verdict = "none"
      BY <2>1 DEF HistoryInv
    <2>. QED
      BY <2>1, <2>2, ExecutesNext DEF HistoryInv, ParserPlaces
  <1>12. CASE Cleanup
    BY <1>12, HistoryAnswered DEF Cleanup
  <1>13. CASE CliFront
    <2>1. at = "front" /\ verdict = "none"
      BY <1>13 DEF CliFront, HistoryInv
    <2>2. CASE at' = "cleanup"
      <3>1. Sees({"EOF"}) /\ UNCHANGED <<toks, cur, first, executed>>
        BY <1>13, <2>2 DEF CliFront, Skip, Goto, Answer
      <3>2. cur = Len(toks) /\ toks[cur] = "EOF"
        BY <1>0, <3>1 DEF Sees, TokensInv
      <3>3. Covered(toks, executed, cur)
        BY <2>1 DEF HistoryInv
      <3>. QED
        BY <2>2, <3>1, <3>2, <3>3 DEF HistoryInv, ParserPlaces
    <2>3. CASE at' # "cleanup"
      <3>1. /\ at' \in {"front", "statement"} /\ UNCHANGED <<toks, first, executed, verdict>>
            /\ cur' = cur \/ (cur' = cur + 1 /\ toks[cur] = "SEMICOLON")
        BY <1>13, <2>3 DEF CliFront, Sees, Skip, Goto, Answer
      <3>. QED
        BY <1>0, <2>1, <3>1, HistoryKept DEF ParserPlaces
    <2>. QED
      BY <2>2, <2>3
  <1>. QED
    BY <1>1, <1>2, <1>3, <1>4, <1>5, <1>6, <1>7, <1>8, <1>9, <1>10, <1>11, <1>12, <1>13 DEF SqlNext, Parser

\* A statement does not end in a semicolon, so its end is known by its tokens.
LEMMA EndOfEntry ==
    ASSUME NEW t \in Seq(Tokens), NEW e, EntryOf(t, e), e.to <= Len(t)
    PROVE  IsSentence(SubSeq(t, e.from, Max({i \in e.from..e.to : t[i] # "SEMICOLON"})))
  <1>0. e.from \in Nat \ {0} /\ e.to \in Nat /\ e.from <= e.to /\ Len(t) \in Nat
    BY DEF EntryOf
  <1>1. PICK n \in 1..e.to - e.from + 1, p \in {"where", "end"} :
          Reads(t, e.from, n, p) /\ \A i \in e.from + n..e.to : t[i] = "SEMICOLON"
    BY DEF EntryOf
  <1>2. PICK m : m = e.from + n - 1
    OBVIOUS
  <1>3. m \in e.from..e.to /\ m \in Nat /\ n \in Nat \ {0} /\ m <= Len(t)
    BY <1>0, <1>1, <1>2
  <1>4. t[m] # "SEMICOLON"
    <2>1. PICK x \in Plans : Fits(x, t, e.from, n)
      BY <1>1 DEF Reads
    <2>2. n <= Size(x) /\ TokenOf(x, n) = ClassOf(t[m]) /\ Size(x) \in Nat
      <3>1. n \in 1..n
        BY <1>3
      <3>. QED
        BY <1>2, <2>1, <3>1, SizeType DEF Fits
    <2>3. n - 1 \in Nat /\ n - 1 < Size(x) /\ (n - 1) + 1 = n
      BY <1>3, <2>2
    <2>4. Edge(PlaceIn(x, n - 1), TokenOf(x, n), PlaceIn(x, n))
      BY <2>3, Walk
    <2>5. TokenOf(x, n) # "SEMICOLON"
      BY <2>4 DEF Edge
    <2>. QED
      BY <2>2, <2>5 DEF ClassOf, Literals
  <1>. DEFINE S == {i \in e.from..e.to : t[i] # "SEMICOLON"}
  <1>5. m \in S /\ \A i \in S : i <= m /\ i \in Int
    <2>1. \A i \in e.from..e.to : i <= m \/ i \in e.from + n..e.to
      BY <1>0, <1>1, <1>2, <1>3
    <2>. QED
      BY <1>1, <1>3, <1>4, <2>1
  <1>. HIDE DEF S
  <1>6. Max(S) = m
    <2>1. Max(S) \in S /\ \A y \in S : Max(S) >= y
      BY <1>5, <1>3 DEF Max
    <2>2. PICK x \in S : x = Max(S) /\ x >= m
      BY <1>5, <2>1
    <2>3. x \in Int /\ x <= m /\ m \in Nat
      BY <1>3, <1>5, <2>2
    <2>4. x = m
      BY <2>2, <2>3
    <2>. QED
      BY <2>2, <2>4
  <1>7. IsSentence(SubSeq(t, e.from, e.from + n - 1))
    BY <1>0, <1>1, <1>2, <1>3, SentencePart
  <1>. QED
    BY <1>2, <1>6, <1>7 DEF S

\* One entry for a token, as they follow one another.
LEMMA OneEntry ==
    ASSUME NEW i, NEW k \in DOMAIN executed, HistoryInv, i \in Int,
           executed[k].from <= i, i <= executed[k].to
    PROVE  Cardinality({e \in DOMAIN executed : executed[e].from <= i /\ i <= executed[e].to}) = 1
  <1>1. \A j \in DOMAIN executed : executed[j].from \in Nat /\ executed[j].to \in Nat /\ j \in Nat
    BY DEF HistoryInv, EntryOf
  <1>2. \A j \in DOMAIN executed : executed[j].from <= i /\ i <= executed[j].to => j = k
    <2>. SUFFICES ASSUME NEW j \in DOMAIN executed, executed[j].from <= i, i <= executed[j].to, j # k
                  PROVE  FALSE
      OBVIOUS
    <2>1. j < k => executed[j].to < executed[k].from
      BY DEF HistoryInv
    <2>2. k < j => executed[k].to < executed[j].from
      BY DEF HistoryInv
    <2>. QED
      BY <1>1, <2>1, <2>2
  <1>3. {e \in DOMAIN executed : executed[e].from <= i /\ i <= executed[e].to} = {k}
    BY <1>2
  <1>. QED
    BY <1>3, FS_Singleton

FrontInv == SyntaxInv /\ HeapInv /\ PartsInv /\ HistoryInv

\* The inductive invariant with what was kept and what was executed.
LEMMA FrontInvHolds == Spec => []FrontInv
  <1>1. Init => HeapInv /\ PartsInv /\ HistoryInv
    <2>. SUFFICES ASSUME Init PROVE HeapInv /\ PartsInv /\ HistoryInv
      OBVIOUS
    <2>1. NoStatement = [NoStatement EXCEPT !.type = "insert"]
      BY DEF NoStatement
    <2>2. HeapInv
      BY <2>1, EmptyStatement DEF Init, SqlInit, HeapInv
    <2>3. toks = <<>> /\ cur = 1 /\ first = 1 /\ at \in {"idle", "front"} /\ verdict = "none" /\ executed = <<>>
      BY DEF Init, SqlInit
    <2>4. PartsInv
      BY <2>3 DEF PartsInv, InsertLists, SelectLists
    <2>5. Covered(toks, executed, 1)
      BY DEF Covered
    <2>6. HistoryInv
      BY <2>3, <2>5 DEF HistoryInv, ParserPlaces
    <2>. QED
      BY <2>2, <2>4, <2>6
  <1>2. SyntaxInv /\ HeapInv /\ PartsInv /\ HistoryInv /\ [Next]_vars => HeapInv' /\ PartsInv' /\ HistoryInv'
    <2>. SUFFICES ASSUME SyntaxInv, HeapInv, PartsInv, HistoryInv, [Next]_vars PROVE HeapInv' /\ PartsInv' /\ HistoryInv'
      OBVIOUS
    <2>0. HeapInv'
      BY HeapStep
    <2>1. CASE UNCHANGED sqlVars
      BY <2>0, <2>1 DEF sqlVars, PartsInv, HistoryInv, Written
    <2>2. CASE BeginSql
      <3>1. at = "idle" /\ at' = "front" /\ UNCHANGED <<toks, cur, first, stmt, executed, verdict>>
        BY <2>2 DEF BeginSql
      <3>. QED
        BY <2>0, <3>1 DEF PartsInv, HistoryInv, ParserPlaces, InsertLists, SelectLists
    <2>3. CASE SqlNext
      BY <2>0, <2>3, PartsStep, HistoryStep DEF SyntaxInv
    <2>. QED
      BY Zenon, <2>1, <2>2, <2>3 DEF Next, Respond, Finished, vars, sqlVars
  <1>. QED
    BY <1>1, <1>2, SyntaxInvHolds, PTL DEF Spec, FrontInv

\* For every text of up to MaxTokens tokens, for every MaxTokens: what was
\* executed is the text before the statement under way, each statement with
\* its own table, columns and values.
THEOREM ExecutedInOrder == Spec => []ExecutedIsThePrefix
  <1>1. ASSUME FrontInv PROVE ExecutedIsThePrefix
    <2>. DEFINE within(i) == {e \in DOMAIN executed : executed[e].from <= i /\ i <= executed[e].to}
    <2>1. /\ toks \in Seq(Tokens) /\ cur \in Nat \ {0} /\ first \in Nat \ {0}
          /\ Len(toks) \in {cur - 1, cur} /\ Len(toks) \in Nat /\ DOMAIN toks = 1..Len(toks)
      BY <1>1 DEF FrontInv, SyntaxInv, TokensInv
    <2>2. HistoryInv
      BY <1>1 DEF FrontInv
    <2>3. ASSUME NEW b \in Nat, Covered(toks, executed, b), NEW i \in 1..b - 1
          PROVE  toks[i] = "SEMICOLON" \/ Cardinality(within(i)) = 1
      BY <2>2, <2>3, OneEntry DEF Covered
    <2>. HIDE DEF within
    <2>4. \A i \in 1..first - 1 : toks[i] = "SEMICOLON" \/ Cardinality(within(i)) = 1
      BY <2>1, <2>2, <2>3 DEF HistoryInv
    <2>5. ASSUME verdict \in {"OK", "executed"}, NEW i \in DOMAIN toks
          PROVE  toks[i] \in {"SEMICOLON", "EOF"} \/ Cardinality(within(i)) = 1
      <3>1. Covered(toks, executed, cur) /\ cur = Len(toks) /\ toks[cur] = "EOF" /\ cur \in Nat
        BY <2>1, <2>2, <2>5 DEF HistoryInv
      <3>2. i = cur \/ i \in 1..cur - 1
        BY <2>1, <2>5, <3>1
      <3>. QED
        BY <2>3, <3>1, <3>2
    <2>6. \A j, k \in DOMAIN executed : j < k => executed[j].to < executed[k].from
      BY <2>2 DEF HistoryInv
    <2>7. ASSUME NEW k \in DOMAIN executed
          PROVE  LET e == executed[k] IN
                 /\ IsSentence(SubSeq(toks, e.from, Max({i \in e.from..e.to : toks[i] # "SEMICOLON"})))
                 /\ InOrder(Written(e.stmt), {i \in e.from..e.to : toks[i] \in Literals \cup {"identifier"}})
      <3>1. EntryOf(toks, executed[k]) /\ executed[k].to < cur /\ executed[k].to \in Nat
        BY <2>2, <2>7 DEF HistoryInv, EntryOf
      <3>2. executed[k].to <= Len(toks)
        <4>1. PICK b \in Nat : b = executed[k].to /\ b < cur
          BY Zenon, <3>1
        <4>2. PICK l \in Nat : l = Len(toks) /\ l \in {cur - 1, cur} /\ cur \in Nat
          BY <2>1
        <4>3. b <= l
          BY <4>1, <4>2
        <4>. QED
          BY <4>1, <4>2, <4>3
      <3>. QED
        BY <2>1, <3>1, <3>2, EndOfEntry DEF EntryOf, KeptIn, KeptTokens
    <2>. QED
      BY <2>4, <2>5, <2>6, <2>7 DEF ExecutedIsThePrefix, within
  <1>. QED
    BY <1>1, FrontInvHolds, PTL
=============================================================================
