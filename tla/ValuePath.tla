----------------------------- MODULE ValuePath -----------------------------
(***************************************************************************)
(* A row on its way through every notation of the system: a client writes  *)
(* two values into an INSERT and, over HTTP, the statement into JSON; the  *)
(* server decodes the JSON (src/json_parser.c) and the SQL literals        *)
(* (src/lexer.c), writes a line of the data file, reads it again           *)
(* (src/storage.c) and answers in JSON (src/json_writer.c). Instead of a   *)
(* row, the input may be any SQL text for the lexer, any body for the JSON *)
(* parser, any data file, as somebody may have edited it, or any schema    *)
(* with statements for it. Failing writes are in DbApi, the SQL parser is  *)
(* in SqlFront.                                                            *)
(***************************************************************************)
EXTENDS Lexer, JsonBody, TableColumns

CONSTANTS
    Rows,       \* pairs of values
    Texts,      \* SQL texts
    Files,      \* data files
    SchemaFiles \* schema files, as sequences of lines

ASSUME TextAssumption ==
    /\ Texts \subseteq Seq(STRING) /\ Files \subseteq Seq(STRING)
    /\ Rows \subseteq Seq(STRING) \X Seq(STRING)

VARIABLES
    entry,      \* "api", "cli": a row; "text", "body", "file", "table": see above
    value,      \* the row
    phase,
    file,       \* the characters of the data file
    cursor,     \* a place in it: where the row begins, then where to read on
    rows,       \* the rows read
    answer      \* the rows in JSON

pathVars == <<entry, value, phase, file, cursor, rows, answer>>
vars == <<pathVars, lexVars, jsonVars, tableVars>>

\* Every character that has an entry in escapes becomes that sequence.
Rewrite(escapes, s) ==
    FlattenSeq([i \in DOMAIN s |-> IF s[i] \in DOMAIN escapes THEN escapes[s[i]] ELSE <<s[i]>>])

-----------------------------------------------------------------------------
(* The client.                                                             *)

SqlLiteral(v) == <<Quote>> \o Rewrite([ch \in {Quote} |-> <<Quote, Quote>>], v) \o <<Quote>>

SqlText(r) ==
    <<"INSERT", "SPACE", "INTO", "SPACE", "a", "SPACE", "VALUES", "LPAREN">>
    \o SqlLiteral(r[1]) \o <<"COMMA">> \o SqlLiteral(r[2]) \o <<"RPAREN">>

\* What follows the backslash in JSON. A control character without a letter of its
\* own is written as u and its code.
JsonLetter(ch) ==
    CASE ch = "LF" -> "n" [] ch = "CR" -> "r" [] ch = "TAB" -> "t" [] ch = "CTRL" -> "u0001"
      [] OTHER -> ch

ClientEscapes == [ch \in {"DQ", "BSL", "LF", "CR", "TAB", "CTRL"} |-> <<"BSL", JsonLetter(ch)>>]

ClientEncodes(s) == <<"DQ">> \o Rewrite(ClientEscapes, s) \o <<"DQ">>

\* The character for the letter behind a backslash.
JsonCharacter(letter) ==
    CASE letter = "n" -> "LF" [] letter = "r" -> "CR" [] letter = "t" -> "TAB"
      [] letter = "u0001" -> "CTRL" [] OTHER -> letter

ClientLetters == [ch \in {"DQ", "BSL", "n", "r", "t", "u0001"} |-> JsonCharacter(ch)]

-----------------------------------------------------------------------------
(* JSON strings.                                                           *)

Controls == {"LF", "CR", "TAB", "CTRL"}

\* The loop of parse_json_string behind the opening quote; letters are the
\* escapes it knows.
StringStep(letters, st, ch) ==
    CASE st.state \in {"closed", "error"} -> st
      [] st.state = "escape" ->
           IF ch \in DOMAIN letters
             THEN [state |-> "open", out |-> Append(st.out, letters[ch])]
             ELSE [st EXCEPT !.state = "error"]
      [] st.state = "open" /\ ch = "DQ" -> [st EXCEPT !.state = "closed"]
      [] st.state = "open" /\ ch \in Controls -> [st EXCEPT !.state = "error"]
      [] st.state = "open" /\ ch = "BSL" -> [st EXCEPT !.state = "escape"]
      [] OTHER -> [st EXCEPT !.out = Append(@, ch)]

StringStates(letters, s) ==
    LET st[i \in 0..Len(s)] ==
          IF i <= 1 THEN [state |-> "open", out |-> <<>>]
          ELSE StringStep(letters, st[i - 1], s[i])
    IN  st

StringLoop(letters, s) == StringStates(letters, s)[Len(s)]

ServerLetters == [ch \in {"DQ", "BSL", "n", "r", "t"} |-> JsonCharacter(ch)]

ParseJsonString(s) == StringLoop(ServerLetters, s)
ClientDecodes(s) == StringLoop(ClientLetters, s)

\* Faulty JsonAppendEscapedString: a backslash is copied.
JsonAppendEscapedStringRaw(s) ==
    <<"DQ">>
    \o Rewrite([ch \in {"DQ", "LF", "CR", "TAB", "CTRL"} |-> <<"BSL", JsonLetter(ch)>>], s)
    \o <<"DQ">>

JsonAppendEscapedString(s) ==
    <<"DQ">>
    \o Rewrite([ch \in {"DQ", "BSL", "LF", "CR", "TAB", "CTRL"} |-> <<"BSL", JsonLetter(ch)>>], s)
    \o <<"DQ">>

-----------------------------------------------------------------------------
(* Lines of the data file.                                                 *)

\* Faulty EscapeField: a line feed is copied.
EscapeFieldKeepsLf(v) == Rewrite([ch \in {"BSL", "BAR"} |-> <<"BSL", ch>>], v)

EscapeField(v) ==
    Rewrite([ch \in {"BSL", "BAR", "LF"} |-> <<"BSL", IF ch = "LF" THEN "n" ELSE ch>>], v)

RowLine(r) ==
    FlattenSeq([i \in DOMAIN r |-> (IF i > 1 THEN <<"BAR">> ELSE <<>>) \o EscapeField(r[i])])
    \o <<"LF">>

\* The place of the line feed, or one behind the end.
LineEnd(from) == Min({k \in from..Len(file) : file[k] = "LF"} \cup {Len(file) + 1})

ReadLine(from) ==
    LET line == SubSeq(file, from, LineEnd(from) - 1) IN
    IF line # <<>> /\ Last(line) = "CR" THEN Front(line) ELSE line

\* split_escaped_row: the fields, still escaped.
SplitStep(st, ch) ==
    CASE st.pending -> [st EXCEPT !.raw = Append(@, ch), !.pending = FALSE]
      [] ~st.pending /\ ch = "BSL" -> [st EXCEPT !.raw = Append(@, ch), !.pending = TRUE]
      [] ~st.pending /\ ch = "BAR" -> [st EXCEPT !.fields = Append(@, st.raw), !.raw = <<>>]
      [] OTHER -> [st EXCEPT !.raw = Append(@, ch)]

SplitStates(line) ==
    LET st[i \in 0..Len(line)] ==
          IF i = 0 THEN [raw |-> <<>>, pending |-> FALSE, fields |-> <<>>]
          ELSE SplitStep(st[i - 1], line[i])
    IN  st

Split(line) ==
    LET st == SplitStates(line)[Len(line)]
    IN  [fields |-> Append(st.fields, st.raw), ok |-> ~st.pending]

FieldLetters == [ch \in {"BSL", "BAR", "n"} |-> IF ch = "n" THEN "LF" ELSE ch]

UnescapeStep(st, ch) ==
    CASE st.pending -> [out |-> Append(st.out, IF ch \in DOMAIN FieldLetters THEN FieldLetters[ch] ELSE ch),
                        pending |-> FALSE, ok |-> st.ok /\ ch \in DOMAIN FieldLetters]
      [] ~st.pending /\ ch = "BSL" -> [st EXCEPT !.pending = TRUE]
      [] OTHER -> [st EXCEPT !.out = Append(@, ch)]

UnescapeStates(v) ==
    LET st[i \in 0..Len(v)] ==
          IF i = 0 THEN [out |-> <<>>, pending |-> FALSE, ok |-> TRUE]
          ELSE UnescapeStep(st[i - 1], v[i])
    IN  st

UnescapeField(v) ==
    LET st == UnescapeStates(v)[Len(v)]
    IN  [out |-> st.out, ok |-> st.ok /\ ~st.pending]

\* The table has the columns id, and two more.
Columns == 3

\* Columns that are missing are empty, too many are dropped.
NormalizeFieldCount(fields) ==
    [i \in 1..Columns |-> IF i \in DOMAIN fields THEN fields[i] ELSE <<>>]

ParseLineIntoRow(line) ==
    LET split == Split(line)
        fields == [i \in DOMAIN split.fields |-> UnescapeField(split.fields[i])]
    IN  [ok |-> split.ok /\ \A i \in DOMAIN fields : fields[i].ok,
         row |-> NormalizeFieldCount([i \in DOMAIN fields |-> fields[i].out])]

-----------------------------------------------------------------------------
FirstRow == <<<<"1">>, <<"n">>, <<"n">>>>
SecondId == <<"2">>

Init ==
    /\ entry \in {"api", "cli", "text", "body", "file", "table"}
    /\ value \in IF entry \in {"api", "cli"} THEN Rows ELSE {<<>>}
    /\ phase = CASE entry \in {"api", "body"} -> "json"
                 [] entry \in {"cli", "text"} -> "lex"
                 [] entry = "file" -> "scan"
                 [] entry = "table" -> "table"
    /\ CASE entry = "cli" -> text = SqlText(value)
         [] entry = "text" -> text \in Texts
         [] OTHER -> text = <<>>
    /\ file \in IF entry = "file" THEN Files ELSE {RowLine(FirstRow)}
    /\ cursor = IF entry = "file" THEN 1 ELSE 0
    /\ rows = <<>>
    /\ answer = <<>>
    /\ LexInit
    /\ JsonInit
    /\ TableInit(IF entry = "table" THEN SchemaFiles ELSE {<<>>})

Sent == ClientEncodes(SqlText(value))

\* The request of a client that sends the row.
RowBody ==
    <<"LBRACE", "sql", "COLON",
      IF ParseJsonString(Sent).state = "closed" THEN "other" ELSE "badString", "RBRACE", "end">>

ExtractField ==
    /\ phase = "json" /\ want # "done"
    /\ \/ \E x \in IF entry = "api" THEN {RowBody[At]} ELSE Lexemes : JsonStep(x)
       \/ JsonAllocationFails
    /\ UNCHANGED <<pathVars, lexVars, tableVars>>

\* The handler goes on with the text, or answers with an error.
LeaveJson ==
    /\ phase = "json" /\ want = "done"
    /\ IF verdict = "ok" /\ entry = "api"
         THEN phase' = "lex" /\ text' = ParseJsonString(Sent).out
         ELSE phase' = "refused" /\ UNCHANGED text
    /\ UNCHANGED <<entry, value, file, cursor, rows, answer, pos, tokens, lexed, jsonVars, tableVars>>

Tokenize ==
    /\ phase = "lex" /\ LexNext
    /\ UNCHANGED <<pathVars, jsonVars, tableVars>>

InsertKinds ==
    <<"INSERT", "INTO", "identifier", "VALUES", "LPAREN", "string", "COMMA", "string", "RPAREN", "EOF">>

IsInsert == [i \in DOMAIN tokens |-> tokens[i].kind] = InsertKinds

\* execute_insert: the row with its id becomes a line at the end of the file.
Insert ==
    /\ phase = "lex" /\ lexed # "busy"
    /\ IF IsInsert
         THEN /\ file' = file \o RowLine(<<SecondId, tokens[6].text, tokens[8].text>>)
              /\ cursor' = Len(file) + 1
              /\ phase' = "stored"
         ELSE /\ phase' = "refused"
              /\ UNCHANGED <<file, cursor>>
    /\ UNCHANGED <<entry, value, rows, answer, lexVars, jsonVars, tableVars>>

\* A SELECT reads the whole file, or the line at the offset the index has.
Select ==
    /\ phase = "stored"
    /\ \/ phase' = "scan" /\ cursor' = 1
       \/ phase' = "lookup" /\ UNCHANGED cursor
    /\ UNCHANGED <<entry, value, file, rows, answer, lexVars, jsonVars, tableVars>>

ReadRow ==
    LET parsed == ParseLineIntoRow(ReadLine(cursor)) IN
    /\ phase \in {"scan", "lookup"} /\ cursor <= Len(file)
    /\ IF parsed.ok
         THEN /\ rows' = Append(rows, parsed.row)
              /\ cursor' = LineEnd(cursor) + 1
              /\ phase' = IF phase = "lookup" THEN "respond" ELSE phase
         ELSE /\ phase' = "malformed"
              /\ UNCHANGED <<rows, cursor>>
    /\ UNCHANGED <<entry, value, file, answer, lexVars, jsonVars, tableVars>>

ScanEnd ==
    /\ phase = "scan" /\ cursor > Len(file)
    /\ phase' = "respond"
    /\ UNCHANGED <<entry, value, file, cursor, rows, answer, lexVars, jsonVars, tableVars>>

Respond ==
    /\ phase = "respond"
    /\ answer' = IF entry = "api"
                   THEN [i \in DOMAIN rows |-> [j \in 1..Columns |-> JsonAppendEscapedString(rows[i][j])]]
                   ELSE answer
    /\ phase' = "done"
    /\ UNCHANGED <<entry, value, file, cursor, rows, lexVars, jsonVars, tableVars>>

\* A schema is loaded, and the table used.
UseTable ==
    /\ phase = "table" /\ TableNext
    /\ UNCHANGED <<pathVars, lexVars, jsonVars>>

Finished ==
    /\ \/ phase \in {"refused", "malformed", "done"}
       \/ phase = "table" /\ table \in {"bad", "refused", "answered"}
    /\ UNCHANGED vars

Next ==
    \/ ExtractField \/ LeaveJson \/ Tokenize \/ Insert
    \/ Select \/ ReadRow \/ ScanEnd \/ Respond \/ UseTable \/ Finished

Spec == Init /\ [][Next]_vars

-----------------------------------------------------------------------------
OutOfMemory == lexed = "memory" \/ verdict = "internal"

\* No value can end its literal: tokenize_sql gives back exactly the values the
\* client wrote, whichever quotes, backslashes or line ends they contain. A row
\* is refused only over HTTP, and only for a control character whose JSON escape
\* parse_json_string does not know.
LiteralIsTheValue ==
    entry \in {"api", "cli"} =>
        /\ lexed = "ok" => IsInsert /\ tokens[6].text = value[1] /\ tokens[8].text = value[2]
        /\ phase = "refused" /\ ~OutOfMemory =>
              /\ entry = "api"
              /\ \E i \in DOMAIN value : "CTRL" \in ToSet(value[i])

\* Without the one carriage return that read_line takes for a part of the line end.
Kept(v) == IF v # <<>> /\ Last(v) = "CR" THEN Front(v) ELSE v

\* Where the lines of the file begin.
LineStarts == {k \in 1..Len(file) : k = 1 \/ file[k - 1] = "LF"}

\* A row is one line: what is read back, by a scan of the file or at the offset
\* in the index, is the row that was stored, and the earlier row is still there.
\* Only a carriage return at the end of the last column is lost. Of any file, two
\* lines that are complete are read as different rows if they differ: each is the
\* line that would be written for its row.
RowsReadBack ==
    /\ entry \in {"api", "cli"} => phase # "malformed"
    /\ entry \in {"api", "cli"} /\ phase \in {"respond", "done"} =>
          LET second == <<SecondId, value[1], Kept(value[2])>> IN
          rows \in {<<second>>, <<FirstRow, second>>}
    /\ entry = "file" /\ phase = "done" =>
          \A k \in LineStarts :
              Len(Split(ReadLine(k)).fields) = Columns =>
                  \E i \in DOMAIN rows : RowLine(rows[i]) = Append(ReadLine(k), "LF")

\* A JSON parser gets from the answer the values that are in the rows.
AnswerIsWhatWasRead ==
    phase = "done" /\ entry = "api" =>
        \A i \in DOMAIN rows : \A j \in 1..Columns :
            ClientDecodes(answer[i][j]) = [state |-> "closed", out |-> rows[i][j]]
=============================================================================
