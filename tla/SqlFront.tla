------------------------------ MODULE SqlFront ------------------------------
(***************************************************************************)
(* From the tokens of a text to the statements that are executed: the      *)
(* parser of src/parser.c under its two callers. db_api_execute_sql        *)
(* (src/db_api.c) accepts exactly one statement; main (src/main.c), the    *)
(* command line program, executes one statement after the other and stops  *)
(* at the first that fails.                                                *)
(*                                                                         *)
(* A token is its kind. The token array is revealed as the parser looks at *)
(* it, so what lies behind the place where it stops is left open. The      *)
(* memory of the statement is modelled by who points to it: every text the *)
(* parser duplicates is named by the position of its token.                *)
(***************************************************************************)
EXTENDS Integers, SequencesExt, FiniteSetsExt

CONSTANTS MaxTokens     \* bound: no text has more tokens than this before EOF

ASSUME MaxTokensAssumption == MaxTokens \in Nat \ {0}

VARIABLES
    mode,       \* "api" or "cli"
    toks,       \* the tokens seen so far
    cur,        \* the cursor of the caller or of the parser
    at,         \* where the caller or the parser is
    first,      \* where the statement under way begins
    stmt,       \* the Statement of the caller
    heap,       \* the texts that are allocated
    broken,     \* "no", or what failed although the tokens are not to blame
    executed,   \* the statements given to execute_statement, with their places
    verdict     \* the error code of the API, or the exit status of the program

sqlVars == <<mode, toks, cur, at, first, stmt, heap, broken, executed, verdict>>

Keywords == {"INSERT", "INTO", "VALUES", "SELECT", "FROM", "WHERE"}
Symbols == {"COMMA", "LPAREN", "RPAREN", "SEMICOLON", "STAR", "EQUAL"}
Literals == {"string", "number"}
Kinds == Keywords \cup Symbols \cup Literals \cup {"identifier"}

\* A statement; a position is a pointer to the text of that token, 0 is NULL.
NoStatement == [type |-> "insert", table |-> 0, columns |-> <<>>, values |-> <<>>,
                whereColumn |-> 0, whereValue |-> 0]

\* What free_statement would free.
Owned(s) ==
    ({s.table, s.whereColumn, s.whereValue} \cup Range(s.columns) \cup Range(s.values)) \ {0}

SqlInit ==
    /\ toks = <<>>
    /\ cur = 1
    /\ first = 1
    /\ stmt = NoStatement
    /\ heap = {}
    /\ broken = "no"
    /\ executed = <<>>
    /\ verdict = "none"

-----------------------------------------------------------------------------
(* The token array and the cursor.                                         *)

\* The next token is looked at for the first time.
Reveal ==
    /\ at \notin {"idle", "execute", "failed", "cleanup", "done"}
    /\ cur > Len(toks)
    /\ \E k \in (IF Len(toks) < MaxTokens THEN Kinds ELSE {}) \cup {"EOF"} :
          toks' = Append(toks, k)
    /\ UNCHANGED <<mode, cur, at, first, stmt, heap, broken, executed, verdict>>

Sees(K) == cur <= Len(toks) /\ toks[cur] \in K
SeesOther(K) == cur <= Len(toks) /\ toks[cur] \notin K

\* One token is consumed, and nothing else but the place changes.
Skip(place) ==
    /\ cur' = cur + 1
    /\ at' = place
    /\ UNCHANGED <<mode, toks, first, stmt, heap, broken, executed, verdict>>

Goto(place) ==
    /\ at' = place
    /\ UNCHANGED <<mode, toks, cur, first, stmt, heap, broken, executed, verdict>>

\* The caller knows what to answer; then it frees what it has.
Answer(code) ==
    /\ verdict' = code
    /\ at' = "cleanup"
    /\ UNCHANGED <<mode, toks, cur, first, stmt, heap, broken, executed>>

-----------------------------------------------------------------------------
(* Memory.                                                                 *)

\* Faulty FreeStatement: the pointers keep their values.
FreeStatementOnly ==
    /\ heap' = heap \ Owned(stmt)
    /\ UNCHANGED stmt

\* free_statement
FreeStatement ==
    /\ heap' = heap \ Owned(stmt)
    /\ stmt' = [NoStatement EXCEPT !.type = stmt.type]

\* The text of the current token is duplicated, and new points to it.
Keep(new, place) ==
    /\ stmt' = new
    /\ heap' = heap \cup {cur}
    /\ cur' = cur + 1
    /\ at' = place
    /\ UNCHANGED <<mode, toks, first, broken, executed, verdict>>

-----------------------------------------------------------------------------
(* The parser: parse_next_statement and what it calls.                     *)

\* The tokens that are expected by keyword or symbol, and where they lead.
Expected == [
    into        |-> [k \in {"INTO"} |-> "intoTable"],
    afterTable  |-> [k \in {"LPAREN", "VALUES"} |-> IF k = "LPAREN" THEN "column" ELSE "open"],
    moreColumns |-> [k \in {"COMMA", "RPAREN"} |-> IF k = "COMMA" THEN "column" ELSE "values"],
    values      |-> [k \in {"VALUES"} |-> "open"],
    open        |-> [k \in {"LPAREN"} |-> "value"],
    moreValues  |-> [k \in {"COMMA", "RPAREN"} |-> IF k = "COMMA" THEN "value" ELSE "end"],
    items       |-> [k \in {"STAR"} |-> "from"],
    moreItems   |-> [k \in {"COMMA", "FROM"} |-> IF k = "COMMA" THEN "item" ELSE "fromTable"],
    from        |-> [k \in {"FROM"} |-> "fromTable"],
    where       |-> [k \in {"WHERE"} |-> "whereColumn"],
    equal       |-> [k \in {"EQUAL"} |-> "whereValue"]]

\* parse_next_statement; leading semicolons are empty statements.
BeginStatement ==
    /\ at = "statement"
    /\ \/ Sees({"SEMICOLON"}) /\ Skip("statement")
       \/ /\ Sees({"INSERT", "SELECT"})
          /\ stmt' = [NoStatement EXCEPT
                !.type = IF toks[cur] = "INSERT" THEN "insert" ELSE "select"]
          /\ first' = cur
          /\ cur' = cur + 1
          /\ at' = IF toks[cur] = "INSERT" THEN "into" ELSE "items"
          /\ UNCHANGED <<mode, toks, heap, broken, executed, verdict>>
       \/ /\ SeesOther({"SEMICOLON", "INSERT", "SELECT"})
          /\ stmt' = NoStatement
          /\ at' = "failed"
          /\ UNCHANGED <<mode, toks, cur, first, heap, broken, executed, verdict>>

\* parser_match and parser_expect_with_message, when the token is there.
Match ==
    /\ at \in DOMAIN Expected /\ Sees(DOMAIN Expected[at])
    /\ Skip(Expected[at][toks[cur]])

\* Faulty ParseIdentifier: a new column takes the first place of the list.
ParseIdentifierInFront ==
    /\ Sees({"identifier"})
    /\ \/ at = "intoTable" /\ Keep([stmt EXCEPT !.table = cur], "afterTable")
       \/ at = "fromTable" /\ Keep([stmt EXCEPT !.table = cur], "where")
       \/ at = "column" /\ Keep([stmt EXCEPT !.columns = <<cur>> \o @], "moreColumns")
       \/ at \in {"items", "item"} /\ Keep([stmt EXCEPT !.columns = <<cur>> \o @], "moreItems")
       \/ at = "whereColumn" /\ Keep([stmt EXCEPT !.whereColumn = cur], "equal")

\* parse_identifier, for a table, in a list (append_identifier) or in WHERE.
ParseIdentifier ==
    /\ Sees({"identifier"})
    /\ \/ at = "intoTable" /\ Keep([stmt EXCEPT !.table = cur], "afterTable")
       \/ at = "fromTable" /\ Keep([stmt EXCEPT !.table = cur], "where")
       \/ at = "column" /\ Keep([stmt EXCEPT !.columns = Append(@, cur)], "moreColumns")
       \/ at \in {"items", "item"} /\ Keep([stmt EXCEPT !.columns = Append(@, cur)], "moreItems")
       \/ at = "whereColumn" /\ Keep([stmt EXCEPT !.whereColumn = cur], "equal")

\* parse_literal, in the list of values (append_literal) or in WHERE.
ParseLiteral ==
    /\ Sees(Literals)
    /\ \/ at = "value" /\ Keep([stmt EXCEPT !.values = Append(@, cur)], "moreValues")
       \/ at = "whereValue" /\ Keep([stmt EXCEPT !.whereValue = cur], "end")

\* The tokens the parser can go on with at place p.
Wanted(p) ==
    (IF p \in DOMAIN Expected THEN DOMAIN Expected[p] ELSE {})
    \cup (IF p \in {"intoTable", "fromTable", "column", "items", "item", "whereColumn"}
            THEN {"identifier"} ELSE {})
    \cup (IF p \in {"value", "whereValue"} THEN Literals ELSE {})

\* What the parser frees before it returns an error from place p: a list that
\* is cut short frees itself, and in an INSERT the statement follows.
FreeAt(p) ==
    IF p \in {"into", "intoTable", "items"}
      THEN UNCHANGED <<stmt, heap>>
      ELSE FreeStatement

\* A token the grammar has no use for.
Unexpected ==
    /\ Wanted(at) # {} /\ at # "where"
    /\ SeesOther(Wanted(at))
    /\ FreeAt(at)
    /\ at' = "failed"
    /\ UNCHANGED <<mode, toks, cur, first, broken, executed, verdict>>

\* realloc fails in append_identifier or append_literal: reported as a parse
\* error, with the list freed. (A failed strdup_safe ends the process.)
ListAllocationFails ==
    /\ at \in {"column", "items", "item", "value"} /\ Sees({"identifier"} \cup Literals)
    /\ Sees(Wanted(at))
    /\ FreeStatement
    /\ at' = "failed"
    /\ broken' = "memory"
    /\ UNCHANGED <<mode, toks, cur, first, executed, verdict>>

\* The WHERE clause and the semicolon at the end are optional.
EndStatement ==
    \/ at = "where" /\ SeesOther({"WHERE"}) /\ Goto("end")
    \/ at = "end" /\ Sees({"SEMICOLON"}) /\ Skip("parsed")
    \/ at = "end" /\ SeesOther({"SEMICOLON"}) /\ Goto("parsed")

Parser ==
    \/ BeginStatement \/ Match \/ ParseIdentifier \/ ParseLiteral
    \/ Unexpected \/ ListAllocationFails \/ EndStatement

-----------------------------------------------------------------------------
(* db_api_execute_sql up to the lock.                                      *)

\* The text cannot be tokenized.
LexerFails ==
    /\ at = "front" /\ toks = <<>>
    /\ broken' = "lexer"
    /\ verdict' = IF mode = "api" THEN "SQL_PARSE_ERROR" ELSE "LEX_ERROR"
    /\ at' = "cleanup"
    /\ UNCHANGED <<mode, toks, cur, first, stmt, heap, executed>>

\* No memory for the copy of the text, or for the execution context.
ContextFails ==
    /\ at = "front" /\ toks = <<>>
    /\ broken' = "memory"
    /\ verdict' = IF mode = "api" THEN "INTERNAL_ERROR" ELSE "EXEC_ERROR"
    /\ at' = "cleanup"
    /\ UNCHANGED <<mode, toks, cur, first, stmt, heap, executed>>

\* skip_leading_semicolons and the first look at the statement.
ApiFront ==
    /\ mode = "api" /\ at = "front"
    /\ \/ Sees({"SEMICOLON"}) /\ Skip("front")
       \/ Sees({"EOF"}) /\ Answer("EMPTY_QUERY")
       \/ Sees({"INSERT", "SELECT"}) /\ Goto("statement")
       \/ SeesOther({"SEMICOLON", "EOF", "INSERT", "SELECT"}) /\ Answer("UNSUPPORTED_QUERY")

ApiParseError ==
    /\ mode = "api" /\ at = "failed"
    /\ Answer("SQL_PARSE_ERROR")

\* Faulty ApiGate: one semicolon ends the text.
ApiGateAfterSemicolon ==
    /\ mode = "api" /\ at = "parsed"
    /\ \/ Sees({"SEMICOLON"}) /\ Goto("execute")
       \/ Sees({"EOF"}) /\ Goto("execute")
       \/ SeesOther({"SEMICOLON", "EOF"}) /\ Answer("MULTI_STATEMENT_NOT_ALLOWED")

\* skip_trailing_semicolons; nothing else may follow the statement.
ApiGate ==
    /\ mode = "api" /\ at = "parsed"
    /\ \/ Sees({"SEMICOLON"}) /\ Skip("parsed")
       \/ Sees({"EOF"}) /\ Goto("execute")
       \/ SeesOther({"SEMICOLON", "EOF"}) /\ Answer("MULTI_STATEMENT_NOT_ALLOWED")

\* The statement as it is executed, and the tokens it was read from.
Executing == [from |-> first, to |-> cur - 1, stmt |-> stmt]

\* The statement goes to the engine, which answers for it (module DbApi).
ApiExecute ==
    /\ mode = "api" /\ at = "execute"
    /\ executed' = Append(executed, Executing)
    /\ verdict' = "executed"
    /\ at' = "cleanup"
    /\ UNCHANGED <<mode, toks, cur, first, stmt, heap, broken>>

\* The end of both callers: free_statement, whatever happened before.
Cleanup ==
    /\ at = "cleanup"
    /\ FreeStatement
    /\ at' = "done"
    /\ UNCHANGED <<mode, toks, cur, first, broken, executed, verdict>>

-----------------------------------------------------------------------------
(* main of the command line program.                                       *)

\* Between two statements; the end of the text ends the program. (A text that
\* is empty when trimmed does not reach the lexer.)
CliFront ==
    /\ mode = "cli" /\ at = "front"
    /\ \/ Sees({"SEMICOLON"}) /\ Skip("front")
       \/ Sees({"EOF"}) /\ Answer(IF toks = <<"EOF">> THEN "FILE_ERROR"
                                   ELSE IF executed = <<>> THEN "PARSE_ERROR" ELSE "OK")
       \/ SeesOther({"SEMICOLON", "EOF"}) /\ Goto("statement")

CliParsed ==
    /\ mode = "cli" /\ at = "parsed"
    /\ Goto("execute")

CliParseError ==
    /\ mode = "cli" /\ at = "failed"
    /\ Answer("PARSE_ERROR")

CliExecute ==
    /\ mode = "cli" /\ at = "execute"
    /\ executed' = Append(executed, Executing)
    /\ FreeStatement
    /\ at' = "front"
    /\ UNCHANGED <<mode, toks, cur, first, broken, verdict>>

CliExecuteFails ==
    /\ mode = "cli" /\ at = "execute"
    /\ executed' = Append(executed, Executing)
    /\ verdict' = "EXEC_ERROR"
    /\ at' = "cleanup"
    /\ UNCHANGED <<mode, toks, cur, first, stmt, heap, broken>>

SqlNext ==
    \/ Reveal \/ LexerFails \/ ContextFails \/ Parser
    \/ ApiFront \/ ApiParseError \/ ApiGate \/ ApiExecute
    \/ CliFront \/ CliParsed \/ CliParseError \/ CliExecute \/ CliExecuteFails
    \/ Cleanup

-----------------------------------------------------------------------------
(* The language, as a grammar generates it.                                *)

ListOf(item, n) == [i \in 1..2 * n - 1 |-> IF i % 2 = 1 THEN item ELSE "COMMA"]

InsertText(columns, values) ==
    <<"INSERT", "INTO", "identifier">>
    \o (IF columns = 0 THEN <<>> ELSE <<"LPAREN">> \o ListOf("identifier", columns) \o <<"RPAREN">>)
    \o <<"VALUES", "LPAREN">> \o ListOf("literal", values) \o <<"RPAREN">>

SelectText(columns, where) ==
    <<"SELECT">> \o (IF columns = 0 THEN <<"STAR">> ELSE ListOf("identifier", columns))
    \o <<"FROM", "identifier">>
    \o (IF where THEN <<"WHERE", "identifier", "EQUAL", "literal">> ELSE <<>>)

\* All statements that begin within the bound, in which no list has more items.
MaxItems == (MaxTokens + 1) \div 2
Sentences ==
    {InsertText(c, v) : c \in 0..MaxItems, v \in 1..MaxItems}
    \cup {SelectText(c, w) : c \in 0..MaxItems, w \in BOOLEAN}

Class(t) == [i \in DOMAIN t |-> IF t[i] \in Literals THEN "literal" ELSE t[i]]
IsSentence(t) == Class(t) \in Sentences
Viable(t) == \E s \in Sentences : IsPrefix(Class(t), s)

From(t, i) == SubSeq(t, i, Len(t))
AfterSemicolons(t) == From(t, Min({i \in DOMAIN t : t[i] # "SEMICOLON"} \cup {Len(t) + 1}))

\* The answer a text deserves: its first statement is as long as the grammar
\* allows, and nothing but semicolons may follow.
Deserved(t) ==
    LET s == AfterSemicolons(t)
        n == Max({k \in DOMAIN s : Viable(SubSeq(s, 1, k))})
    IN  CASE s[1] = "EOF" -> "EMPTY_QUERY"
          [] s[1] \notin {"EOF", "INSERT", "SELECT"} -> "UNSUPPORTED_QUERY"
          [] s[1] \in {"INSERT", "SELECT"} ->
               IF ~IsSentence(SubSeq(s, 1, n)) THEN "SQL_PARSE_ERROR"
                 ELSE IF AfterSemicolons(From(s, n + 1)) = <<"EOF">> THEN "executed"
                 ELSE "MULTI_STATEMENT_NOT_ALLOWED"

\* The API executes a text exactly if it is one statement of the grammar among
\* semicolons, and tells apart why it does not: in particular a second
\* statement, however it is hidden behind the first, is never executed and
\* prevents the first.
ApiVerdictIsDeserved ==
    mode = "api" /\ verdict # "none" /\ broken = "no" => verdict = Deserved(toks)

\* The texts a statement keeps, in the order they are written in.
Written(s) ==
    IF s.type = "insert"
      THEN <<s.table>> \o s.columns \o s.values
      ELSE s.columns \o <<s.table>>
           \o (IF s.whereColumn = 0 THEN <<>> ELSE <<s.whereColumn, s.whereValue>>)

\* w lists the numbers of S, from the least to the largest.
InOrder(w, S) == Range(w) = S /\ \A i, j \in DOMAIN w : i < j => w[i] < w[j]

\* What was executed before the statement under way is the text before it,
\* statement by statement in its order, none left out and none twice, each
\* with its own table, columns and values in their order; when the command
\* line program fails at a statement, those before it have been executed.
ExecutedIsThePrefix ==
    LET within(i) == {e \in DOMAIN executed : executed[e].from <= i /\ i <= executed[e].to}
        kept(e) == {i \in e.from..e.to : toks[i] \in Literals \cup {"identifier"}}
        last(e) == Max({i \in e.from..e.to : toks[i] # "SEMICOLON"})
    IN
    /\ \A i \in 1..first - 1 : toks[i] = "SEMICOLON" \/ Cardinality(within(i)) = 1
    /\ verdict \in {"OK", "executed"} =>
          \A i \in DOMAIN toks : toks[i] \in {"SEMICOLON", "EOF"} \/ Cardinality(within(i)) = 1
    /\ \A j, k \in DOMAIN executed : j < k => executed[j].to < executed[k].from
    /\ \A k \in DOMAIN executed :
          LET e == executed[k] IN
          /\ IsSentence(SubSeq(toks, e.from, last(e)))
          /\ InOrder(Written(e.stmt), kept(e))

\* On every path, also the failing ones, what is allocated is exactly what the
\* statement points to: nothing leaks, and free_statement, which both the
\* parser and its caller call after an error, frees nothing twice. The handler
\* leaves nothing behind.
HeapIsOwned ==
    /\ heap = Owned(stmt)
    /\ at = "done" => heap = {}
=============================================================================
