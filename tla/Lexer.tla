------------------------------- MODULE Lexer -------------------------------
(***************************************************************************)
(* tokenize_sql of src/lexer.c, one token at a step. A text is a sequence  *)
(* of characters, of which only one of each class is needed; a keyword is  *)
(* a single letter here, so that a word is that keyword if it consists of  *)
(* it alone.                                                               *)
(***************************************************************************)
EXTENDS Integers, SequencesExt, FiniteSetsExt

VARIABLES
    text,       \* the SQL text
    pos,        \* index, from 1
    tokens,     \* the tokens so far, each with the place it was read from
    lexed       \* "busy", "ok", "error" or "memory"

lexVars == <<text, pos, tokens, lexed>>

Keywords == {"INSERT", "INTO", "VALUES", "SELECT", "FROM", "WHERE"}
Letters == Keywords \cup {"a", "n"}
Digits == {"1"}
Spaces == {"SPACE", "TAB", "LF", "CR"}
Symbols == {"COMMA", "LPAREN", "RPAREN", "SEMICOLON", "STAR", "EQUAL"}
Quote == "QUOTE"

LexInit ==
    /\ pos = 1
    /\ tokens = <<>>
    /\ lexed = "busy"

\* The end of the longest run of characters of class C that begins at i.
RunEnd(C, i) == Min({k \in i..Len(text) : text[k] \notin C} \cup {Len(text) + 1}) - 1

Here(C) == pos <= Len(text) /\ text[pos] \in C
IsAt(C, i) == i <= Len(text) /\ text[i] \in C

\* append_token
AppendToken(kind, content, last) ==
    /\ tokens' = Append(tokens, [kind |-> kind, text |-> content, from |-> pos, to |-> last])
    /\ pos' = last + 1
    /\ UNCHANGED <<text, lexed>>

\* An error frees the tokens.
Fails(why) ==
    /\ tokens' = <<>>
    /\ lexed' = why
    /\ UNCHANGED <<text, pos>>

SkipSpace ==
    /\ lexed = "busy" /\ Here(Spaces)
    /\ pos' = pos + 1
    /\ UNCHANGED <<text, tokens, lexed>>

TokenizeIdentifier ==
    LET last == RunEnd(Letters \cup Digits, pos)
        word == SubSeq(text, pos, last)
    IN
    /\ lexed = "busy" /\ Here(Letters)
    /\ AppendToken(IF Len(word) = 1 /\ word[1] \in Keywords THEN word[1] ELSE "identifier",
                   word, last)

\* A sign counts only with a digit behind it.
NumberHere == Here(Digits) \/ (Here({"MINUS"}) /\ IsAt(Digits, pos + 1))

\* Faulty TokenizeNumber: every dot with a digit behind it is taken.
TokenizeNumberWithDots ==
    LET whole == RunEnd(Digits, pos + 1)
        last == RunEnd(Digits \cup {"DOT"}, pos + 1)
    IN
    /\ lexed = "busy" /\ NumberHere
    /\ IF IsAt({"DOT"}, whole + 1) /\ ~IsAt(Digits, whole + 2)
         THEN Fails("error")
         ELSE AppendToken("number", SubSeq(text, pos, last), last)

\* Digits, and one dot if a digit follows it.
TokenizeNumber ==
    LET whole == RunEnd(Digits, pos + 1)
        last == IF IsAt({"DOT"}, whole + 1) THEN RunEnd(Digits, whole + 2) ELSE whole
    IN
    /\ lexed = "busy" /\ NumberHere
    /\ IF IsAt({"DOT"}, whole + 1) /\ ~IsAt(Digits, whole + 2)
         THEN Fails("error")
         ELSE AppendToken("number", SubSeq(text, pos, last), last)

\* The quotes after the opening one, up to i.
QuotesTo(i) == {k \in pos + 1..i : text[k] = Quote}
Odd(S) == Cardinality(S) % 2 = 1

\* Faulty Closing: any quote ends the literal.
ClosingAtFirst == {i \in pos + 1..Len(text) : text[i] = Quote}

\* A quote that is not the first or the second of a pair ends the literal.
Closing ==
    {i \in pos + 1..Len(text) :
        text[i] = Quote /\ Odd(QuotesTo(i)) /\ ~IsAt({Quote}, i + 1)}

\* What append_string_char has copied up to each character: of a pair of quotes
\* only the second.
Copied ==
    LET copy[k \in pos..Len(text)] ==
          IF k = pos THEN <<>>
          ELSE IF text[k] = Quote /\ Odd(QuotesTo(k)) THEN copy[k - 1]
          ELSE Append(copy[k - 1], text[k])
    IN  copy

TokenizeString ==
    LET last == Min(Closing) IN
    /\ lexed = "busy" /\ Here({Quote})
    /\ IF Closing = {}
         THEN Fails("error")
         ELSE AppendToken("string", Copied[last - 1], last)

TokenizeSymbol ==
    /\ lexed = "busy" /\ pos <= Len(text)
    /\ ~Here(Spaces \cup Letters \cup {Quote}) /\ ~NumberHere
    /\ IF Here(Symbols) THEN AppendToken(text[pos], <<text[pos]>>, pos) ELSE Fails("error")

\* realloc fails in append_token or append_string_char.
LexAllocationFails ==
    /\ lexed = "busy" /\ ~Here(Spaces)
    /\ Fails("memory")

\* The EOF token.
LexEnd ==
    /\ lexed = "busy" /\ pos > Len(text)
    /\ tokens' = Append(tokens, [kind |-> "EOF", text |-> <<>>, from |-> pos, to |-> pos])
    /\ lexed' = "ok"
    /\ UNCHANGED <<text, pos>>

LexNext ==
    \/ SkipSpace \/ TokenizeIdentifier \/ TokenizeNumber \/ TokenizeString
    \/ TokenizeSymbol \/ LexAllocationFails \/ LexEnd

-----------------------------------------------------------------------------
\* The grammar of tokens.
IsIdentifier(t) ==
    /\ t[1] \in Letters
    /\ \A i \in DOMAIN t : t[i] \in Letters \cup Digits
    /\ ~(Len(t) = 1 /\ t[1] \in Keywords)

IsNumber(t) ==
    LET u == IF t[1] = "MINUS" THEN Tail(t) ELSE t IN
    /\ u # <<>> /\ u[1] \in Digits /\ Last(u) \in Digits
    /\ \A i \in DOMAIN u : u[i] \in Digits \cup {"DOT"}
    /\ Cardinality({i \in DOMAIN u : u[i] = "DOT"}) <= 1

\* Inside the literal quotes come in even numbers.
IsString(t) ==
    LET inside == 2..Len(t) - 1
        other(i) == i \notin inside \/ t[i] # Quote
    IN
    /\ Len(t) >= 2 /\ t[1] = Quote /\ Last(t) = Quote
    /\ \A i, j \in inside :
          /\ i <= j /\ other(i - 1) /\ other(j + 1)
          /\ \A k \in i..j : t[k] = Quote
          => (j - i) % 2 = 1

\* Whether t has the form of a token of a kind.
HasForm(kind, t) ==
    \/ kind \in Keywords \cup Symbols /\ t = <<kind>>
    \/ kind = "identifier" /\ IsIdentifier(t)
    \/ kind = "number" /\ IsNumber(t)
    \/ kind = "string" /\ IsString(t)

\* When the lexer accepts a text, its tokens are the text: every character that
\* is not white space between tokens belongs to exactly one of them, each has
\* the form of its kind, and none could have been longer.
TokensAreTheText ==
    lexed = "ok" =>
        LET real == Front(tokens)
            covered == UNION {real[k].from..real[k].to : k \in DOMAIN real}
        IN
        /\ \A i \in 1..Len(text) : i \in covered \/ text[i] \in Spaces
        /\ \A k \in DOMAIN real :
              /\ k > 1 => real[k - 1].to < real[k].from
              /\ HasForm(real[k].kind, SubSeq(text, real[k].from, real[k].to))
              /\ \A longer \in real[k].to + 1..Len(text) :
                    real[k].kind \notin Symbols =>
                       ~HasForm(real[k].kind, SubSeq(text, real[k].from, longer))
=============================================================================
