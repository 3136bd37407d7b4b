------------------------------ MODULE JsonBody ------------------------------
(***************************************************************************)
(* json_extract_string_field of src/json_parser.c: finding the field "sql" *)
(* in the body of a request, one lexeme at a step. The body is chosen      *)
(* lexeme by lexeme as the parser looks at it; white space is left out.    *)
(* What parse_json_string does inside a string is in ValuePath.            *)
(***************************************************************************)
EXTENDS Integers, SequencesExt, FiniteSetsExt

CONSTANT MaxLexemes     \* bound on the length of a body
ASSUME MaxLexemesAssumption == MaxLexemes \in Nat

\* "sql" and "other" are strings, "scalar" is a number, true, false or null.
\* "badString" is one that parse_json_string rejects, "junk" anything else (an
\* object or array as a value, a malformed number), "end" the end of the text.
Strings == {"sql", "other"}
Lexemes == {"LBRACE", "RBRACE", "COLON", "COMMA", "scalar", "badString", "junk", "end"} \cup Strings

VARIABLES
    body,       \* the lexemes seen so far
    want,       \* what the parser expects next, or "done"
    found,      \* the place of the string in found_value; 0 is NULL
    owned,      \* which of key and found_value are on the heap
    verdict     \* the JsonFieldStatus returned

jsonVars == <<body, want, found, owned, verdict>>

JsonInit ==
    /\ body = <<>>
    /\ want = "object"
    /\ found = 0
    /\ owned = {}
    /\ verdict = "none"

At == Len(body) + 1

\* The next lexeme is x, and it is consumed; the last one possible is the end.
Consume(x) ==
    /\ At < MaxLexemes \/ (At = MaxLexemes /\ x = "end")
    /\ body' = Append(body, x)

Expect(next) == want' = next /\ UNCHANGED verdict

\* An error return, after the calls of free that the code has at that place.
GiveUp(why, freed) ==
    /\ want' = "done"
    /\ verdict' = why
    /\ found' = IF "found_value" \in freed THEN 0 ELSE found
    /\ owned' = owned \ freed

OpenObject(x) ==
    /\ want = "object" /\ Consume(x)
    /\ IF x = "LBRACE" THEN Expect("first") /\ UNCHANGED <<found, owned>> ELSE GiveUp("invalid", {})

\* An empty object is answered before what follows it is looked at.
ReadKey(x) ==
    /\ want \in {"first", "key"} /\ Consume(x)
    /\ CASE want = "first" /\ x = "RBRACE" -> GiveUp("missing", {})
         [] x \in Strings -> Expect("colon") /\ owned' = owned \cup {"key"} /\ UNCHANGED found
         [] OTHER -> GiveUp("invalid", {"found_value"})

ReadColon(x) ==
    /\ want = "colon" /\ Consume(x)
    /\ IF x = "COLON" THEN Expect("value") /\ UNCHANGED <<found, owned>>
                  ELSE GiveUp("invalid", {"key", "found_value"})

KeyIsSql == body[Len(body) - 1] = "sql"

\* The key is freed after the value.
KeepValue(keeps) ==
    /\ Expect("after")
    /\ found' = IF keeps THEN At ELSE found
    /\ owned' = (owned \ {"key"}) \cup (IF keeps THEN {"found_value"} ELSE {})

\* What is freed when the value cannot be parsed: found_value if it is set.
FreedAtValue == {"key"} \cup (IF KeyIsSql /\ found = 0 THEN {} ELSE {"found_value"})

\* Faulty ReadValue: the last string for "sql" is kept.
ReadValueLast(x) ==
    /\ want = "value" /\ Consume(x)
    /\ CASE x \in Strings -> KeepValue(KeyIsSql)
         [] x = "scalar" /\ ~KeyIsSql -> KeepValue(FALSE)
         [] x = "scalar" /\ KeyIsSql -> GiveUp("missing", {"key", "found_value"})
         [] OTHER -> GiveUp("invalid", FreedAtValue)

\* Of several strings for "sql" the first is kept; another value for it ends the search.
ReadValue(x) ==
    /\ want = "value" /\ Consume(x)
    /\ CASE x \in Strings -> KeepValue(KeyIsSql /\ found = 0)
         [] x = "scalar" /\ ~KeyIsSql -> KeepValue(FALSE)
         [] x = "scalar" /\ KeyIsSql -> GiveUp("missing", {"key", "found_value"})
         [] OTHER -> GiveUp("invalid", FreedAtValue)

AfterValue(x) ==
    /\ want = "after" /\ Consume(x)
    /\ CASE x = "COMMA" -> Expect("key") /\ UNCHANGED <<found, owned>>
         [] x = "RBRACE" -> Expect("end") /\ UNCHANGED <<found, owned>>
         [] OTHER -> GiveUp("invalid", {"found_value"})

CloseObject(x) ==
    /\ want = "end" /\ Consume(x)
    /\ CASE x # "end" -> GiveUp("invalid", {"found_value"})
         [] x = "end" /\ found = 0 -> GiveUp("missing", {})
         [] OTHER -> want' = "done" /\ verdict' = "ok" /\ UNCHANGED <<found, owned>>

\* append_char fails inside a string.
JsonAllocationFails ==
    /\ want \in {"first", "key", "value"} /\ Consume("other")
    /\ GiveUp("internal", IF want = "value" THEN FreedAtValue ELSE {"found_value"})

JsonStep(x) ==
    OpenObject(x) \/ ReadKey(x) \/ ReadColon(x) \/ ReadValue(x) \/ AfterValue(x) \/ CloseObject(x)

-----------------------------------------------------------------------------
\* The grammar, by place: lexeme i of a flat object with at least one member.
Fits(i) ==
    IF i = 1 THEN body[i] = "LBRACE"
    ELSE IF body[i - 1] = "RBRACE" THEN body[i] = "end"
    ELSE CASE i % 4 = 2 -> body[i] \in Strings \/ (i = 2 /\ body[i] = "RBRACE")
           [] i % 4 = 3 -> body[i] = "COLON"
           [] i % 4 = 0 -> body[i] \in Strings \cup {"scalar"}
           [] i % 4 = 1 -> body[i] \in {"COMMA", "RBRACE"}

\* The values the body gives for "sql".
SqlValues == {i \in DOMAIN body : i % 4 = 0 /\ body[i - 2] = "sql"}

\* The SQL that is executed is the first "sql" of a body that is well-formed to
\* its last character; a body is called malformed only where it leaves the grammar,
\* and without SQL only if no "sql" in it is usable. The parser keeps what it
\* returns and nothing else, whichever way it leaves.
BodyVerdictIsDeserved ==
    /\ verdict = "ok" =>
          /\ \A i \in DOMAIN body : Fits(i)
          /\ Last(body) = "end"
          /\ SqlValues # {} /\ found = Min(SqlValues)
          /\ \A i \in SqlValues : body[i] \in Strings
          /\ owned = {"found_value"}
    /\ verdict = "missing" =>
          /\ \A i \in DOMAIN body : Fits(i)
          /\ SqlValues = {} \/ \E i \in SqlValues : body[i] = "scalar"
    /\ verdict = "invalid" => ~Fits(Len(body))
    /\ verdict \in {"missing", "invalid", "internal"} => owned = {}
=============================================================================
