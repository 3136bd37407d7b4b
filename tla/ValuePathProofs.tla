--------------------------- MODULE ValuePathProofs ---------------------------
(***************************************************************************)
(* What holds of the texts on their way for every text and every row: of   *)
(* the body of a request, whatever lexemes it consists of, of the tokens   *)
(* of a statement, of the literals in it, of a line of the data file, of   *)
(* the answer in JSON, and of the columns of a table. Induction over a     *)
(* text is SetInduction's induction over its places.                       *)
(***************************************************************************)
EXTENDS ValuePath, SetInduction, SequenceTheorems, FiniteSetTheorems, TLAPS

-----------------------------------------------------------------------------
(* The field "sql" of a body.                                              *)

Places == {"object", "first", "key", "colon", "value", "after", "end", "done"}

\* Where the parser is in the grammar, by the number of lexemes.
PlaceInv ==
    LET n == Len(body) IN
    /\ want = "object" => n = 0
    /\ want = "first" => n = 1
    /\ want = "key" => n % 4 = 1 /\ n > 1
    /\ want = "colon" => n % 4 = 2
    /\ want = "value" => n % 4 = 3
    /\ want = "after" => n % 4 = 0 /\ n > 0
    /\ want = "end" => n % 4 = 1 /\ n > 1 /\ body[n] = "RBRACE"
    /\ want \notin {"object", "end"} => body[n] # "RBRACE"

\* Everything so far is in the grammar, and the first SQL is kept.
MembersInv ==
    /\ \A i \in DOMAIN body : Fits(i)
    /\ \A i \in SqlValues : body[i] \in Strings
    /\ found = 0 => SqlValues = {}
    /\ found # 0 => found \in SqlValues /\ \A i \in SqlValues : found <= i
    /\ owned = (IF found = 0 THEN {} ELSE {"found_value"})
               \cup (IF want \in {"colon", "value"} THEN {"key"} ELSE {})

JsonInv ==
    /\ body \in Seq(Lexemes) /\ found \in Nat /\ want \in Places
    /\ want # "done" => verdict = "none" /\ PlaceInv /\ MembersInv
    /\ BodyVerdictIsDeserved

\* One lexeme more.
LEMMA Consumed ==
    ASSUME JsonInv, want # "done", NEW x \in Lexemes, Consume(x)
    PROVE  /\ body' \in Seq(Lexemes) /\ Len(body) \in Nat /\ At = Len(body) + 1 /\ Len(body') = At
           /\ DOMAIN body = 1..Len(body) /\ DOMAIN body' = 1..At
           /\ body'[At] = x /\ (Len(body) > 0 => body'[At - 1] = body[Len(body)])
           /\ \A i \in DOMAIN body : Fits(i)' /\ body'[i] = body[i]
           /\ SqlValues' = IF At % 4 = 0 /\ KeyIsSql THEN SqlValues \cup {At} ELSE SqlValues
           /\ \A i \in SqlValues : i \in DOMAIN body /\ i < At
  <1>1. /\ body \in Seq(Lexemes) /\ body' = Append(body, x) /\ At = Len(body) + 1
    BY DEF JsonInv, Consume, At
  <1>2. /\ body' \in Seq(Lexemes) /\ Len(body) \in Nat /\ Len(body') = At
        /\ DOMAIN body = 1..Len(body) /\ DOMAIN body' = 1..At
        /\ body'[At] = x /\ \A i \in DOMAIN body : body'[i] = body[i]
    BY <1>1
  <1>3. Len(body) > 0 => body'[At - 1] = body[Len(body)]
    <2>. SUFFICES ASSUME Len(body) > 0 PROVE body'[At - 1] = body[Len(body)]
      OBVIOUS
    <2>1. At - 1 = Len(body) /\ Len(body) \in 1..Len(body)
      BY <1>1, <1>2
    <2>. QED
      BY <1>2, <2>1
  <1>4. ASSUME NEW i \in DOMAIN body PROVE Fits(i)'
    <2>1. Fits(i)
      BY <1>4 DEF JsonInv, MembersInv
    <2>2. body'[i] = body[i] /\ (i # 1 => body'[i - 1] = body[i - 1])
      BY <1>2, <1>4
    <2>. QED
      BY <2>1, <2>2 DEF Fits
  <1>5. \A i \in SqlValues : i \in DOMAIN body /\ i < At
    BY <1>1, <1>2 DEF SqlValues
  <1>6. \A i \in 1..Len(body) : i % 4 = 0 => body'[i - 2] = body[i - 2]
    <2>. SUFFICES ASSUME NEW i \in 1..Len(body), i % 4 = 0 PROVE body'[i - 2] = body[i - 2]
      OBVIOUS
    <2>1. i - 2 \in 1..Len(body)
      BY <1>2
    <2>. QED
      BY <1>2, <2>1
  <1>7. At % 4 = 0 => (body'[At - 2] = "sql" <=> KeyIsSql)
    <2>. SUFFICES ASSUME At % 4 = 0 PROVE body'[At - 2] = "sql" <=> KeyIsSql
      OBVIOUS
    <2>1. At - 2 \in 1..Len(body) /\ At - 2 = Len(body) - 1
      BY <1>1, <1>2
    <2>. QED
      BY <1>2, <2>1 DEF KeyIsSql
  <1>8. 1..At = (1..Len(body)) \cup {At}
    BY <1>1, <1>2
  <1>9. SqlValues' = {i \in 1..At : i % 4 = 0 /\ body'[i - 2] = "sql"}
    BY <1>2 DEF SqlValues
  <1>10. SqlValues = {i \in 1..Len(body) : i % 4 = 0 /\ body[i - 2] = "sql"}
    BY <1>2 DEF SqlValues
  <1>11. SqlValues' = IF At % 4 = 0 /\ KeyIsSql THEN SqlValues \cup {At} ELSE SqlValues
    BY <1>6, <1>7, <1>8, <1>9, <1>10
  <1>. QED
    BY <1>1, <1>2, <1>3, <1>4, <1>5, <1>11

\* The parser goes on: the lexeme is in the grammar.
LEMMA GoesOn ==
    ASSUME JsonInv, want # "done", NEW x \in Lexemes, Consume(x), Fits(Len(body))',
           UNCHANGED verdict, want' \in Places \ {"done"}, PlaceInv',
           IF At % 4 = 0 /\ KeyIsSql
             THEN x \in Strings /\ found' = IF found = 0 THEN At ELSE found
             ELSE UNCHANGED found,
           owned' = (IF found' = 0 THEN {} ELSE {"found_value"})
                    \cup (IF want' \in {"colon", "value"} THEN {"key"} ELSE {})
    PROVE  JsonInv'
  <1>1. /\ body' \in Seq(Lexemes) /\ Len(body) \in Nat /\ At = Len(body) + 1
        /\ DOMAIN body = 1..Len(body) /\ DOMAIN body' = 1..At /\ body'[At] = x /\ Len(body') = At
        /\ \A i \in DOMAIN body : Fits(i)' /\ body'[i] = body[i]
        /\ SqlValues' = IF At % 4 = 0 /\ KeyIsSql THEN SqlValues \cup {At} ELSE SqlValues
        /\ \A i \in SqlValues : i \in DOMAIN body /\ i < At
    BY Consumed
  <1>2. MembersInv /\ verdict = "none" /\ found \in Nat
    BY DEF JsonInv
  <1>3. \A i \in DOMAIN body' : Fits(i)'
    <2>1. \A i \in 1..At : i \in 1..Len(body) \/ i = At
      BY <1>1
    <2>. QED
      BY <1>1, <2>1
  <1>4. found' \in Nat /\ (found' = 0 => SqlValues' = {})
        /\ (found' # 0 => found' \in SqlValues' /\ \A i \in SqlValues' : found' <= i)
    <2>1. CASE At % 4 = 0 /\ KeyIsSql
      <3>1. SqlValues' = SqlValues \cup {At} /\ found' = (IF found = 0 THEN At ELSE found) /\ At \in Nat /\ At # 0
        BY <1>1, <2>1
      <3>2. CASE found = 0
        BY <1>2, <3>1, <3>2 DEF MembersInv
      <3>3. CASE found # 0
        BY <1>1, <1>2, <3>1, <3>3 DEF MembersInv
      <3>. QED
        BY <3>2, <3>3
    <2>2. CASE ~(At % 4 = 0 /\ KeyIsSql)
      BY <1>1, <1>2, <2>2 DEF MembersInv
    <2>. QED
      BY <2>1, <2>2
  <1>5. \A i \in SqlValues' : body'[i] \in Strings
    BY <1>1, <1>2 DEF MembersInv
  <1>6. MembersInv'
    BY <1>3, <1>4, <1>5 DEF MembersInv
  <1>7. BodyVerdictIsDeserved'
    BY <1>2 DEF BodyVerdictIsDeserved
  <1>. QED
    BY <1>1, <1>2, <1>4, <1>6, <1>7 DEF JsonInv, Places

\* The parser gives up: either the lexeme is not in the grammar, or it is and
\* there is no SQL.
LEMMA GivesUp ==
    ASSUME JsonInv, want # "done", NEW x \in Lexemes, Consume(x), NEW why, NEW freed, GiveUp(why, freed),
           owned \subseteq freed,
           \/ why = "internal"
           \/ why = "invalid" /\ ~Fits(Len(body))'
           \/ /\ why = "missing" /\ Fits(Len(body))'
              /\ \/ At % 4 = 0 /\ KeyIsSql /\ x = "scalar"
                 \/ ~(At % 4 = 0 /\ KeyIsSql) /\ found = 0
    PROVE  JsonInv'
  <1>1. /\ body' \in Seq(Lexemes) /\ Len(body) \in Nat /\ At = Len(body) + 1 /\ Len(body') = At
        /\ DOMAIN body = 1..Len(body) /\ DOMAIN body' = 1..At /\ body'[At] = x
        /\ \A i \in DOMAIN body : Fits(i)'
        /\ SqlValues' = IF At % 4 = 0 /\ KeyIsSql THEN SqlValues \cup {At} ELSE SqlValues
    BY Consumed
  <1>2. want' = "done" /\ verdict' = why /\ found' \in Nat /\ owned' = {}
    BY DEF GiveUp, JsonInv
  <1>3. found = 0 => SqlValues = {}
    BY DEF JsonInv, MembersInv
  <1>4. Fits(Len(body))' => \A i \in DOMAIN body' : Fits(i)'
    <2>1. \A i \in 1..At : i \in 1..Len(body) \/ i = At
      BY <1>1
    <2>. QED
      BY <1>1, <2>1
  <1>5. why = "invalid" => ~Fits(Len(body))'
    BY <1>1
  <1>6. why = "missing" => (SqlValues' = {} \/ \E i \in SqlValues' : body'[i] = "scalar")
    BY <1>1, <1>3
  <1>7. why \in {"internal", "invalid", "missing"}
    OBVIOUS
  <1>8. BodyVerdictIsDeserved'
    BY <1>2, <1>4, <1>5, <1>6, <1>7 DEF BodyVerdictIsDeserved
  <1>. QED
    BY <1>1, <1>2, <1>8 DEF JsonInv, Places

\* The body, at every step of the parser.
LEMMA JsonStepKeeps ==
    ASSUME JsonInv, want # "done", NEW x \in Lexemes, JsonStep(x)
    PROVE  JsonInv'
  <1>1. Consume(x) /\ PlaceInv /\ MembersInv /\ found \in Nat
    BY DEF JsonStep, OpenObject, ReadKey, ReadColon, ReadValue, AfterValue, CloseObject, JsonInv
  <1>2. /\ Len(body) \in Nat /\ At = Len(body) + 1 /\ Len(body') = At
        /\ body'[At] = x /\ (Len(body) > 0 => body'[At - 1] = body[Len(body)])
    BY <1>1, Consumed
  <1>3. owned = (IF found = 0 THEN {} ELSE {"found_value"})
                \cup (IF want \in {"colon", "value"} THEN {"key"} ELSE {})
    BY <1>1 DEF MembersInv
  <1>4. PICK n \in Nat : n = Len(body)
    BY <1>2
  <1>5. /\ n = 0 => (Fits(Len(body))' <=> x = "LBRACE")
        /\ n # 0 /\ body[n] = "RBRACE" => (Fits(Len(body))' <=> x = "end")
        /\ n # 0 /\ body[n] # "RBRACE" =>
              /\ n % 4 = 1 => (Fits(Len(body))' <=> x \in Strings \/ (n = 1 /\ x = "RBRACE"))
              /\ n % 4 = 2 => (Fits(Len(body))' <=> x = "COLON")
              /\ n % 4 = 3 => (Fits(Len(body))' <=> x \in Strings \cup {"scalar"})
              /\ n % 4 = 0 => (Fits(Len(body))' <=> x \in {"COMMA", "RBRACE"})
        /\ At = n + 1 /\ Len(body') = n + 1 /\ body'[n + 1] = x /\ (At % 4 = 0 <=> n % 4 = 3)
    <2>1. Len(body') = n + 1 /\ body'[n + 1] = x /\ (n # 0 => body'[(n + 1) - 1] = body[n]) /\ At = n + 1
      BY <1>2, <1>4
    <2>2. PICK m \in 0..3 : m = n % 4
      BY <1>4
    <2>3. PICK k \in 0..3 : k = (n + 1) % 4
      BY <1>4
    <2>4. /\ (n + 1 = 1 <=> n = 0) /\ (n + 1 = 2 <=> n = 1)
          /\ m = 0 => k = 1
          /\ m = 1 => k = 2
          /\ m = 2 => k = 3
          /\ m = 3 => k = 0
      <3>1. /\ n % 4 = 0 => (n + 1) % 4 = 1
            /\ n % 4 = 1 => (n + 1) % 4 = 2
            /\ n % 4 = 2 => (n + 1) % 4 = 3
            /\ n % 4 = 3 => (n + 1) % 4 = 0
        BY <1>4
      <3>2. (m = 0 => k = 1) /\ (m = 1 => k = 2) /\ (m = 2 => k = 3) /\ (m = 3 => k = 0)
        BY <2>2, <2>3, <3>1, Zenon
      <3>3. (n + 1 = 1 <=> n = 0) /\ (n + 1 = 2 <=> n = 1)
        BY <1>4
      <3>. QED
        BY <3>2, <3>3
    <2>5. (k = 2 <=> m = 1) /\ (k = 3 <=> m = 2) /\ (k = 0 <=> m = 3) /\ (k = 1 <=> m = 0)
      BY <2>2, <2>3, <2>4
    <2>6. Fits(Len(body))' <=>
              IF n = 0 THEN x = "LBRACE"
              ELSE IF body[n] = "RBRACE" THEN x = "end"
              ELSE CASE m = 1 -> x \in Strings \/ (n = 1 /\ x = "RBRACE")
                     [] m = 2 -> x = "COLON"
                     [] m = 3 -> x \in Strings \cup {"scalar"}
                     [] m = 0 -> x \in {"COMMA", "RBRACE"}
      BY <2>1, <2>3, <2>4, <2>5 DEF Fits
    <2>7. At % 4 = 0 <=> m = 3
      BY <2>1, <2>3, <2>5
    <2>8. /\ n = 0 => (Fits(Len(body))' <=> x = "LBRACE")
          /\ n # 0 /\ body[n] = "RBRACE" => (Fits(Len(body))' <=> x = "end")
          /\ n # 0 /\ body[n] # "RBRACE" =>
              /\ m = 1 => (Fits(Len(body))' <=> x \in Strings \/ (n = 1 /\ x = "RBRACE"))
              /\ m = 2 => (Fits(Len(body))' <=> x = "COLON")
              /\ m = 3 => (Fits(Len(body))' <=> x \in Strings \cup {"scalar"})
              /\ m = 0 => (Fits(Len(body))' <=> x \in {"COMMA", "RBRACE"})
      <3>1. CASE m = 0
        BY <2>6, <3>1
      <3>2. CASE m = 1
        BY <2>6, <3>2
      <3>3. CASE m = 2
        BY <2>6, <3>3
      <3>4. CASE m = 3
        BY <2>6, <3>4
      <3>. QED
        BY <2>2, <3>1, <3>2, <3>3, <3>4
    <2>. QED
      BY <2>1, <2>2, <2>7, <2>8
  <1>6. /\ want = "object" => n = 0
        /\ want = "first" => n = 1
        /\ want = "key" => n % 4 = 1 /\ n > 1
        /\ want = "colon" => n % 4 = 2
        /\ want = "value" => n % 4 = 3
        /\ want = "after" => n % 4 = 0 /\ n > 0
        /\ want = "end" => n % 4 = 1 /\ n > 1 /\ body[n] = "RBRACE"
        /\ want \notin {"object", "end"} => body[n] # "RBRACE"
    BY <1>1, <1>4 DEF PlaceInv
  <1>7. /\ want' = "first" /\ n = 0 /\ x # "RBRACE" => PlaceInv'
        /\ want' = "colon" /\ n % 4 = 1 /\ x # "RBRACE" => PlaceInv'
        /\ want' = "value" /\ n % 4 = 2 /\ x # "RBRACE" => PlaceInv'
        /\ want' = "after" /\ n % 4 = 3 /\ x # "RBRACE" => PlaceInv'
        /\ want' = "key" /\ n % 4 = 0 /\ n > 0 /\ x # "RBRACE" => PlaceInv'
        /\ want' = "end" /\ n % 4 = 0 /\ n > 0 /\ x = "RBRACE" => PlaceInv'
    <2>1. /\ n = 0 => n + 1 = 1
          /\ n % 4 = 1 => (n + 1) % 4 = 2
          /\ n % 4 = 2 => (n + 1) % 4 = 3
          /\ n % 4 = 3 => (n + 1) % 4 = 0
          /\ n % 4 = 0 => (n + 1) % 4 = 1
          /\ n + 1 > 0 /\ (n > 0 => n + 1 > 1)
      BY <1>4
    <2>. QED
      BY <1>5, <2>1 DEF PlaceInv
  <1>. USE DEF Places, Strings
  <1>8. CASE OpenObject(x)
    <2>1. CASE x = "LBRACE"
      <3>1. want = "object" /\ want' = "first" /\ UNCHANGED <<verdict, found, owned>> /\ n = 0
        BY <1>6, <1>8, <2>1 DEF OpenObject, Expect
      <3>2. Fits(Len(body))' /\ PlaceInv' /\ At % 4 # 0
        BY <1>5, <1>7, <2>1, <3>1
      <3>. QED
        BY <1>1, <1>3, <3>1, <3>2, GoesOn
    <2>2. CASE x # "LBRACE"
      <3>1. want = "object" /\ GiveUp("invalid", {}) /\ n = 0
        BY <1>6, <1>8, <2>2 DEF OpenObject
      <3>2. ~Fits(Len(body))'
        BY <1>5, <2>2, <3>1
      <3>3. owned \subseteq {}
        <4>1. DOMAIN body = {}
          <5>1. Len(body) = 0 /\ body \in Seq(Lexemes)
            BY <1>4, <3>1 DEF JsonInv
          <5>. QED
            BY <5>1
        <4>2. SqlValues = {}
          BY <4>1 DEF SqlValues
        <4>. QED
          BY <1>1, <1>3, <3>1, <4>2 DEF MembersInv
      <3>. QED
        BY <1>1, <3>1, <3>2, <3>3, GivesUp
    <2>. QED
      BY <2>1, <2>2
  <1>9. CASE ReadKey(x)
    <2>0. want \in {"first", "key"} /\ n % 4 = 1 /\ body[n] # "RBRACE" /\ n # 0
      BY <1>6, <1>9 DEF ReadKey
    <2>1. CASE want = "first" /\ x = "RBRACE"
      <3>1. GiveUp("missing", {})
        BY <1>9, <2>1 DEF ReadKey
      <3>2. Fits(Len(body))' /\ At % 4 # 0
        BY <1>5, <1>6, <2>0, <2>1
      <3>3. found = 0
        <4>1. \A i \in DOMAIN body : i = 1
          <5>1. Len(body) = 1 /\ body \in Seq(Lexemes)
            BY <1>4, <1>6, <2>1 DEF JsonInv
          <5>. QED
            BY <5>1
        <4>2. SqlValues = {}
          BY <4>1 DEF SqlValues
        <4>. QED
          BY <1>1, <4>2 DEF MembersInv
      <3>4. owned \subseteq {}
        BY <1>3, <2>1, <3>3
      <3>. QED
        BY <1>1, <3>1, <3>2, <3>3, <3>4, GivesUp
    <2>2. CASE x \in Strings
      <3>1. want' = "colon" /\ UNCHANGED <<verdict, found>> /\ owned' = owned \cup {"key"}
        BY <1>9, <2>2 DEF ReadKey, Expect
      <3>2. Fits(Len(body))' /\ PlaceInv' /\ At % 4 # 0
        BY <1>5, <1>7, <2>0, <2>2, <3>1
      <3>. QED
        BY <1>1, <1>3, <2>0, <3>1, <3>2, GoesOn
    <2>3. CASE x \notin Strings /\ ~(want = "first" /\ x = "RBRACE")
      <3>1. GiveUp("invalid", {"found_value"})
        BY <1>9, <2>3 DEF ReadKey
      <3>2. ~Fits(Len(body))'
        BY <1>5, <1>6, <2>0, <2>3
      <3>3. owned \subseteq {"found_value"}
        BY <1>3, <2>0
      <3>. QED
        BY <1>1, <3>1, <3>2, <3>3, GivesUp
    <2>. QED
      BY <2>1, <2>2, <2>3
  <1>10. CASE ReadColon(x)
    <2>0. want = "colon" /\ n % 4 = 2 /\ body[n] # "RBRACE" /\ n # 0
      BY <1>6, <1>10 DEF ReadColon
    <2>1. CASE x = "COLON"
      <3>1. want' = "value" /\ UNCHANGED <<verdict, found, owned>>
        BY <1>10, <2>1 DEF ReadColon, Expect
      <3>2. Fits(Len(body))' /\ PlaceInv' /\ At % 4 # 0
        BY <1>5, <1>7, <2>0, <2>1, <3>1
      <3>. QED
        BY <1>1, <1>3, <2>0, <3>1, <3>2, GoesOn
    <2>2. CASE x # "COLON"
      <3>1. GiveUp("invalid", {"key", "found_value"})
        BY <1>10, <2>2 DEF ReadColon
      <3>2. ~Fits(Len(body))' /\ owned \subseteq {"key", "found_value"}
        BY <1>3, <1>5, <2>0, <2>2
      <3>. QED
        BY <1>1, <3>1, <3>2, GivesUp
    <2>. QED
      BY <2>1, <2>2
  <1>11. CASE ReadValue(x)
    <2>0. want = "value" /\ n % 4 = 3 /\ body[n] # "RBRACE" /\ n # 0 /\ At % 4 = 0
      BY <1>5, <1>6, <1>11 DEF ReadValue
    <2>1. CASE x \in Strings
      <3>1. KeepValue(KeyIsSql /\ found = 0)
        BY <1>11, <2>1 DEF ReadValue
      <3>2. /\ want' = "after" /\ UNCHANGED verdict
            /\ found' = IF KeyIsSql /\ found = 0 THEN At ELSE found
            /\ owned' = (owned \ {"key"}) \cup (IF KeyIsSql /\ found = 0 THEN {"found_value"} ELSE {})
        BY <3>1 DEF KeepValue, Expect
      <3>3. Fits(Len(body))' /\ PlaceInv' /\ At # 0
        BY <1>5, <1>7, <2>0, <2>1, <3>2
      <3>4. owned' = IF found' = 0 THEN {} ELSE {"found_value"}
        BY <1>3, <2>0, <3>2, <3>3
      <3>5. owned' = (IF found' = 0 THEN {} ELSE {"found_value"})
                     \cup (IF want' \in {"colon", "value"} THEN {"key"} ELSE {})
        BY <3>2, <3>4
      <3>. QED
        BY <1>1, <2>0, <2>1, <3>2, <3>3, <3>5, GoesOn
    <2>2. CASE x = "scalar" /\ ~KeyIsSql
      <3>1. KeepValue(FALSE)
        BY <1>11, <2>2 DEF ReadValue
      <3>2. want' = "after" /\ UNCHANGED <<verdict, found>> /\ owned' = owned \ {"key"}
        BY <3>1 DEF KeepValue, Expect
      <3>3. Fits(Len(body))' /\ PlaceInv'
        BY <1>5, <1>7, <2>0, <2>2, <3>2
      <3>5. owned' = (IF found' = 0 THEN {} ELSE {"found_value"})
                     \cup (IF want' \in {"colon", "value"} THEN {"key"} ELSE {})
        BY <1>3, <2>0, <3>2
      <3>. QED
        BY <1>1, <2>0, <2>2, <3>2, <3>3, <3>5, GoesOn
    <2>3. CASE x = "scalar" /\ KeyIsSql
      <3>1. GiveUp("missing", {"key", "found_value"})
        BY <1>11, <2>3 DEF ReadValue
      <3>2. Fits(Len(body))' /\ owned \subseteq {"key", "found_value"}
        BY <1>3, <1>5, <2>0, <2>3
      <3>. QED
        BY <1>1, <2>0, <2>3, <3>1, <3>2, GivesUp
    <2>4. CASE x \notin Strings /\ x # "scalar"
      <3>1. GiveUp("invalid", FreedAtValue)
        BY <1>11, <2>4 DEF ReadValue
      <3>2. ~Fits(Len(body))' /\ owned \subseteq FreedAtValue
        BY <1>3, <1>5, <2>0, <2>4 DEF FreedAtValue
      <3>. QED
        BY <1>1, <3>1, <3>2, GivesUp
    <2>. QED
      BY <2>1, <2>2, <2>3, <2>4
  <1>12. CASE AfterValue(x)
    <2>0. want = "after" /\ n % 4 = 0 /\ body[n] # "RBRACE" /\ n # 0 /\ n > 0
      BY <1>6, <1>12 DEF AfterValue
    <2>1. CASE x \in {"COMMA", "RBRACE"}
      <3>1. want' = (IF x = "COMMA" THEN "key" ELSE "end") /\ UNCHANGED <<verdict, found, owned>>
        BY <1>12, <2>1 DEF AfterValue, Expect
      <3>2. Fits(Len(body))' /\ PlaceInv' /\ At % 4 # 0
        BY <1>5, <1>7, <2>0, <2>1, <3>1
      <3>. QED
        BY <1>1, <1>3, <2>0, <3>1, <3>2, GoesOn
    <2>2. CASE x \notin {"COMMA", "RBRACE"}
      <3>1. GiveUp("invalid", {"found_value"})
        BY <1>12, <2>2 DEF AfterValue
      <3>2. ~Fits(Len(body))' /\ owned \subseteq {"found_value"}
        BY <1>3, <1>5, <2>0, <2>2
      <3>. QED
        BY <1>1, <3>1, <3>2, GivesUp
    <2>. QED
      BY <2>1, <2>2
  <1>13. CASE CloseObject(x)
    <2>0. want = "end" /\ n % 4 = 1 /\ body[n] = "RBRACE" /\ n # 0 /\ At % 4 # 0
      BY <1>5, <1>6, <1>13 DEF CloseObject
    <2>1. CASE x # "end"
      <3>1. GiveUp("invalid", {"found_value"})
        BY <1>13, <2>1 DEF CloseObject
      <3>2. ~Fits(Len(body))' /\ owned \subseteq {"found_value"}
        BY <1>3, <1>5, <2>0, <2>1
      <3>. QED
        BY <1>1, <3>1, <3>2, GivesUp
    <2>2. CASE x = "end" /\ found = 0
      <3>1. GiveUp("missing", {})
        BY <1>13, <2>2 DEF CloseObject
      <3>2. Fits(Len(body))' /\ owned \subseteq {}
        BY <1>3, <1>5, <2>0, <2>2
      <3>. QED
        BY <1>1, <2>0, <2>2, <3>1, <3>2, GivesUp
    <2>3. CASE x = "end" /\ found # 0
      <3>1. want' = "done" /\ verdict' = "ok" /\ UNCHANGED <<found, owned>>
        BY <1>13, <2>3 DEF CloseObject
      <3>2. Fits(Len(body))'
        BY <1>5, <2>0, <2>3
      <3>3. /\ body' \in Seq(Lexemes) /\ SqlValues' = SqlValues /\ DOMAIN body' = 1..At /\ DOMAIN body = 1..Len(body)
            /\ \A i \in DOMAIN body : Fits(i)' /\ body'[i] = body[i]
            /\ \A i \in SqlValues : i \in DOMAIN body
        BY <1>1, <2>0, Consumed
      <3>4. \A i \in DOMAIN body' : Fits(i)'
        <4>1. \A i \in 1..At : i \in 1..Len(body) \/ i = Len(body')
          BY <1>2
        <4>. QED
          BY <3>2, <3>3, <4>1
      <3>5. Last(body') = "end"
        BY <1>2, <2>3 DEF Last
      <3>6. found \in SqlValues /\ \A i \in SqlValues : found <= i /\ i \in Nat
        BY <1>1, <2>3, <3>3 DEF MembersInv
      <3>7. Min(SqlValues) = found
        <4>1. PICK v : v = Min(SqlValues)
          OBVIOUS
        <4>2. v \in SqlValues /\ \A i \in SqlValues : v <= i
          BY <3>6, <4>1 DEF Min
        <4>3. v <= found /\ found <= v /\ v \in Nat /\ found \in Nat
          BY <1>1, <3>6, <4>2
        <4>. QED
          BY <4>1, <4>3
      <3>8. \A i \in SqlValues' : body'[i] \in Strings
        BY <1>1, <3>3 DEF MembersInv
      <3>9. owned' = {"found_value"}
        BY <1>3, <2>0, <2>3, <3>1
      <3>10. SqlValues' # {} /\ found' = Min(SqlValues')
        BY <3>1, <3>3, <3>6, <3>7
      <3>11. BodyVerdictIsDeserved'
        BY <3>1, <3>4, <3>5, <3>8, <3>9, <3>10 DEF BodyVerdictIsDeserved
      <3>. QED
        BY <1>1, <3>1, <3>3, <3>11 DEF JsonInv
    <2>. QED
      BY <2>1, <2>2, <2>3
  <1>. QED
    BY <1>8, <1>9, <1>10, <1>11, <1>12, <1>13 DEF JsonStep

\* The same when a string cannot be kept.
LEMMA JsonFailureKeeps ==
    ASSUME JsonInv, JsonAllocationFails
    PROVE  JsonInv'
  <1>1. /\ Consume("other") /\ want \in {"first", "key", "value"} /\ "other" \in Lexemes
        /\ GiveUp("internal", IF want = "value" THEN FreedAtValue ELSE {"found_value"})
    BY DEF JsonAllocationFails, Lexemes, Strings
  <1>2. owned \subseteq IF want = "value" THEN FreedAtValue ELSE {"found_value"}
    BY <1>1 DEF JsonInv, MembersInv, FreedAtValue
  <1>. QED
    BY <1>1, <1>2, GivesUp

\* The body of a client that sends a row.
RowPlaces == <<"object", "first", "colon", "value", "after", "end">>

RowInv ==
    entry = "api" /\ want # "done" => Len(body) \in 0..5 /\ want = RowPlaces[Len(body) + 1]

\* Each of its lexemes leads to the next one or to the end.
LEMMA RowStep ==
    ASSUME JsonInv, RowInv, entry = "api", want # "done", JsonStep(RowBody[At]), UNCHANGED entry
    PROVE  RowBody[At] \in Lexemes /\ RowInv'
  <1>1. PICK n \in 0..5 : n = Len(body) /\ want = RowPlaces[n + 1] /\ At = n + 1
    BY DEF RowInv, At
  <1>2. /\ RowBody[1] = "LBRACE" /\ RowBody[2] = "sql" /\ RowBody[3] = "COLON" /\ RowBody[5] = "RBRACE"
        /\ RowBody[4] \in {"other", "badString"} /\ RowBody[6] = "end"
    BY DEF RowBody
  <1>3. /\ RowPlaces[1] = "object" /\ RowPlaces[2] = "first" /\ RowPlaces[3] = "colon"
        /\ RowPlaces[4] = "value" /\ RowPlaces[5] = "after" /\ RowPlaces[6] = "end"
    BY DEF RowPlaces
  <1>4. Len(body') = n + 1
    <2>1. body' = Append(body, RowBody[At]) /\ body \in Seq(Lexemes)
      BY DEF JsonInv, JsonStep, OpenObject, ReadKey, ReadColon, ReadValue, AfterValue, CloseObject, Consume
    <2>. QED
      BY <1>1, <2>1
  <1>. USE DEF JsonStep, OpenObject, ReadKey, ReadColon, ReadValue, AfterValue, CloseObject, Expect, GiveUp,
               KeepValue, Lexemes, Strings
  <1>5. CASE n = 0
    <2>1. want' = "first" /\ RowBody[At] \in Lexemes
      BY <1>1, <1>2, <1>3, <1>5
    <2>. QED
      BY <1>3, <1>4, <1>5, <2>1 DEF RowInv
  <1>6. CASE n = 1
    <2>1. want' = "colon" /\ RowBody[At] \in Lexemes
      BY <1>1, <1>2, <1>3, <1>6
    <2>. QED
      BY <1>3, <1>4, <1>6, <2>1 DEF RowInv
  <1>7. CASE n = 2
    <2>1. want' = "value" /\ RowBody[At] \in Lexemes
      BY <1>1, <1>2, <1>3, <1>7
    <2>. QED
      BY <1>3, <1>4, <1>7, <2>1 DEF RowInv
  <1>8. CASE n = 3
    <2>1. want' \in {"after", "done"} /\ RowBody[At] \in Lexemes
      BY <1>1, <1>2, <1>3, <1>8
    <2>. QED
      BY <1>3, <1>4, <1>8, <2>1 DEF RowInv
  <1>9. CASE n = 4
    <2>1. want' = "end" /\ RowBody[At] \in Lexemes
      BY <1>1, <1>2, <1>3, <1>9
    <2>. QED
      BY <1>3, <1>4, <1>9, <2>1 DEF RowInv
  <1>10. CASE n = 5
    <2>1. want' = "done" /\ RowBody[At] \in Lexemes
      BY <1>1, <1>2, <1>3, <1>10
    <2>. QED
      BY <2>1 DEF RowInv
  <1>. QED
    BY <1>5, <1>6, <1>7, <1>8, <1>9, <1>10

\* The inductive invariant of the body.
LEMMA JsonInvHolds == Spec => [](JsonInv /\ RowInv)
  <1>1. Init => JsonInv /\ RowInv
    <2>. SUFFICES ASSUME Init PROVE JsonInv /\ RowInv
      OBVIOUS
    <2>1. body = <<>> /\ want = "object" /\ found = 0 /\ owned = {} /\ verdict = "none"
      BY DEF Init, JsonInit
    <2>2. body \in Seq(Lexemes) /\ Len(body) = 0 /\ DOMAIN body = {}
      BY <2>1
    <2>3. SqlValues = {}
      BY <2>2 DEF SqlValues
    <2>. QED
      BY <2>1, <2>2, <2>3 DEF JsonInv, RowInv, RowPlaces, Places, PlaceInv, MembersInv, BodyVerdictIsDeserved
  <1>2. JsonInv /\ RowInv /\ [Next]_vars => JsonInv' /\ RowInv'
    <2>. SUFFICES ASSUME JsonInv, RowInv, [Next]_vars PROVE JsonInv' /\ RowInv'
      OBVIOUS
    <2>1. CASE UNCHANGED <<jsonVars, entry>>
      BY <2>1, ZenonT(60) DEF jsonVars, JsonInv, RowInv, PlaceInv, MembersInv, SqlValues, Fits, BodyVerdictIsDeserved
    <2>2. CASE ExtractField
      <3>1. want # "done" /\ UNCHANGED entry
        BY <2>2 DEF ExtractField, pathVars
      <3>2. CASE JsonAllocationFails
        <4>1. want' = "done"
          BY <3>2 DEF JsonAllocationFails, GiveUp
        <4>. QED
          BY <3>2, <4>1, JsonFailureKeeps DEF RowInv
      <3>3. CASE entry = "api" /\ JsonStep(RowBody[At])
        BY <3>1, <3>3, RowStep, JsonStepKeeps
      <3>4. CASE entry # "api" /\ \E x \in Lexemes : JsonStep(x)
        BY <3>1, <3>4, JsonStepKeeps DEF RowInv
      <3>. QED
        BY <2>2, <3>2, <3>3, <3>4 DEF ExtractField
    <2>. QED
      BY Zenon, <2>1, <2>2 DEF Next, LeaveJson, Tokenize, Insert, Select, ReadRow, ScanEnd, Respond, UseTable, Finished,
                               vars, pathVars
  <1>. QED
    BY <1>1, <1>2, PTL DEF Spec

\* For bodies of any lexemes and any length: the SQL that is executed is the
\* first "sql" of a body that is well-formed to its end, a body is called
\* malformed or without SQL only if it is, and nothing else stays on the heap.
THEOREM BodyIsJudgedByTheGrammar == Spec => []BodyVerdictIsDeserved
  <1>1. JsonInv => BodyVerdictIsDeserved
    BY DEF JsonInv
  <1>. QED
    BY <1>1, JsonInvHolds, PTL

\* Characters are strings. Those the code names are listed, because the provers do
\* not know a literal for a string.
Char ==
    STRING \cup Letters \cup Digits \cup Spaces \cup Symbols
    \cup {Quote, "DQ", "BSL", "BAR", "CTRL", "r", "t", "u0001", "2"}

-----------------------------------------------------------------------------
(* The tokens of a text.                                                   *)

\* A piece of a text.
LEMMA Piece ==
    ASSUME text \in Seq(Char), NEW a \in Nat, NEW b \in Nat, 1 <= a, a <= b, b <= Len(text)
    PROVE  LET t == SubSeq(text, a, b) IN
           /\ t \in Seq(Char) /\ Len(t) = b - a + 1 /\ DOMAIN t = 1..(b - a + 1)
           /\ \A i \in 1..(b - a + 1) : t[i] = text[a + i - 1]
           /\ \A k \in a..b : t[k - a + 1] = text[k] /\ k - a + 1 \in 1..(b - a + 1)
  <1>. DEFINE t == SubSeq(text, a, b)
  <1>1. /\ t \in Seq(Char) /\ Len(t) = b - a + 1
        /\ \A i \in 1..(b - a + 1) : t[i] = text[a + i - 1]
    BY SubSeqProperties
  <1>2. DOMAIN t = 1..(b - a + 1)
    BY <1>1
  <1>3. ASSUME NEW k \in a..b PROVE t[k - a + 1] = text[k] /\ k - a + 1 \in 1..(b - a + 1)
    <2>1. k - a + 1 \in 1..(b - a + 1) /\ a + (k - a + 1) - 1 = k
      OBVIOUS
    <2>. QED
      BY <1>1, <2>1
  <1>. QED
    BY <1>1, <1>2, <1>3

\* The run that is_identifier_char or isdigit finds is the longest.
LEMMA RunIsLongest ==
    ASSUME text \in Seq(Char), NEW C, NEW i \in Nat, 1 <= i, i <= Len(text) + 1
    PROVE  LET e == RunEnd(C, i) IN
           /\ e \in Nat /\ i - 1 <= e /\ e <= Len(text)
           /\ \A k \in i..e : text[k] \in C
           /\ ~IsAt(C, e + 1)
  <1>. DEFINE T == {k \in i..Len(text) : text[k] \notin C} \cup {Len(text) + 1}
  <1>0. Len(text) \in Nat
    OBVIOUS
  <1>1. T \subseteq Nat /\ T # {} /\ \A y \in T : i <= y /\ y <= Len(text) + 1
    BY <1>0
  <1>2. \E x \in T : \A y \in T : x <= y
    BY <1>1, NatMin
  <1>3. Min(T) \in T /\ \A y \in T : Min(T) <= y
    BY <1>2 DEF Min
  <1>. DEFINE m == Min(T)
  <1>4. RunEnd(C, i) = m - 1
    BY DEF RunEnd
  <1>5. m \in Nat /\ i <= m /\ m <= Len(text) + 1 /\ (m - 1) + 1 = m
    BY <1>0, <1>1, <1>3
  <1>6. ASSUME NEW k \in i..(m - 1) PROVE text[k] \in C
    <2>. HIDE DEF m
    <2>1. k \in i..Len(text) /\ ~(m <= k)
      BY <1>0, <1>5
    <2>2. k \notin T
      BY <1>3, <2>1 DEF m
    <2>. QED
      BY <2>1, <2>2
  <1>7. ~IsAt(C, m)
    <2>. HIDE DEF m
    <2>. QED
      BY <1>0, <1>3, <1>5 DEF IsAt, m
  <1>. HIDE DEF m
  <1>8. m - 1 \in Nat /\ i - 1 <= m - 1 /\ m - 1 <= Len(text)
    BY <1>0, <1>5
  <1>. QED
    BY <1>4, <1>5, <1>6, <1>7, <1>8

\* A token has the form of its kind, and could not have been longer.
IsToken(kind, from, to) ==
    /\ HasForm(kind, SubSeq(text, from, to))
    /\ kind \notin Symbols =>
          \A longer \in to + 1..Len(text) : ~HasForm(kind, SubSeq(text, from, longer))

GoodToken(t) ==
    /\ t.from \in Nat /\ t.to \in Nat /\ 1 <= t.from /\ t.from <= t.to /\ t.to < pos
    /\ IsToken(t.kind, t.from, t.to)

\* The tokens so far are the text so far.
Reading ==
    /\ \A k \in DOMAIN tokens : GoodToken(tokens[k])
    /\ \A k \in DOMAIN tokens : k > 1 => tokens[k - 1].to < tokens[k].from
    /\ \A i \in 1..pos - 1 :
          text[i] \in Spaces \/ \E k \in DOMAIN tokens : i \in tokens[k].from..tokens[k].to

LexInv ==
    /\ text \in Seq(Char) /\ pos \in 1..(Len(text) + 1)
    /\ \E S : tokens \in Seq(S)
    /\ lexed = "busy" => Reading
    /\ TokensAreTheText

\* append_token.
LEMMA Appended ==
    ASSUME LexInv, lexed = "busy", NEW kind, NEW content, NEW last \in Nat,
           pos <= last, last <= Len(text), IsToken(kind, pos, last),
           AppendToken(kind, content, last)
    PROVE  LexInv'
  <1>. DEFINE new == [kind |-> kind, text |-> content, from |-> pos, to |-> last]
  <1>1. /\ text' = text /\ lexed' = lexed /\ pos' = last + 1 /\ tokens' = Append(tokens, new)
    BY DEF AppendToken
  <1>2. /\ text \in Seq(Char) /\ pos \in Nat /\ 1 <= pos /\ Len(text) \in Nat
    BY DEF LexInv
  <1>3. PICK S : tokens \in Seq(S)
    BY DEF LexInv
  <1>. DEFINE n == Len(tokens)
  <1>4. /\ n \in Nat /\ DOMAIN tokens = 1..n /\ tokens' \in Seq(S \cup {new})
        /\ DOMAIN tokens' = 1..(n + 1) /\ tokens'[n + 1] = new
        /\ \A k \in 1..n : tokens'[k] = tokens[k]
    <2>1. tokens \in Seq(S \cup {new}) /\ new \in S \cup {new}
      BY <1>3, SeqMonotonic, Zenon
    <2>. HIDE DEF new
    <2>. QED
      BY <1>1, <2>1
  <1>5. new.from = pos /\ new.to = last /\ new.kind = kind
    OBVIOUS
  <1>. HIDE DEF new
  <1>6. Reading
    BY DEF LexInv
  <1>7. /\ \A k \in 1..n : GoodToken(tokens[k])
        /\ \A k \in 1..n : k > 1 => tokens[k - 1].to < tokens[k].from
        /\ \A i \in 1..pos - 1 :
              text[i] \in Spaces \/ \E k \in 1..n : i \in tokens[k].from..tokens[k].to
    BY <1>4, <1>6 DEF Reading
  <1>8. ASSUME NEW k \in 1..(n + 1) PROVE GoodToken(tokens[k])'
    <2>1. CASE k \in 1..n
      <3>1. tokens'[k] = tokens[k] /\ GoodToken(tokens[k])
        BY <1>4, <1>7, <2>1
      <3>2. tokens[k].to < pos'
        BY <1>1, <1>2, <3>1 DEF GoodToken
      <3>. QED
        BY <1>1, <3>1, <3>2 DEF GoodToken, IsToken
    <2>2. CASE k = n + 1
      <3>1. tokens'[k] = new
        BY <1>4, <2>2
      <3>2. last < pos'
        BY <1>1
      <3>. QED
        BY <1>1, <1>2, <1>5, <3>1, <3>2 DEF GoodToken, IsToken
    <2>. QED
      BY <1>4, <2>1, <2>2
  <1>9. ASSUME NEW k \in 1..(n + 1), k > 1 PROVE tokens'[k - 1].to < tokens'[k].from
    <2>1. CASE k \in 1..n
      <3>1. k - 1 \in 1..n
        BY <1>4, <1>9, <2>1
      <3>. QED
        BY <1>4, <1>7, <1>9, <2>1, <3>1
    <2>2. CASE k = n + 1
      <3>1. k - 1 = n /\ n \in 1..n
        BY <1>4, <1>9, <2>2
      <3>2. tokens'[k - 1] = tokens[n] /\ tokens'[k].from = pos /\ GoodToken(tokens[n])
        BY <1>4, <1>5, <1>7, <2>2, <3>1
      <3>. QED
        BY <3>2 DEF GoodToken
    <2>. QED
      BY <1>4, <2>1, <2>2
  <1>10. ASSUME NEW i \in 1..pos' - 1
         PROVE  text'[i] \in Spaces \/ \E k \in 1..(n + 1) : i \in tokens'[k].from..tokens'[k].to
    <2>1. CASE i < pos
      <3>1. i \in 1..pos - 1
        BY <1>1, <1>2, <1>10, <2>1
      <3>2. CASE text[i] \in Spaces
        BY <1>1, <3>2
      <3>3. CASE \E k \in 1..n : i \in tokens[k].from..tokens[k].to
        <4>1. PICK k \in 1..n : i \in tokens[k].from..tokens[k].to
          BY <3>3
        <4>2. k \in 1..(n + 1) /\ tokens'[k] = tokens[k]
          BY <1>4
        <4>. QED
          BY <4>1, <4>2
      <3>. QED
        BY <1>7, <3>1, <3>2, <3>3
    <2>2. CASE pos <= i
      <3>1. i \in pos..last /\ n + 1 \in 1..(n + 1)
        BY <1>1, <1>2, <1>4, <1>10, <2>2
      <3>. QED
        BY <1>4, <1>5, <3>1
    <2>. QED
      BY <1>1, <1>2, <1>10, <2>1, <2>2
  <1>11. Reading'
    BY <1>4, <1>8, <1>9, <1>10 DEF Reading
  <1>12. pos' \in 1..(Len(text') + 1)
    BY <1>1, <1>2
  <1>13. \E T : tokens' \in Seq(T)
    BY <1>4
  <1>. QED
    BY <1>1, <1>2, <1>11, <1>12, <1>13 DEF LexInv, TokensAreTheText

\* A failure leaves nothing to say about tokens.
LEMMA Failed ==
    ASSUME LexInv, NEW why \in {"error", "memory"}, Fails(why)
    PROVE  LexInv'
  <1>1. tokens' = <<>> /\ lexed' = why /\ text' = text /\ pos' = pos
    BY DEF Fails
  <1>2. tokens' \in Seq({})
    BY <1>1
  <1>. QED
    BY <1>1, <1>2 DEF LexInv, TokensAreTheText

\* The kinds of tokens are different.
LEMMA Forms ==
    ASSUME NEW t
    PROVE  /\ HasForm("identifier", t) <=> IsIdentifier(t)
           /\ HasForm("number", t) <=> IsNumber(t)
           /\ HasForm("string", t) <=> IsString(t)
           /\ \A kind \in Keywords \cup Symbols : HasForm(kind, t) <=> t = <<kind>>
  <1>1. /\ {"identifier", "number", "string"} \cap (Keywords \cup Symbols) = {}
        /\ "identifier" # "number" /\ "identifier" # "string" /\ "number" # "string"
    BY DEF Keywords, Symbols
  <1>. QED
    BY <1>1, Zenon DEF HasForm

\* The characters at the cursor.
LEMMA AtCursor ==
    ASSUME LexInv
    PROVE  /\ text \in Seq(Char) /\ Len(text) \in Nat /\ pos \in Nat /\ 1 <= pos
           /\ \A C : Here(C) => pos <= Len(text) /\ text[pos] \in C
  BY DEF LexInv, Here

\* tokenize_identifier takes the longest word.
LEMMA IdentifierStep ==
    ASSUME LexInv, TokenizeIdentifier
    PROVE  LexInv'
  <1>. DEFINE last == RunEnd(Letters \cup Digits, pos)
              word == SubSeq(text, pos, last)
              kind == IF Len(word) = 1 /\ word[1] \in Keywords THEN word[1] ELSE "identifier"
  <1>1. lexed = "busy" /\ pos <= Len(text) /\ text[pos] \in Letters
    BY DEF TokenizeIdentifier, Here
  <1>2. AppendToken(kind, word, last)
    BY DEF TokenizeIdentifier
  <1>3. text \in Seq(Char) /\ Len(text) \in Nat /\ pos \in Nat /\ 1 <= pos
    BY AtCursor
  <1>4. /\ last \in Nat /\ pos - 1 <= last /\ last <= Len(text)
        /\ \A k \in pos..last : text[k] \in Letters \cup Digits
        /\ ~IsAt(Letters \cup Digits, last + 1)
    <2>1. pos <= Len(text) + 1
      BY <1>1, <1>3
    <2>. QED
      BY <1>3, <2>1, RunIsLongest
  <1>. HIDE DEF last
  <1>5. pos <= last
    BY <1>1, <1>3, <1>4 DEF IsAt
  <1>6. /\ Len(word) = last - pos + 1 /\ DOMAIN word = 1..(last - pos + 1)
        /\ \A i \in 1..(last - pos + 1) : word[i] = text[pos + i - 1]
    BY <1>3, <1>4, <1>5, Piece
  <1>7. word[1] = text[pos]
    <2>1. 1 \in 1..(last - pos + 1) /\ pos + 1 - 1 = pos
      BY <1>3, <1>4, <1>5
    <2>. QED
      BY <1>6, <2>1
  <1>8. CASE Len(word) = 1 /\ word[1] \in Keywords
    <2>1. kind \in Keywords /\ kind = word[1]
      BY <1>8
    <2>2. word = <<kind>>
      <3>1. word \in Seq(Char)
        BY <1>3, <1>4, <1>5, Piece
      <3>. HIDE DEF word
      <3>. QED
        BY <1>8, <2>1, <3>1
    <2>3. ASSUME NEW longer \in last + 1..Len(text) PROVE ~HasForm(kind, SubSeq(text, pos, longer))
      <3>1. longer \in Nat /\ pos <= longer /\ longer - pos + 1 > 1
        BY <1>3, <1>4, <1>5
      <3>. DEFINE t == SubSeq(text, pos, longer)
      <3>2. Len(t) > 1
        BY <1>3, <2>3, <3>1, Piece
      <3>. HIDE DEF t, kind
      <3>3. t # <<kind>>
        <4>1. <<kind>> \in Seq({kind}) /\ Len(<<kind>>) = 1 /\ ~(1 > 1)
          OBVIOUS
        <4>. QED
          BY <3>2, <4>1, Zenon
      <3>4. ~HasForm(kind, t)
        BY <2>1, <3>3, Forms, Zenon
      <3>. QED
        BY <3>4 DEF t
    <2>4. IsToken(kind, pos, last)
      BY <2>1, <2>2, <2>3, Forms DEF IsToken
    <2>. HIDE DEF kind, word
    <2>. QED
      BY <1>1, <1>2, <1>4, <1>5, <2>4, Appended
  <1>9. CASE ~(Len(word) = 1 /\ word[1] \in Keywords)
    <2>1. kind = "identifier"
      BY <1>9
    <2>2. \A i \in DOMAIN word : word[i] \in Letters \cup Digits
      <3>. SUFFICES ASSUME NEW i \in 1..(last - pos + 1) PROVE word[i] \in Letters \cup Digits
        BY <1>6
      <3>1. pos + i - 1 \in pos..last
        BY <1>3, <1>4, <1>5
      <3>. QED
        BY <1>4, <1>6, <3>1
    <2>3. HasForm("identifier", word)
      BY <1>1, <1>7, <1>9, <2>2, Forms DEF IsIdentifier
    <2>4. ASSUME NEW longer \in last + 1..Len(text)
          PROVE  ~HasForm("identifier", SubSeq(text, pos, longer))
      <3>. DEFINE t == SubSeq(text, pos, longer)
      <3>1. longer \in Nat /\ pos <= longer /\ last + 1 \in pos..longer /\ last + 1 <= Len(text)
        BY <1>3, <1>4, <1>5
      <3>2. /\ t[(last + 1) - pos + 1] = text[last + 1]
            /\ (last + 1) - pos + 1 \in DOMAIN t
        BY <1>3, <2>4, <3>1, Piece
      <3>3. text[last + 1] \notin Letters \cup Digits
        BY <1>4, <3>1 DEF IsAt
      <3>. HIDE DEF t
      <3>4. ~HasForm("identifier", t)
        BY <3>2, <3>3, Forms DEF IsIdentifier
      <3>. QED
        BY <3>4 DEF t
    <2>5. IsToken(kind, pos, last)
      BY <2>1, <2>3, <2>4 DEF IsToken
    <2>. HIDE DEF kind, word
    <2>. QED
      BY <1>1, <1>2, <1>4, <1>5, <2>5, Appended
  <1>. QED
    BY <1>8, <1>9

\* A symbol is one character.
LEMMA SymbolStep ==
    ASSUME LexInv, TokenizeSymbol
    PROVE  LexInv'
  <1>1. text \in Seq(Char) /\ Len(text) \in Nat /\ pos \in Nat /\ 1 <= pos
    BY AtCursor
  <1>2. lexed = "busy" /\ pos <= Len(text)
    BY DEF TokenizeSymbol
  <1>3. CASE Here(Symbols)
    <2>1. text[pos] \in Symbols /\ AppendToken(text[pos], <<text[pos]>>, pos)
      BY <1>3 DEF TokenizeSymbol, Here
    <2>2. SubSeq(text, pos, pos) = <<text[pos]>>
      <3>. DEFINE t == SubSeq(text, pos, pos)
      <3>1. t \in Seq(Char) /\ Len(t) = 1 /\ t[1] = text[pos]
        BY <1>1, <1>2, Piece
      <3>. HIDE DEF t
      <3>2. t = <<text[pos]>>
        BY <3>1
      <3>. QED
        BY <3>2 DEF t
    <2>3. IsToken(text[pos], pos, pos)
      BY <2>1, <2>2, Forms DEF IsToken
    <2>. QED
      BY <1>1, <1>2, <2>1, <2>3, Appended
  <1>4. CASE ~Here(Symbols)
    BY <1>4, Failed DEF TokenizeSymbol
  <1>. QED
    BY <1>3, <1>4

\* Any two elements are the same one.
LEMMA AtMostOne ==
    ASSUME NEW S, IsFiniteSet(S)
    PROVE  Cardinality(S) <= 1 <=> \A x, y \in S : x = y
  <1>0. Cardinality(S) \in Nat
    BY FS_CardinalityType
  <1>1. ASSUME Cardinality(S) <= 1, NEW x \in S, NEW y \in S, x # y PROVE FALSE
    <2>1. IsFiniteSet({x}) /\ Cardinality({x}) = 1
      BY FS_Singleton
    <2>2. IsFiniteSet({x} \cup {y}) /\ Cardinality({x} \cup {y}) = Cardinality({x}) + 1
      BY <1>1, <2>1, FS_AddElement
    <2>3. Cardinality({x} \cup {y}) <= Cardinality(S)
      <3>1. {x} \cup {y} \subseteq S
        OBVIOUS
      <3>. QED
        BY <3>1, FS_Subset
    <2>. QED
      BY <1>0, <1>1, <2>1, <2>2, <2>3
  <1>2. ASSUME \A x, y \in S : x = y PROVE Cardinality(S) <= 1
    <2>1. CASE S = {}
      BY <2>1, FS_EmptySet
    <2>2. ASSUME NEW x \in S PROVE Cardinality(S) <= 1
      <3>1. S = {x}
        BY <1>2
      <3>2. Cardinality(S) = 1
        BY <3>1, FS_Singleton
      <3>. QED
        BY <3>2
    <2>. QED
      BY <2>1, <2>2
  <1>. QED
    BY <1>1, <1>2

\* Where the number begins behind its sign.
Start == IF text[pos] = "MINUS" THEN pos + 1 ELSE pos

\* A number has a digit behind its sign.
LEMMA StartIsDigit ==
    ASSUME LexInv, NumberHere
    PROVE  /\ Start \in Nat /\ pos <= Start /\ Start <= pos + 1 /\ Start <= Len(text)
           /\ text[Start] \in Digits /\ pos <= Len(text)
  <1>1. text \in Seq(Char) /\ Len(text) \in Nat /\ pos \in Nat /\ 1 <= pos
    BY AtCursor
  <1>2. CASE Here(Digits)
    BY <1>1, <1>2 DEF Here, Start, Digits
  <1>3. CASE Here({"MINUS"}) /\ IsAt(Digits, pos + 1)
    BY <1>1, <1>3 DEF Here, Start, IsAt
  <1>. QED
    BY <1>2, <1>3 DEF NumberHere

\* What IsNumber says of a piece of the text.
LEMMA NumberPiece ==
    ASSUME LexInv, NumberHere, NEW b \in Nat, Start <= b, b <= Len(text)
    PROVE  IsNumber(SubSeq(text, pos, b)) <=>
           /\ text[b] \in Digits
           /\ \A k \in Start..b : text[k] \in Digits \cup {"DOT"}
           /\ \A k, m \in Start..b : text[k] = "DOT" /\ text[m] = "DOT" => k = m
  <1>. DEFINE t == SubSeq(text, pos, b)
              u == SubSeq(text, Start, b)
              n == b - Start + 1
              D == {i \in DOMAIN u : u[i] = "DOT"}
  <1>1. text \in Seq(Char) /\ Len(text) \in Nat /\ pos \in Nat /\ 1 <= pos
    BY AtCursor
  <1>2. /\ Start \in Nat /\ pos <= Start /\ Start <= pos + 1 /\ 1 <= Start /\ text[Start] \in Digits
    BY <1>1, StartIsDigit
  <1>3. /\ u \in Seq(Char) /\ Len(u) = n /\ DOMAIN u = 1..n /\ n \in Nat /\ 1 <= n
        /\ \A i \in 1..n : u[i] = text[Start + i - 1]
        /\ \A k \in Start..b : u[k - Start + 1] = text[k] /\ k - Start + 1 \in 1..n
    BY <1>1, <1>2, Piece
  <1>4. /\ t \in Seq(Char) /\ Len(t) = b - pos + 1
        /\ \A i \in 1..(b - pos + 1) : t[i] = text[pos + i - 1]
    BY <1>1, <1>2, Piece
  <1>5. t[1] = text[pos]
    <2>1. 1 \in 1..(b - pos + 1) /\ pos + 1 - 1 = pos
      BY <1>1, <1>2
    <2>. QED
      BY <1>4, <2>1
  <1>6. (IF t[1] = "MINUS" THEN Tail(t) ELSE t) = u
    <2>1. CASE text[pos] = "MINUS"
      <3>1. Start = pos + 1
        BY <2>1 DEF Start
      <3>2. Tail(t) \in Seq(Char) /\ Len(Tail(t)) = n /\ \A i \in 1..n : Tail(t)[i] = t[i + 1]
        <4>1. t # <<>> /\ Len(t) - 1 = n
          BY <1>1, <1>2, <1>4, <3>1
        <4>. HIDE DEF t, n
        <4>. QED
          BY <1>4, <4>1
      <3>3. \A i \in 1..n : Tail(t)[i] = u[i]
        <4>. SUFFICES ASSUME NEW i \in 1..n PROVE Tail(t)[i] = u[i]
          OBVIOUS
        <4>1. i + 1 \in 1..(b - pos + 1) /\ pos + (i + 1) - 1 = Start + i - 1
          BY <1>1, <1>2, <3>1
        <4>. QED
          BY <1>3, <1>4, <3>2, <4>1
      <3>4. Tail(t) = u
        <4>. HIDE DEF t, u, n
        <4>. QED
          BY <1>3, <3>2, <3>3, SeqEqual
      <3>. QED
        BY <1>5, <2>1, <3>4
    <2>2. CASE text[pos] # "MINUS"
      BY <1>5, <2>2 DEF Start
    <2>. QED
      BY <2>1, <2>2
  <1>7. u # <<>> /\ u[1] \in Digits /\ Last(u) = text[b]
    <2>1. Start \in Start..b /\ b \in Start..b /\ Start - Start + 1 = 1
      BY <1>2
    <2>2. u[1] = text[Start] /\ u[n] = text[b]
      BY <1>3, <2>1
    <2>. QED
      BY <1>2, <1>3, <2>2 DEF Last
  <1>8. (\A i \in DOMAIN u : u[i] \in Digits \cup {"DOT"})
        <=> (\A k \in Start..b : text[k] \in Digits \cup {"DOT"})
    <2>1. \A i \in 1..n : Start + i - 1 \in Start..b
      BY <1>2
    <2>. HIDE DEF u, n
    <2>. QED
      BY <1>3, <2>1
  <1>9. Cardinality(D) <= 1 <=> \A x, y \in D : x = y
    <2>1. IsFiniteSet(D)
      <3>1. IsFiniteSet(1..n)
        BY <1>3, FS_Interval
      <3>2. D \subseteq 1..n
        BY <1>3
      <3>. QED
        BY <3>1, <3>2, FS_Subset
    <2>. QED
      BY <2>1, AtMostOne
  <1>10. (\A x, y \in D : x = y)
         <=> (\A k, m \in Start..b : text[k] = "DOT" /\ text[m] = "DOT" => k = m)
    <2>1. \A i \in 1..n : Start + i - 1 \in Start..b
      BY <1>2
    <2>2. ASSUME \A x, y \in D : x = y, NEW k \in Start..b, NEW m \in Start..b,
                 text[k] = "DOT", text[m] = "DOT"
          PROVE  k = m
      <3>1. k - Start + 1 \in D /\ m - Start + 1 \in D
        BY <1>3, <2>2
      <3>2. k - Start + 1 = m - Start + 1
        BY <2>2, <3>1
      <3>. QED
        BY <1>2, <3>2
    <2>3. ASSUME \A k, m \in Start..b : text[k] = "DOT" /\ text[m] = "DOT" => k = m,
                 NEW x \in D, NEW y \in D
          PROVE  x = y
      <3>1. x \in 1..n /\ y \in 1..n /\ u[x] = "DOT" /\ u[y] = "DOT"
        BY <1>3
      <3>2. Start + x - 1 = Start + y - 1
        BY <1>3, <2>1, <2>3, <3>1, ZenonT(60)
      <3>. QED
        BY <1>2, <1>3, <3>1, <3>2
    <2>. QED
      BY <2>2, <2>3
  <1>. HIDE DEF u, D
  <1>11. IsNumber(t) <=> /\ u # <<>> /\ u[1] \in Digits /\ Last(u) \in Digits
                         /\ \A i \in DOMAIN u : u[i] \in Digits \cup {"DOT"}
                         /\ Cardinality(D) <= 1
    <2>. HIDE DEF t
    <2>. QED
      BY <1>6 DEF IsNumber, D
  <1>. QED
    BY <1>7, <1>8, <1>9, <1>10, <1>11

\* tokenize_number takes the longest number.
LEMMA NumberStep ==
    ASSUME LexInv, TokenizeNumber
    PROVE  LexInv'
  <1>. DEFINE whole == RunEnd(Digits, pos + 1)
              dotted == IsAt({"DOT"}, whole + 1)
              last == IF dotted THEN RunEnd(Digits, whole + 2) ELSE whole
  <1>1. lexed = "busy" /\ NumberHere
    BY DEF TokenizeNumber
  <1>2. text \in Seq(Char) /\ Len(text) \in Nat /\ pos \in Nat /\ 1 <= pos
    BY AtCursor
  <1>3. /\ Start \in Nat /\ pos <= Start /\ Start <= pos + 1 /\ Start <= Len(text)
        /\ text[Start] \in Digits /\ pos <= Len(text)
    BY <1>1, StartIsDigit
  <1>4. /\ whole \in Nat /\ pos <= whole /\ whole <= Len(text)
        /\ \A k \in pos + 1..whole : text[k] \in Digits
        /\ ~IsAt(Digits, whole + 1)
    <2>1. pos + 1 \in Nat /\ 1 <= pos + 1 /\ pos + 1 <= Len(text) + 1 /\ (pos + 1) - 1 = pos
      BY <1>2, <1>3
    <2>2. /\ whole \in Nat /\ (pos + 1) - 1 <= whole /\ whole <= Len(text)
          /\ \A k \in pos + 1..whole : text[k] \in Digits
          /\ ~IsAt(Digits, whole + 1)
      BY <1>2, <2>1, RunIsLongest
    <2>. HIDE DEF whole
    <2>. QED
      BY <2>1, <2>2
  <1>5. CASE dotted /\ ~IsAt(Digits, whole + 2)
    BY <1>5, Failed DEF TokenizeNumber
  <1>6. CASE ~(dotted /\ ~IsAt(Digits, whole + 2))
    <2>1. AppendToken("number", SubSeq(text, pos, last), last)
      BY <1>6 DEF TokenizeNumber
    <2>. HIDE DEF whole
    <2>2. /\ Start <= whole /\ \A k \in Start..whole : text[k] \in Digits
      <3>1. CASE Start = pos
        <4>1. \A k \in Start..whole : k = Start \/ k \in pos + 1..whole
          BY <1>2, <1>4, <3>1
        <4>. QED
          BY <1>3, <1>4, <3>1, <4>1
      <3>2. CASE Start = pos + 1
        <4>1. Start <= whole
          BY <1>2, <1>3, <1>4, <3>2 DEF IsAt
        <4>. QED
          BY <1>4, <3>2, <4>1
      <3>. QED
        BY <1>2, <1>3, <3>1, <3>2
    <2>3. text[whole] \in Digits
      BY <1>3, <1>4, <2>2
    <2>4. CASE ~dotted
      <3>1. last = whole
        BY <2>4
      <3>2. IsNumber(SubSeq(text, pos, whole))
        <4>1. \A k \in Start..whole : text[k] # "DOT"
          BY <2>2 DEF Digits
        <4>. QED
          BY <1>1, <1>4, <2>2, <2>3, <4>1, NumberPiece
      <3>3. ASSUME NEW longer \in whole + 1..Len(text) PROVE ~IsNumber(SubSeq(text, pos, longer))
        <4>1. longer \in Nat /\ Start <= longer /\ whole + 1 \in Start..longer /\ whole + 1 <= Len(text)
              /\ longer <= Len(text)
          BY <1>2, <1>3, <1>4, <2>2
        <4>2. text[whole + 1] \notin Digits \cup {"DOT"}
          BY <1>4, <2>4, <4>1 DEF IsAt
        <4>. QED
          BY <1>1, <4>1, <4>2, NumberPiece
      <3>4. IsToken("number", pos, whole)
        BY <3>2, <3>3, Forms DEF IsToken
      <3>. QED
        BY <1>1, <1>4, <2>1, <3>1, <3>4, Appended
    <2>5. CASE dotted
      <3>1. last = RunEnd(Digits, whole + 2) /\ IsAt(Digits, whole + 2)
        BY <1>6, <2>5
      <3>2. /\ whole + 2 \in Nat /\ 1 <= whole + 2 /\ whole + 2 <= Len(text)
            /\ text[whole + 1] = "DOT" /\ text[whole + 2] \in Digits
        BY <1>4, <2>5, <3>1 DEF IsAt
      <3>3. /\ last \in Nat /\ whole + 1 <= last /\ last <= Len(text)
            /\ \A k \in whole + 2..last : text[k] \in Digits
            /\ ~IsAt(Digits, last + 1)
        <4>1. whole + 2 <= Len(text) + 1 /\ (whole + 2) - 1 = whole + 1
          BY <1>2, <1>4, <3>2
        <4>. HIDE DEF last
        <4>2. /\ last \in Nat /\ (whole + 2) - 1 <= last /\ last <= Len(text)
              /\ \A k \in whole + 2..last : text[k] \in Digits
              /\ ~IsAt(Digits, last + 1)
          BY <1>2, <3>1, <3>2, <4>1, RunIsLongest
        <4>. QED
          BY <4>1, <4>2
      <3>. HIDE DEF last, dotted
      <3>4. whole + 2 <= last
        BY <1>4, <3>2, <3>3 DEF IsAt
      <3>5. text[last] \in Digits
        BY <1>4, <3>3, <3>4
      <3>6. \A k \in Start..last : k \in Start..whole \/ k = whole + 1 \/ k \in whole + 2..last
        BY <1>3, <1>4, <3>3
      <3>7. \A k \in Start..last : text[k] \in Digits \/ k = whole + 1
        BY <2>2, <3>3, <3>6
      <3>8. Start <= last /\ pos <= last /\ whole + 1 \in Start..last
        BY <1>2, <1>3, <1>4, <2>2, <3>3, <3>4
      <3>9. IsNumber(SubSeq(text, pos, last))
        <4>1. \A k \in Start..last : text[k] \in Digits \cup {"DOT"}
          BY <3>2, <3>7
        <4>2. \A k \in Start..last : text[k] = "DOT" => k = whole + 1
          BY <3>7 DEF Digits
        <4>. QED
          BY <1>1, <3>3, <3>5, <3>8, <4>1, <4>2, NumberPiece
      <3>10. ASSUME NEW longer \in last + 1..Len(text) PROVE ~IsNumber(SubSeq(text, pos, longer))
        <4>1. /\ longer \in Nat /\ Start <= longer /\ longer <= Len(text) /\ last + 1 <= Len(text)
              /\ last + 1 \in Start..longer /\ whole + 1 \in Start..longer /\ last + 1 # whole + 1
          BY <1>2, <1>3, <1>4, <3>3, <3>4, <3>8
        <4>2. text[last + 1] \notin Digits
          BY <3>3, <4>1 DEF IsAt
        <4>3. IsNumber(SubSeq(text, pos, longer)) =>
                 /\ text[last + 1] \in Digits \cup {"DOT"}
                 /\ text[whole + 1] = "DOT" /\ text[last + 1] = "DOT" => whole + 1 = last + 1
          BY <1>1, <4>1, NumberPiece
        <4>. QED
          BY <3>2, <4>1, <4>2, <4>3
      <3>11. IsToken("number", pos, last)
        BY <3>9, <3>10, Forms DEF IsToken
      <3>. QED
        BY <1>1, <2>1, <3>3, <3>8, <3>11, Appended
    <2>. QED
      BY <2>4, <2>5
  <1>. QED
    BY <1>5, <1>6

-----------------------------------------------------------------------------
(* Literals. A quote closes one if an odd number of quotes is read there   *)
(* and none follows.                                                       *)

Even(i) == Cardinality(QuotesTo(i)) % 2 = 0

\* A quote more changes whether the number of quotes is odd.
LEMMA QuotesCounted ==
    ASSUME LexInv, NEW i \in Nat
    PROVE  /\ IsFiniteSet(QuotesTo(i)) /\ Cardinality(QuotesTo(i)) \in Nat
           /\ Odd(QuotesTo(i)) <=> ~Even(i)
           /\ i = pos => Even(i)
  <1>1. pos \in Nat
    BY DEF LexInv
  <1>2. IsFiniteSet(QuotesTo(i))
    <2>1. IsFiniteSet(pos + 1..i)
      BY <1>1, FS_Interval
    <2>. QED
      BY <2>1, FS_Subset DEF QuotesTo
  <1>3. Cardinality(QuotesTo(i)) \in Nat
    BY <1>2, FS_CardinalityType
  <1>4. ASSUME i = pos PROVE Even(i)
    <2>1. QuotesTo(i) = {}
      BY <1>1, <1>4 DEF QuotesTo
    <2>2. Cardinality(QuotesTo(i)) = 0
      BY <2>1, FS_EmptySet
    <2>. QED
      BY <2>2 DEF Even
  <1>. QED
    BY <1>2, <1>3, <1>4 DEF Odd, Even

\* One character more.
LEMMA NextQuote ==
    ASSUME LexInv, NEW i \in Nat, pos <= i
    PROVE  Even(i + 1) <=> IF text[i + 1] = Quote THEN ~Even(i) ELSE Even(i)
  <1>1. pos \in Nat
    BY DEF LexInv
  <1>2. IsFiniteSet(QuotesTo(i)) /\ Cardinality(QuotesTo(i)) \in Nat
    BY QuotesCounted
  <1>3. CASE text[i + 1] = Quote
    <2>1. QuotesTo(i + 1) = QuotesTo(i) \cup {i + 1} /\ i + 1 \notin QuotesTo(i)
      BY <1>1, <1>3 DEF QuotesTo
    <2>2. Cardinality(QuotesTo(i + 1)) = Cardinality(QuotesTo(i)) + 1
      BY <1>2, <2>1, FS_AddElement
    <2>. QED
      BY <1>2, <1>3, <2>2 DEF Even
  <1>4. CASE text[i + 1] # Quote
    <2>1. QuotesTo(i + 1) = QuotesTo(i)
      BY <1>1, <1>4 DEF QuotesTo
    <2>. QED
      BY <1>4, <2>1 DEF Even
  <1>. QED
    BY <1>3, <1>4

\* A run of quotes that begins behind an even number of them.
LEMMA RunOfQuotes ==
    ASSUME LexInv, NEW i \in Nat, NEW j \in Nat, pos < i, i <= j, Even(i - 1),
           \A k \in i..j : text[k] = Quote
    PROVE  Even(j) <=> (j - i) % 2 = 1
  <1>1. pos \in Nat
    BY DEF LexInv
  <1>. DEFINE M == {d \in Nat : i + d <= j => (Even(i + d) <=> d % 2 = 1)}
  <1>2. 0 \in M
    <2>1. Even((i - 1) + 1) <=> ~Even(i - 1)
      BY <1>1, NextQuote
    <2>2. (i - 1) + 1 = i + 0 /\ 0 % 2 # 1
      OBVIOUS
    <2>. QED
      BY <2>1, <2>2
  <1>3. ASSUME NEW d \in Nat, d \in M PROVE d + 1 \in M
    <2>. SUFFICES ASSUME i + (d + 1) <= j PROVE Even(i + (d + 1)) <=> (d + 1) % 2 = 1
      OBVIOUS
    <2>1. Even(i + d) <=> d % 2 = 1
      BY <1>3
    <2>2. Even((i + d) + 1) <=> ~Even(i + d)
      <3>1. (i + d) + 1 \in i..j /\ pos <= i + d /\ i + d \in Nat
        BY <1>1
      <3>. QED
        BY <3>1, NextQuote
    <2>3. (i + d) + 1 = i + (d + 1)
      OBVIOUS
    <2>4. (d + 1) % 2 = 1 <=> ~(d % 2 = 1)
      OBVIOUS
    <2>. QED
      BY <2>1, <2>2, <2>3, <2>4
  <1>4. Nat \subseteq M
    <2>. HIDE DEF M
    <2>. QED
      BY <1>2, <1>3, NatInductive
  <1>5. j - i \in M /\ i + (j - i) = j
    BY <1>4
  <1>. QED
    BY <1>5

\* What IsString says of a piece of the text.
LEMMA StringPiece ==
    ASSUME LexInv, Here({Quote}), NEW b \in Nat, pos < b, b <= Len(text)
    PROVE  IsString(SubSeq(text, pos, b)) <=>
           /\ text[b] = Quote
           /\ \A i, j \in pos + 1..b - 1 :
                 /\ i <= j
                 /\ i - 1 = pos \/ text[i - 1] # Quote
                 /\ j + 1 = b \/ text[j + 1] # Quote
                 /\ \A k \in i..j : text[k] = Quote
                 => (j - i) % 2 = 1
  <1>. DEFINE t == SubSeq(text, pos, b)
              n == b - pos + 1
              inside == 2..n - 1
              Other(i) == i \notin inside \/ t[i] # Quote
              InPiece(i, j) == /\ i <= j /\ Other(i - 1) /\ Other(j + 1)
                               /\ \A k \in i..j : t[k] = Quote
              InText(i, j) == /\ i <= j
                              /\ i - 1 = pos \/ text[i - 1] # Quote
                              /\ j + 1 = b \/ text[j + 1] # Quote
                              /\ \A k \in i..j : text[k] = Quote
  <1>1. text \in Seq(Char) /\ Len(text) \in Nat /\ pos \in Nat /\ 1 <= pos
        /\ pos <= Len(text) /\ text[pos] = Quote
    BY AtCursor
  <1>2. /\ t \in Seq(Char) /\ Len(t) = n /\ n \in Nat /\ n >= 2
        /\ \A i \in 1..n : t[i] = text[pos + i - 1]
        /\ \A k \in pos..b : t[k - pos + 1] = text[k] /\ k - pos + 1 \in 1..n
    BY <1>1, Piece
  <1>. HIDE DEF t
  <1>3. t[1] = Quote /\ Last(t) = text[b]
    <2>1. 1 \in 1..n /\ n \in 1..n /\ pos + 1 - 1 = pos /\ pos + n - 1 = b
      BY <1>1
    <2>. QED
      BY <1>1, <1>2, <2>1 DEF Last
  <1>4. ASSUME NEW i \in inside, NEW j \in inside
        PROVE  InPiece(i, j) <=> InText(pos + i - 1, pos + j - 1)
    <2>1. /\ i \in 1..n /\ j \in 1..n /\ i - 1 \in 1..n /\ j + 1 \in 1..n
          /\ pos + i - 1 \in Nat /\ pos + j - 1 \in Nat
      <3>1. pos \in Nat /\ n \in Nat
        BY <1>1, <1>2
      <3>. HIDE DEF n
      <3>. QED
        BY <3>1
    <2>2. i <= j <=> pos + i - 1 <= pos + j - 1
      BY <1>1, <2>1
    <2>3. Other(i - 1) <=> ((pos + i - 1) - 1 = pos \/ text[(pos + i - 1) - 1] # Quote)
      <3>1. i - 1 \notin inside <=> (pos + i - 1) - 1 = pos
        BY <1>1, <1>2
      <3>2. pos + (i - 1) - 1 = (pos + i - 1) - 1
        BY <1>1, <2>1
      <3>3. t[i - 1] = text[(pos + i - 1) - 1]
        BY <1>2, <2>1, <3>2
      <3>. QED
        BY <3>1, <3>3
    <2>4. Other(j + 1) <=> ((pos + j - 1) + 1 = b \/ text[(pos + j - 1) + 1] # Quote)
      <3>1. j + 1 \notin inside <=> (pos + j - 1) + 1 = b
        <4>1. j + 1 \notin inside <=> j + 1 = n
          BY <1>2, <2>1
        <4>. QED
          BY <1>1, <2>1, <4>1
      <3>2. pos + (j + 1) - 1 = (pos + j - 1) + 1
        BY <1>1, <2>1
      <3>3. t[j + 1] = text[(pos + j - 1) + 1]
        BY <1>2, <2>1, <3>2
      <3>. QED
        BY <3>1, <3>3
    <2>5. (\A k \in i..j : t[k] = Quote) <=> (\A k \in pos + i - 1..pos + j - 1 : text[k] = Quote)
      <3>1. ASSUME NEW k \in i..j PROVE pos + k - 1 \in pos + i - 1..pos + j - 1 /\ t[k] = text[pos + k - 1]
        <4>1. k \in 1..n /\ pos + k - 1 \in pos + i - 1..pos + j - 1
          BY <1>1, <1>2, <2>1
        <4>. QED
          BY <1>2, <4>1
      <3>2. ASSUME NEW k \in pos + i - 1..pos + j - 1 PROVE k - pos + 1 \in i..j /\ t[k - pos + 1] = text[k]
        <4>1. k \in pos..b /\ k - pos + 1 \in i..j
          BY <1>1, <2>1
        <4>. QED
          BY <1>2, <4>1
      <3>. QED
        BY <3>1, <3>2
    <2>. HIDE DEF Other
    <2>. QED
      BY <2>2, <2>3, <2>4, <2>5
  <1>5. (\A i, j \in inside : InPiece(i, j) => (j - i) % 2 = 1)
        <=> (\A i, j \in pos + 1..b - 1 : InText(i, j) => (j - i) % 2 = 1)
    <2>. HIDE DEF InPiece, InText
    <2>1. ASSUME NEW i \in inside PROVE pos + i - 1 \in pos + 1..b - 1
      BY <1>1
    <2>2. ASSUME NEW i \in pos + 1..b - 1 PROVE i - pos + 1 \in inside /\ pos + (i - pos + 1) - 1 = i
      BY <1>1
    <2>3. ASSUME NEW i \in Int, NEW j \in Int PROVE (pos + j - 1) - (pos + i - 1) = j - i
      BY <1>1
    <2>4. ASSUME \A i, j \in inside : InPiece(i, j) => (j - i) % 2 = 1,
                 NEW i \in pos + 1..b - 1, NEW j \in pos + 1..b - 1, InText(i, j)
          PROVE  (j - i) % 2 = 1
      <3>. DEFINE x == i - pos + 1
                  y == j - pos + 1
      <3>1. x \in inside /\ y \in inside /\ pos + x - 1 = i /\ pos + y - 1 = j /\ y - x = j - i
        BY <1>1, <2>2
      <3>. HIDE DEF x, y
      <3>2. InPiece(x, y)
        BY <1>4, <2>4, <3>1
      <3>3. (y - x) % 2 = 1
        BY <2>4, <3>1, <3>2
      <3>. QED
        BY <3>1, <3>3
    <2>5. ASSUME \A i, j \in pos + 1..b - 1 : InText(i, j) => (j - i) % 2 = 1,
                 NEW i \in inside, NEW j \in inside, InPiece(i, j)
          PROVE  (j - i) % 2 = 1
      <3>. DEFINE x == pos + i - 1
                  y == pos + j - 1
      <3>1. x \in pos + 1..b - 1 /\ y \in pos + 1..b - 1 /\ y - x = j - i
        BY <1>1, <2>1
      <3>2. InText(x, y)
        BY <1>4, <2>5
      <3>. HIDE DEF x, y
      <3>3. (y - x) % 2 = 1
        BY <2>5, <3>1, <3>2
      <3>. QED
        BY <3>1, <3>3
    <2>. QED
      BY <2>4, <2>5
  <1>6. IsString(t) <=> /\ Len(t) >= 2 /\ t[1] = Quote /\ Last(t) = Quote
                        /\ \A i, j \in inside : InPiece(i, j) => (j - i) % 2 = 1
    BY <1>2 DEF IsString
  <1>. HIDE DEF InPiece
  <1>7. IsString(t) <=> /\ text[b] = Quote
                        /\ \A i, j \in pos + 1..b - 1 : InText(i, j) => (j - i) % 2 = 1
    <2>. HIDE DEF InText, inside
    <2>. QED
      BY <1>2, <1>3, <1>5, <1>6
  <1>. QED
    BY <1>7 DEF t

\* Up to the closing quote, a place with an odd number of quotes before it is in
\* the middle of a pair.
LEMMA PairsUpToClosing ==
    ASSUME LexInv, Here({Quote}), Closing # {}
    PROVE  LET last == Min(Closing) IN
           /\ last \in Nat /\ pos < last /\ last <= Len(text) /\ text[last] = Quote
           /\ ~Even(last) /\ ~IsAt({Quote}, last + 1)
           /\ \A k \in pos..last - 1 : Even(k) \/ IsAt({Quote}, k + 1)
  <1>. DEFINE last == Min(Closing)
  <1>1. text \in Seq(Char) /\ Len(text) \in Nat /\ pos \in Nat /\ 1 <= pos
    BY AtCursor
  <1>2. Closing \subseteq Nat
    BY <1>1 DEF Closing
  <1>3. \E x \in Closing : \A y \in Closing : x <= y
    BY <1>2, NatMin
  <1>4. last \in Closing /\ \A y \in Closing : last <= y
    BY <1>3 DEF Min
  <1>. HIDE DEF last
  <1>5. /\ last \in Nat /\ pos < last /\ last <= Len(text) /\ text[last] = Quote
        /\ Odd(QuotesTo(last)) /\ ~IsAt({Quote}, last + 1)
    BY <1>1, <1>4 DEF Closing
  <1>6. ~Even(last)
    BY <1>5, QuotesCounted
  <1>. DEFINE M == {d \in Nat : pos + d < last => Even(pos + d) \/ IsAt({Quote}, pos + d + 1)}
  <1>7. 0 \in M
    <2>1. Even(pos) /\ pos + 0 = pos
      BY <1>1, QuotesCounted
    <2>. QED
      BY <2>1
  <1>8. ASSUME NEW d \in Nat, d \in M PROVE d + 1 \in M
    <2>. DEFINE k == pos + d
    <2>. SUFFICES ASSUME k + 1 < last, ~Even(k + 1) PROVE IsAt({Quote}, k + 2)
      <3>1. pos + (d + 1) = k + 1 /\ pos + (d + 1) + 1 = k + 2
        BY <1>1
      <3>. QED
        BY <3>1
    <2>1. /\ k \in Nat /\ pos <= k /\ k < last /\ k + 1 \in pos + 1..Len(text) /\ (k + 1) + 1 = k + 2
      BY <1>1, <1>5
    <2>2. Even(k) \/ IsAt({Quote}, k + 1)
      BY <1>8, <2>1
    <2>3. Even(k + 1) <=> IF text[k + 1] = Quote THEN ~Even(k) ELSE Even(k)
      BY <2>1, NextQuote
    <2>. HIDE DEF k
    <2>4. text[k + 1] = Quote
      BY <2>2, <2>3 DEF IsAt
    <2>5. Odd(QuotesTo(k + 1))
      BY <2>1, QuotesCounted
    <2>6. k + 1 \notin Closing
      BY <1>4, <1>5, <2>1
    <2>. QED
      BY <2>1, <2>4, <2>5, <2>6 DEF Closing
  <1>9. Nat \subseteq M
    <2>. HIDE DEF M
    <2>. QED
      BY <1>7, <1>8, NatInductive
  <1>10. ASSUME NEW k \in pos..last - 1 PROVE Even(k) \/ IsAt({Quote}, k + 1)
    <2>. DEFINE d == k - pos
    <2>1. d \in Nat /\ pos + d = k /\ k < last
      BY <1>1, <1>5
    <2>2. d \in M
      BY <1>9, <2>1
    <2>. HIDE DEF d
    <2>. QED
      BY <2>1, <2>2
  <1>. QED
    BY <1>5, <1>6, <1>10 DEF last

\* tokenize_string takes the longest literal.
LEMMA LiteralStep ==
    ASSUME LexInv, TokenizeString
    PROVE  LexInv'
  <1>. DEFINE last == Min(Closing)
  <1>1. text \in Seq(Char) /\ Len(text) \in Nat /\ pos \in Nat /\ 1 <= pos
    BY AtCursor
  <1>2. lexed = "busy" /\ Here({Quote})
    BY DEF TokenizeString
  <1>3. CASE Closing = {}
    BY <1>3, Failed DEF TokenizeString
  <1>4. CASE Closing # {}
    <2>1. /\ last \in Nat /\ pos < last /\ last <= Len(text) /\ text[last] = Quote
          /\ ~Even(last) /\ ~IsAt({Quote}, last + 1)
          /\ \A k \in pos..last - 1 : Even(k) \/ IsAt({Quote}, k + 1)
      BY <1>2, <1>4, PairsUpToClosing
    <2>2. PICK content : AppendToken("string", content, last)
      BY <1>4 DEF TokenizeString
    <2>. HIDE DEF last
    \* A run of quotes begins behind an even number of them.
    <2>3. ASSUME NEW i \in pos + 1..last, i - 1 = pos \/ text[i - 1] # Quote, text[i] = Quote
          PROVE  Even(i - 1)
      <3>1. CASE i - 1 = pos
        BY <1>1, <3>1, QuotesCounted
      <3>2. CASE i - 1 # pos
        <4>1. i - 1 \in Nat /\ i - 2 \in pos..last - 1 /\ (i - 2) + 1 = i - 1 /\ i - 2 \in Nat
          BY <1>1, <2>1, <3>2
        <4>2. Even(i - 2)
          BY <2>1, <2>3, <3>2, <4>1 DEF IsAt
        <4>3. Even((i - 2) + 1) <=> IF text[(i - 2) + 1] = Quote THEN ~Even(i - 2) ELSE Even(i - 2)
          BY <4>1, NextQuote
        <4>. QED
          BY <2>3, <3>2, <4>1, <4>2, <4>3
      <3>. QED
        BY <3>1, <3>2
    <2>4. IsString(SubSeq(text, pos, last))
      <3>. SUFFICES ASSUME NEW i \in pos + 1..last - 1, NEW j \in pos + 1..last - 1, i <= j,
                           i - 1 = pos \/ text[i - 1] # Quote,
                           j + 1 = last \/ text[j + 1] # Quote,
                           \A k \in i..j : text[k] = Quote
                    PROVE  (j - i) % 2 = 1
        BY <1>2, <2>1, StringPiece
      <3>1. i \in Nat /\ j \in Nat /\ pos < i /\ i \in pos + 1..last /\ text[i] = Quote
            /\ j \in pos..last - 1 /\ pos <= j /\ j + 1 \in Nat
        BY <1>1, <2>1
      <3>2. Even(i - 1)
        BY <2>3, <3>1
      <3>3. Even(j) <=> (j - i) % 2 = 1
        BY <3>1, <3>2, RunOfQuotes
      <3>4. Even(j)
        <4>1. CASE j + 1 = last
          <5>1. Even(j + 1) <=> IF text[j + 1] = Quote THEN ~Even(j) ELSE Even(j)
            BY <3>1, NextQuote
          <5>. QED
            BY <2>1, <4>1, <5>1
        <4>2. CASE text[j + 1] # Quote
          BY <2>1, <3>1, <4>2 DEF IsAt
        <4>. QED
          BY <4>1, <4>2
      <3>. QED
        BY <3>3, <3>4
    <2>5. ASSUME NEW longer \in last + 1..Len(text), IsString(SubSeq(text, pos, longer)) PROVE FALSE
      \* The run of quotes that the closing one ends.
      <3>. DEFINE B == {i \in pos + 1..last : \A k \in i..last : text[k] = Quote}
      <3>1. B \subseteq Nat /\ last \in B
        BY <1>1, <2>1
      <3>2. PICK i \in B : \A y \in B : i <= y
        BY <3>1, NatMin
      <3>3. i \in pos + 1..last /\ i \in Nat /\ pos < i /\ i <= last /\ \A k \in i..last : text[k] = Quote
        BY <1>1, <2>1, <3>2
      <3>4. i - 1 = pos \/ text[i - 1] # Quote
        <4>. SUFFICES ASSUME i - 1 # pos, text[i - 1] = Quote PROVE FALSE
          OBVIOUS
        <4>1. i - 1 \in pos + 1..last /\ \A k \in i - 1..last : k = i - 1 \/ k \in i..last
          BY <1>1, <2>1, <3>3
        <4>2. i - 1 \in B
          BY <3>3, <4>1
        <4>. QED
          BY <3>2, <3>3, <4>2
      <3>5. text[i] = Quote
        BY <2>1, <3>3
      <3>6. Even(i - 1)
        BY <2>3, <3>3, <3>4, <3>5
      <3>7. Even(last) <=> (last - i) % 2 = 1
        BY <2>1, <3>3, <3>6, RunOfQuotes
      <3>8. /\ longer \in Nat /\ pos < longer /\ longer <= Len(text) /\ last + 1 <= Len(text)
        BY <1>1, <2>1
      <3>9. text[last + 1] # Quote
        BY <2>1, <3>8 DEF IsAt
      <3>10. text[longer] = Quote
        BY <1>2, <2>5, <3>8, StringPiece
      <3>11. longer # last + 1 /\ i \in pos + 1..longer - 1 /\ last \in pos + 1..longer - 1
        BY <1>1, <2>1, <3>3, <3>8, <3>9, <3>10
      <3>12. (last - i) % 2 = 1
        BY <1>2, <2>5, <3>3, <3>4, <3>8, <3>9, <3>11, StringPiece
      <3>. QED
        BY <2>1, <3>7, <3>12
    <2>6. IsToken("string", pos, last)
      BY <2>4, <2>5, Forms DEF IsToken
    <2>7. pos <= last
      BY <1>1, <2>1
    <2>. QED
      BY <1>2, <2>1, <2>2, <2>6, <2>7, Appended
  <1>. QED
    BY <1>3, <1>4

-----------------------------------------------------------------------------
(* Loops over characters.                                                  *)

\* FlattenSeq puts one part behind the other; f has what there is after each.
Parts(f, S, q) ==
    /\ f \in [0..Len(q) -> Seq(S)] /\ f[0] = <<>>
    /\ \A i \in 1..Len(q) : f[i] = f[i - 1] \o q[i]

\* FlattenSeq computes such an f.
LEMMA Flattened ==
    ASSUME NEW S, NEW q \in Seq(Seq(S))
    PROVE  \E f : Parts(f, S, q) /\ FlattenSeq(q) = f[Len(q)]
  <1>. DEFINE n == Len(q)
              step == [i \in 1..n |-> [a \in Seq(S) |-> a \o q[i]]]
  <1>0. n \in Nat /\ DOMAIN q = 1..n /\ \A i \in 1..n : q[i] \in Seq(S)
    BY ElementOfSeq
  <1>. HIDE DEF n
  <1>1. PICK f \in [0..n -> Seq(S)] : f[0] = <<>> /\ \A i \in 1..n : f[i] = f[i - 1] \o q[i]
    <2>1. <<>> \in Seq(S) /\ \A i \in 1..n : \A a \in Seq(S) : a \o q[i] \in Seq(S)
      BY <1>0, ConcatProperties, EmptySeq
    <2>2. step \in [1..n -> [Seq(S) -> Seq(S)]]
      BY <2>1
    <2>3. PICK f \in [0..n -> Seq(S)] : f[0] = <<>> /\ \A i \in 1..n : f[i] = step[i][f[i - 1]]
      <3>1. Steps(step, Seq(S), n)
        BY <2>2 DEF Steps
      <3>. HIDE DEF step
      <3>2. \E f : Iteration(f, Seq(S), n, <<>>, step)
        BY <1>0, <2>1, <3>1, Iterates
      <3>. QED
        BY <3>2 DEF Iteration
    <2>4. ASSUME NEW i \in 1..n PROVE f[i] = f[i - 1] \o q[i]
      <3>1. i - 1 \in 0..n
        BY <1>0
      <3>2. f[i - 1] \in Seq(S)
        BY <2>3, <3>1
      <3>3. step[i][f[i - 1]] = f[i - 1] \o q[i]
        BY <3>2
      <3>. QED
        BY <2>3, <3>3
    <2>. QED
      BY <2>3, <2>4
  <1>2. FlattenSeq(q) = f[n]
    <2>1. CASE n = 0
      <3>1. q = <<>>
        BY <2>1, EmptySeq DEF n
      <3>. QED
        BY <1>1, <2>1, <3>1 DEF FlattenSeq, n
    <2>2. CASE n # 0
      <3>. DEFINE Fixed(c) == c = [i \in 1..n |-> IF i = 1 THEN q[i] ELSE c[i - 1] \o q[i]]
                  c == CHOOSE c : Fixed(c)
                  e == [i \in 1..n |-> f[i]]
      <3>1. Fixed(e)
        <4>1. f[1] = q[1]
          <5>0. 1 \in 1..n /\ 1 - 1 = 0
            BY <1>0, <2>2
          <5>1. f[1] = f[1 - 1] \o q[1] /\ q[1] \in Seq(S) /\ f[1 - 1] = <<>>
            BY <1>0, <1>1, <5>0
          <5>. QED
            BY <5>1, ConcatEmptySeq
        <4>2. \A i \in 1..n : e[i] = IF i = 1 THEN q[i] ELSE e[i - 1] \o q[i]
          <5>. SUFFICES ASSUME NEW i \in 1..n PROVE e[i] = IF i = 1 THEN q[i] ELSE e[i - 1] \o q[i]
            OBVIOUS
          <5>1. CASE i = 1
            BY <4>1, <5>1
          <5>2. CASE i # 1
            <6>1. i - 1 \in 1..n
              BY <1>0, <5>2
            <6>2. e[i] = f[i] /\ e[i - 1] = f[i - 1] /\ f[i] = f[i - 1] \o q[i]
              BY <1>1, <6>1
            <6>. HIDE DEF e
            <6>. QED
              BY <5>2, <6>2
          <5>. QED
            BY <5>1, <5>2
        <4>. QED
          BY <4>2
      <3>2. Fixed(c)
        <4>. HIDE DEF Fixed
        <4>. QED
          BY <3>1
      <3>3. \A i \in 1..n : c[i] = IF i = 1 THEN q[i] ELSE c[i - 1] \o q[i]
        <4>. HIDE DEF c
        <4>. QED
          BY <3>2
      <3>4. FlattenSeq(q) = c[n]
        BY <2>2 DEF FlattenSeq, n
      <3>. DEFINE M == {i \in Nat : i < n => c[i + 1] = e[i + 1]}
      <3>. HIDE DEF c
      <3>5. 0 \in M
        BY <1>0, <3>1, <3>3
      <3>6. ASSUME NEW i \in Nat, i \in M PROVE i + 1 \in M
        <4>. SUFFICES ASSUME i + 1 < n PROVE c[(i + 1) + 1] = e[(i + 1) + 1]
          OBVIOUS
        <4>1. (i + 1) + 1 \in 1..n /\ (i + 1) + 1 # 1 /\ ((i + 1) + 1) - 1 = i + 1 /\ i < n
          BY <1>0
        <4>2. c[i + 1] = e[i + 1]
          BY <3>6, <4>1
        <4>3. \A j \in 1..n : e[j] = IF j = 1 THEN q[j] ELSE e[j - 1] \o q[j]
          <5>. HIDE DEF e
          <5>. QED
            BY <3>1
        <4>. HIDE DEF e
        <4>. DEFINE j == (i + 1) + 1
        <4>4. j \in 1..n /\ j # 1 /\ j - 1 = i + 1
          BY <4>1
        <4>. HIDE DEF j
        <4>5. c[j] = c[j - 1] \o q[j] /\ e[j] = e[j - 1] \o q[j]
          BY <3>3, <4>3, <4>4
        <4>6. c[j] = e[j]
          BY <4>2, <4>4, <4>5
        <4>. QED
          BY <4>6 DEF j
      <3>7. Nat \subseteq M
        <4>. HIDE DEF M
        <4>. QED
          BY <3>5, <3>6, NatInductive
      <3>8. n - 1 \in Nat /\ n - 1 < n /\ (n - 1) + 1 = n /\ n \in 1..n
        BY <1>0, <2>2
      <3>9. c[n] = e[n]
        <4>1. n - 1 \in M
          BY <3>7, <3>8
        <4>. HIDE DEF e
        <4>. QED
          BY <3>8, <4>1
      <3>10. c[n] = f[n]
        BY <3>8, <3>9
      <3>. QED
        BY <3>4, <3>10
    <2>. QED
      BY <2>1, <2>2
  <1>3. Parts(f, S, q)
    BY <1>1 DEF Parts, n
  <1>. QED
    BY <1>2, <1>3 DEF n

\* Part i ends at place off[i].
LEMMA Concatenated ==
    ASSUME NEW S, NEW q \in Seq(Seq(S))
    PROVE  /\ FlattenSeq(q) \in Seq(S)
           /\ \E off \in [0..Len(q) -> Nat] :
                 /\ off[0] = 0 /\ off[Len(q)] = Len(FlattenSeq(q))
                 /\ \A i \in 1..Len(q) :
                       /\ off[i] = off[i - 1] + Len(q[i]) /\ off[i] <= Len(FlattenSeq(q))
                       /\ \A k \in 1..Len(q[i]) : FlattenSeq(q)[off[i - 1] + k] = q[i][k]
  <1>. DEFINE n == Len(q)
  <1>0. n \in Nat /\ DOMAIN q = 1..n /\ \A i \in 1..n : q[i] \in Seq(S)
    BY ElementOfSeq
  <1>. HIDE DEF n
  <1>f. PICK f : Parts(f, S, q) /\ FlattenSeq(q) = f[n]
    BY Flattened DEF n
  <1>1. f \in [0..n -> Seq(S)] /\ f[0] = <<>> /\ \A i \in 1..n : f[i] = f[i - 1] \o q[i]
    BY <1>f DEF Parts, n
  <1>2. FlattenSeq(q) = f[n]
    BY <1>f
  <1>. DEFINE off == [i \in 0..n |-> Len(f[i])]
  <1>3. ASSUME NEW i \in 1..n
        PROVE  /\ i - 1 \in 0..n /\ f[i - 1] \in Seq(S) /\ f[i] \in Seq(S) /\ q[i] \in Seq(S)
               /\ Len(f[i]) = Len(f[i - 1]) + Len(q[i])
               /\ \A k \in 1..Len(f[i - 1]) : f[i][k] = f[i - 1][k]
               /\ \A k \in 1..Len(q[i]) : f[i][Len(f[i - 1]) + k] = q[i][k]
    <2>0. i - 1 \in 0..n /\ i \in 0..n
      BY <1>0
    <2>1. /\ i - 1 \in 0..n /\ f[i - 1] \in Seq(S) /\ f[i] \in Seq(S) /\ q[i] \in Seq(S)
          /\ f[i] = f[i - 1] \o q[i]
      BY <1>0, <1>1, <2>0
    <2>. DEFINE a == f[i - 1]
                b == q[i]
    <2>2. a \in Seq(S) /\ b \in Seq(S) /\ f[i] = a \o b
      BY <2>1
    <2>. HIDE DEF a, b
    <2>3. /\ a \o b \in Seq(S) /\ Len(a \o b) = Len(a) + Len(b)
          /\ \A k \in 1..Len(a) : (a \o b)[k] = a[k]
          /\ \A k \in 1..Len(b) : (a \o b)[Len(a) + k] = b[k]
      BY <2>2
    <2>. QED
      BY <2>1, <2>2, <2>3 DEF a, b
  <1>4. \A d \in Nat : \A i \in 0..n : i + d <= n =>
           Len(f[i]) <= Len(f[i + d]) /\ \A k \in 1..Len(f[i]) : f[i + d][k] = f[i][k]
    <2>. DEFINE M == {d \in Nat : \A i \in 0..n : i + d <= n =>
                        Len(f[i]) <= Len(f[i + d]) /\ \A k \in 1..Len(f[i]) : f[i + d][k] = f[i][k]}
    <2>1. 0 \in M
      <3>1. \A i \in 0..n : i + 0 = i /\ Len(f[i]) \in Nat
        BY <1>0, <1>1
      <3>. QED
        BY <3>1
    <2>2. ASSUME NEW d \in Nat, d \in M PROVE d + 1 \in M
      <3>. SUFFICES ASSUME NEW i \in 0..n, i + (d + 1) <= n
                    PROVE  /\ Len(f[i]) <= Len(f[i + (d + 1)])
                           /\ \A k \in 1..Len(f[i]) : f[i + (d + 1)][k] = f[i][k]
        OBVIOUS
      <3>. DEFINE j == i + (d + 1)
      <3>1. j \in 1..n /\ j - 1 = i + d /\ i + d <= n
        BY <1>0
      <3>2. Len(f[i]) <= Len(f[i + d]) /\ \A k \in 1..Len(f[i]) : f[i + d][k] = f[i][k]
        BY <2>2, <3>1
      <3>. HIDE DEF j
      <3>3. /\ f[j - 1] \in Seq(S) /\ q[j] \in Seq(S) /\ Len(f[j]) = Len(f[j - 1]) + Len(q[j])
            /\ \A k \in 1..Len(f[j - 1]) : f[j][k] = f[j - 1][k]
        BY <1>3, <3>1
      <3>4. Len(f[i]) \in Nat /\ Len(f[j - 1]) \in Nat /\ Len(q[j]) \in Nat
        BY <1>1, <3>3
      <3>5. Len(f[i]) <= Len(f[j])
        <4>. DEFINE x == Len(f[i])
                    y == Len(f[j - 1])
        <4>1. x <= y /\ x \in Nat /\ y \in Nat /\ Len(f[j]) = y + Len(q[j])
          BY <3>1, <3>2, <3>3, <3>4
        <4>. HIDE DEF x, y
        <4>2. x <= Len(f[j])
          BY <3>4, <4>1
        <4>. QED
          BY <4>2 DEF x
      <3>6. ASSUME NEW k \in 1..Len(f[i]) PROVE f[j][k] = f[i][k]
        <4>0. Len(f[i]) <= Len(f[j - 1])
          BY <3>1, <3>2
        <4>1. k \in 1..Len(f[j - 1])
          BY <3>4, <4>0
        <4>. QED
          BY <3>1, <3>2, <3>3, <4>1
      <3>. QED
        BY <3>5, <3>6 DEF j
    <2>3. Nat \subseteq M
      <3>. HIDE DEF M
      <3>. QED
        BY <2>1, <2>2, NatInductive
    <2>. QED
      BY <2>3
  <1>5. ASSUME NEW i \in 0..n
        PROVE  Len(f[i]) <= Len(f[n]) /\ \A k \in 1..Len(f[i]) : f[n][k] = f[i][k]
    <2>1. n - i \in Nat /\ i + (n - i) = n
      BY <1>0
    <2>2. /\ Len(f[i]) <= Len(f[i + (n - i)])
          /\ \A k \in 1..Len(f[i]) : f[i + (n - i)][k] = f[i][k]
      <3>. DEFINE d == n - i
      <3>1. d \in Nat /\ i + d <= n
        BY <1>0, <2>1
      <3>. HIDE DEF d
      <3>2. Len(f[i]) <= Len(f[i + d]) /\ \A k \in 1..Len(f[i]) : f[i + d][k] = f[i][k]
        BY <1>4, <3>1
      <3>. QED
        BY <3>2 DEF d
    <2>. QED
      BY <2>1, <2>2
  <1>6. off \in [0..n -> Nat]
    BY <1>1
  <1>7. off[0] = 0 /\ off[n] = Len(f[n])
    BY <1>0, <1>1
  <1>8. ASSUME NEW i \in 1..n
        PROVE  /\ off[i] = off[i - 1] + Len(q[i]) /\ off[i] <= Len(f[n])
               /\ \A k \in 1..Len(q[i]) : f[n][off[i - 1] + k] = q[i][k]
    <2>1. i \in 0..n /\ i - 1 \in 0..n /\ off[i] = Len(f[i]) /\ off[i - 1] = Len(f[i - 1])
      BY <1>0
    <2>2. off[i] = off[i - 1] + Len(q[i]) /\ off[i] <= Len(f[n])
      BY <1>3, <1>5, <2>1
    <2>3. Len(q[i]) \in Nat /\ Len(f[i - 1]) \in Nat
      BY <1>3
    <2>4. ASSUME NEW k \in 1..Len(q[i]) PROVE f[n][off[i - 1] + k] = q[i][k]
      <3>0. Len(f[i]) = Len(f[i - 1]) + Len(q[i])
        BY <1>3
      <3>1. Len(f[i - 1]) + k \in 1..Len(f[i])
        <4>. DEFINE x == Len(f[i - 1])
                    y == Len(q[i])
        <4>1. x \in Nat /\ y \in Nat /\ k \in 1..y /\ Len(f[i]) = x + y
          BY <2>3, <3>0
        <4>. HIDE DEF x, y
        <4>2. x + k \in 1..Len(f[i])
          BY <4>1
        <4>. QED
          BY <4>2 DEF x
      <3>. QED
        BY <1>3, <1>5, <2>1, <3>1
    <2>. QED
      BY <2>2, <2>4
  <1>9. f[n] \in Seq(S)
    BY <1>0, <1>1
  <1>. HIDE DEF off
  <1>. QED
    BY <1>2, <1>6, <1>7, <1>8, <1>9 DEF n

\* What Rewrite makes of a character.
Word(escapes, ch) == IF ch \in DOMAIN escapes THEN escapes[ch] ELSE <<ch>>

\* Where the words of the characters end.
Ends(off, escapes, s, t) ==
    /\ off \in [0..Len(s) -> Nat] /\ off[0] = 0 /\ off[Len(s)] = Len(t)
    /\ \A i \in 1..Len(s) :
          LET w == Word(escapes, s[i]) IN
          /\ off[i] = off[i - 1] + Len(w) /\ off[i] <= Len(t)
          /\ \A k \in 1..Len(w) : t[off[i - 1] + k] = w[k]

\* What Rewrite makes of a text, word by word.
LEMMA Rewritten ==
    ASSUME NEW s \in Seq(Char), NEW escapes,
           \A ch \in DOMAIN escapes : escapes[ch] \in Seq(Char)
    PROVE  /\ Rewrite(escapes, s) \in Seq(Char)
           /\ \E off : Ends(off, escapes, s, Rewrite(escapes, s))
  <1>. DEFINE q == [i \in DOMAIN s |-> Word(escapes, s[i])]
  <1>1. Len(s) \in Nat /\ DOMAIN s = 1..Len(s) /\ \A i \in 1..Len(s) : s[i] \in Char
    BY ElementOfSeq
  <1>2. \A i \in 1..Len(s) : Word(escapes, s[i]) \in Seq(Char)
    <2>. SUFFICES ASSUME NEW i \in 1..Len(s) PROVE Word(escapes, s[i]) \in Seq(Char)
      OBVIOUS
    <2>1. <<s[i]>> \in Seq(Char)
      BY <1>1
    <2>. QED
      BY <2>1 DEF Word
  <1>3. q \in Seq(Seq(Char)) /\ Len(q) = Len(s) /\ \A i \in 1..Len(s) : q[i] = Word(escapes, s[i])
    <2>1. q = [i \in 1..Len(s) |-> Word(escapes, s[i])]
      BY <1>1
    <2>. QED
      BY <1>1, <1>2, <2>1
  <1>4. Rewrite(escapes, s) = FlattenSeq(q)
    BY DEF Rewrite, Word
  <1>. HIDE DEF q
  <1>5. FlattenSeq(q) \in Seq(Char)
    BY <1>3, Concatenated
  <1>6. PICK off \in [0..Len(q) -> Nat] :
                 /\ off[0] = 0 /\ off[Len(q)] = Len(FlattenSeq(q))
                 /\ \A i \in 1..Len(q) :
                       /\ off[i] = off[i - 1] + Len(q[i]) /\ off[i] <= Len(FlattenSeq(q))
                       /\ \A k \in 1..Len(q[i]) : FlattenSeq(q)[off[i - 1] + k] = q[i][k]
    BY <1>3, Concatenated
  <1>7. Ends(off, escapes, s, FlattenSeq(q))
    <2>1. /\ off \in [0..Len(s) -> Nat] /\ off[0] = 0 /\ off[Len(s)] = Len(FlattenSeq(q))
          /\ \A i \in 1..Len(s) :
                /\ off[i] = off[i - 1] + Len(q[i]) /\ off[i] <= Len(FlattenSeq(q))
                /\ \A k \in 1..Len(q[i]) : FlattenSeq(q)[off[i - 1] + k] = q[i][k]
      BY <1>3, <1>6
    <2>2. \A i \in 1..Len(s) : q[i] = Word(escapes, s[i])
      BY <1>3
    <2>. QED
      BY <2>1, <2>2, ZenonT(60) DEF Ends
  <1>. QED
    BY <1>4, <1>5, <1>7

StringState == [state : {"open", "escape", "closed", "error"}, out : Seq(Char)]
Opened == [state |-> "open", out |-> <<>>]

\* A step of the loop stays within its type.
LEMMA StringStepType ==
    ASSUME NEW letters, \A ch \in DOMAIN letters : letters[ch] \in Char,
           NEW st \in StringState, NEW ch \in Char
    PROVE  StringStep(letters, st, ch) \in StringState
  <1>1. st.out \in Seq(Char) /\ st.state \in {"open", "escape", "closed", "error"}
    BY DEF StringState
  <1>2. \A x \in Char : Append(st.out, x) \in Seq(Char)
    BY <1>1
  <1>3. /\ \A x \in {"open", "escape", "closed", "error"} : [st EXCEPT !.state = x] \in StringState
        /\ \A x \in Seq(Char) : [st EXCEPT !.out = x] \in StringState
        /\ \A x \in Seq(Char) : [state |-> "open", out |-> x] \in StringState
    BY DEF StringState
  <1>. QED
    BY <1>1, <1>2, <1>3 DEF StringStep

\* The loop of parse_json_string, one character at a time.
LEMMA StringLoopSteps ==
    ASSUME NEW letters, \A ch \in DOMAIN letters : letters[ch] \in Char, NEW s \in Seq(Char)
    PROVE  LET st == StringStates(letters, s) IN
           /\ \A i \in 0..Len(s) : st[i] \in StringState
           /\ \A i \in 0..Len(s) : i <= 1 => st[i] = Opened
           /\ \A i \in 2..Len(s) : st[i] = StringStep(letters, st[i - 1], s[i])
  <1>. DEFINE n == Len(s)
              Next1(i, x) == IF i <= 1 THEN Opened ELSE StringStep(letters, x, s[i])
              step == [i \in 1..n |-> [x \in StringState |-> Next1(i, x)]]
              st == StringStates(letters, s)
  <1>1. n \in Nat /\ Opened \in StringState /\ \A i \in 1..n : s[i] \in Char
    BY ElementOfSeq DEF StringState, Opened
  <1>. HIDE DEF n
  <1>2. \A i \in 1..n : \A x \in StringState : Next1(i, x) \in StringState
    BY <1>1, StringStepType
  <1>. DEFINE Fixed(c) == c = [i \in 0..n |-> IF i <= 1 THEN Opened ELSE StringStep(letters, c[i - 1], s[i])]
  <1>3. PICK f : /\ \A i \in 0..n : f[i] \in StringState
                 /\ f[0] = Opened /\ \A i \in 1..n : f[i] = Next1(i, f[i - 1])
                 /\ f \in [0..n -> StringState]
    <2>. HIDE DEF Next1
    <2>1. Steps(step, StringState, n)
      BY <1>2 DEF Steps
    <2>2. PICK f : Iteration(f, StringState, n, Opened, step)
      <3>. HIDE DEF step
      <3>. QED
        BY <1>1, <2>1, Iterates
    <2>3. f \in [0..n -> StringState] /\ f[0] = Opened /\ \A i \in 1..n : f[i] = step[i][f[i - 1]]
      BY <2>2 DEF Iteration
    <2>4. ASSUME NEW i \in 1..n PROVE f[i] = Next1(i, f[i - 1])
      <3>1. i - 1 \in 0..n
        BY <1>1
      <3>2. f[i - 1] \in StringState
        BY <2>3, <3>1
      <3>. QED
        BY <2>3, <3>2
    <2>. QED
      BY <2>3, <2>4
  <1>4. Fixed(f)
    <2>1. \A i \in 0..n : f[i] = IF i <= 1 THEN Opened ELSE StringStep(letters, f[i - 1], s[i])
      BY <1>1, <1>3
    <2>. QED
      BY <1>3, <2>1
  <1>5. st = CHOOSE c : Fixed(c)
    BY DEF StringStates, Opened, n
  <1>6. Fixed(st)
    <2>. HIDE DEF st, Fixed
    <2>. QED
      BY <1>4, <1>5
  <1>7. \A i \in 0..n : st[i] = IF i <= 1 THEN Opened ELSE StringStep(letters, st[i - 1], s[i])
    <2>. HIDE DEF st
    <2>. QED
      BY <1>6
  <1>8. \A i \in 0..n : st[i] = f[i]
    <2>. HIDE DEF st
    <2>1. st[0] = f[0]
      BY <1>1, <1>3, <1>7
    <2>2. \A i \in 1..n : st[i - 1] = f[i - 1] => st[i] = f[i]
      BY <1>1, <1>3, <1>7
    <2>. QED
      BY <1>1, <2>1, <2>2, SameSteps, ZenonT(60)
  <1>9. \A i \in 2..n : i \in 0..n /\ ~(i <= 1)
    BY <1>1
  <1>. HIDE DEF st
  <1>. QED
    BY <1>3, <1>7, <1>8, <1>9 DEF n, st

-----------------------------------------------------------------------------
(* A string in JSON is read back. The induction is over the characters of  *)
(* the text, not over those of the JSON: what the reader has behind the    *)
(* word of each character.                                                 *)

\* A text in quotes.
LEMMA InQuotes ==
    ASSUME NEW u \in Char, NEW r \in Seq(Char)
    PROVE  LET t == <<u>> \o r \o <<u>> IN
           /\ t \in Seq(Char) /\ Len(t) = Len(r) + 2 /\ Len(r) \in Nat
           /\ t[1] = u /\ t[Len(r) + 2] = u
           /\ \A k \in 1..Len(r) : t[k + 1] = r[k]
  <1>. DEFINE a == <<u>> \o r
              t == a \o <<u>>
  <1>1. <<u>> \in Seq(Char) /\ Len(<<u>>) = 1 /\ <<u>>[1] = u
    OBVIOUS
  <1>2. /\ a \in Seq(Char) /\ Len(a) = Len(r) + 1 /\ Len(r) \in Nat /\ a[1] = u
        /\ \A k \in 1..Len(r) : a[k + 1] = r[k]
    BY <1>1
  <1>. HIDE DEF a
  <1>3. /\ t \in Seq(Char) /\ Len(t) = Len(a) + 1 /\ t[Len(a) + 1] = u
        /\ \A k \in 1..Len(a) : t[k] = a[k]
    BY <1>1, <1>2
  <1>. HIDE DEF t
  <1>4. 1 \in 1..Len(a) /\ Len(a) + 1 = Len(r) + 2 /\ \A k \in 1..Len(r) : k + 1 \in 1..Len(a)
    BY <1>2
  <1>5. t[1] = u /\ t[Len(r) + 2] = u /\ \A k \in 1..Len(r) : t[k + 1] = r[k]
    BY <1>2, <1>3, <1>4
  <1>6. Len(t) = Len(r) + 2
    BY <1>2, <1>3
  <1>. QED
    BY <1>2, <1>3, <1>5, <1>6 DEF t, a

\* One character more of a prefix.
LEMMA LongerPrefix ==
    ASSUME NEW S, NEW s \in Seq(S), NEW m \in Nat, m + 1 <= Len(s)
    PROVE  /\ SubSeq(s, 1, m) \in Seq(S)
           /\ Append(SubSeq(s, 1, m), s[m + 1]) = SubSeq(s, 1, m + 1)
  <1>. DEFINE a == SubSeq(s, 1, m)
              b == SubSeq(s, 1, m + 1)
  <1>1. Len(s) \in Nat /\ \A i \in 1..Len(s) : s[i] \in S
    BY ElementOfSeq
  <1>2. a \in Seq(S) /\ Len(a) = m /\ \A i \in 1..m : a[i] = s[i]
    BY <1>1
  <1>3. b \in Seq(S) /\ Len(b) = m + 1 /\ \A i \in 1..(m + 1) : b[i] = s[i]
    BY <1>1
  <1>4. m + 1 \in 1..Len(s) /\ s[m + 1] \in S
    BY <1>1
  <1>. HIDE DEF a, b
  <1>. DEFINE x == s[m + 1]
              c == Append(a, x)
  <1>5. c \in Seq(S) /\ Len(c) = m + 1 /\ c[m + 1] = x /\ \A i \in 1..m : c[i] = a[i]
    <2>1. x \in S
      BY <1>4
    <2>. HIDE DEF x
    <2>. QED
      BY <1>2, <2>1
  <1>. HIDE DEF c
  <1>6. \A i \in 1..(m + 1) : i \in 1..m \/ i = m + 1
    OBVIOUS
  <1>7. \A i \in 1..(m + 1) : c[i] = b[i]
    BY <1>2, <1>3, <1>5, <1>6
  <1>8. c = b
    BY <1>3, <1>5, <1>7, SeqEqual
  <1>. QED
    BY <1>2, <1>8 DEF a, b, c

\* Whether a reader that knows letters gets ch back from what a writer made of it.
Readable(escapes, letters, ch) ==
    \/ ch \notin DOMAIN escapes /\ ch \notin {"DQ", "BSL"} \cup Controls
    \/ ch \in DOMAIN escapes /\ \E x \in DOMAIN letters : escapes[ch] = <<"BSL", x>> /\ letters[x] = ch

Tables(escapes, letters) ==
    /\ \A ch \in DOMAIN escapes : escapes[ch] \in Seq(Char)
    /\ \A ch \in DOMAIN letters : letters[ch] \in Char

InJson(escapes, s) == <<"DQ">> \o Rewrite(escapes, s) \o <<"DQ">>

\* Behind the word of each character, the reader has the characters so far.
LEMMA ReadSoFar ==
    ASSUME NEW s \in Seq(Char), NEW escapes, NEW letters, Tables(escapes, letters),
           NEW off, Ends(off, escapes, s, Rewrite(escapes, s)),
           NEW m \in Nat, m <= Len(s), \A i \in 1..m : Readable(escapes, letters, s[i])
    PROVE  LET st == StringStates(letters, InJson(escapes, s)) IN
           st[off[m] + 1] = [state |-> "open", out |-> SubSeq(s, 1, m)]
  <1>. DEFINE r == Rewrite(escapes, s)
              t == InJson(escapes, s)
              st == StringStates(letters, t)
              So(i) == [state |-> "open", out |-> SubSeq(s, 1, i)]
              M == {i \in Nat : i <= m => st[off[i] + 1] = So(i)}
  <1>1. r \in Seq(Char)
    BY Rewritten DEF Tables
  <1>2. /\ t \in Seq(Char) /\ Len(t) = Len(r) + 2 /\ Len(r) \in Nat
        /\ \A k \in 1..Len(r) : t[k + 1] = r[k]
    <2>1. "DQ" \in Char
      BY DEF Char
    <2>. HIDE DEF r
    <2>2. t = <<"DQ">> \o r \o <<"DQ">>
      BY DEF InJson, r
    <2>. HIDE DEF t
    <2>. QED
      BY <1>1, <2>1, <2>2, InQuotes
  <1>. HIDE DEF t, r
  <1>3. /\ \A i \in 0..Len(t) : i <= 1 => st[i] = Opened
        /\ \A i \in 2..Len(t) : st[i] = StringStep(letters, st[i - 1], t[i])
    BY <1>2, StringLoopSteps DEF Tables
  <1>. HIDE DEF st
  <1>4. /\ off \in [0..Len(s) -> Nat] /\ off[0] = 0
        /\ \A i \in 1..Len(s) :
              /\ off[i] = off[i - 1] + Len(Word(escapes, s[i])) /\ off[i] <= Len(r)
              /\ \A k \in 1..Len(Word(escapes, s[i])) : r[off[i - 1] + k] = Word(escapes, s[i])[k]
    BY Zenon DEF Ends, r
  <1>5. Len(s) \in Nat
    OBVIOUS
  <1>6. 0 \in M
    <2>1. SubSeq(s, 1, 0) = <<>>
      OBVIOUS
    <2>2. st[0 + 1] = Opened
      BY <1>2, <1>3
    <2>. QED
      BY <1>4, <2>1, <2>2 DEF Opened
  <1>7. ASSUME NEW i \in Nat, i \in M PROVE i + 1 \in M
    <2>. SUFFICES ASSUME i + 1 <= m PROVE st[off[i + 1] + 1] = So(i + 1)
      OBVIOUS
    <2>. DEFINE ch == s[i + 1]
                w == Word(escapes, ch)
    <2>1. /\ i + 1 \in 1..m /\ i + 1 \in 1..Len(s) /\ (i + 1) - 1 = i /\ i + 1 <= Len(s) /\ i \in 0..Len(s)
      BY <1>5
    <2>2. st[off[i] + 1] = So(i)
      BY <1>7
    <2>3. PICK a \in Nat : a = off[i]
      BY <1>4, <2>1
    <2>4. /\ off[i + 1] = a + Len(w) /\ a + Len(w) <= Len(r)
          /\ \A k \in 1..Len(w) : r[a + k] = w[k]
      BY <1>4, <2>1, <2>3
    <2>5. SubSeq(s, 1, i) \in Seq(Char) /\ Append(SubSeq(s, 1, i), ch) = SubSeq(s, 1, i + 1)
      BY <2>1, LongerPrefix
    <2>6. Readable(escapes, letters, ch)
      BY <2>1
    <2>. HIDE DEF ch
    <2>7. CASE ch \notin DOMAIN escapes /\ ch \notin {"DQ", "BSL"} \cup Controls
      <3>1. w = <<ch>> /\ Len(w) = 1 /\ w[1] = ch
        BY <2>7 DEF Word
      <3>. HIDE DEF w
      <3>2. r[a + 1] = ch /\ a + 1 \in 1..Len(r) /\ a + 2 \in 2..Len(t) /\ (a + 2) - 1 = a + 1
            /\ (a + 1) + 1 = a + 2
        BY <1>2, <2>4, <3>1
      <3>3. t[a + 2] = ch
        BY <1>2, <3>2
      <3>4. st[a + 2] = StringStep(letters, So(i), ch)
        BY <1>3, <2>2, <2>3, <3>2, <3>3
      <3>5. StringStep(letters, So(i), ch) = [state |-> "open", out |-> Append(SubSeq(s, 1, i), ch)]
        BY <2>7 DEF StringStep
      <3>6. off[i + 1] + 1 = a + 2
        BY <2>4, <3>1
      <3>. QED
        BY <2>5, <3>4, <3>5, <3>6
    <2>8. CASE ch \in DOMAIN escapes /\ \E x \in DOMAIN letters : escapes[ch] = <<"BSL", x>> /\ letters[x] = ch
      <3>0. PICK x \in DOMAIN letters : escapes[ch] = <<"BSL", x>> /\ letters[x] = ch
        BY <2>8
      <3>1. w = <<"BSL", x>>
        BY <2>8, <3>0 DEF Word
      <3>2. Len(w) = 2 /\ w[1] = "BSL" /\ w[2] = x
        BY <3>1
      <3>. HIDE DEF w
      <3>3. /\ r[a + 1] = "BSL" /\ r[a + 2] = x /\ a + 1 \in 1..Len(r) /\ a + 2 \in 1..Len(r)
            /\ a + 2 \in 2..Len(t) /\ a + 3 \in 2..Len(t) /\ (a + 2) - 1 = a + 1 /\ (a + 3) - 1 = a + 2
            /\ (a + 1) + 1 = a + 2 /\ (a + 2) + 1 = a + 3
        BY <1>2, <2>4, <3>2
      <3>4. t[a + 2] = "BSL" /\ t[a + 3] = x
        BY <1>2, <3>3
      <3>5. st[a + 2] = StringStep(letters, So(i), "BSL")
        BY <1>3, <2>2, <2>3, <3>3, <3>4
      <3>6. StringStep(letters, So(i), "BSL") = [state |-> "escape", out |-> SubSeq(s, 1, i)]
        BY DEF StringStep, Controls
      <3>7. st[a + 3] = StringStep(letters, [state |-> "escape", out |-> SubSeq(s, 1, i)], x)
        BY <1>3, <3>3, <3>4, <3>5, <3>6
      <3>8. StringStep(letters, [state |-> "escape", out |-> SubSeq(s, 1, i)], x)
            = [state |-> "open", out |-> Append(SubSeq(s, 1, i), ch)]
        BY <3>0 DEF StringStep
      <3>9. off[i + 1] + 1 = a + 3
        BY <2>4, <3>2
      <3>. QED
        BY <2>5, <3>7, <3>8, <3>9
    <2>. QED
      BY <2>6, <2>7, <2>8 DEF Readable
  <1>8. Nat \subseteq M
    <2>. HIDE DEF M
    <2>. QED
      BY <1>6, <1>7, NatInductive
  <1>9. st[off[m] + 1] = So(m)
    BY <1>8
  <1>. QED
    BY <1>9 DEF st, t

\* A text whose characters are all readable is read back.
LEMMA ReadBack ==
    ASSUME NEW s \in Seq(Char), NEW escapes, NEW letters, Tables(escapes, letters),
           \A i \in 1..Len(s) : Readable(escapes, letters, s[i])
    PROVE  StringLoop(letters, InJson(escapes, s)) = [state |-> "closed", out |-> s]
  <1>. DEFINE r == Rewrite(escapes, s)
              t == InJson(escapes, s)
              st == StringStates(letters, t)
  <1>1. r \in Seq(Char)
    BY Rewritten DEF Tables
  <1>2. PICK off : Ends(off, escapes, s, r)
    BY Rewritten DEF Tables
  <1>3. /\ t \in Seq(Char) /\ Len(t) = Len(r) + 2 /\ Len(r) \in Nat /\ t[Len(r) + 2] = "DQ"
    <2>1. "DQ" \in Char
      BY DEF Char
    <2>. HIDE DEF r
    <2>2. t = <<"DQ">> \o r \o <<"DQ">>
      BY DEF InJson, r
    <2>. HIDE DEF t
    <2>. QED
      BY <1>1, <2>1, <2>2, InQuotes
  <1>4. Len(s) \in Nat /\ SubSeq(s, 1, Len(s)) = s
    OBVIOUS
  <1>5. st[off[Len(s)] + 1] = [state |-> "open", out |-> SubSeq(s, 1, Len(s))]
    BY <1>2, <1>4, ReadSoFar
  <1>6. off[Len(s)] = Len(r)
    BY <1>2, Zenon DEF Ends
  <1>. HIDE DEF t, r
  <1>7. \A i \in 2..Len(t) : st[i] = StringStep(letters, st[i - 1], t[i])
    BY <1>3, StringLoopSteps DEF Tables
  <1>8. Len(t) \in 2..Len(t) /\ Len(t) - 1 = Len(r) + 1
    BY <1>3
  <1>. HIDE DEF st
  <1>9. st[Len(t)] = StringStep(letters, [state |-> "open", out |-> s], "DQ")
    BY <1>3, <1>4, <1>5, <1>6, <1>7, <1>8
  <1>10. StringStep(letters, [state |-> "open", out |-> s], "DQ") = [state |-> "closed", out |-> s]
    <2>. DEFINE x == [state |-> "open", out |-> s]
    <2>1. x.state = "open" /\ [x EXCEPT !.state = "closed"] = [state |-> "closed", out |-> s]
      OBVIOUS
    <2>. HIDE DEF x
    <2>2. StringStep(letters, x, "DQ") = [x EXCEPT !.state = "closed"]
      BY <2>1 DEF StringStep, Controls
    <2>. QED
      BY <2>1, <2>2 DEF x
  <1>. QED
    BY <1>9, <1>10 DEF StringLoop, st, t

\* json_append_escaped_string writes what any JSON parser reads back.
LEMMA WrittenIsRead ==
    ASSUME NEW s \in Seq(Char)
    PROVE  ClientDecodes(JsonAppendEscapedString(s)) = [state |-> "closed", out |-> s]
  <1>. DEFINE escapes == [ch \in {"DQ", "BSL", "LF", "CR", "TAB", "CTRL"} |-> <<"BSL", JsonLetter(ch)>>]
              letters == ClientLetters
  <1>1. \A ch \in DOMAIN letters : letters[ch] \in Char
    BY DEF ClientLetters, JsonCharacter, Char, Letters, Spaces
  <1>2. \A ch \in DOMAIN escapes : escapes[ch] \in Seq(Char)
    <2>1. \A ch \in {"DQ", "BSL", "LF", "CR", "TAB", "CTRL"} : JsonLetter(ch) \in Char
      BY DEF JsonLetter, Char, Letters
    <2>2. \A x \in Char : <<"BSL", x>> \in Seq(Char)
      <3>1. "BSL" \in Char
        BY DEF Char
      <3>. QED
        BY <3>1
    <2>. QED
      BY <2>1, <2>2
  <1>3. ASSUME NEW ch \in Char PROVE Readable(escapes, letters, ch)
    <2>1. CASE ch \in {"DQ", "BSL", "LF", "CR", "TAB", "CTRL"}
      <3>1. JsonLetter(ch) \in {"DQ", "BSL", "n", "r", "t", "u0001"} /\ JsonCharacter(JsonLetter(ch)) = ch
        BY <2>1 DEF JsonLetter, JsonCharacter
      <3>2. JsonLetter(ch) \in DOMAIN letters /\ letters[JsonLetter(ch)] = ch
        BY <3>1 DEF ClientLetters
      <3>3. ch \in DOMAIN escapes /\ escapes[ch] = <<"BSL", JsonLetter(ch)>>
        BY <2>1
      <3>. HIDE DEF escapes, letters
      <3>. QED
        BY <3>2, <3>3 DEF Readable
    <2>2. CASE ch \notin {"DQ", "BSL", "LF", "CR", "TAB", "CTRL"}
      BY <2>2 DEF Readable, Controls
    <2>. QED
      BY <2>1, <2>2
  <1>4. \A i \in 1..Len(s) : s[i] \in Char
    BY ElementOfSeq
  <1>5. JsonAppendEscapedString(s) = InJson(escapes, s)
    BY DEF JsonAppendEscapedString, InJson
  <1>. HIDE DEF escapes, letters
  <1>6. StringLoop(letters, InJson(escapes, s)) = [state |-> "closed", out |-> s]
    BY <1>1, <1>2, <1>3, <1>4, ReadBack DEF Tables
  <1>. QED
    BY <1>5, <1>6 DEF ClientDecodes, letters

-----------------------------------------------------------------------------
(* The loops over a line and over a field, one character at a time.        *)

SplitState(C) == [raw : Seq(C), pending : BOOLEAN, fields : Seq(Seq(C))]
NoField == [raw |-> <<>>, pending |-> FALSE, fields |-> <<>>]

\* A step of split_escaped_row stays within its type.
LEMMA SplitStepType ==
    ASSUME NEW C, NEW st \in SplitState(C), NEW ch \in C
    PROVE  SplitStep(st, ch) \in SplitState(C)
  <1>1. st.raw \in Seq(C) /\ st.pending \in BOOLEAN /\ st.fields \in Seq(Seq(C))
    BY DEF SplitState
  <1>2. Append(st.raw, ch) \in Seq(C) /\ Append(st.fields, st.raw) \in Seq(Seq(C)) /\ <<>> \in Seq(C)
    BY <1>1
  <1>3. \A x \in Seq(C) : \A p \in BOOLEAN :
           /\ [st EXCEPT !.raw = x, !.pending = p] \in SplitState(C)
           /\ [st EXCEPT !.raw = x] \in SplitState(C)
    BY DEF SplitState
  <1>4. \A x \in Seq(C) : \A y \in Seq(Seq(C)) : [st EXCEPT !.fields = y, !.raw = x] \in SplitState(C)
    BY DEF SplitState
  <1>. QED
    BY <1>1, <1>2, <1>3, <1>4 DEF SplitStep

\* The loop of split_escaped_row, one character at a time.
LEMMA SplitSteps ==
    ASSUME NEW C, NEW s \in Seq(C)
    PROVE  LET st == SplitStates(s) IN
           /\ \A i \in 0..Len(s) : st[i] \in SplitState(C)
           /\ st[0] = NoField
           /\ \A i \in 1..Len(s) : st[i] = SplitStep(st[i - 1], s[i])
  <1>. DEFINE n == Len(s)
              step == [i \in 1..n |-> [x \in SplitState(C) |-> SplitStep(x, s[i])]]
              st == SplitStates(s)
              Fixed(c) == c = [i \in 0..n |-> IF i = 0 THEN NoField ELSE SplitStep(c[i - 1], s[i])]
  <1>1. n \in Nat /\ NoField \in SplitState(C) /\ \A i \in 1..n : s[i] \in C
    BY ElementOfSeq DEF SplitState, NoField
  <1>. HIDE DEF n
  <1>2. PICK f : f \in [0..n -> SplitState(C)] /\ f[0] = NoField /\ \A i \in 1..n : f[i] = SplitStep(f[i - 1], s[i])
    <2>1. Steps(step, SplitState(C), n)
      BY <1>1, SplitStepType DEF Steps
    <2>2. PICK f : Iteration(f, SplitState(C), n, NoField, step)
      <3>. HIDE DEF step
      <3>. QED
        BY <1>1, <2>1, Iterates
    <2>3. f \in [0..n -> SplitState(C)] /\ f[0] = NoField /\ \A i \in 1..n : f[i] = step[i][f[i - 1]]
      BY <2>2 DEF Iteration
    <2>4. ASSUME NEW i \in 1..n PROVE f[i] = SplitStep(f[i - 1], s[i])
      <3>1. i - 1 \in 0..n
        BY <1>1
      <3>2. f[i - 1] \in SplitState(C)
        BY <2>3, <3>1
      <3>. QED
        BY <2>3, <3>2
    <2>. QED
      BY <2>3, <2>4
  <1>3. Fixed(f)
    <2>1. \A i \in 0..n : f[i] = IF i = 0 THEN NoField ELSE SplitStep(f[i - 1], s[i])
      BY <1>1, <1>2
    <2>. QED
      BY <1>2, <2>1
  <1>4. st = CHOOSE c : Fixed(c)
    BY DEF SplitStates, NoField, n
  <1>5. Fixed(st)
    <2>. HIDE DEF st, Fixed
    <2>. QED
      BY <1>3, <1>4
  <1>6. \A i \in 0..n : st[i] = IF i = 0 THEN NoField ELSE SplitStep(st[i - 1], s[i])
    <2>. HIDE DEF st
    <2>. QED
      BY <1>5
  <1>. HIDE DEF st
  <1>7. st[0] = NoField /\ \A i \in 1..n : st[i] = SplitStep(st[i - 1], s[i])
    BY <1>1, <1>6
  <1>8. \A i \in 0..n : st[i] = f[i]
    <2>1. \A i \in 1..n : st[i - 1] = f[i - 1] => st[i] = f[i]
      BY <1>2, <1>7
    <2>2. st[0] = f[0]
      BY <1>2, <1>7
    <2>3. n \in Nat
      BY <1>1
    <2>. QED
      BY <2>1, <2>2, <2>3, SameSteps, ZenonT(60)
  <1>. QED
    BY <1>2, <1>7, <1>8 DEF n, st

UnescapeState == [out : Seq(Char), pending : BOOLEAN, ok : BOOLEAN]
NoOutput == [out |-> <<>>, pending |-> FALSE, ok |-> TRUE]

\* A step of unescape_field stays within its type.
LEMMA UnescapeStepType ==
    ASSUME NEW st \in UnescapeState, NEW ch \in Char
    PROVE  UnescapeStep(st, ch) \in UnescapeState
  <1>1. st.out \in Seq(Char) /\ st.pending \in BOOLEAN /\ st.ok \in BOOLEAN
    BY DEF UnescapeState
  <1>2. \A x \in Char : Append(st.out, x) \in Seq(Char)
    BY <1>1
  <1>3. ch \in DOMAIN FieldLetters => FieldLetters[ch] \in Char
    BY DEF FieldLetters, Char, Letters, Spaces
  <1>4. (st.ok /\ ch \in DOMAIN FieldLetters) \in BOOLEAN
    BY Zenon
  <1>5. \A x \in Seq(Char) : \A p, q \in BOOLEAN :
           /\ [out |-> x, pending |-> p, ok |-> q] \in UnescapeState
           /\ [st EXCEPT !.out = x] \in UnescapeState
           /\ [st EXCEPT !.pending = p] \in UnescapeState
    BY DEF UnescapeState
  <1>6. CASE st.pending
    <2>. DEFINE x == IF ch \in DOMAIN FieldLetters THEN FieldLetters[ch] ELSE ch
    <2>1. UnescapeStep(st, ch)
          = [out |-> Append(st.out, x), pending |-> FALSE, ok |-> st.ok /\ ch \in DOMAIN FieldLetters]
      BY <1>6 DEF UnescapeStep
    <2>2. Append(st.out, x) \in Seq(Char)
      BY <1>2, <1>3
    <2>. HIDE DEF x
    <2>. QED
      BY <1>4, <1>5, <2>1, <2>2
  <1>7. CASE ~st.pending
    BY <1>2, <1>5, <1>7 DEF UnescapeStep
  <1>. QED
    BY <1>6, <1>7

\* The loop of unescape_field, one character at a time.
LEMMA UnescapeSteps ==
    ASSUME NEW s \in Seq(Char)
    PROVE  LET st == UnescapeStates(s) IN
           /\ \A i \in 0..Len(s) : st[i] \in UnescapeState
           /\ st[0] = NoOutput
           /\ \A i \in 1..Len(s) : st[i] = UnescapeStep(st[i - 1], s[i])
  <1>. DEFINE n == Len(s)
              step == [i \in 1..n |-> [x \in UnescapeState |-> UnescapeStep(x, s[i])]]
              st == UnescapeStates(s)
              Fixed(c) == c = [i \in 0..n |-> IF i = 0 THEN NoOutput ELSE UnescapeStep(c[i - 1], s[i])]
  <1>1. n \in Nat /\ NoOutput \in UnescapeState /\ \A i \in 1..n : s[i] \in Char
    BY ElementOfSeq DEF UnescapeState, NoOutput
  <1>. HIDE DEF n
  <1>2. PICK f : f \in [0..n -> UnescapeState] /\ f[0] = NoOutput /\ \A i \in 1..n : f[i] = UnescapeStep(f[i - 1], s[i])
    <2>1. Steps(step, UnescapeState, n)
      BY <1>1, UnescapeStepType DEF Steps
    <2>2. PICK f : Iteration(f, UnescapeState, n, NoOutput, step)
      <3>. HIDE DEF step
      <3>. QED
        BY <1>1, <2>1, Iterates
    <2>3. f \in [0..n -> UnescapeState] /\ f[0] = NoOutput /\ \A i \in 1..n : f[i] = step[i][f[i - 1]]
      BY <2>2 DEF Iteration
    <2>4. ASSUME NEW i \in 1..n PROVE f[i] = UnescapeStep(f[i - 1], s[i])
      <3>1. i - 1 \in 0..n
        BY <1>1
      <3>2. f[i - 1] \in UnescapeState
        BY <2>3, <3>1
      <3>. QED
        BY <2>3, <3>2
    <2>. QED
      BY <2>3, <2>4
  <1>3. Fixed(f)
    <2>1. \A i \in 0..n : f[i] = IF i = 0 THEN NoOutput ELSE UnescapeStep(f[i - 1], s[i])
      BY <1>1, <1>2
    <2>. QED
      BY <1>2, <2>1
  <1>4. st = CHOOSE c : Fixed(c)
    BY DEF UnescapeStates, NoOutput, n
  <1>5. Fixed(st)
    <2>. HIDE DEF st, Fixed
    <2>. QED
      BY <1>3, <1>4
  <1>6. \A i \in 0..n : st[i] = IF i = 0 THEN NoOutput ELSE UnescapeStep(st[i - 1], s[i])
    <2>. HIDE DEF st
    <2>. QED
      BY <1>5
  <1>. HIDE DEF st
  <1>7. st[0] = NoOutput /\ \A i \in 1..n : st[i] = UnescapeStep(st[i - 1], s[i])
    BY <1>1, <1>6
  <1>8. \A i \in 0..n : st[i] = f[i]
    <2>1. \A i \in 1..n : st[i - 1] = f[i - 1] => st[i] = f[i]
      BY <1>2, <1>7
    <2>2. st[0] = f[0]
      BY <1>2, <1>7
    <2>. QED
      BY <1>1, <2>1, <2>2, SameSteps, ZenonT(60)
  <1>. QED
    BY <1>2, <1>7, <1>8 DEF n, st

\* What append_string_char has copied, one character at a time.
LEMMA CopySteps ==
    ASSUME text \in Seq(Char), pos \in Nat, 1 <= pos, pos <= Len(text)
    PROVE  /\ \A k \in pos..Len(text) : Copied[k] \in Seq(Char)
           /\ Copied[pos] = <<>>
           /\ \A k \in pos + 1..Len(text) :
                 Copied[k] = IF text[k] = Quote /\ Odd(QuotesTo(k)) THEN Copied[k - 1]
                             ELSE Append(Copied[k - 1], text[k])
  <1>. DEFINE n == Len(text) - pos
              Grow(x, k) == IF text[k] = Quote /\ Odd(QuotesTo(k)) THEN x ELSE Append(x, text[k])
              step == [i \in 1..n |-> [x \in Seq(Char) |-> Grow(x, pos + i)]]
              Fixed(c) == c = [k \in pos..Len(text) |-> IF k = pos THEN <<>> ELSE Grow(c[k - 1], k)]
  <1>1. n \in Nat /\ Len(text) \in Nat /\ <<>> \in Seq(Char) /\ \A k \in 1..Len(text) : text[k] \in Char
    BY ElementOfSeq
  <1>2. \A k \in pos..Len(text) : k - pos \in 0..n /\ pos + (k - pos) = k /\ k \in 1..Len(text)
    BY <1>1
  <1>3. \A i \in 1..n : pos + i \in pos + 1..Len(text) /\ pos + i \in 1..Len(text)
    BY <1>1
  <1>4. n = Len(text) - pos
    OBVIOUS
  <1>. HIDE DEF n
  <1>5. \A k \in 1..Len(text) : \A x \in Seq(Char) : Grow(x, k) \in Seq(Char)
    BY <1>1
  <1>6. PICK f : f \in [0..n -> Seq(Char)] /\ f[0] = <<>> /\ \A i \in 1..n : f[i] = Grow(f[i - 1], pos + i)
    <2>. HIDE DEF Grow
    <2>1. Steps(step, Seq(Char), n)
      BY <1>3, <1>5 DEF Steps
    <2>2. PICK f : Iteration(f, Seq(Char), n, <<>>, step)
      <3>. HIDE DEF step
      <3>. QED
        BY <1>1, <2>1, Iterates
    <2>3. f \in [0..n -> Seq(Char)] /\ f[0] = <<>> /\ \A i \in 1..n : f[i] = step[i][f[i - 1]]
      BY <2>2 DEF Iteration
    <2>4. ASSUME NEW i \in 1..n PROVE f[i] = Grow(f[i - 1], pos + i)
      <3>1. i - 1 \in 0..n
        BY <1>1
      <3>2. f[i - 1] \in Seq(Char)
        BY <2>3, <3>1
      <3>. QED
        BY <2>3, <3>2
    <2>. QED
      BY <2>3, <2>4
  <1>. DEFINE g == [k \in pos..Len(text) |-> f[k - pos]]
  <1>7. Fixed(g)
    <2>. HIDE DEF Grow
    <2>1. ASSUME NEW k \in pos..Len(text) PROVE g[k] = IF k = pos THEN <<>> ELSE Grow(g[k - 1], k)
      <3>1. CASE k = pos
        <4>1. k - pos = 0
          BY <3>1
        <4>. QED
          BY <1>6, <3>1, <4>1
      <3>2. CASE k # pos
        <4>1. k - 1 \in pos..Len(text) /\ k - pos \in 1..n /\ (k - 1) - pos = (k - pos) - 1 /\ pos + (k - pos) = k
          BY <1>1, <1>4, <3>2
        <4>2. f[k - pos] = Grow(f[(k - pos) - 1], pos + (k - pos))
          BY <1>6, <4>1
        <4>3. g[k - 1] = f[(k - pos) - 1] /\ g[k] = f[k - pos]
          BY <4>1
        <4>. HIDE DEF g
        <4>. QED
          BY <3>2, <4>1, <4>2, <4>3
      <3>. QED
        BY <3>1, <3>2
    <2>. QED
      BY <2>1
  <1>8. Copied = CHOOSE c : Fixed(c)
    BY DEF Copied
  <1>9. Fixed(Copied)
    <2>. HIDE DEF Fixed
    <2>. QED
      BY <1>7, <1>8
  <1>10. \A k \in pos..Len(text) : Copied[k] = IF k = pos THEN <<>> ELSE Grow(Copied[k - 1], k)
    <2>. HIDE DEF Grow
    <2>. QED
      BY <1>9
  <1>11. Copied[pos] = <<>> /\ \A k \in pos + 1..Len(text) : Copied[k] = Grow(Copied[k - 1], k)
    <2>. HIDE DEF Grow
    <2>1. pos \in pos..Len(text) /\ \A k \in pos + 1..Len(text) : k \in pos..Len(text) /\ k # pos
      BY <1>1
    <2>. QED
      BY <1>10, <2>1
  <1>. DEFINE T == {i \in Nat : i <= n => Copied[pos + i] \in Seq(Char)}
  <1>12. 0 \in T
    <2>1. pos + 0 = pos
      OBVIOUS
    <2>. QED
      BY <1>1, <1>11, <2>1
  <1>13. ASSUME NEW i \in Nat, i \in T PROVE i + 1 \in T
    <2>. HIDE DEF Grow
    <2>. SUFFICES ASSUME i + 1 <= n PROVE Copied[pos + (i + 1)] \in Seq(Char)
      OBVIOUS
    <2>1. i + 1 \in 1..n /\ (pos + (i + 1)) - 1 = pos + i /\ i <= n
      BY <1>1
    <2>2. Copied[pos + i] \in Seq(Char)
      BY <1>13, <2>1
    <2>3. Copied[pos + (i + 1)] = Grow(Copied[pos + i], pos + (i + 1))
      BY <1>3, <1>11, <2>1
    <2>. QED
      BY <1>3, <1>5, <2>1, <2>2, <2>3
  <1>14. Nat \subseteq T
    <2>. HIDE DEF T
    <2>. QED
      BY <1>12, <1>13, NatInductive
  <1>15. ASSUME NEW k \in pos..Len(text) PROVE Copied[k] \in Seq(Char)
    <2>1. k - pos \in T /\ k - pos <= n
      BY <1>1, <1>2, <1>14
    <2>2. Copied[pos + (k - pos)] \in Seq(Char)
      BY <2>1
    <2>. QED
      BY <1>2, <2>2
  <1>. QED
    BY <1>11, <1>15

-----------------------------------------------------------------------------
(* The lexer's invariant is inductive.                                     *)

\* White space is skipped.
LEMMA SpaceStep ==
    ASSUME LexInv, SkipSpace
    PROVE  LexInv'
  <1>1. /\ lexed = "busy" /\ pos <= Len(text) /\ text[pos] \in Spaces
        /\ pos' = pos + 1 /\ text' = text /\ tokens' = tokens /\ lexed' = lexed
    BY DEF SkipSpace, Here
  <1>2. text \in Seq(Char) /\ Len(text) \in Nat /\ pos \in Nat /\ 1 <= pos
    BY AtCursor
  <1>3. Reading
    BY <1>1 DEF LexInv
  <1>4. \A k \in DOMAIN tokens : GoodToken(tokens[k])'
    BY <1>1, <1>2, <1>3 DEF Reading, GoodToken, IsToken
  <1>5. \A i \in 1..pos' - 1 : i \in 1..pos - 1 \/ i = pos
    BY <1>1, <1>2
  <1>6. Reading'
    BY <1>1, <1>3, <1>4, <1>5 DEF Reading
  <1>7. pos' \in 1..(Len(text') + 1)
    BY <1>1, <1>2
  <1>. QED
    BY <1>1, <1>6, <1>7 DEF LexInv, TokensAreTheText

\* At the end of the text all of it is in the tokens.
LEMMA EndStep ==
    ASSUME LexInv, LexEnd
    PROVE  LexInv'
  <1>. DEFINE eof == [kind |-> "EOF", text |-> <<>>, from |-> pos, to |-> pos]
  <1>1. /\ lexed = "busy" /\ pos > Len(text) /\ pos' = pos /\ text' = text
        /\ tokens' = Append(tokens, eof) /\ lexed' = "ok"
    BY DEF LexEnd
  <1>. HIDE DEF eof
  <1>2. text \in Seq(Char) /\ Len(text) \in Nat /\ pos \in Nat /\ 1 <= pos
    BY AtCursor
  <1>3. PICK S : tokens \in Seq(S)
    BY DEF LexInv
  <1>4. tokens' \in Seq(S \cup {eof}) /\ Front(tokens') = tokens
    <2>1. tokens \in Seq(S \cup {eof}) /\ eof \in S \cup {eof}
      BY <1>3, SeqMonotonic, Zenon
    <2>. DEFINE t == Append(tokens, eof)
                n == Len(tokens)
    <2>2. n \in Nat /\ t \in Seq(S \cup {eof}) /\ Len(t) = n + 1 /\ \A i \in 1..n : t[i] = tokens[i]
      BY <2>1
    <2>. HIDE DEF t
    <2>3. Front(t) = SubSeq(t, 1, n)
      BY <2>2 DEF Front
    <2>4. SubSeq(t, 1, n) \in Seq(S \cup {eof}) /\ Len(SubSeq(t, 1, n)) = n /\ \A i \in 1..n : SubSeq(t, 1, n)[i] = t[i]
      BY <2>2
    <2>. DEFINE u == SubSeq(t, 1, n)
    <2>. HIDE DEF u
    <2>5. u = tokens
      BY <2>1, <2>2, <2>4, SeqEqual DEF u
    <2>. QED
      BY <1>1, <2>2, <2>3, <2>5 DEF t, u
  <1>5. Reading
    BY <1>1 DEF LexInv
  <1>6. \A i \in 1..Len(text) : i \in 1..pos - 1
    BY <1>1, <1>2
  <1>7. \A i \in 1..Len(text) :
           i \in UNION {tokens[k].from..tokens[k].to : k \in DOMAIN tokens} \/ text[i] \in Spaces
    BY <1>5, <1>6, Zenon DEF Reading
  <1>8. \A k \in DOMAIN tokens :
           /\ k > 1 => tokens[k - 1].to < tokens[k].from
           /\ HasForm(tokens[k].kind, SubSeq(text, tokens[k].from, tokens[k].to))
           /\ \A longer \in tokens[k].to + 1..Len(text) :
                 tokens[k].kind \notin Symbols =>
                    ~HasForm(tokens[k].kind, SubSeq(text, tokens[k].from, longer))
    BY <1>5 DEF Reading, GoodToken, IsToken
  <1>9. TokensAreTheText'
    <2>1. Front(tokens)' = tokens
      BY <1>4
    <2>. QED
      BY <1>1, <1>7, <1>8, <2>1 DEF TokensAreTheText
  <1>. QED
    BY <1>1, <1>2, <1>4, <1>9 DEF LexInv

\* Every step of tokenize_sql keeps the invariant.
LEMMA LexStep ==
    ASSUME LexInv, LexNext
    PROVE  LexInv'
  <1>1. CASE LexAllocationFails
    BY <1>1, Failed DEF LexAllocationFails
  <1>. QED
    BY <1>1, SpaceStep, IdentifierStep, NumberStep, LiteralStep, SymbolStep, EndStep DEF LexNext

-----------------------------------------------------------------------------
(* The statement of the client.                                            *)

\* A text behind another.
LEMMA Behind ==
    ASSUME NEW a \in Seq(Char), NEW b \in Seq(Char)
    PROVE  /\ a \o b \in Seq(Char) /\ Len(a \o b) = Len(a) + Len(b)
           /\ \A k \in 1..Len(a) : (a \o b)[k] = a[k]
           /\ \A k \in 1..Len(b) : (a \o b)[Len(a) + k] = b[k]
  OBVIOUS

Prefix == <<"INSERT", "SPACE", "INTO", "SPACE", "a", "SPACE", "VALUES", "LPAREN">>

\* The characters of the statement that are no part of a value.
LEMMA Characters ==
    /\ Prefix \in Seq(Char) /\ Len(Prefix) = 8
    /\ <<"COMMA">> \in Seq(Char) /\ <<"RPAREN">> \in Seq(Char) /\ <<Quote, Quote>> \in Seq(Char)
    /\ Quote \in Char
  <1>1. {"INSERT", "SPACE", "INTO", "a", "VALUES", "LPAREN", "COMMA", "RPAREN", Quote} \subseteq Char
    BY DEF Char, Letters, Keywords, Spaces, Symbols
  <1>. QED
    BY <1>1 DEF Prefix

\* Where the quotes of a literal are.
LEMMA LiteralShape ==
    ASSUME NEW s \in Seq(Char)
    PROVE  LET r == Rewrite([ch \in {Quote} |-> <<Quote, Quote>>], s)
               a == SqlLiteral(s)
           IN  /\ a \in Seq(Char) /\ r \in Seq(Char) /\ Len(r) \in Nat /\ Len(a) = Len(r) + 2
               /\ a[1] = Quote /\ a[Len(r) + 2] = Quote /\ \A k \in 1..Len(r) : a[k + 1] = r[k]
               /\ \E off : Ends(off, [ch \in {Quote} |-> <<Quote, Quote>>], s, r)
  <1>. DEFINE escapes == [ch \in {Quote} |-> <<Quote, Quote>>]
              r == Rewrite(escapes, s)
  <1>1. \A ch \in DOMAIN escapes : escapes[ch] \in Seq(Char)
    BY Characters
  <1>2. r \in Seq(Char) /\ \E off : Ends(off, escapes, s, r)
    <2>. HIDE DEF escapes
    <2>. QED
      BY <1>1, Rewritten
  <1>3. SqlLiteral(s) = <<Quote>> \o r \o <<Quote>>
    BY DEF SqlLiteral
  <1>. HIDE DEF r
  <1>4. LET t == <<Quote>> \o r \o <<Quote>> IN
        /\ t \in Seq(Char) /\ Len(t) = Len(r) + 2 /\ Len(r) \in Nat
        /\ t[1] = Quote /\ t[Len(r) + 2] = Quote
        /\ \A k \in 1..Len(r) : t[k + 1] = r[k]
    BY <1>2, Characters, InQuotes
  <1>. QED
    BY <1>2, <1>3, <1>4 DEF r, escapes

\* The statement the client writes.
LEMMA SqlShape ==
    ASSUME NEW r \in Seq(Char) \X Seq(Char)
    PROVE  LET t == SqlText(r)
               a == SqlLiteral(r[1])
               b == SqlLiteral(r[2])
           IN  /\ t \in Seq(Char) /\ Len(t) = 10 + Len(a) + Len(b)
               /\ \A k \in 1..8 : t[k] = Prefix[k]
               /\ \A k \in 1..Len(a) : t[8 + k] = a[k]
               /\ t[9 + Len(a)] = "COMMA"
               /\ \A k \in 1..Len(b) : t[9 + Len(a) + k] = b[k]
               /\ t[10 + Len(a) + Len(b)] = "RPAREN"
  <1>. DEFINE a == SqlLiteral(r[1])
              b == SqlLiteral(r[2])
              p == Prefix
              q == p \o a
              c == q \o <<"COMMA">>
              d == c \o b
              t == d \o <<"RPAREN">>
  <1>0. SqlText(r) = t
    BY DEF SqlText, Prefix
  <1>1. a \in Seq(Char) /\ b \in Seq(Char) /\ Len(a) \in Nat /\ Len(b) \in Nat
    <2>1. r[1] \in Seq(Char) /\ r[2] \in Seq(Char)
      OBVIOUS
    <2>2. a \in Seq(Char) /\ b \in Seq(Char)
      BY <2>1, LiteralShape
    <2>. QED
      BY <2>2
  <1>. HIDE DEF a, b
  <1>2. p \in Seq(Char) /\ Len(p) = 8 /\ <<"COMMA">> \in Seq(Char) /\ <<"RPAREN">> \in Seq(Char)
    BY Characters
  <1>3. Len(<<"COMMA">>) = 1 /\ <<"COMMA">>[1] = "COMMA" /\ Len(<<"RPAREN">>) = 1 /\ <<"RPAREN">>[1] = "RPAREN"
    OBVIOUS
  <1>. HIDE DEF p
  <1>4. /\ q \in Seq(Char) /\ Len(q) = 8 + Len(a) /\ \A k \in 1..8 : q[k] = p[k]
        /\ \A k \in 1..Len(a) : q[8 + k] = a[k]
    <2>1. /\ q \in Seq(Char) /\ Len(q) = Len(p) + Len(a)
          /\ \A k \in 1..Len(p) : q[k] = p[k]
          /\ \A k \in 1..Len(a) : q[Len(p) + k] = a[k]
      BY <1>1, <1>2, Behind
    <2>. HIDE DEF q
    <2>. QED
      BY <1>1, <1>2, <2>1
  <1>. HIDE DEF q
  <1>5. /\ c \in Seq(Char) /\ Len(c) = 9 + Len(a) /\ c[9 + Len(a)] = "COMMA"
        /\ \A k \in 1..8 + Len(a) : c[k] = q[k]
    <2>1. /\ c \in Seq(Char) /\ Len(c) = Len(q) + Len(<<"COMMA">>)
          /\ \A k \in 1..Len(q) : c[k] = q[k]
          /\ \A k \in 1..Len(<<"COMMA">>) : c[Len(q) + k] = <<"COMMA">>[k]
      BY <1>2, <1>4, Behind
    <2>. HIDE DEF c
    <2>2. 1 \in 1..1 /\ Len(q) + 1 = 9 + Len(a)
      BY <1>1, <1>4
    <2>. QED
      BY <1>3, <1>4, <2>1, <2>2
  <1>. HIDE DEF c
  <1>6. /\ d \in Seq(Char) /\ Len(d) = 9 + Len(a) + Len(b)
        /\ \A k \in 1..9 + Len(a) : d[k] = c[k]
        /\ \A k \in 1..Len(b) : d[9 + Len(a) + k] = b[k]
    <2>1. /\ d \in Seq(Char) /\ Len(d) = Len(c) + Len(b)
          /\ \A k \in 1..Len(c) : d[k] = c[k]
          /\ \A k \in 1..Len(b) : d[Len(c) + k] = b[k]
      BY <1>1, <1>5, Behind
    <2>. HIDE DEF d
    <2>. QED
      BY <1>1, <1>5, <2>1
  <1>. HIDE DEF d
  <1>7. /\ t \in Seq(Char) /\ Len(t) = 10 + Len(a) + Len(b) /\ t[10 + Len(a) + Len(b)] = "RPAREN"
        /\ \A k \in 1..9 + Len(a) + Len(b) : t[k] = d[k]
    <2>1. /\ t \in Seq(Char) /\ Len(t) = Len(d) + Len(<<"RPAREN">>)
          /\ \A k \in 1..Len(d) : t[k] = d[k]
          /\ \A k \in 1..Len(<<"RPAREN">>) : t[Len(d) + k] = <<"RPAREN">>[k]
      BY <1>2, <1>6, Behind, ZenonT(60)
    <2>. HIDE DEF t
    <2>2. 1 \in 1..1 /\ Len(d) + 1 = 10 + Len(a) + Len(b)
      BY <1>1, <1>6
    <2>3. Len(t) = 10 + Len(a) + Len(b)
      BY <1>1, <1>3, <1>6, <2>1
    <2>. QED
      BY <1>3, <1>6, <2>1, <2>2, <2>3
  <1>. HIDE DEF t
  <1>8. /\ \A k \in 1..8 : k \in 1..8 + Len(a) /\ k \in 1..9 + Len(a) /\ k \in 1..9 + Len(a) + Len(b)
        /\ \A k \in 1..Len(a) : 8 + k \in 1..8 + Len(a) /\ 8 + k \in 1..9 + Len(a) /\ 8 + k \in 1..9 + Len(a) + Len(b)
        /\ 9 + Len(a) \in 1..9 + Len(a) /\ 9 + Len(a) \in 1..9 + Len(a) + Len(b)
        /\ \A k \in 1..Len(b) : 9 + Len(a) + k \in 1..9 + Len(a) + Len(b)
    BY <1>1
  <1>9. \A k \in 1..8 : t[k] = p[k]
    BY <1>4, <1>5, <1>6, <1>7, <1>8, SMTT(30)
  <1>10. \A k \in 1..Len(a) : t[8 + k] = a[k]
    BY <1>4, <1>5, <1>6, <1>7, <1>8, SMTT(30)
  <1>11. t[9 + Len(a)] = "COMMA" /\ \A k \in 1..Len(b) : t[9 + Len(a) + k] = b[k]
    BY <1>5, <1>6, <1>7, <1>8
  <1>. QED
    BY <1>0, <1>7, <1>9, <1>10, <1>11 DEF a, b, p

\* The literal that the client wrote for v is at the cursor.
AtLiteral(v) ==
    LET lit == SqlLiteral(v) IN
    /\ pos + Len(lit) - 1 <= Len(text)
    /\ \A k \in 1..Len(lit) : text[pos + k - 1] = lit[k]
    /\ ~IsAt({Quote}, pos + Len(lit))

\* Such a literal is read to its end, and not further, and the value is copied.
LEMMA LiteralRead ==
    ASSUME LexInv, NEW v \in Seq(Char), AtLiteral(v)
    PROVE  /\ Here({Quote}) /\ Closing # {} /\ Min(Closing) = pos + Len(SqlLiteral(v)) - 1
           /\ Copied[Min(Closing) - 1] = v
  <1>. DEFINE escapes == [ch \in {Quote} |-> <<Quote, Quote>>]
              r == Rewrite(escapes, v)
              a == SqlLiteral(v)
              n == Len(r)
              last == pos + n + 1
  <1>1. text \in Seq(Char) /\ Len(text) \in Nat /\ pos \in Nat /\ 1 <= pos
    BY AtCursor
  <1>2. /\ a \in Seq(Char) /\ r \in Seq(Char) /\ n \in Nat /\ Len(a) = n + 2
        /\ a[1] = Quote /\ a[n + 2] = Quote /\ \A k \in 1..n : a[k + 1] = r[k]
    BY LiteralShape
  <1>3. PICK off : Ends(off, escapes, v, r)
    BY LiteralShape
  <1>4. /\ off \in [0..Len(v) -> Nat] /\ off[0] = 0 /\ off[Len(v)] = n
        /\ \A i \in 1..Len(v) :
              /\ off[i] = off[i - 1] + Len(Word(escapes, v[i])) /\ off[i] <= n
              /\ \A k \in 1..Len(Word(escapes, v[i])) : r[off[i - 1] + k] = Word(escapes, v[i])[k]
    <2>. HIDE DEF escapes, r
    <2>. QED
      BY <1>3, Zenon DEF Ends
  <1>5. /\ pos + (n + 2) - 1 <= Len(text) /\ \A k \in 1..(n + 2) : text[pos + k - 1] = a[k]
        /\ ~IsAt({Quote}, pos + (n + 2))
    <2>. HIDE DEF a, r
    <2>. QED
      BY <1>2 DEF AtLiteral, a
  <1>6. Len(v) \in Nat
    OBVIOUS
  <1>. HIDE DEF a, r, n
  <1>7. /\ text[pos] = Quote /\ text[last] = Quote /\ last \in Nat /\ pos < last /\ last <= Len(text)
        /\ ~IsAt({Quote}, last + 1) /\ pos <= Len(text)
    <2>1. 1 \in 1..(n + 2) /\ n + 2 \in 1..(n + 2) /\ pos + 1 - 1 = pos /\ pos + (n + 2) - 1 = last
          /\ pos + (n + 2) = last + 1 /\ last \in Nat /\ pos < last
      BY <1>1, <1>2
    <2>2. text[pos] = Quote /\ text[last] = Quote
      BY <1>2, <1>5, <2>1
    <2>3. last <= Len(text) /\ ~IsAt({Quote}, last + 1)
      BY <1>5, <2>1
    <2>. HIDE DEF last
    <2>4. pos <= Len(text)
      BY <1>1, <2>1, <2>3
    <2>. QED
      BY <2>1, <2>2, <2>3, <2>4
  <1>8. ASSUME NEW k \in 1..n PROVE text[pos + k] = r[k]
    <2>1. k + 1 \in 1..(n + 2) /\ pos + (k + 1) - 1 = pos + k
      BY <1>1, <1>2
    <2>. QED
      BY <1>2, <1>5, <2>1
  <1>9. /\ Copied[pos] = <<>>
        /\ \A k \in pos + 1..Len(text) :
              Copied[k] = IF text[k] = Quote /\ Odd(QuotesTo(k)) THEN Copied[k - 1]
                          ELSE Append(Copied[k - 1], text[k])
    BY <1>1, <1>7, CopySteps
  \* One character of the text.
  <1>10. ASSUME NEW k \in Nat, pos <= k, k + 1 <= Len(text)
         PROVE  /\ k + 1 \in pos + 1..Len(text) /\ (k + 1) - 1 = k
                /\ Even(k + 1) <=> IF text[k + 1] = Quote THEN ~Even(k) ELSE Even(k)
                /\ Odd(QuotesTo(k + 1)) <=> ~Even(k + 1)
    BY <1>1, <1>10, NextQuote, QuotesCounted
  <1>. DEFINE M == {i \in Nat : i <= Len(v) =>
                      /\ Even(pos + off[i]) /\ Copied[pos + off[i]] = SubSeq(v, 1, i)
                      /\ \A k \in pos + 1..pos + off[i] : k \notin Closing}
  <1>11. 0 \in M
    <2>1. SubSeq(v, 1, 0) = <<>>
      OBVIOUS
    <2>2. pos + off[0] = pos /\ Even(pos)
      BY <1>1, <1>4, QuotesCounted
    <2>3. \A k \in pos + 1..pos : FALSE
      BY <1>1
    <2>. QED
      BY <1>9, <2>1, <2>2, <2>3
  <1>12. ASSUME NEW i \in Nat, i \in M PROVE i + 1 \in M
    <2>. SUFFICES ASSUME i + 1 <= Len(v)
                  PROVE  /\ Even(pos + off[i + 1]) /\ Copied[pos + off[i + 1]] = SubSeq(v, 1, i + 1)
                         /\ \A k \in pos + 1..pos + off[i + 1] : k \notin Closing
      OBVIOUS
    <2>. DEFINE ch == v[i + 1]
                w == Word(escapes, ch)
    <2>1. /\ i + 1 \in 1..Len(v) /\ (i + 1) - 1 = i /\ i \in 0..Len(v) /\ i <= Len(v)
      BY <1>6
    <2>2. PICK o \in Nat : o = off[i]
      BY <1>4, <2>1
    <2>3. /\ off[i + 1] = o + Len(w) /\ o + Len(w) <= n
          /\ \A k \in 1..Len(w) : r[o + k] = w[k]
      BY <1>4, <2>1, <2>2
    <2>4. Append(SubSeq(v, 1, i), ch) = SubSeq(v, 1, i + 1)
      BY <2>1, LongerPrefix
    <2>. DEFINE c == pos + o
    <2>5. /\ Even(c) /\ Copied[c] = SubSeq(v, 1, i)
          /\ \A k \in pos + 1..c : k \notin Closing
      BY <1>12, <2>1, <2>2
    <2>6. c \in Nat /\ pos <= c
      BY <1>1
    <2>7. CASE ch = Quote
      <3>1. w = <<Quote, Quote>>
        BY <2>7 DEF Word
      <3>2. Len(w) = 2 /\ w[1] = Quote /\ w[2] = Quote
        BY <3>1
      <3>. HIDE DEF w, ch
      <3>3. o + 1 \in 1..n /\ o + 2 \in 1..n /\ pos + (o + 1) = c + 1 /\ pos + (o + 2) = (c + 1) + 1
            /\ pos + off[i + 1] = (c + 1) + 1 /\ (c + 1) + 1 <= Len(text) /\ c + 1 <= Len(text)
            /\ c + 1 \in Nat /\ pos <= c + 1
        BY <1>1, <1>2, <1>7, <2>3, <2>6, <3>2
      <3>4. text[c + 1] = Quote /\ text[(c + 1) + 1] = Quote
        <4>1. text[pos + (o + 1)] = r[o + 1] /\ text[pos + (o + 2)] = r[o + 2]
          BY <1>8, <3>3
        <4>2. r[o + 1] = Quote /\ r[o + 2] = Quote
          BY <2>3, <3>2
        <4>. QED
          BY <3>3, <4>1, <4>2
      <3>. HIDE DEF c
      <3>5. /\ ~Even(c + 1) /\ Odd(QuotesTo(c + 1))
            /\ Even((c + 1) + 1) /\ ~Odd(QuotesTo((c + 1) + 1))
        BY <1>10, <2>5, <2>6, <3>3, <3>4
      <3>6. Copied[c + 1] = Copied[c]
        BY <1>9, <1>10, <2>6, <3>3, <3>4, <3>5
      <3>7. Copied[(c + 1) + 1] = Append(Copied[c + 1], Quote)
        BY <1>9, <1>10, <3>3, <3>4, <3>5, ZenonT(60)
      <3>8. Copied[(c + 1) + 1] = SubSeq(v, 1, i + 1)
        BY <2>4, <2>5, <2>7, <3>6, <3>7
      <3>9. c + 1 \notin Closing /\ (c + 1) + 1 \notin Closing
        BY <3>3, <3>4, <3>5 DEF Closing, IsAt
      <3>10. \A k \in pos + 1..(c + 1) + 1 : k \in pos + 1..c \/ k = c + 1 \/ k = (c + 1) + 1
        BY <1>1, <2>6
      <3>. QED
        BY <2>5, <3>3, <3>5, <3>8, <3>9, <3>10
    <2>8. CASE ch # Quote
      <3>1. w = <<ch>>
        BY <2>8 DEF Word
      <3>2. Len(w) = 1 /\ w[1] = ch
        BY <3>1
      <3>. HIDE DEF w, ch
      <3>3. o + 1 \in 1..n /\ pos + (o + 1) = c + 1 /\ pos + off[i + 1] = c + 1 /\ c + 1 <= Len(text)
        BY <1>1, <1>2, <1>7, <2>3, <2>6, <3>2
      <3>4. text[c + 1] = ch
        <4>1. text[pos + (o + 1)] = r[o + 1]
          BY <1>8, <3>3
        <4>2. r[o + 1] = ch
          BY <2>3, <3>2
        <4>. QED
          BY <3>3, <4>1, <4>2
      <3>. HIDE DEF c
      <3>5. Even(c + 1)
        BY <1>10, <2>5, <2>6, <2>8, <3>3, <3>4
      <3>6. Copied[c + 1] = Append(Copied[c], ch)
        BY <1>9, <1>10, <2>6, <2>8, <3>3, <3>4
      <3>7. c + 1 \notin Closing
        BY <2>8, <3>4 DEF Closing
      <3>8. \A k \in pos + 1..c + 1 : k \in pos + 1..c \/ k = c + 1
        BY <1>1, <2>6
      <3>. QED
        BY <2>4, <2>5, <3>3, <3>5, <3>6, <3>7, <3>8
    <2>. QED
      BY <2>7, <2>8
  <1>13. Nat \subseteq M
    <2>. HIDE DEF M
    <2>. QED
      BY <1>11, <1>12, NatInductive
  <1>14. /\ Even(pos + n) /\ Copied[pos + n] = v /\ \A k \in pos + 1..pos + n : k \notin Closing
    <2>1. SubSeq(v, 1, Len(v)) = v
      OBVIOUS
    <2>2. Len(v) \in M
      BY <1>6, <1>13
    <2>. QED
      BY <1>4, <1>6, <2>1, <2>2
  <1>15. last \in Closing
    <2>1. pos + n \in Nat /\ pos <= pos + n /\ (pos + n) + 1 = last /\ last \in pos + 1..Len(text)
      BY <1>1, <1>2, <1>7
    <2>2. Odd(QuotesTo(last))
      BY <1>7, <1>10, <1>14, <2>1
    <2>. HIDE DEF last
    <2>. QED
      BY <1>7, <2>1, <2>2 DEF Closing
  <1>16. ASSUME NEW y \in Closing PROVE last <= y
    <2>1. y \in pos + 1..Len(text) /\ y \notin pos + 1..pos + n
      BY <1>14 DEF Closing
    <2>. QED
      BY <1>1, <1>2, <2>1
  <1>17. Min(Closing) = last
    <2>1. Closing \subseteq Nat
      BY <1>1 DEF Closing
    <2>2. \E x \in Closing : \A y \in Closing : x <= y
      BY <1>15, <1>16
    <2>3. Min(Closing) \in Closing /\ \A y \in Closing : Min(Closing) <= y
      BY <2>2 DEF Min
    <2>. DEFINE m == Min(Closing)
    <2>. HIDE DEF m, last
    <2>4. m \in Nat /\ m <= last /\ last <= m /\ last \in Nat
      BY <1>15, <1>16, <2>1, <2>3 DEF m
    <2>. QED
      BY <2>4 DEF m
  <1>18. last - 1 = pos + n /\ last = pos + Len(a) - 1
    BY <1>1, <1>2
  <1>19. Here({Quote})
    BY <1>7 DEF Here
  <1>. QED
    BY <1>14, <1>15, <1>17, <1>18, <1>19 DEF a

-----------------------------------------------------------------------------
(* What the server makes of the client's JSON.                             *)

\* The server reads every escape of the client but the one for a control character.
LEMMA ServerTables ==
    /\ Tables(ClientEscapes, ServerLetters)
    /\ \A ch \in Char : ch # "CTRL" => Readable(ClientEscapes, ServerLetters, ch)
    /\ "CTRL" \in DOMAIN ClientEscapes /\ ClientEscapes["CTRL"] = <<"BSL", "u0001">>
    /\ "u0001" \notin DOMAIN ServerLetters
  <1>. DEFINE special == {"DQ", "BSL", "LF", "CR", "TAB", "CTRL"}
  <1>1. \A ch \in DOMAIN ServerLetters : ServerLetters[ch] \in Char
    BY DEF ServerLetters, JsonCharacter, Char, Letters, Spaces
  <1>2. \A ch \in DOMAIN ClientEscapes : ClientEscapes[ch] \in Seq(Char)
    <2>1. \A ch \in special : JsonLetter(ch) \in Char
      BY DEF JsonLetter, Char, Letters
    <2>2. \A x \in Char : <<"BSL", x>> \in Seq(Char)
      <3>1. "BSL" \in Char
        BY DEF Char
      <3>. QED
        BY <3>1
    <2>. QED
      BY <2>1, <2>2 DEF ClientEscapes
  <1>3. ASSUME NEW ch \in Char, ch # "CTRL" PROVE Readable(ClientEscapes, ServerLetters, ch)
    <2>1. CASE ch \in special
      <3>1. JsonLetter(ch) \in {"DQ", "BSL", "n", "r", "t"} /\ JsonCharacter(JsonLetter(ch)) = ch
        BY <1>3, <2>1 DEF JsonLetter, JsonCharacter
      <3>2. JsonLetter(ch) \in DOMAIN ServerLetters /\ ServerLetters[JsonLetter(ch)] = ch
        BY <3>1 DEF ServerLetters
      <3>3. ch \in DOMAIN ClientEscapes /\ ClientEscapes[ch] = <<"BSL", JsonLetter(ch)>>
        BY <2>1 DEF ClientEscapes
      <3>. QED
        BY <3>2, <3>3 DEF Readable
    <2>2. CASE ch \notin special
      BY <2>2 DEF Readable, Controls, ClientEscapes
    <2>. QED
      BY <2>1, <2>2
  <1>4. "CTRL" \in DOMAIN ClientEscapes /\ ClientEscapes["CTRL"] = <<"BSL", "u0001">>
    BY DEF ClientEscapes, JsonLetter
  <1>5. "u0001" \notin DOMAIN ServerLetters
    BY DEF ServerLetters
  <1>. QED
    BY <1>1, <1>2, <1>3, <1>4, <1>5 DEF Tables

\* parse_json_string reads what the client wrote, but for the escape of a control
\* character without a letter, which it refuses.
LEMMA ServerReads ==
    ASSUME NEW s \in Seq(Char)
    PROVE  IF \A i \in 1..Len(s) : s[i] # "CTRL"
             THEN ParseJsonString(ClientEncodes(s)) = [state |-> "closed", out |-> s]
             ELSE ParseJsonString(ClientEncodes(s)).state = "error"
  <1>0. ClientEncodes(s) = InJson(ClientEscapes, s)
    BY DEF ClientEncodes, InJson
  <1>1. Len(s) \in Nat /\ \A i \in 1..Len(s) : s[i] \in Char
    BY ElementOfSeq
  <1>2. CASE \A i \in 1..Len(s) : s[i] # "CTRL"
    <2>1. StringLoop(ServerLetters, InJson(ClientEscapes, s)) = [state |-> "closed", out |-> s]
      BY <1>1, <1>2, ServerTables, ReadBack
    <2>. QED
      BY <1>0, <1>2, <2>1 DEF ParseJsonString
  <1>3. CASE ~\A i \in 1..Len(s) : s[i] # "CTRL"
    <2>. DEFINE B == {i \in 1..Len(s) : s[i] = "CTRL"}
    <2>1. B \subseteq Nat /\ B # {}
      BY <1>3
    <2>2. PICK i \in B : \A y \in B : i <= y
      BY <2>1, NatMin
    <2>3. i \in 1..Len(s) /\ s[i] = "CTRL" /\ i - 1 \in Nat /\ i - 1 <= Len(s)
          /\ \A j \in 1..i - 1 : j \in 1..Len(s) /\ s[j] # "CTRL"
      BY <1>1, <2>2
    <2>. DEFINE r == Rewrite(ClientEscapes, s)
                t == InJson(ClientEscapes, s)
                st == StringStates(ServerLetters, t)
    <2>4. r \in Seq(Char)
      BY Rewritten, ServerTables DEF Tables
    <2>5. PICK off : Ends(off, ClientEscapes, s, r)
      BY Rewritten, ServerTables DEF Tables
    <2>6. /\ t \in Seq(Char) /\ Len(t) = Len(r) + 2 /\ Len(r) \in Nat
          /\ \A k \in 1..Len(r) : t[k + 1] = r[k]
      <3>1. "DQ" \in Char
        BY DEF Char
      <3>. HIDE DEF r
      <3>2. t = <<"DQ">> \o r \o <<"DQ">>
        BY DEF InJson, r
      <3>. HIDE DEF t
      <3>. QED
        BY <2>4, <3>1, <3>2, InQuotes
    <2>7. \A j \in 1..i - 1 : Readable(ClientEscapes, ServerLetters, s[j])
      BY <1>1, <2>3, ServerTables
    <2>8. st[off[i - 1] + 1] = [state |-> "open", out |-> SubSeq(s, 1, i - 1)]
      BY <2>3, <2>5, <2>7, ServerTables, ReadSoFar, SMTT(30)
    <2>9. /\ off \in [0..Len(s) -> Nat]
          /\ off[i] = off[i - 1] + Len(Word(ClientEscapes, s[i])) /\ off[i] <= Len(r)
          /\ \A k \in 1..Len(Word(ClientEscapes, s[i])) : r[off[i - 1] + k] = Word(ClientEscapes, s[i])[k]
      <3>. HIDE DEF r
      <3>. QED
        BY <2>3, <2>5, Zenon DEF Ends
    <2>10. Word(ClientEscapes, s[i]) = <<"BSL", "u0001">>
      BY <2>3, ServerTables DEF Word
    <2>. HIDE DEF r, t
    <2>11. PICK a \in Nat : a = off[i - 1]
      <3>1. i - 1 \in 0..Len(s)
        BY <1>1, <2>3
      <3>. QED
        BY <2>9, <3>1
    <2>12. /\ a + 2 <= Len(r) /\ r[a + 1] = "BSL" /\ r[a + 2] = "u0001"
      BY <2>9, <2>10, <2>11
    <2>13. /\ a + 1 \in 1..Len(r) /\ a + 2 \in 1..Len(r)
           /\ a + 2 \in 2..Len(t) /\ a + 3 \in 2..Len(t) /\ (a + 2) - 1 = a + 1 /\ (a + 3) - 1 = a + 2
           /\ (a + 1) + 1 = a + 2 /\ (a + 2) + 1 = a + 3
      BY <2>6, <2>12
    <2>14. t[a + 2] = "BSL" /\ t[a + 3] = "u0001"
      BY <2>6, <2>12, <2>13
    <2>15. \A k \in 2..Len(t) : st[k] = StringStep(ServerLetters, st[k - 1], t[k])
      BY <2>6, ServerTables, StringLoopSteps DEF Tables
    <2>. HIDE DEF st
    <2>. DEFINE so == SubSeq(s, 1, i - 1)
    <2>16. st[a + 1] = [state |-> "open", out |-> so]
      BY <2>8, <2>11
    <2>. HIDE DEF so
    <2>17. st[a + 2] = StringStep(ServerLetters, [state |-> "open", out |-> so], "BSL")
      BY <2>13, <2>14, <2>15, <2>16
    <2>18. StringStep(ServerLetters, [state |-> "open", out |-> so], "BSL") = [state |-> "escape", out |-> so]
      BY DEF StringStep, Controls
    <2>19. st[a + 3] = StringStep(ServerLetters, [state |-> "escape", out |-> so], "u0001")
      BY <2>13, <2>14, <2>15, <2>17, <2>18
    <2>20. StringStep(ServerLetters, [state |-> "escape", out |-> so], "u0001").state = "error"
      BY ServerTables DEF StringStep
    <2>21. st[a + 3].state = "error"
      BY <2>19, <2>20
    \* There is no way out of the error.
    <2>. DEFINE M == {d \in Nat : a + 3 + d <= Len(t) => st[a + 3 + d].state = "error"}
    <2>22. 0 \in M
      <3>1. a + 3 + 0 = a + 3
        OBVIOUS
      <3>. QED
        BY <2>21, <3>1
    <2>23. ASSUME NEW d \in Nat, d \in M PROVE d + 1 \in M
      <3>. SUFFICES ASSUME a + 3 + (d + 1) <= Len(t) PROVE st[a + 3 + (d + 1)].state = "error"
        OBVIOUS
      <3>. DEFINE k == a + 3 + (d + 1)
      <3>1. k \in 2..Len(t) /\ k - 1 = a + 3 + d /\ a + 3 + d <= Len(t)
        BY <2>6
      <3>2. st[a + 3 + d].state = "error"
        BY <2>23, <3>1
      <3>3. st[k] = StringStep(ServerLetters, st[a + 3 + d], t[k])
        BY <2>15, <3>1
      <3>. DEFINE x == st[a + 3 + d]
      <3>. HIDE DEF k, x
      <3>4. x.state = "error" => StringStep(ServerLetters, x, t[k]) = x
        BY DEF StringStep
      <3>. QED
        BY <3>2, <3>3, <3>4 DEF x, k
    <2>24. Nat \subseteq M
      <3>. HIDE DEF M
      <3>. QED
        BY <2>22, <2>23, NatInductive
    <2>. DEFINE e == Len(t) - (a + 3)
    <2>25. e \in Nat /\ a + 3 + e = Len(t)
      BY <2>6, <2>13
    <2>26. e \in M
      BY <2>24, <2>25
    <2>. HIDE DEF e
    <2>27. st[Len(t)].state = "error"
      BY <2>6, <2>25, <2>26
    <2>. QED
      BY <1>0, <1>3, <2>27 DEF ParseJsonString, StringLoop, st, t
  <1>. QED
    BY <1>2, <1>3

-----------------------------------------------------------------------------
(* The request of a client.                                                *)

\* What becomes of the request of a client that sends a row.
SentInv ==
    entry = "api" =>
        /\ want # "done" =>
              /\ Len(body) >= 2 => body[2] = "sql"
              /\ found = IF Len(body) >= 4 THEN 4 ELSE 0
              /\ Len(body) >= 4 => ParseJsonString(Sent).state = "closed"
        /\ want = "done" =>
              \/ verdict = "internal"
              \/ verdict = "ok" /\ ParseJsonString(Sent).state = "closed"
              \/ verdict = "invalid" /\ ParseJsonString(Sent).state # "closed"

\* The parser reads the request of the client to its end.
LEMMA SentStep ==
    ASSUME JsonInv, RowInv, SentInv, entry = "api", want # "done", JsonStep(RowBody[At]),
           UNCHANGED <<entry, value>>
    PROVE  SentInv'
  <1>. DEFINE closed == ParseJsonString(Sent).state = "closed"
  <1>1. PICK n \in 0..5 : n = Len(body) /\ want = RowPlaces[n + 1] /\ At = n + 1
    BY DEF RowInv, At
  <1>2. /\ RowBody[1] = "LBRACE" /\ RowBody[2] = "sql" /\ RowBody[3] = "COLON" /\ RowBody[5] = "RBRACE"
        /\ RowBody[4] = (IF closed THEN "other" ELSE "badString") /\ RowBody[6] = "end"
    BY DEF RowBody
  <1>3. /\ RowPlaces[1] = "object" /\ RowPlaces[2] = "first" /\ RowPlaces[3] = "colon"
        /\ RowPlaces[4] = "value" /\ RowPlaces[5] = "after" /\ RowPlaces[6] = "end"
    BY DEF RowPlaces
  <1>4. /\ Len(body') = n + 1 /\ body'[n + 1] = RowBody[n + 1] /\ \A i \in 1..n : body'[i] = body[i]
    <2>1. body' = Append(body, RowBody[At]) /\ body \in Seq(Lexemes) /\ RowBody[At] \in Lexemes
      BY RowStep DEF JsonInv, JsonStep, OpenObject, ReadKey, ReadColon, ReadValue, AfterValue, CloseObject, Consume
    <2>. QED
      BY <1>1, <2>1
  <1>5. closed' <=> closed
    BY DEF Sent
  <1>6. /\ n >= 2 => body[2] = "sql"
        /\ found = IF n >= 4 THEN 4 ELSE 0
        /\ n >= 4 => closed
    BY <1>1 DEF SentInv
  <1>7. want \in Places /\ entry' = entry
    BY DEF JsonInv
  <1>. HIDE DEF closed
  <1>8. SUFFICES /\ want' # "done" =>
                    /\ Len(body') >= 2 => body'[2] = "sql"
                    /\ found' = IF Len(body') >= 4 THEN 4 ELSE 0
                    /\ Len(body') >= 4 => closed
                 /\ want' = "done" =>
                    \/ verdict' = "internal"
                    \/ verdict' = "ok" /\ closed
                    \/ verdict' = "invalid" /\ ~closed
    BY <1>5 DEF SentInv, closed
  <1>. USE DEF JsonStep, OpenObject, ReadKey, ReadColon, ReadValue, AfterValue, CloseObject, Expect, GiveUp,
               KeepValue, Strings
  <1>9. CASE n = 0
    <2>1. want' = "first" /\ found' = found
      BY <1>1, <1>2, <1>3, <1>9
    <2>. QED
      BY <1>4, <1>6, <1>9, <2>1
  <1>10. CASE n = 1
    <2>1. want' = "colon" /\ found' = found
      BY <1>1, <1>2, <1>3, <1>10
    <2>. QED
      BY <1>2, <1>4, <1>6, <1>10, <2>1
  <1>11. CASE n = 2
    <2>1. want' = "value" /\ found' = found
      BY <1>1, <1>2, <1>3, <1>11
    <2>. QED
      BY <1>4, <1>6, <1>11, <2>1
  <1>12. CASE n = 3
    <2>1. KeyIsSql /\ found = 0
      BY <1>1, <1>6, <1>12 DEF KeyIsSql
    <2>2. CASE closed
      <3>1. want' = "after" /\ found' = 4
        BY <1>1, <1>2, <1>3, <1>12, <2>1, <2>2
      <3>. QED
        BY <1>4, <1>6, <1>12, <2>2, <3>1
    <2>3. CASE ~closed
      <3>1. want' = "done" /\ verdict' = "invalid"
        BY <1>1, <1>2, <1>3, <1>12, <2>3
      <3>. QED
        BY <2>3, <3>1
    <2>. QED
      BY <2>2, <2>3
  <1>13. CASE n = 4
    <2>1. want' = "end" /\ found' = found
      BY <1>1, <1>2, <1>3, <1>13
    <2>. QED
      BY <1>4, <1>6, <1>13, <2>1
  <1>14. CASE n = 5
    <2>1. want' = "done" /\ verdict' = "ok"
      BY <1>1, <1>2, <1>3, <1>6, <1>14
    <2>. QED
      BY <1>6, <1>14, <2>1
  <1>. QED
    BY <1>9, <1>10, <1>11, <1>12, <1>13, <1>14

\* The invariant of the request.
LEMMA SentInvHolds == Spec => []SentInv
  <1>1. Init => SentInv
    <2>. SUFFICES ASSUME Init PROVE SentInv
      OBVIOUS
    <2>1. body = <<>> /\ want = "object" /\ found = 0
      BY DEF Init, JsonInit
    <2>2. Len(body) = 0
      BY <2>1
    <2>. QED
      BY <2>1, <2>2 DEF SentInv
  <1>2. JsonInv /\ RowInv /\ SentInv /\ [Next]_vars => SentInv'
    <2>. SUFFICES ASSUME JsonInv, RowInv, SentInv, [Next]_vars PROVE SentInv'
      OBVIOUS
    <2>1. CASE UNCHANGED <<jsonVars, entry, value>>
      <3>1. Sent' = Sent
        BY <2>1 DEF Sent
      <3>. QED
        BY <2>1, <3>1 DEF jsonVars, SentInv
    <2>2. CASE ExtractField
      <3>1. want # "done" /\ UNCHANGED <<entry, value>>
        BY <2>2 DEF ExtractField, pathVars
      <3>2. CASE JsonAllocationFails
        <4>1. want' = "done" /\ verdict' = "internal"
          BY <3>2 DEF JsonAllocationFails, GiveUp
        <4>. QED
          BY <4>1 DEF SentInv
      <3>3. CASE entry = "api" /\ JsonStep(RowBody[At])
        BY <3>1, <3>3, SentStep
      <3>4. CASE entry # "api"
        BY <3>1, <3>4 DEF SentInv
      <3>. QED
        BY <2>2, <3>2, <3>3, <3>4 DEF ExtractField
    <2>. QED
      BY Zenon, <2>1, <2>2 DEF Next, LeaveJson, Tokenize, Insert, Select, ReadRow, ScanEnd, Respond, UseTable, Finished,
                               vars, pathVars
  <1>. QED
    BY <1>1, <1>2, JsonInvHolds, PTL DEF Spec

-----------------------------------------------------------------------------
(* Which characters a decoded statement can have.                          *)

\* Rewriting stays in a set of characters that the escapes are in.
LEMMA RewrittenOver ==
    ASSUME NEW C, NEW s \in Seq(C), NEW escapes, \A ch \in DOMAIN escapes : escapes[ch] \in Seq(C)
    PROVE  Rewrite(escapes, s) \in Seq(C)
  <1>. DEFINE q == [i \in DOMAIN s |-> Word(escapes, s[i])]
  <1>1. Len(s) \in Nat /\ DOMAIN s = 1..Len(s) /\ \A i \in 1..Len(s) : s[i] \in C
    BY ElementOfSeq
  <1>2. \A i \in 1..Len(s) : Word(escapes, s[i]) \in Seq(C)
    <2>. SUFFICES ASSUME NEW i \in 1..Len(s) PROVE Word(escapes, s[i]) \in Seq(C)
      OBVIOUS
    <2>1. <<s[i]>> \in Seq(C)
      BY <1>1
    <2>. QED
      BY <2>1 DEF Word
  <1>3. q \in Seq(Seq(C))
    <2>1. q = [i \in 1..Len(s) |-> Word(escapes, s[i])]
      BY <1>1
    <2>. QED
      BY <1>1, <1>2, <2>1
  <1>4. Rewrite(escapes, s) = FlattenSeq(q)
    BY DEF Rewrite, Word
  <1>. HIDE DEF q
  <1>. QED
    BY <1>3, <1>4, Concatenated

\* The characters of the statement are those of the values, and a few more.
LEMMA SqlOver ==
    ASSUME NEW C, NEW r \in Seq(C) \X Seq(C),
           {"INSERT", "SPACE", "INTO", "a", "VALUES", "LPAREN", "COMMA", "RPAREN", Quote} \subseteq C
    PROVE  SqlText(r) \in Seq(C)
  <1>1. \A s \in Seq(C) : SqlLiteral(s) \in Seq(C)
    <2>. SUFFICES ASSUME NEW s \in Seq(C) PROVE SqlLiteral(s) \in Seq(C)
      OBVIOUS
    <2>. DEFINE escapes == [ch \in {Quote} |-> <<Quote, Quote>>]
                w == Rewrite(escapes, s)
    <2>1. \A ch \in DOMAIN escapes : escapes[ch] \in Seq(C)
      OBVIOUS
    <2>2. w \in Seq(C)
      <3>. HIDE DEF escapes
      <3>. QED
        BY <2>1, RewrittenOver
    <2>3. SqlLiteral(s) = <<Quote>> \o w \o <<Quote>> /\ <<Quote>> \in Seq(C)
      BY DEF SqlLiteral
    <2>. HIDE DEF w
    <2>. QED
      BY <2>2, <2>3
  <1>. DEFINE a == SqlLiteral(r[1])
              b == SqlLiteral(r[2])
  <1>2. a \in Seq(C) /\ b \in Seq(C)
    <2>1. r[1] \in Seq(C) /\ r[2] \in Seq(C)
      OBVIOUS
    <2>. QED
      BY <1>1, <2>1
  <1>3. Prefix \in Seq(C) /\ <<"COMMA">> \in Seq(C) /\ <<"RPAREN">> \in Seq(C)
    BY DEF Prefix
  <1>4. SqlText(r) = Prefix \o a \o <<"COMMA">> \o b \o <<"RPAREN">>
    BY DEF SqlText, Prefix
  <1>. HIDE DEF a, b
  <1>. QED
    BY <1>2, <1>3, <1>4

\* The control character comes from the values.
LEMMA ControlFromValue ==
    ASSUME NEW r \in Seq(Char) \X Seq(Char), ~\A i \in 1..Len(SqlText(r)) : SqlText(r)[i] # "CTRL"
    PROVE  \E i \in DOMAIN r : "CTRL" \in ToSet(r[i])
  <1>. SUFFICES ASSUME ~\E i \in DOMAIN r : "CTRL" \in ToSet(r[i]) PROVE FALSE
    OBVIOUS
  <1>. DEFINE C == Char \ {"CTRL"}
  <1>0. DOMAIN r = 1..2 /\ r[1] \in Seq(Char) /\ r[2] \in Seq(Char) /\ r = <<r[1], r[2]>>
    OBVIOUS
  <1>1. ASSUME NEW s \in Seq(Char), "CTRL" \notin ToSet(s) PROVE s \in Seq(C)
    <2>1. Len(s) \in Nat /\ DOMAIN s = 1..Len(s) /\ \A i \in 1..Len(s) : s[i] \in Char
      BY ElementOfSeq
    <2>2. \A i \in 1..Len(s) : s[i] # "CTRL"
      BY <1>1, <2>1 DEF ToSet
    <2>3. s = [i \in 1..Len(s) |-> s[i]]
      BY <2>1
    <2>. QED
      BY <2>1, <2>2, <2>3, SMTT(30)
  <1>2. r[1] \in Seq(C) /\ r[2] \in Seq(C)
    <2>1. 1 \in DOMAIN r /\ 2 \in DOMAIN r
      BY <1>0
    <2>. HIDE DEF C
    <2>. QED
      BY <1>0, <1>1, <2>1
  <1>3. r \in Seq(C) \X Seq(C)
    BY <1>0, <1>2
  <1>4. {"INSERT", "SPACE", "INTO", "a", "VALUES", "LPAREN", "COMMA", "RPAREN", Quote} \subseteq C
    BY DEF Char, Letters, Keywords, Spaces, Symbols, Quote
  <1>5. SqlText(r) \in Seq(C)
    <2>. HIDE DEF C
    <2>. QED
      BY <1>3, <1>4, SqlOver
  <1>6. \A i \in 1..Len(SqlText(r)) : SqlText(r)[i] \in C
    BY <1>5, ElementOfSeq
  <1>. QED
    BY <1>6

\* What parse_json_string returns is a text.
LEMMA ParsedType ==
    ASSUME NEW s \in Seq(Char)
    PROVE  ParseJsonString(s).out \in Seq(Char)
  <1>1. Len(s) \in 0..Len(s)
    OBVIOUS
  <1>2. StringStates(ServerLetters, s)[Len(s)] \in StringState
    BY <1>1, ServerTables, StringLoopSteps DEF Tables
  <1>. QED
    BY <1>2 DEF ParseJsonString, StringLoop, StringState

\* What the client sends is a text.
LEMMA SentType ==
    ASSUME value \in Seq(Char) \X Seq(Char)
    PROVE  SqlText(value) \in Seq(Char) /\ Sent \in Seq(Char)
  <1>1. SqlText(value) \in Seq(Char)
    BY SqlShape
  <1>. DEFINE r == Rewrite(ClientEscapes, SqlText(value))
  <1>2. r \in Seq(Char) /\ "DQ" \in Char
    BY <1>1, RewrittenOver, ServerTables DEF Tables, Char
  <1>3. Sent = <<"DQ">> \o r \o <<"DQ">>
    BY DEF Sent, ClientEncodes
  <1>. HIDE DEF r
  <1>. QED
    BY <1>1, <1>2, <1>3

-----------------------------------------------------------------------------
(* The tokens of every text.                                               *)

Contents == \A k \in DOMAIN tokens : tokens[k].text \in Seq(Char)

\* One more token with its content.
LEMMA AppendedContent ==
    ASSUME LexInv, Contents, NEW kind, NEW content \in Seq(Char), NEW last, AppendToken(kind, content, last)
    PROVE  Contents'
  <1>. DEFINE new == [kind |-> kind, text |-> content, from |-> pos, to |-> last]
  <1>1. tokens' = Append(tokens, new) /\ new.text = content
    BY DEF AppendToken
  <1>2. PICK S : tokens \in Seq(S)
    BY DEF LexInv
  <1>3. tokens \in Seq(S \cup {new}) /\ new \in S \cup {new}
    BY <1>2, SeqMonotonic, Zenon
  <1>. HIDE DEF new
  <1>4. /\ DOMAIN tokens' = 1..(Len(tokens) + 1) /\ DOMAIN tokens = 1..Len(tokens) /\ Len(tokens) \in Nat
        /\ tokens'[Len(tokens) + 1] = new /\ \A k \in 1..Len(tokens) : tokens'[k] = tokens[k]
    BY <1>1, <1>3
  <1>5. \A k \in 1..(Len(tokens) + 1) : k \in 1..Len(tokens) \/ k = Len(tokens) + 1
    BY <1>4
  <1>. QED
    BY <1>1, <1>4, <1>5 DEF Contents

\* What a step of the lexer does to the contents.
LEMMA ContentStep ==
    ASSUME LexInv, Contents, LexNext
    PROVE  Contents'
  <1>1. text \in Seq(Char) /\ Len(text) \in Nat /\ pos \in Nat /\ 1 <= pos
    BY AtCursor
  <1>2. \A b \in Nat : b <= Len(text) => SubSeq(text, pos, b) \in Seq(Char)
    BY <1>1
  <1>3. ASSUME NEW why, Fails(why) PROVE Contents'
    BY <1>3 DEF Fails, Contents
  <1>4. CASE SkipSpace
    BY <1>4 DEF SkipSpace, Contents
  <1>5. CASE TokenizeIdentifier
    <2>. DEFINE last == RunEnd(Letters \cup Digits, pos)
    <2>1. pos <= Len(text) + 1
      BY <1>1, <1>5 DEF TokenizeIdentifier, Here
    <2>2. last \in Nat /\ last <= Len(text)
      BY <1>1, <2>1, RunIsLongest
    <2>3. \E kind : AppendToken(kind, SubSeq(text, pos, last), last)
      BY <1>5 DEF TokenizeIdentifier
    <2>. HIDE DEF last
    <2>. QED
      BY <1>2, <2>2, <2>3, AppendedContent
  <1>6. CASE TokenizeNumber
    <2>. DEFINE whole == RunEnd(Digits, pos + 1)
                last == IF IsAt({"DOT"}, whole + 1) THEN RunEnd(Digits, whole + 2) ELSE whole
    <2>1. pos + 1 \in Nat /\ 1 <= pos + 1 /\ pos + 1 <= Len(text) + 1
      BY <1>1, <1>6, StartIsDigit DEF TokenizeNumber
    <2>2. whole \in Nat /\ whole <= Len(text)
      BY <1>1, <2>1, RunIsLongest
    <2>3. (\E why : Fails(why)) \/ AppendToken("number", SubSeq(text, pos, last), last)
      BY <1>6 DEF TokenizeNumber
    <2>. HIDE DEF whole
    <2>4. CASE IsAt({"DOT"}, whole + 1)
      <3>1. whole + 2 \in Nat /\ 1 <= whole + 2 /\ whole + 2 <= Len(text) + 1
        BY <1>1, <2>2, <2>4 DEF IsAt
      <3>2. RunEnd(Digits, whole + 2) \in Nat /\ RunEnd(Digits, whole + 2) <= Len(text)
        BY <1>1, <3>1, RunIsLongest
      <3>3. last \in Nat /\ last <= Len(text)
        BY <2>4, <3>2
      <3>. HIDE DEF last
      <3>. QED
        BY <1>2, <1>3, <2>3, <3>3, AppendedContent
    <2>5. CASE ~IsAt({"DOT"}, whole + 1)
      <3>1. last \in Nat /\ last <= Len(text)
        BY <2>2, <2>5
      <3>. HIDE DEF last
      <3>. QED
        BY <1>2, <1>3, <2>3, <3>1, AppendedContent
    <2>. QED
      BY <2>4, <2>5
  <1>7. CASE TokenizeString
    <2>. DEFINE last == Min(Closing)
    <2>1. Here({Quote}) /\ pos <= Len(text)
      BY <1>7 DEF TokenizeString, Here
    <2>2. CASE Closing = {}
      BY <1>3, <1>7, <2>2 DEF TokenizeString
    <2>3. CASE Closing # {}
      <3>1. last \in Nat /\ pos < last /\ last <= Len(text)
        BY <2>1, <2>3, PairsUpToClosing
      <3>2. AppendToken("string", Copied[last - 1], last)
        BY <1>7, <2>3 DEF TokenizeString
      <3>. HIDE DEF last
      <3>3. last - 1 \in pos..Len(text)
        BY <1>1, <3>1
      <3>4. Copied[last - 1] \in Seq(Char)
        BY <1>1, <2>1, <3>3, CopySteps
      <3>. QED
        BY <3>2, <3>4, AppendedContent
    <2>. QED
      BY <2>2, <2>3
  <1>8. CASE TokenizeSymbol
    <2>1. pos \in 1..Len(text)
      BY <1>1, <1>8 DEF TokenizeSymbol
    <2>2. text[pos] \in Char
      BY <1>1, <2>1, ElementOfSeq
    <2>3. <<text[pos]>> \in Seq(Char)
      BY <2>2
    <2>. QED
      BY <1>3, <1>8, <2>3, AppendedContent DEF TokenizeSymbol
  <1>9. CASE LexAllocationFails
    BY <1>3, <1>9 DEF LexAllocationFails
  <1>10. CASE LexEnd
    <2>. DEFINE new == [kind |-> "EOF", text |-> <<>>, from |-> pos, to |-> pos]
    <2>1. tokens' = Append(tokens, new) /\ new.text = <<>> /\ <<>> \in Seq(Char)
      BY <1>10 DEF LexEnd
    <2>2. PICK S : tokens \in Seq(S)
      BY DEF LexInv
    <2>3. tokens \in Seq(S \cup {new}) /\ new \in S \cup {new}
      BY <2>2, SeqMonotonic, Zenon
    <2>. HIDE DEF new
    <2>4. /\ DOMAIN tokens' = 1..(Len(tokens) + 1) /\ DOMAIN tokens = 1..Len(tokens) /\ Len(tokens) \in Nat
          /\ tokens'[Len(tokens) + 1] = new /\ \A k \in 1..Len(tokens) : tokens'[k] = tokens[k]
      BY <2>1, <2>3
    <2>5. \A k \in 1..(Len(tokens) + 1) : k \in 1..Len(tokens) \/ k = Len(tokens) + 1
      BY <2>4
    <2>. QED
      BY <2>1, <2>4, <2>5 DEF Contents
  <1>. QED
    BY <1>4, <1>5, <1>6, <1>7, <1>8, <1>9, <1>10 DEF LexNext

\* The text, the tokens and what was sent.
TextInv ==
    /\ LexInv /\ Contents
    /\ entry \in {"api", "cli"} => value \in Seq(Char) \X Seq(Char)
    /\ phase = "json" => pos = 1 /\ tokens = <<>> /\ lexed = "busy"

\* Texts from the constants are texts over Char.
LEMMA StringsAreChars == Seq(STRING) \subseteq Seq(Char)
  <1>1. STRING \subseteq Char
    BY DEF Char
  <1>. QED
    BY <1>1, SeqMonotonic, Zenon

\* A text that nothing has been read of.
LEMMA Unread ==
    ASSUME text \in Seq(Char), pos = 1, tokens = <<>>, lexed = "busy"
    PROVE  LexInv /\ Contents
  <1>1. tokens \in Seq({}) /\ DOMAIN tokens = {} /\ pos \in 1..(Len(text) + 1) /\ 1..pos - 1 = {}
    OBVIOUS
  <1>. QED
    BY <1>1 DEF LexInv, Contents, Reading, TokensAreTheText

\* The invariant of the text.
LEMMA TextInvHolds == Spec => []TextInv
  <1>1. Init => TextInv
    <2>. SUFFICES ASSUME Init PROVE TextInv
      OBVIOUS
    <2>1. entry \in {"api", "cli"} => value \in Seq(Char) \X Seq(Char)
      BY StringsAreChars, TextAssumption DEF Init
    <2>2. text \in Seq(Char)
      <3>1. CASE entry = "cli"
        <4>1. text = SqlText(value)
          BY <3>1 DEF Init
        <4>. QED
          BY <2>1, <3>1, <4>1, SentType
      <3>2. CASE entry = "text"
        <4>1. text \in Texts
          BY <3>2 DEF Init
        <4>. QED
          BY <4>1, StringsAreChars, TextAssumption
      <3>3. CASE entry \notin {"cli", "text"}
        <4>1. text = <<>>
          BY <3>3 DEF Init
        <4>. QED
          BY <4>1
      <3>. QED
        BY <3>1, <3>2, <3>3
    <2>3. pos = 1 /\ tokens = <<>> /\ lexed = "busy"
      BY DEF Init, LexInit
    <2>. QED
      BY <2>1, <2>2, <2>3, Unread DEF TextInv
  <1>2. TextInv /\ [Next]_vars => TextInv'
    <2>. SUFFICES ASSUME TextInv, [Next]_vars PROVE TextInv'
      OBVIOUS
    <2>1. CASE UNCHANGED <<lexVars, entry, value>> /\ (phase' = "json" => phase = "json")
      <3>1. LexInv'
        BY <2>1 DEF TextInv, LexInv, Reading, GoodToken, IsToken, TokensAreTheText, lexVars
      <3>. QED
        BY <2>1, <3>1 DEF TextInv, Contents, lexVars
    <2>2. CASE LeaveJson
      <3>1. /\ phase = "json" /\ phase' # "json" /\ UNCHANGED <<entry, value, pos, tokens, lexed>>
        BY <2>2 DEF LeaveJson
      <3>2. text' \in Seq(Char)
        <4>1. CASE verdict = "ok" /\ entry = "api"
          <5>1. text' = ParseJsonString(Sent).out
            BY <2>2, <4>1 DEF LeaveJson
          <5>2. Sent \in Seq(Char)
            BY <4>1, SentType DEF TextInv
          <5>. QED
            BY <5>1, <5>2, ParsedType
        <4>2. CASE ~(verdict = "ok" /\ entry = "api")
          BY <2>2, <4>2 DEF LeaveJson, TextInv, LexInv
        <4>. QED
          BY <4>1, <4>2
      <3>3. pos' = 1 /\ tokens' = <<>> /\ lexed' = "busy"
        BY <3>1 DEF TextInv
      <3>4. (LexInv /\ Contents)'
        <4>1. tokens' \in Seq({}) /\ DOMAIN tokens' = {} /\ pos' \in 1..(Len(text') + 1) /\ 1..pos' - 1 = {}
          BY <3>2, <3>3
        <4>. QED
          BY <3>2, <3>3, <4>1 DEF LexInv, Contents, Reading, TokensAreTheText
      <3>. QED
        BY <3>1, <3>4 DEF TextInv
    <2>3. CASE Tokenize
      <3>1. LexNext /\ phase = "lex" /\ UNCHANGED <<entry, value, phase>>
        BY <2>3 DEF Tokenize, pathVars
      <3>. QED
        BY <3>1, LexStep, ContentStep DEF TextInv
    <2>4. CASE Insert \/ Select \/ ReadRow \/ ScanEnd \/ Respond
      <3>1. UNCHANGED <<lexVars, entry, value>>
        BY <2>4, Zenon DEF Insert, Select, ReadRow, ScanEnd, Respond
      <3>2. phase' = "json" => phase = "json"
        BY <2>4 DEF Insert, Select, ReadRow, ScanEnd, Respond
      <3>. QED
        BY <2>1, <3>1, <3>2
    <2>5. CASE ExtractField \/ UseTable \/ Finished \/ UNCHANGED vars
      <3>1. UNCHANGED <<lexVars, pathVars>>
        BY <2>5, Zenon DEF ExtractField, UseTable, Finished, vars
      <3>. QED
        BY <2>1, <3>1 DEF pathVars
    <2>. QED
      BY Zenon, <2>2, <2>3, <2>4, <2>5 DEF Next
  <1>. QED
    BY <1>1, <1>2, PTL DEF Spec

\* For every SQL text: when tokenize_sql accepts it, its tokens are the text, each
\* has the form of its kind and none could have been longer.
THEOREM TokensAreAlwaysTheText == Spec => []TokensAreTheText
  <1>1. TextInv => TokensAreTheText
    BY DEF TextInv, LexInv
  <1>. QED
    BY <1>1, TextInvHolds, PTL

-----------------------------------------------------------------------------
(* The lines of the data file.                                             *)

FieldEscapes == [ch \in {"BSL", "BAR", "LF"} |-> <<"BSL", IF ch = "LF" THEN "n" ELSE ch>>]

\* The escapes of a field are texts.
LEMMA FieldTables ==
    /\ \A ch \in DOMAIN FieldEscapes : FieldEscapes[ch] \in Seq(Char)
    /\ {"BSL", "BAR", "LF", "CR", "n"} \subseteq Char
  <1>1. {"BSL", "BAR", "LF", "CR", "n"} \subseteq Char
    BY DEF Char, Letters, Spaces
  <1>. QED
    BY <1>1 DEF FieldEscapes

\* An escaped field is a text.
LEMMA EscapedField ==
    ASSUME NEW v \in Seq(Char)
    PROVE  /\ EscapeField(v) \in Seq(Char) /\ Len(EscapeField(v)) \in Nat
           /\ \E off : Ends(off, FieldEscapes, v, EscapeField(v))
  <1>1. EscapeField(v) = Rewrite(FieldEscapes, v)
    BY DEF EscapeField, FieldEscapes
  <1>2. EscapeField(v) \in Seq(Char) /\ \E off : Ends(off, FieldEscapes, v, EscapeField(v))
    BY <1>1, FieldTables, Rewritten
  <1>. QED
    BY <1>2

\* A line of three fields.
Line(t, a, b, c) ==
    /\ t \in Seq(Char) /\ Len(t) = Len(a) + Len(b) + Len(c) + 3
    /\ \A k \in 1..Len(a) : t[k] = a[k]
    /\ t[Len(a) + 1] = "BAR"
    /\ \A k \in 1..Len(b) : t[Len(a) + 1 + k] = b[k]
    /\ t[Len(a) + Len(b) + 2] = "BAR"
    /\ \A k \in 1..Len(c) : t[Len(a) + Len(b) + 2 + k] = c[k]
    /\ t[Len(a) + Len(b) + Len(c) + 3] = "LF"

\* A line for three fields.
LEMMA LineShape ==
    ASSUME NEW r \in [1..Columns -> Seq(Char)]
    PROVE  Line(RowLine(r), EscapeField(r[1]), EscapeField(r[2]), EscapeField(r[3]))
  <1>. DEFINE a == EscapeField(r[1])
              b == EscapeField(r[2])
              c == EscapeField(r[3])
              u == <<"BAR">> \o b
              w == <<"BAR">> \o c
              part(i) == (IF i > 1 THEN <<"BAR">> ELSE <<>>) \o EscapeField(r[i])
              q == [i \in 1..3 |-> part(i)]
  <1>0. 1..3 = {1, 2, 3} /\ Columns = 3
    BY DEF Columns
  <1>1. /\ a \in Seq(Char) /\ b \in Seq(Char) /\ c \in Seq(Char)
        /\ Len(a) \in Nat /\ Len(b) \in Nat /\ Len(c) \in Nat
    <2>1. r[1] \in Seq(Char) /\ r[2] \in Seq(Char) /\ r[3] \in Seq(Char)
      BY <1>0
    <2>. QED
      BY <2>1, EscapedField
  <1>2. part(1) = a /\ part(2) = u /\ part(3) = w
    <2>1. <<>> \o a = a
      BY <1>1
    <2>. QED
      BY <2>1
  <1>. HIDE DEF a, b, c
  <1>3. /\ u \in Seq(Char) /\ Len(u) = Len(b) + 1 /\ u[1] = "BAR" /\ \A k \in 1..Len(b) : u[1 + k] = b[k]
        /\ w \in Seq(Char) /\ Len(w) = Len(c) + 1 /\ w[1] = "BAR" /\ \A k \in 1..Len(c) : w[1 + k] = c[k]
    <2>1. "BAR" \in Char
      BY FieldTables
    <2>. QED
      BY <1>1, <2>1
  <1>. HIDE DEF u, w, part
  <1>4. RowLine(r) = FlattenSeq(q) \o <<"LF">>
    <2>1. DOMAIN r = 1..3
      BY <1>0
    <2>. QED
      BY <2>1 DEF RowLine, part
  <1>5. /\ q \in Seq(Seq(Char)) /\ Len(q) = 3 /\ q[1] = a /\ q[2] = u /\ q[3] = w
    BY <1>0, <1>1, <1>2, <1>3
  <1>. HIDE DEF q
  <1>. DEFINE f == FlattenSeq(q)
  <1>6. f \in Seq(Char)
    BY <1>5, Concatenated
  <1>. HIDE DEF f
  <1>7. PICK off \in [0..Len(q) -> Nat] :
                 /\ off[0] = 0 /\ off[Len(q)] = Len(f)
                 /\ \A i \in 1..Len(q) :
                       /\ off[i] = off[i - 1] + Len(q[i]) /\ off[i] <= Len(f)
                       /\ \A k \in 1..Len(q[i]) : f[off[i - 1] + k] = q[i][k]
    <2>1. q \in Seq(Seq(Char))
      BY <1>5
    <2>. QED
      BY <2>1, Concatenated, ZenonT(60) DEF f
  <1>. HIDE DEF f
  <1>8. /\ off[1] = off[0] + Len(q[1]) /\ \A k \in 1..Len(q[1]) : f[off[0] + k] = q[1][k]
        /\ off[2] = off[1] + Len(q[2]) /\ \A k \in 1..Len(q[2]) : f[off[1] + k] = q[2][k]
        /\ off[3] = off[2] + Len(q[3]) /\ \A k \in 1..Len(q[3]) : f[off[2] + k] = q[3][k]
    <2>1. 1 \in 1..Len(q) /\ 2 \in 1..Len(q) /\ 3 \in 1..Len(q) /\ 1 - 1 = 0 /\ 2 - 1 = 1 /\ 3 - 1 = 2
      BY <1>5
    <2>. QED
      BY <1>7, <2>1
  <1>. DEFINE la == Len(a)
              lb == Len(b)
              lc == Len(c)
  <1>9. /\ \A k \in 1..la : f[k] = a[k]
        /\ \A k \in 1..(lb + 1) : f[la + k] = u[k]
        /\ \A k \in 1..(lc + 1) : f[la + lb + 1 + k] = w[k]
        /\ Len(f) = la + lb + lc + 2
    <2>1. off[0] = 0 /\ off[1] = la /\ off[2] = la + lb + 1 /\ off[3] = la + lb + lc + 2 /\ Len(f) = off[3]
      <3>1. off[0] = 0 /\ off[3] = Len(f)
        BY <1>5, <1>7
      <3>2. off[1] = off[0] + Len(a) /\ off[2] = off[1] + Len(b) + 1 /\ off[3] = off[2] + Len(c) + 1
        <4>1. off[1] = off[0] + Len(a) /\ off[2] = off[1] + Len(u) /\ off[3] = off[2] + Len(w)
          BY <1>5, <1>8
        <4>2. off[0] \in Nat /\ off[1] \in Nat /\ off[2] \in Nat
          BY <1>5, <1>7
        <4>. QED
          BY <1>1, <1>3, <4>1, <4>2, SMTT(30)
      <3>. QED
        BY <1>1, <3>1, <3>2
    <2>2. \A k \in 1..la : 0 + k = k
      OBVIOUS
    <2>. QED
      BY <1>3, <1>5, <1>8, <2>1, <2>2, SMTT(30)
  <1>. HIDE DEF la, lb, lc
  <1>10. la \in Nat /\ lb \in Nat /\ lc \in Nat
    BY <1>1 DEF la, lb, lc
  <1>11. /\ f[la + 1] = "BAR" /\ \A k \in 1..lb : f[la + 1 + k] = b[k]
    <2>1. 1 \in 1..(lb + 1) /\ \A k \in 1..lb : 1 + k \in 1..(lb + 1) /\ la + (1 + k) = la + 1 + k
      BY <1>10
    <2>. QED
      BY <1>3, <1>9, <2>1 DEF lb
  <1>12. /\ f[la + lb + 2] = "BAR" /\ \A k \in 1..lc : f[la + lb + 2 + k] = c[k]
    <2>1. /\ 1 \in 1..(lc + 1) /\ la + lb + 1 + 1 = la + lb + 2
          /\ \A k \in 1..lc : 1 + k \in 1..(lc + 1) /\ la + lb + 1 + (1 + k) = la + lb + 2 + k
      BY <1>10
    <2>. QED
      BY <1>3, <1>9, <2>1 DEF lc
  <1>. DEFINE t == f \o <<"LF">>
  <1>13. /\ t \in Seq(Char) /\ Len(t) = la + lb + lc + 3 /\ t[la + lb + lc + 3] = "LF"
         /\ \A k \in 1..(la + lb + lc + 2) : t[k] = f[k]
    <2>1. "LF" \in Char
      BY FieldTables
    <2>2. /\ t \in Seq(Char) /\ Len(t) = Len(f) + 1 /\ t[Len(f) + 1] = "LF"
          /\ \A k \in 1..Len(f) : t[k] = f[k]
      BY <1>6, <2>1
    <2>. HIDE DEF t
    <2>3. Len(f) + 1 = la + lb + lc + 3
      BY <1>9, <1>10
    <2>. QED
      BY <1>9, <2>2, <2>3
  <1>. HIDE DEF t
  <1>14. /\ \A k \in 1..la : k \in 1..(la + lb + lc + 2)
         /\ la + 1 \in 1..(la + lb + lc + 2) /\ la + lb + 2 \in 1..(la + lb + lc + 2)
         /\ \A k \in 1..lb : la + 1 + k \in 1..(la + lb + lc + 2)
         /\ \A k \in 1..lc : la + lb + 2 + k \in 1..(la + lb + lc + 2)
    BY <1>10
  <1>15. /\ \A k \in 1..la : t[k] = a[k]
         /\ t[la + 1] = "BAR" /\ t[la + lb + 2] = "BAR"
         /\ \A k \in 1..lb : t[la + 1 + k] = b[k]
         /\ \A k \in 1..lc : t[la + lb + 2 + k] = c[k]
    BY <1>9, <1>11, <1>12, <1>13, <1>14
  <1>16. Line(t, a, b, c)
    BY <1>13, <1>15 DEF Line, la, lb, lc
  <1>. QED
    BY <1>4, <1>16 DEF t, f, a, b, c

\* An unescaped field is a text.
LEMMA UnescapedType ==
    ASSUME NEW v \in Seq(Char)
    PROVE  UnescapeField(v).out \in Seq(Char)
  <1>1. Len(v) \in 0..Len(v)
    OBVIOUS
  <1>2. UnescapeStates(v)[Len(v)] \in UnescapeState
    BY <1>1, UnescapeSteps
  <1>. QED
    BY <1>2 DEF UnescapeField, UnescapeState

\* The fields of a line are texts.
LEMMA SplitType ==
    ASSUME NEW line \in Seq(Char)
    PROVE  Split(line).fields \in Seq(Seq(Char))
  <1>1. Len(line) \in 0..Len(line)
    OBVIOUS
  <1>2. SplitStates(line)[Len(line)] \in SplitState(Char)
    BY <1>1, SplitSteps
  <1>. DEFINE st == SplitStates(line)[Len(line)]
  <1>3. st.fields \in Seq(Seq(Char)) /\ st.raw \in Seq(Char)
    BY <1>2 DEF SplitState
  <1>4. Split(line).fields = Append(st.fields, st.raw)
    BY DEF Split
  <1>. HIDE DEF st
  <1>. QED
    BY <1>3, <1>4

\* A row that is read consists of texts.
LEMMA ParsedRowType ==
    ASSUME NEW line \in Seq(Char)
    PROVE  ParseLineIntoRow(line).row \in [1..Columns -> Seq(Char)]
  <1>. DEFINE fields == Split(line).fields
              outs == [i \in DOMAIN fields |-> UnescapeField(fields[i]).out]
  <1>1. \A i \in DOMAIN fields : fields[i] \in Seq(Char)
    BY SplitType, ElementOfSeq
  <1>2. \A i \in DOMAIN fields : UnescapeField(fields[i]).out \in Seq(Char)
    BY <1>1, UnescapedType
  <1>3. ParseLineIntoRow(line).row = NormalizeFieldCount(outs)
    BY DEF ParseLineIntoRow
  <1>. HIDE DEF fields
  <1>4. \A i \in DOMAIN outs : outs[i] \in Seq(Char)
    BY <1>2
  <1>. HIDE DEF outs
  <1>5. <<>> \in Seq(Char)
    OBVIOUS
  <1>. QED
    BY <1>3, <1>4, <1>5 DEF NormalizeFieldCount

\* The end of the line that begins at from.
LEMMA LineEnds ==
    ASSUME file \in Seq(Char), NEW from \in Nat, 1 <= from, from <= Len(file)
    PROVE  /\ LineEnd(from) \in Nat /\ from <= LineEnd(from) /\ LineEnd(from) <= Len(file) + 1
           /\ \A k \in from..LineEnd(from) - 1 : file[k] # "LF"
           /\ LineEnd(from) <= Len(file) => file[LineEnd(from)] = "LF"
  <1>. DEFINE T == {k \in from..Len(file) : file[k] = "LF"} \cup {Len(file) + 1}
  <1>0. Len(file) \in Nat
    OBVIOUS
  <1>1. T \subseteq Nat /\ T # {} /\ \A y \in T : from <= y /\ y <= Len(file) + 1
    BY <1>0
  <1>2. \E x \in T : \A y \in T : x <= y
    BY <1>1, NatMin
  <1>3. Min(T) \in T /\ \A y \in T : Min(T) <= y
    BY <1>2 DEF Min
  <1>. DEFINE m == Min(T)
  <1>4. LineEnd(from) = m
    BY DEF LineEnd
  <1>5. m \in Nat /\ from <= m /\ m <= Len(file) + 1
    BY <1>0, <1>1, <1>3
  <1>6. ASSUME NEW k \in from..m - 1 PROVE file[k] # "LF"
    <2>. HIDE DEF m
    <2>1. k \in from..Len(file) /\ ~(m <= k)
      BY <1>0, <1>5
    <2>2. k \notin T
      BY <1>3, <2>1 DEF m
    <2>. QED
      BY <2>1, <2>2
  <1>7. m <= Len(file) => file[m] = "LF"
    <2>. HIDE DEF m
    <2>. QED
      BY <1>0, <1>3, <1>5 DEF m
  <1>. HIDE DEF m
  <1>. QED
    BY <1>4, <1>5, <1>6, <1>7

\* A line is a part of the file.
LEMMA ReadLineType ==
    ASSUME file \in Seq(Char), NEW from \in Nat, 1 <= from, from <= Len(file)
    PROVE  ReadLine(from) \in Seq(Char)
  <1>. DEFINE line == SubSeq(file, from, LineEnd(from) - 1)
  <1>1. LineEnd(from) - 1 \in Int /\ LineEnd(from) - 1 <= Len(file)
    BY LineEnds
  <1>2. line \in Seq(Char)
    BY <1>1
  <1>3. ReadLine(from) = IF line # <<>> /\ Last(line) = "CR" THEN Front(line) ELSE line
    BY DEF ReadLine
  <1>. HIDE DEF line
  <1>4. line # <<>> => Front(line) \in Seq(Char)
    BY <1>2 DEF Front
  <1>. QED
    BY <1>2, <1>3, <1>4

-----------------------------------------------------------------------------
(* The answer.                                                             *)

Encoded == [i \in DOMAIN rows |-> [j \in 1..Columns |-> JsonAppendEscapedString(rows[i][j])]]

DataInv ==
    /\ file \in Seq(Char) /\ cursor \in Nat
    /\ phase \in {"stored", "scan", "lookup"} => cursor > 0
    /\ rows \in Seq([1..Columns -> Seq(Char)])
    /\ phase = "done" /\ entry = "api" => answer = Encoded

\* A row is a text for each column.
LEMMA RowType ==
    /\ FirstRow \in [1..Columns -> Seq(Char)]
    /\ \A x, y \in Seq(Char) : <<SecondId, x, y>> \in [1..Columns -> Seq(Char)]
  <1>1. <<"1">> \in Seq(Char) /\ <<"n">> \in Seq(Char) /\ <<"2">> \in Seq(Char)
    <2>1. {"1", "n", "2"} \subseteq Char
      BY DEF Char, Letters, Digits
    <2>. QED
      BY <2>1
  <1>2. \A x, y, z \in Seq(Char) : <<x, y, z>> \in [1..3 -> Seq(Char)]
    <2>. SUFFICES ASSUME NEW x \in Seq(Char), NEW y \in Seq(Char), NEW z \in Seq(Char)
                  PROVE  <<x, y, z>> \in [1..3 -> Seq(Char)]
      OBVIOUS
    <2>. DEFINE t == <<x, y, z>>
    <2>1. DOMAIN t = 1..3 /\ t[1] = x /\ t[2] = y /\ t[3] = z /\ t = [i \in 1..3 |-> t[i]]
      OBVIOUS
    <2>. HIDE DEF t
    <2>2. \A i \in 1..3 : t[i] \in Seq(Char)
      <3>1. 1..3 = {1, 2, 3}
        OBVIOUS
      <3>. QED
        BY <2>1, <3>1
    <2>3. t \in [1..3 -> Seq(Char)]
      BY <2>1, <2>2
    <2>. QED
      BY <2>3 DEF t
  <1>. QED
    BY <1>1, <1>2 DEF FirstRow, SecondId, Columns

\* The tokens of an INSERT.
LEMMA InsertTokens ==
    ASSUME IsInsert
    PROVE  6 \in DOMAIN tokens /\ 8 \in DOMAIN tokens
  <1>1. DOMAIN InsertKinds = 1..10
    BY DEF InsertKinds
  <1>2. DOMAIN InsertKinds = DOMAIN tokens
    BY DEF IsInsert
  <1>. QED
    BY <1>1, <1>2

\* The invariant of the data.
LEMMA DataInvHolds == Spec => []DataInv
  <1>1. Init => DataInv
    <2>. SUFFICES ASSUME Init PROVE DataInv
      OBVIOUS
    <2>1. file \in Seq(Char)
      <3>1. CASE entry = "file"
        BY <3>1, StringsAreChars, TextAssumption DEF Init
      <3>2. CASE entry # "file"
        <4>1. file = RowLine(FirstRow)
          BY <3>2 DEF Init
        <4>. QED
          BY <4>1, RowType, LineShape DEF Line
      <3>. QED
        BY <3>1, <3>2
    <2>2. cursor \in Nat /\ (phase \in {"stored", "scan", "lookup"} => cursor > 0) /\ rows = <<>> /\ phase # "done"
      BY DEF Init
    <2>. QED
      BY <2>1, <2>2 DEF DataInv
  <1>2. TextInv /\ DataInv /\ [Next]_vars => DataInv'
    <2>. SUFFICES ASSUME TextInv, DataInv, [Next]_vars PROVE DataInv'
      OBVIOUS
    <2>0. /\ file \in Seq(Char) /\ Len(file) \in Nat /\ cursor \in Nat
          /\ rows \in Seq([1..Columns -> Seq(Char)])
      BY DEF DataInv
    <2>1. CASE UNCHANGED pathVars
      BY <2>1 DEF pathVars, DataInv, Encoded
    <2>2. CASE LeaveJson
      <3>1. UNCHANGED <<entry, file, cursor, rows, answer>> /\ phase' \in {"lex", "refused"}
        BY <2>2 DEF LeaveJson
      <3>. QED
        BY <3>1 DEF DataInv
    <2>3. CASE Insert
      <3>1. CASE IsInsert
        <4>. DEFINE r == <<SecondId, tokens[6].text, tokens[8].text>>
        <4>1. file' = file \o RowLine(r) /\ cursor' = Len(file) + 1 /\ phase' = "stored" /\ rows' = rows
          BY <2>3, <3>1 DEF Insert
        <4>2. r \in [1..Columns -> Seq(Char)]
          BY <3>1, InsertTokens, RowType DEF TextInv, Contents
        <4>3. RowLine(r) \in Seq(Char)
          BY <4>2, LineShape DEF Line
        <4>. HIDE DEF r
        <4>4. file' \in Seq(Char)
          BY <2>0, <4>1, <4>3
        <4>. QED
          BY <2>0, <4>1, <4>4 DEF DataInv
      <3>2. CASE ~IsInsert
        BY <2>3, <3>2 DEF Insert, DataInv
      <3>. QED
        BY <3>1, <3>2
    <2>4. CASE Select
      <3>1. /\ UNCHANGED <<entry, file, rows, answer>> /\ phase = "stored" /\ phase' \in {"scan", "lookup"}
            /\ cursor' = 1 \/ cursor' = cursor
        BY <2>4 DEF Select
      <3>. QED
        BY <3>1 DEF DataInv
    <2>5. CASE ReadRow
      <3>1. cursor > 0 /\ cursor <= Len(file) /\ 1 <= cursor
        BY <2>5 DEF ReadRow, DataInv
      <3>2. LineEnd(cursor) \in Nat
        BY <2>0, <3>1, LineEnds
      <3>3. ParseLineIntoRow(ReadLine(cursor)).row \in [1..Columns -> Seq(Char)]
        BY <2>0, <3>1, ReadLineType, ParsedRowType
      <3>. DEFINE parsed == ParseLineIntoRow(ReadLine(cursor))
      <3>4. UNCHANGED <<entry, file, answer>> /\ phase' # "done"
        BY <2>5 DEF ReadRow
      <3>5. CASE parsed.ok
        <4>1. rows' = Append(rows, parsed.row) /\ cursor' = LineEnd(cursor) + 1
          BY <2>5, <3>5 DEF ReadRow
        <4>. HIDE DEF parsed
        <4>2. rows' \in Seq([1..Columns -> Seq(Char)])
          BY <2>0, <3>3, <4>1 DEF parsed
        <4>. QED
          BY <2>0, <3>2, <3>4, <4>1, <4>2 DEF DataInv
      <3>6. CASE ~parsed.ok
        <4>1. rows' = rows /\ cursor' = cursor /\ phase' = "malformed"
          BY <2>5, <3>6 DEF ReadRow
        <4>. QED
          BY <3>4, <4>1 DEF DataInv
      <3>. QED
        BY <3>5, <3>6
    <2>6. CASE ScanEnd
      BY <2>6 DEF ScanEnd, DataInv
    <2>7. CASE Respond
      <3>1. /\ UNCHANGED <<entry, file, cursor, rows>> /\ phase' = "done" /\ Encoded' = Encoded
            /\ entry = "api" => answer' = Encoded
        BY <2>7 DEF Respond, Encoded
      <3>. QED
        BY <3>1 DEF DataInv
    <2>. QED
      BY Zenon, <2>1, <2>2, <2>3, <2>4, <2>5, <2>6, <2>7
         DEF Next, ExtractField, Tokenize, UseTable, Finished, vars
  <1>. QED
    BY <1>1, <1>2, TextInvHolds, PTL DEF Spec

\* For every row and every file: a JSON parser gets from the answer the values
\* that are in the rows.
THEOREM AnswerIsAlwaysWhatWasRead == Spec => []AnswerIsWhatWasRead
  <1>1. DataInv => AnswerIsWhatWasRead
    <2>. SUFFICES ASSUME DataInv, phase = "done", entry = "api", NEW i \in DOMAIN rows, NEW j \in 1..Columns
                  PROVE  ClientDecodes(answer[i][j]) = [state |-> "closed", out |-> rows[i][j]]
      BY DEF AnswerIsWhatWasRead
    <2>1. rows[i] \in [1..Columns -> Seq(Char)]
      BY ElementOfSeq DEF DataInv
    <2>2. rows[i][j] \in Seq(Char)
      BY <2>1
    <2>3. answer = Encoded
      BY DEF DataInv
    <2>4. answer[i][j] = JsonAppendEscapedString(rows[i][j])
      BY <2>3 DEF Encoded
    <2>. QED
      BY <2>2, <2>4, WrittenIsRead
  <1>. QED
    BY <1>1, DataInvHolds, PTL

-----------------------------------------------------------------------------
(* The literals of the client's statement. The lexer goes through it in    *)
(* stages, one for each token.                                             *)

\* The tokens are the first m of the INSERT of the row v.
Got(toks, v, m) ==
    /\ Len(toks) = m
    /\ \A k \in 1..m : toks[k].kind = InsertKinds[k]
    /\ m >= 6 => toks[6].text = v[1]
    /\ m >= 8 => toks[8].text = v[2]

\* What is known of the tokens after a step of the lexer.
LEMMA Taken ==
    ASSUME LexInv, NEW m \in 0..9, Got(tokens, value, m), NEW kind, NEW content, NEW last,
           AppendToken(kind, content, last),
           kind = InsertKinds[m + 1], m = 5 => content = value[1], m = 7 => content = value[2]
    PROVE  pos' = last + 1 /\ lexed' = lexed /\ Got(tokens', value, m + 1)
  <1>. DEFINE new == [kind |-> kind, text |-> content, from |-> pos, to |-> last]
  <1>1. tokens' = Append(tokens, new) /\ pos' = last + 1 /\ lexed' = lexed /\ new.kind = kind /\ new.text = content
    BY DEF AppendToken
  <1>2. PICK S : tokens \in Seq(S)
    BY DEF LexInv
  <1>3. tokens \in Seq(S \cup {new}) /\ new \in S \cup {new}
    BY <1>2, SeqMonotonic, Zenon
  <1>. HIDE DEF new
  <1>4. Len(tokens) = m
    BY DEF Got
  <1>5. /\ Len(tokens') = m + 1 /\ tokens'[m + 1] = new /\ \A k \in 1..m : tokens'[k] = tokens[k]
    BY <1>1, <1>3, <1>4
  <1>6. \A k \in 1..(m + 1) : tokens'[k].kind = InsertKinds[k]
    <2>1. \A k \in 1..(m + 1) : k \in 1..m \/ k = m + 1
      OBVIOUS
    <2>. QED
      BY <1>1, <1>5, <2>1 DEF Got
  <1>7. ASSUME m + 1 >= 6 PROVE tokens'[6].text = value[1]
    <2>1. CASE m = 5
      BY <1>1, <1>5, <2>1
    <2>2. CASE m # 5
      <3>1. 6 \in 1..m /\ m >= 6
        BY <1>7, <2>2
      <3>. QED
        BY <1>5, <3>1 DEF Got
    <2>. QED
      BY <2>1, <2>2
  <1>8. ASSUME m + 1 >= 8 PROVE tokens'[8].text = value[2]
    <2>1. CASE m = 7
      BY <1>1, <1>5, <2>1
    <2>2. CASE m # 7
      <3>1. 8 \in 1..m /\ m >= 8
        BY <1>8, <2>2
      <3>. QED
        BY <1>5, <3>1 DEF Got
    <2>. QED
      BY <2>1, <2>2
  <1>. QED
    BY <1>1, <1>5, <1>6, <1>7, <1>8 DEF Got

\* The character at the cursor decides what is read.
LEMMA WhichToken ==
    ASSUME LexInv, LexNext, ~LexAllocationFails
    PROVE  /\ Here(Spaces) => SkipSpace
           /\ Here(Letters) => TokenizeIdentifier
           /\ Here({Quote}) => TokenizeString
           /\ Here(Symbols) => TokenizeSymbol
           /\ pos > Len(text) => LexEnd
  <1>0. text \in Seq(Char) /\ Len(text) \in Nat /\ pos \in Nat
    BY AtCursor
  <1>1. ASSUME pos <= Len(text), NEW c, text[pos] = c
        PROVE  /\ SkipSpace => c \in Spaces
               /\ TokenizeIdentifier => c \in Letters
               /\ TokenizeNumber => c \in Digits \cup {"MINUS"}
               /\ TokenizeString => c = Quote
               /\ TokenizeSymbol => c \notin Spaces \cup Letters \cup {Quote}
               /\ ~LexEnd
    BY <1>0, <1>1 DEF SkipSpace, TokenizeIdentifier, TokenizeNumber, TokenizeString, TokenizeSymbol, LexEnd,
                      Here, NumberHere
  <1>2. ASSUME pos > Len(text)
        PROVE  ~SkipSpace /\ ~TokenizeIdentifier /\ ~TokenizeNumber /\ ~TokenizeString /\ ~TokenizeSymbol
    BY <1>0, <1>2 DEF SkipSpace, TokenizeIdentifier, TokenizeNumber, TokenizeString, TokenizeSymbol,
                      Here, NumberHere
  <1>3. /\ Spaces \cap (Letters \cup Digits \cup {"MINUS", Quote}) = {}
        /\ Letters \cap (Digits \cup {"MINUS", Quote}) = {}
        /\ Quote \notin Digits \cup {"MINUS"}
        /\ Symbols \cap (Spaces \cup Letters \cup Digits \cup {"MINUS", Quote}) = {}
    BY DEF Spaces, Letters, Keywords, Digits, Symbols, Quote
  <1>4. pos <= Len(text) \/ pos > Len(text)
    BY <1>0
  <1>5. LexNext <=> SkipSpace \/ TokenizeIdentifier \/ TokenizeNumber \/ TokenizeString
                    \/ TokenizeSymbol \/ LexAllocationFails \/ LexEnd
    BY DEF LexNext
  <1>6. \A C : Here(C) <=> pos <= Len(text) /\ text[pos] \in C
    BY DEF Here
  <1>7. pos <= Len(text) => ~(pos > Len(text))
    BY <1>0
  <1>. QED
    BY <1>1, <1>2, <1>3, <1>4, <1>5, <1>6, <1>7, ZenonT(60)

\* A word of one letter.
LEMMA WordTaken ==
    ASSUME LexInv, TokenizeIdentifier, ~IsAt(Letters \cup Digits, pos + 1)
    PROVE  AppendToken(IF text[pos] \in Keywords THEN text[pos] ELSE "identifier", <<text[pos]>>, pos)
  <1>. DEFINE last == RunEnd(Letters \cup Digits, pos)
              word == SubSeq(text, pos, last)
  <1>1. text \in Seq(Char) /\ Len(text) \in Nat /\ pos \in Nat /\ 1 <= pos
    BY AtCursor
  <1>2. pos <= Len(text) /\ text[pos] \in Letters
    BY DEF TokenizeIdentifier, Here
  <1>3. /\ last \in Nat /\ pos - 1 <= last /\ last <= Len(text)
        /\ \A k \in pos..last : text[k] \in Letters \cup Digits
        /\ ~IsAt(Letters \cup Digits, last + 1)
    <2>1. pos <= Len(text) + 1
      BY <1>1, <1>2
    <2>. QED
      BY <1>1, <2>1, RunIsLongest
  <1>4. AppendToken(IF Len(word) = 1 /\ word[1] \in Keywords THEN word[1] ELSE "identifier", word, last)
    BY DEF TokenizeIdentifier
  <1>. HIDE DEF last
  <1>5. last = pos
    <2>1. last # pos - 1
      <3>1. IsAt(Letters \cup Digits, pos) /\ (pos - 1) + 1 = pos
        BY <1>1, <1>2 DEF IsAt
      <3>. QED
        BY <1>3, <3>1
    <2>2. ~(last >= pos + 1)
      <3>. SUFFICES ASSUME last >= pos + 1 PROVE FALSE
        OBVIOUS
      <3>1. pos + 1 \in pos..last /\ pos + 1 <= Len(text)
        BY <1>1, <1>3
      <3>. QED
        BY <1>3, <3>1 DEF IsAt
    <2>. QED
      BY <1>1, <1>3, <2>1, <2>2
  <1>6. word = <<text[pos]>>
    <2>. DEFINE t == SubSeq(text, pos, pos)
    <2>1. t \in Seq(Char) /\ Len(t) = 1 /\ t[1] = text[pos]
      BY <1>1, <1>2, Piece
    <2>. HIDE DEF t
    <2>2. t = <<text[pos]>>
      BY <2>1
    <2>. QED
      BY <1>5, <2>2 DEF t
  <1>. DEFINE w == <<text[pos]>>
  <1>7. Len(w) = 1 /\ w[1] = text[pos]
    OBVIOUS
  <1>. QED
    BY <1>4, <1>5, <1>6, <1>7

\* The places the lexer comes to in the statement of the client.
Stage ==
    LET a == Len(SqlLiteral(value[1]))
        b == Len(SqlLiteral(value[2]))
    IN
    \/ pos = 1 /\ Got(tokens, value, 0)
    \/ pos = 2 /\ Got(tokens, value, 1)
    \/ pos = 3 /\ Got(tokens, value, 1)
    \/ pos = 4 /\ Got(tokens, value, 2)
    \/ pos = 5 /\ Got(tokens, value, 2)
    \/ pos = 6 /\ Got(tokens, value, 3)
    \/ pos = 7 /\ Got(tokens, value, 3)
    \/ pos = 8 /\ Got(tokens, value, 4)
    \/ pos = 9 /\ Got(tokens, value, 5)
    \/ pos = 9 + a /\ Got(tokens, value, 6)
    \/ pos = 10 + a /\ Got(tokens, value, 7)
    \/ pos = 10 + a + b /\ Got(tokens, value, 8)
    \/ pos = 11 + a + b /\ Got(tokens, value, 9)

\* The lexer goes from one stage to the next.
LEMMA StageStep ==
    ASSUME LexInv, value \in Seq(Char) \X Seq(Char), value' = value, text = SqlText(value),
           lexed = "busy", Stage, LexNext, ~LexAllocationFails
    PROVE  (lexed' = "busy" /\ Stage') \/ (lexed' = "ok" /\ Got(tokens', value, 10))
  <1>. DEFINE a == Len(SqlLiteral(value[1]))
              b == Len(SqlLiteral(value[2]))
  <1>1. value[1] \in Seq(Char) /\ value[2] \in Seq(Char)
    OBVIOUS
  <1>2. /\ a \in Nat /\ a >= 2 /\ SqlLiteral(value[1])[1] = Quote
        /\ b \in Nat /\ b >= 2 /\ SqlLiteral(value[2])[1] = Quote
    <2>1. \A n \in Nat : n + 2 \in Nat /\ n + 2 >= 2
      OBVIOUS
    <2>. QED
      BY <1>1, <2>1, LiteralShape
  <1>3. /\ text \in Seq(Char) /\ Len(text) = 10 + a + b
        /\ \A k \in 1..8 : text[k] = Prefix[k]
        /\ \A k \in 1..a : text[8 + k] = SqlLiteral(value[1])[k]
        /\ text[9 + a] = "COMMA"
        /\ \A k \in 1..b : text[9 + a + k] = SqlLiteral(value[2])[k]
        /\ text[10 + a + b] = "RPAREN"
    BY SqlShape
  <1>. HIDE DEF a, b
  <1>4. /\ text[1] = "INSERT" /\ text[2] = "SPACE" /\ text[3] = "INTO" /\ text[4] = "SPACE"
        /\ text[5] = "a" /\ text[6] = "SPACE" /\ text[7] = "VALUES" /\ text[8] = "LPAREN"
    BY <1>3 DEF Prefix
  <1>5. text[9] = Quote /\ text[10 + a] = Quote
    <2>1. 1 \in 1..a /\ 1 \in 1..b /\ 8 + 1 = 9 /\ 9 + a + 1 = 10 + a
      BY <1>2
    <2>. QED
      BY <1>2, <1>3, <2>1
  <1>6. /\ InsertKinds[1] = "INSERT" /\ InsertKinds[2] = "INTO" /\ InsertKinds[3] = "identifier"
        /\ InsertKinds[4] = "VALUES" /\ InsertKinds[5] = "LPAREN" /\ InsertKinds[6] = "string"
        /\ InsertKinds[7] = "COMMA" /\ InsertKinds[8] = "string" /\ InsertKinds[9] = "RPAREN"
        /\ InsertKinds[10] = "EOF"
    BY DEF InsertKinds
  <1>7. /\ {"INSERT", "INTO", "VALUES"} \subseteq Keywords /\ Keywords \subseteq Letters /\ "a" \in Letters \ Keywords
        /\ "SPACE" \in Spaces /\ {"LPAREN", "COMMA", "RPAREN"} \subseteq Symbols
        /\ {"SPACE", "LPAREN"} \cap (Letters \cup Digits) = {}
        /\ "COMMA" # Quote /\ "RPAREN" # Quote
    BY DEF Keywords, Letters, Spaces, Symbols, Digits, Quote
  <1>9. Stage' <=>
            \/ pos' = 1 /\ Got(tokens', value, 0)
            \/ pos' = 2 /\ Got(tokens', value, 1)
            \/ pos' = 3 /\ Got(tokens', value, 1)
            \/ pos' = 4 /\ Got(tokens', value, 2)
            \/ pos' = 5 /\ Got(tokens', value, 2)
            \/ pos' = 6 /\ Got(tokens', value, 3)
            \/ pos' = 7 /\ Got(tokens', value, 3)
            \/ pos' = 8 /\ Got(tokens', value, 4)
            \/ pos' = 9 /\ Got(tokens', value, 5)
            \/ pos' = 9 + a /\ Got(tokens', value, 6)
            \/ pos' = 10 + a /\ Got(tokens', value, 7)
            \/ pos' = 10 + a + b /\ Got(tokens', value, 8)
            \/ pos' = 11 + a + b /\ Got(tokens', value, 9)
    BY DEF Stage, a, b
  \* White space.
  <1>10. ASSUME NEW p \in {2, 4, 6}, NEW m, pos = p, Got(tokens, value, m)
         PROVE  lexed' = "busy" /\ pos' = p + 1 /\ Got(tokens', value, m)
    <2>1. Here(Spaces)
      BY <1>2, <1>3, <1>4, <1>7, <1>10 DEF Here
    <2>2. SkipSpace
      BY <2>1, WhichToken
    <2>. QED
      BY <1>10, <2>2 DEF SkipSpace
  \* A word.
  <1>11. ASSUME NEW p \in {1, 3, 5, 7}, NEW m \in {0, 1, 2, 3}, pos = p, Got(tokens, value, m),
                InsertKinds[m + 1] = IF text[p] \in Keywords THEN text[p] ELSE "identifier"
         PROVE  lexed' = "busy" /\ pos' = p + 1 /\ Got(tokens', value, m + 1)
    <2>1. pos = p /\ Here(Letters) /\ ~IsAt(Letters \cup Digits, pos + 1)
      BY <1>2, <1>3, <1>4, <1>7, <1>11, SMTT(30) DEF Here, IsAt
    <2>2. AppendToken(IF text[pos] \in Keywords THEN text[pos] ELSE "identifier", <<text[pos]>>, pos)
      BY <2>1, WhichToken, WordTaken
    <2>3. m \in 0..9 /\ m # 5 /\ m # 7
      OBVIOUS
    <2>4. pos' = pos + 1 /\ Got(tokens', value, m + 1)
      BY <1>11, <2>1, <2>2, <2>3, Taken
    <2>. QED
      BY <2>1, <2>2, <2>4 DEF AppendToken
  \* A symbol.
  <1>12. ASSUME NEW p \in 1..Len(text), NEW m \in {4, 6, 8}, pos = p,
               Got(tokens, value, m), text[p] \in Symbols, InsertKinds[m + 1] = text[p]
         PROVE  lexed' = "busy" /\ pos' = p + 1 /\ Got(tokens', value, m + 1)
    <2>1. pos = p /\ Here(Symbols)
      BY <1>12 DEF Here
    <2>2. AppendToken(text[pos], <<text[pos]>>, pos)
      BY <2>1, WhichToken DEF TokenizeSymbol
    <2>3. m \in 0..9 /\ m # 5 /\ m # 7
      OBVIOUS
    <2>4. pos' = pos + 1 /\ Got(tokens', value, m + 1)
      BY <1>12, <2>1, <2>2, <2>3, Taken
    <2>. QED
      BY <2>1, <2>2, <2>4 DEF AppendToken
  \* A literal.
  <1>13. ASSUME NEW p \in Nat, NEW m \in {5, 7}, pos = p, Got(tokens, value, m), NEW v \in Seq(Char), AtLiteral(v),
                m = 5 => v = value[1], m = 7 => v = value[2]
         PROVE  lexed' = "busy" /\ pos' = p + Len(SqlLiteral(v)) /\ Got(tokens', value, m + 1)
    <2>. DEFINE last == Min(Closing)
    <2>1. Here({Quote}) /\ Closing # {} /\ last = pos + Len(SqlLiteral(v)) - 1 /\ Copied[last - 1] = v
      BY <1>13, LiteralRead
    <2>2. AppendToken("string", v, last)
      BY <2>1, WhichToken DEF TokenizeString
    <2>. HIDE DEF last
    <2>3. m \in 0..9 /\ InsertKinds[m + 1] = "string"
      BY <1>6
    <2>4. pos' = last + 1 /\ Got(tokens', value, m + 1)
      BY <1>13, <2>2, <2>3, Taken
    <2>5. pos = p
      BY <1>13
    <2>6. last + 1 = p + Len(SqlLiteral(v))
      <3>1. Len(SqlLiteral(v)) \in Nat
        BY LiteralShape
      <3>. QED
        BY <2>1, <2>5, <3>1
    <2>7. lexed' = "busy"
      BY <2>2 DEF AppendToken
    <2>. QED
      BY <2>4, <2>6, <2>7
  \* The end.
  <1>14. ASSUME pos = 11 + a + b, Got(tokens, value, 9) PROVE lexed' = "ok" /\ Got(tokens', value, 10)
    <2>1. pos = 11 + a + b /\ pos > Len(text)
      BY <1>2, <1>3, <1>14
    <2>2. LexEnd
      BY <2>1, WhichToken
    <2>. DEFINE new == [kind |-> "EOF", text |-> <<>>, from |-> pos, to |-> pos]
    <2>3. tokens' = Append(tokens, new) /\ new.kind = "EOF" /\ lexed' = "ok"
      BY <2>2 DEF LexEnd
    <2>4. PICK S : tokens \in Seq(S)
      BY DEF LexInv
    <2>5. tokens \in Seq(S \cup {new}) /\ new \in S \cup {new}
      BY <2>4, SeqMonotonic, Zenon
    <2>. HIDE DEF new
    <2>6. Len(tokens) = 9 /\ tokens[6].text = value[1] /\ tokens[8].text = value[2]
          /\ \A k \in 1..9 : tokens[k].kind = InsertKinds[k]
      BY <1>14 DEF Got
    <2>7. /\ Len(tokens') = 10 /\ tokens'[10] = new /\ \A k \in 1..9 : tokens'[k] = tokens[k]
      <3>. DEFINE n == Len(tokens)
      <3>1. /\ Len(tokens') = n + 1 /\ tokens'[n + 1] = new /\ \A k \in 1..n : tokens'[k] = tokens[k]
        BY <2>3, <2>5
      <3>2. n = 9 /\ n + 1 = 10
        BY <2>6
      <3>. HIDE DEF n
      <3>. QED
        BY <3>1, <3>2
    <2>8. \A k \in 1..10 : k \in 1..9 \/ k = 10
      OBVIOUS
    <2>9. \A k \in 1..10 : tokens'[k].kind = InsertKinds[k]
      BY <1>6, <2>3, <2>6, <2>7, <2>8
    <2>10. tokens'[6].text = value[1] /\ tokens'[8].text = value[2]
      <3>1. 6 \in 1..9 /\ 8 \in 1..9
        OBVIOUS
      <3>. QED
        BY <2>6, <2>7, <3>1
    <2>. QED
      BY <2>3, <2>7, <2>9, <2>10 DEF Got
  <1>15. CASE pos = 1 /\ Got(tokens, value, 0)
    <2>1. lexed' = "busy" /\ pos' = 1 + 1 /\ Got(tokens', value, 0 + 1)
      BY <1>4, <1>6, <1>7, <1>11, <1>15
    <2>. QED
      BY <1>9, <2>1
  <1>16. CASE pos = 2 /\ Got(tokens, value, 1)
    BY <1>9, <1>10, <1>16
  <1>17. CASE pos = 3 /\ Got(tokens, value, 1)
    <2>1. lexed' = "busy" /\ pos' = 3 + 1 /\ Got(tokens', value, 1 + 1)
      BY <1>4, <1>6, <1>7, <1>11, <1>17
    <2>. QED
      BY <1>9, <2>1
  <1>18. CASE pos = 4 /\ Got(tokens, value, 2)
    BY <1>9, <1>10, <1>18
  <1>19. CASE pos = 5 /\ Got(tokens, value, 2)
    <2>1. lexed' = "busy" /\ pos' = 5 + 1 /\ Got(tokens', value, 2 + 1)
      BY <1>4, <1>6, <1>7, <1>11, <1>19
    <2>. QED
      BY <1>9, <2>1
  <1>20. CASE pos = 6 /\ Got(tokens, value, 3)
    BY <1>9, <1>10, <1>20
  <1>21. CASE pos = 7 /\ Got(tokens, value, 3)
    <2>1. lexed' = "busy" /\ pos' = 7 + 1 /\ Got(tokens', value, 3 + 1)
      BY <1>4, <1>6, <1>7, <1>11, <1>21
    <2>. QED
      BY <1>9, <2>1
  <1>22. CASE pos = 8 /\ Got(tokens, value, 4)
    <2>1. 8 \in 1..Len(text)
      BY <1>2, <1>3
    <2>2. lexed' = "busy" /\ pos' = 8 + 1 /\ Got(tokens', value, 4 + 1)
      BY <1>4, <1>6, <1>7, <1>12, <1>22, <2>1
    <2>. QED
      BY <1>9, <2>2
  <1>23. CASE pos = 9 /\ Got(tokens, value, 5)
    <2>1. AtLiteral(value[1])
      <3>1. pos = 9
        BY <1>23
      <3>2. pos + a - 1 <= Len(text) /\ pos + a = 9 + a /\ \A k \in 1..a : pos + k - 1 = 8 + k
        BY <1>2, <1>3, <3>1
      <3>. QED
        BY <1>3, <1>7, <3>2 DEF AtLiteral, IsAt, a
    <2>2. lexed' = "busy" /\ pos' = 9 + a /\ Got(tokens', value, 5 + 1)
      BY <1>1, <1>13, <1>23, <2>1 DEF a
    <2>. QED
      BY <1>9, <2>2
  <1>24. CASE pos = 9 + a /\ Got(tokens, value, 6)
    <2>1. 9 + a \in 1..Len(text) /\ (9 + a) + 1 = 10 + a
      BY <1>2, <1>3
    <2>2. lexed' = "busy" /\ pos' = (9 + a) + 1 /\ Got(tokens', value, 6 + 1)
      BY <1>3, <1>6, <1>7, <1>12, <1>24, <2>1
    <2>. QED
      BY <1>9, <2>1, <2>2
  <1>25. CASE pos = 10 + a /\ Got(tokens, value, 7)
    <2>1. AtLiteral(value[2])
      <3>1. pos = 10 + a
        BY <1>25
      <3>2. pos + b - 1 <= Len(text) /\ pos + b = 10 + a + b /\ \A k \in 1..b : pos + k - 1 = 9 + a + k
        BY <1>2, <1>3, <3>1
      <3>. QED
        BY <1>3, <1>7, <3>2 DEF AtLiteral, IsAt, b
    <2>2. 10 + a \in Nat
      BY <1>2
    <2>3. lexed' = "busy" /\ pos' = 10 + a + b /\ Got(tokens', value, 7 + 1)
      BY <1>1, <1>13, <1>25, <2>1, <2>2 DEF b
    <2>. QED
      BY <1>9, <2>3
  <1>26. CASE pos = 10 + a + b /\ Got(tokens, value, 8)
    <2>1. 10 + a + b \in 1..Len(text) /\ (10 + a + b) + 1 = 11 + a + b
      BY <1>2, <1>3
    <2>2. lexed' = "busy" /\ pos' = (10 + a + b) + 1 /\ Got(tokens', value, 8 + 1)
      BY <1>3, <1>6, <1>7, <1>12, <1>26, <2>1
    <2>. QED
      BY <1>9, <2>1, <2>2
  <1>. QED
    BY <1>14, <1>15, <1>16, <1>17, <1>18, <1>19, <1>20, <1>21, <1>22, <1>23, <1>24, <1>25, <1>26 DEF Stage, a, b

\* A row on its way to the table.
ClientInv ==
    entry \in {"api", "cli"} =>
        /\ phase = "json" => entry = "api"
        /\ phase = "lex" =>
              /\ text = SqlText(value) /\ lexed \in {"busy", "ok", "memory"}
              /\ lexed = "busy" => Stage
        /\ lexed = "ok" => Got(tokens, value, 10)
        /\ lexed = "memory" => tokens = <<>>
        /\ phase \notin {"json", "lex", "refused"} => lexed = "ok"
        /\ phase = "refused" => lexed = "memory" \/ (entry = "api" /\ want = "done" /\ verdict # "ok")

\* At the last stage the tokens are an INSERT of the two values.
LEMMA GotIsInsert ==
    ASSUME LexInv, Got(tokens, value, 10)
    PROVE  IsInsert
  <1>1. PICK S : tokens \in Seq(S)
    BY DEF LexInv
  <1>2. DOMAIN tokens = 1..10
    BY <1>1 DEF Got
  <1>3. DOMAIN InsertKinds = 1..10 /\ InsertKinds = [i \in 1..10 |-> InsertKinds[i]]
    BY DEF InsertKinds
  <1>4. \A i \in 1..10 : tokens[i].kind = InsertKinds[i]
    BY DEF Got
  <1>. QED
    BY <1>2, <1>3, <1>4 DEF IsInsert

\* The invariant of the client's statement.
LEMMA ClientInvHolds == Spec => []ClientInv
  <1>1. Init => ClientInv
    <2>. SUFFICES ASSUME Init, entry \in {"api", "cli"} PROVE ClientInv
      BY DEF ClientInv
    <2>1. /\ phase = (IF entry = "api" THEN "json" ELSE "lex") /\ lexed = "busy" /\ pos = 1 /\ tokens = <<>>
          /\ entry = "cli" => text = SqlText(value)
      BY DEF Init, LexInit
    <2>2. Got(tokens, value, 0)
      BY <2>1 DEF Got
    <2>3. Stage
      BY <2>1, <2>2 DEF Stage
    <2>. QED
      BY <2>1, <2>3 DEF ClientInv
  <1>2. TextInv /\ SentInv /\ ClientInv /\ [Next]_vars => ClientInv'
    <2>. SUFFICES ASSUME TextInv, SentInv, ClientInv, [Next]_vars, entry' \in {"api", "cli"} PROVE ClientInv'
      BY DEF ClientInv
    <2>0. UNCHANGED <<entry, value>>
      BY DEF Next, ExtractField, LeaveJson, Tokenize, Insert, Select, ReadRow, ScanEnd, Respond, UseTable, Finished,
             vars, pathVars
    <2>1. entry \in {"api", "cli"} /\ value \in Seq(Char) \X Seq(Char) /\ LexInv
      BY <2>0 DEF TextInv
    <2>2. CASE UNCHANGED <<pathVars, lexVars>> /\ (phase # "json" => UNCHANGED jsonVars)
      <3>1. Stage' <=> Stage
        BY <2>2 DEF Stage, pathVars, lexVars
      <3>. QED
        BY <2>2, <3>1 DEF ClientInv, pathVars, lexVars, jsonVars
    <2>3. CASE LeaveJson
      <3>1. /\ phase = "json" /\ want = "done" /\ UNCHANGED <<pos, tokens, lexed, jsonVars>> /\ entry = "api"
        BY <2>1, <2>3 DEF LeaveJson, ClientInv
      <3>2. pos = 1 /\ tokens = <<>> /\ lexed = "busy"
        BY <3>1 DEF TextInv
      <3>3. CASE verdict = "ok"
        <4>1. phase' = "lex" /\ text' = ParseJsonString(Sent).out
          BY <2>3, <3>1, <3>3 DEF LeaveJson
        <4>2. ParseJsonString(Sent).state = "closed"
          BY <3>1, <3>3 DEF SentInv
        <4>3. SqlText(value) \in Seq(Char)
          BY <2>1, SentType
        <4>4. ParseJsonString(Sent) = [state |-> "closed", out |-> SqlText(value)]
          BY <4>2, <4>3, ServerReads DEF Sent
        <4>5. text' = SqlText(value)'
          BY <2>0, <4>1, <4>4
        <4>6. Got(tokens', value', 0)
          BY <3>1, <3>2 DEF Got
        <4>7. Stage'
          BY <3>1, <3>2, <4>6 DEF Stage
        <4>. QED
          BY <3>1, <3>2, <4>1, <4>5, <4>7 DEF ClientInv
      <3>4. CASE verdict # "ok"
        <4>1. phase' = "refused"
          BY <2>3, <3>4 DEF LeaveJson
        <4>. QED
          BY <2>0, <3>1, <3>2, <3>4, <4>1 DEF ClientInv, jsonVars
      <3>. QED
        BY <3>3, <3>4
    <2>4. CASE Tokenize
      <3>1. LexNext /\ phase = "lex" /\ UNCHANGED <<entry, value, phase, jsonVars>>
        BY <2>4 DEF Tokenize, pathVars
      <3>2. lexed = "busy" /\ text' = text
        BY <3>1 DEF LexNext, SkipSpace, TokenizeIdentifier, TokenizeNumber, TokenizeString, TokenizeSymbol,
                    LexAllocationFails, LexEnd, AppendToken, Fails
      <3>3. text = SqlText(value) /\ Stage
        BY <2>1, <3>1, <3>2 DEF ClientInv
      <3>4. text' = SqlText(value)'
        BY <3>1, <3>2, <3>3
      <3>5. CASE LexAllocationFails
        <4>1. lexed' = "memory" /\ tokens' = <<>>
          BY <3>5 DEF LexAllocationFails, Fails
        <4>. QED
          BY <3>1, <3>4, <4>1 DEF ClientInv
      <3>6. CASE ~LexAllocationFails
        <4>1. (lexed' = "busy" /\ Stage') \/ (lexed' = "ok" /\ Got(tokens', value, 10))
          BY <2>1, <3>1, <3>2, <3>3, <3>6, StageStep
        <4>. QED
          BY <3>1, <3>4, <4>1 DEF ClientInv
      <3>. QED
        BY <3>5, <3>6
    <2>5. CASE Insert
      <3>1. phase = "lex" /\ lexed # "busy" /\ UNCHANGED <<lexVars, jsonVars>>
        BY <2>5 DEF Insert
      <3>2. CASE lexed = "ok"
        <4>1. Got(tokens, value, 10)
          BY <2>1, <3>2 DEF ClientInv
        <4>2. phase' = "stored"
          BY <2>1, <2>5, <4>1, GotIsInsert DEF Insert
        <4>. QED
          BY <2>0, <3>1, <3>2, <4>1, <4>2 DEF ClientInv, lexVars
      <3>3. CASE lexed = "memory"
        <4>1. tokens = <<>>
          BY <2>1, <3>3 DEF ClientInv
        <4>2. ~IsInsert
          BY <4>1, InsertTokens
        <4>3. phase' = "refused"
          BY <2>5, <4>2 DEF Insert
        <4>. QED
          BY <2>0, <3>1, <3>3, <4>1, <4>3 DEF ClientInv, lexVars
      <3>. QED
        BY <2>1, <3>1, <3>2, <3>3 DEF ClientInv
    <2>6. CASE Select \/ ReadRow \/ ScanEnd \/ Respond
      <3>1. UNCHANGED <<lexVars, jsonVars>>
        BY <2>6, Zenon DEF Select, ReadRow, ScanEnd, Respond
      <3>2. phase \notin {"json", "lex", "refused"} /\ phase' \notin {"json", "lex", "refused"}
        BY <2>6 DEF Select, ReadRow, ScanEnd, Respond
      <3>. QED
        BY <2>0, <2>1, <3>1, <3>2 DEF ClientInv, lexVars
    <2>7. CASE ExtractField
      <3>1. UNCHANGED <<pathVars, lexVars>> /\ phase = "json"
        BY <2>7 DEF ExtractField
      <3>. QED
        BY <2>2, <3>1
    <2>8. CASE UseTable \/ Finished \/ UNCHANGED vars
      <3>1. UNCHANGED <<pathVars, lexVars, jsonVars>>
        BY <2>8, Zenon DEF UseTable, Finished, vars
      <3>. QED
        BY <2>2, <3>1
    <2>. QED
      BY Zenon, <2>3, <2>4, <2>5, <2>6, <2>7, <2>8 DEF Next
  <1>. QED
    BY <1>1, <1>2, TextInvHolds, SentInvHolds, PTL DEF Spec

\* For every row: the literals the client wrote are read as the values, and a row
\* is refused only over HTTP and only for a control character without a letter.
THEOREM LiteralIsAlwaysTheValue == Spec => []LiteralIsTheValue
  <1>1. TextInv /\ SentInv /\ ClientInv => LiteralIsTheValue
    <2>. SUFFICES ASSUME TextInv, SentInv, ClientInv, entry \in {"api", "cli"}
                  PROVE  /\ lexed = "ok" => IsInsert /\ tokens[6].text = value[1] /\ tokens[8].text = value[2]
                         /\ phase = "refused" /\ ~OutOfMemory =>
                               /\ entry = "api"
                               /\ \E i \in DOMAIN value : "CTRL" \in ToSet(value[i])
      BY DEF LiteralIsTheValue
    <2>1. value \in Seq(Char) \X Seq(Char) /\ LexInv
      BY DEF TextInv
    <2>2. ASSUME lexed = "ok" PROVE IsInsert /\ tokens[6].text = value[1] /\ tokens[8].text = value[2]
      <3>1. Got(tokens, value, 10)
        BY <2>2 DEF ClientInv
      <3>. QED
        BY <2>1, <3>1, GotIsInsert DEF Got
    <2>3. ASSUME phase = "refused", ~OutOfMemory
          PROVE  entry = "api" /\ \E i \in DOMAIN value : "CTRL" \in ToSet(value[i])
      <3>1. entry = "api" /\ want = "done" /\ verdict # "ok" /\ verdict # "internal"
        BY <2>3 DEF ClientInv, OutOfMemory
      <3>2. ParseJsonString(Sent).state # "closed"
        BY <3>1 DEF SentInv
      <3>3. SqlText(value) \in Seq(Char)
        BY <2>1, SentType
      <3>4. ~\A i \in 1..Len(SqlText(value)) : SqlText(value)[i] # "CTRL"
        BY <3>2, <3>3, ServerReads DEF Sent
      <3>. QED
        BY <2>1, <3>1, <3>4, ControlFromValue
    <2>. QED
      BY <2>2, <2>3
  <1>. QED
    BY <1>1, TextInvHolds, SentInvHolds, ClientInvHolds, PTL

-----------------------------------------------------------------------------
(* Texts that grow at their end.                                           *)

\* A set of sequences that has the empty one, and with each sequence its
\* extensions, has them all.
LEMMA AppendInduction ==
    ASSUME NEW S, NEW T, <<>> \in T, \A s \in Seq(S) : \A x \in S : s \in T => Append(s, x) \in T
    PROVE  Seq(S) \subseteq T
  <1>. DEFINE M == {n \in Nat : \A s \in Seq(S) : Len(s) = n => s \in T}
  <1>1. 0 \in M
    <2>1. \A s \in Seq(S) : Len(s) = 0 => s = <<>>
      BY EmptySeq
    <2>. QED
      BY <2>1
  <1>2. ASSUME NEW n \in Nat, n \in M PROVE n + 1 \in M
    <2>. SUFFICES ASSUME NEW s \in Seq(S), Len(s) = n + 1 PROVE s \in T
      OBVIOUS
    <2>. DEFINE a == SubSeq(s, 1, n)
                x == s[n + 1]
    <2>1. a \in Seq(S) /\ Append(a, x) = SubSeq(s, 1, n + 1)
      BY LongerPrefix
    <2>2. SubSeq(s, 1, n + 1) = s
      BY SubSeqFull
    <2>3. Len(a) = n /\ x \in S
      <3>1. n + 1 \in 1..Len(s)
        OBVIOUS
      <3>. QED
        BY <3>1, ElementOfSeq
    <2>. HIDE DEF a, x
    <2>4. a \in T
      BY <1>2, <2>1, <2>3
    <2>. QED
      BY <2>1, <2>2, <2>3, <2>4
  <1>3. Nat \subseteq M
    <2>. HIDE DEF M
    <2>. QED
      BY <1>1, <1>2, NatInductive
  <1>4. ASSUME NEW s \in Seq(S) PROVE s \in T
    <2>1. Len(s) \in M
      BY <1>3
    <2>. QED
      BY <2>1
  <1>. QED
    BY <1>4

\* Appending and concatenating.
LEMMA AppendLaws ==
    ASSUME NEW S
    PROVE  /\ \A a \in Seq(S) : \A x \in S : /\ Append(a, x) \in Seq(S) /\ <<x>> \in Seq(S)
                                            /\ Append(a, x) = a \o <<x>>
           /\ \A a, b \in Seq(S) : \A x \in S : /\ a \o b \in Seq(S)
                                               /\ Append(a \o b, x) = a \o Append(b, x)
                                               /\ Append(a, x) \o b = a \o (<<x>> \o b)
  <1>. SUFFICES ASSUME NEW a \in Seq(S), NEW b \in Seq(S), NEW x \in S
                PROVE  /\ Append(a, x) \in Seq(S) /\ a \o b \in Seq(S) /\ <<x>> \in Seq(S)
                       /\ Append(a, x) = a \o <<x>>
                       /\ Append(a \o b, x) = a \o Append(b, x)
                       /\ Append(a, x) \o b = a \o (<<x>> \o b)
    <2>1. <<>> \in Seq(S)
      OBVIOUS
    <2>. QED
      BY <2>1, ZenonT(60)
  <1>1. Append(a, x) \in Seq(S) /\ a \o b \in Seq(S) /\ <<x>> \in Seq(S) /\ Append(b, x) \in Seq(S)
    BY ConcatProperties
  <1>2. \A c \in Seq(S) : Append(c, x) = c \o <<x>>
    <2>. SUFFICES ASSUME NEW c \in Seq(S) PROVE Append(c, x) = c \o <<x>>
      OBVIOUS
    <2>. DEFINE u == Append(c, x)
                w == c \o <<x>>
    <2>1. u \in Seq(S) /\ Len(u) = Len(c) + 1 /\ \A i \in 1..(Len(c) + 1) : u[i] = IF i <= Len(c) THEN c[i] ELSE x
      OBVIOUS
    <2>2. w \in Seq(S) /\ Len(w) = Len(c) + 1 /\ \A i \in 1..(Len(c) + 1) : w[i] = IF i <= Len(c) THEN c[i] ELSE x
      <3>. DEFINE o == <<x>>
      <3>1. o \in Seq(S) /\ Len(o) = 1 /\ o[1] = x
        OBVIOUS
      <3>2. w = c \o o
        OBVIOUS
      <3>. HIDE DEF o, w
      <3>0. /\ w \in Seq(S) /\ Len(w) = Len(c) + Len(o)
            /\ \A i \in 1..(Len(c) + Len(o)) : w[i] = IF i <= Len(c) THEN c[i] ELSE o[i - Len(c)]
        BY <3>1, <3>2, ConcatProperties, Zenon
      <3>3. /\ w \in Seq(S) /\ Len(w) = Len(c) + 1
            /\ \A i \in 1..(Len(c) + 1) : w[i] = IF i <= Len(c) THEN c[i] ELSE o[i - Len(c)]
        BY <3>0, <3>1
      <3>4. \A i \in 1..(Len(c) + 1) : ~(i <= Len(c)) => i - Len(c) = 1
        OBVIOUS
      <3>. QED
        BY <3>1, <3>3, <3>4
    <2>. HIDE DEF u, w
    <2>3. u = w
      BY <2>1, <2>2, SeqEqual
    <2>. QED
      BY <2>3 DEF u, w
  <1>3. Append(a \o b, x) = a \o Append(b, x)
    <2>1. (a \o b) \o <<x>> = a \o (b \o <<x>>)
      BY <1>1, ConcatAssociative
    <2>. QED
      BY <1>1, <1>2, <2>1
  <1>4. Append(a, x) \o b = a \o (<<x>> \o b)
    <2>1. (a \o <<x>>) \o b = a \o (<<x>> \o b)
      BY <1>1, ConcatAssociative
    <2>. QED
      BY <1>2, <2>1
  <1>. QED
    BY <1>1, <1>2, <1>3, <1>4

\* The same for texts.
LEMMA TextLaws ==
    /\ \A a \in Seq(Char) : \A x \in Char : Append(a, x) \in Seq(Char) /\ Append(a, x) = a \o <<x>>
    /\ \A a, b \in Seq(Char) : \A x \in Char :
          /\ a \o b \in Seq(Char) /\ Append(a \o b, x) = a \o Append(b, x)
          /\ Append(a, x) \o b = a \o (<<x>> \o b)
    /\ \A a \in Seq(Char) : a \o <<>> = a /\ <<>> \o a = a
  <1>1. \A a \in Seq(Char) : \A x \in Char : Append(a, x) \in Seq(Char) /\ Append(a, x) = a \o <<x>>
    BY AppendLaws
  <1>2. \A a, b \in Seq(Char) : \A x \in Char : a \o b \in Seq(Char) /\ Append(a \o b, x) = a \o Append(b, x)
    BY AppendLaws
  <1>3. \A a, b \in Seq(Char) : \A x \in Char : Append(a, x) \o b = a \o (<<x>> \o b)
    BY AppendLaws
  <1>4. \A a \in Seq(Char) : a \o <<>> = a /\ <<>> \o a = a
    BY ConcatEmptySeq
  <1>. QED
    BY <1>1, <1>2, <1>3, <1>4, ZenonT(60)

\* A character between two texts.
LEMMA AppendBehind ==
    ASSUME NEW a \in Seq(Char), NEW b \in Seq(Char), NEW x \in Char
    PROVE  Append(a \o b, x) = a \o Append(b, x) /\ Append(a, x) \o b = a \o (<<x>> \o b)
  BY TextLaws, ZenonT(60)

\* One part more.
LEMMA FlattenAppend ==
    ASSUME NEW S, NEW q \in Seq(Seq(S)), NEW w \in Seq(S)
    PROVE  FlattenSeq(Append(q, w)) = FlattenSeq(q) \o w
  <1>. DEFINE n == Len(q)
              p == Append(q, w)
  <1>1. /\ n \in Nat /\ p \in Seq(Seq(S)) /\ Len(p) = n + 1 /\ p[n + 1] = w
        /\ \A i \in 1..n : p[i] = q[i]
    OBVIOUS
  <1>. HIDE DEF p
  <1>2. PICK f : Parts(f, S, q) /\ FlattenSeq(q) = f[n]
    BY Flattened
  <1>3. PICK g : Parts(g, S, p) /\ FlattenSeq(p) = g[n + 1]
    BY <1>1, Flattened
  <1>. HIDE DEF n
  <1>4. /\ f[0] = g[0]
        /\ \A i \in 1..n : f[i] = f[i - 1] \o q[i]
        /\ \A i \in 1..(n + 1) : g[i] = g[i - 1] \o p[i]
    BY <1>1, <1>2, <1>3 DEF Parts, n
  <1>5. \A i \in 1..n : f[i - 1] = g[i - 1] => f[i] = g[i]
    <2>. SUFFICES ASSUME NEW i \in 1..n, f[i - 1] = g[i - 1] PROVE f[i] = g[i]
      OBVIOUS
    <2>1. i \in 1..(n + 1)
      BY <1>1
    <2>. QED
      BY <1>1, <1>4, <2>1
  <1>6. \A i \in 0..n : f[i] = g[i]
    <2>1. n \in Nat /\ f[0] = g[0]
      BY <1>1, <1>4
    <2>. QED
      BY <1>5, <2>1, SameSteps, ZenonT(60)
  <1>7. n \in 0..n /\ n + 1 \in 1..(n + 1) /\ (n + 1) - 1 = n
    BY <1>1
  <1>8. g[n + 1] = f[n] \o w
    BY <1>1, <1>4, <1>6, <1>7
  <1>. QED
    BY <1>2, <1>3, <1>8 DEF p

\* escape_field, one character more.
LEMMA EscapeAppend ==
    /\ EscapeField(<<>>) = <<>>
    /\ \A s \in Seq(Char) : \A ch \in Char :
          /\ Word(FieldEscapes, ch) \in Seq(Char)
          /\ EscapeField(Append(s, ch)) = EscapeField(s) \o Word(FieldEscapes, ch)
  <1>0. \A ch \in Char : Word(FieldEscapes, ch) \in Seq(Char)
    <2>. SUFFICES ASSUME NEW ch \in Char PROVE Word(FieldEscapes, ch) \in Seq(Char)
      OBVIOUS
    <2>1. <<ch>> \in Seq(Char)
      OBVIOUS
    <2>. QED
      BY <2>1, FieldTables DEF Word
  <1>1. EscapeField(<<>>) = <<>>
    <2>. DEFINE e == EscapeField(<<>>)
    <2>1. <<>> \in Seq(Char) /\ Len(<<>>) = 0
      OBVIOUS
    <2>2. e \in Seq(Char)
      BY <2>1, EscapedField
    <2>3. PICK off : Ends(off, FieldEscapes, <<>>, e)
      BY <2>1, EscapedField
    <2>4. off[0] = 0 /\ off[0] = Len(e)
      BY <2>1, <2>3 DEF Ends
    <2>. HIDE DEF e
    <2>5. e = <<>>
      BY <2>2, <2>4, EmptySeq
    <2>. QED
      BY <2>5 DEF e
  <1>2. ASSUME NEW s \in Seq(Char), NEW ch \in Char
        PROVE  EscapeField(Append(s, ch)) = EscapeField(s) \o Word(FieldEscapes, ch)
    <2>. DEFINE q == [i \in DOMAIN s |-> Word(FieldEscapes, s[i])]
                t == Append(s, ch)
                p == [i \in DOMAIN t |-> Word(FieldEscapes, t[i])]
                w == Word(FieldEscapes, ch)
    <2>1. EscapeField(s) = FlattenSeq(q) /\ EscapeField(t) = FlattenSeq(p)
      BY DEF EscapeField, Rewrite, Word, FieldEscapes
    <2>2. /\ Len(s) \in Nat /\ DOMAIN s = 1..Len(s) /\ \A i \in 1..Len(s) : s[i] \in Char
          /\ DOMAIN t = 1..(Len(s) + 1) /\ t[Len(s) + 1] = ch /\ \A i \in 1..Len(s) : t[i] = s[i]
      BY ElementOfSeq
    <2>. HIDE DEF t
    <2>3. \A i \in 1..Len(s) : Word(FieldEscapes, s[i]) \in Seq(Char)
      BY <1>0, <2>2
    <2>4. q \in Seq(Seq(Char)) /\ Len(q) = Len(s) /\ \A i \in 1..Len(s) : q[i] = Word(FieldEscapes, s[i])
      <3>1. q = [i \in 1..Len(s) |-> Word(FieldEscapes, s[i])]
        BY <2>2
      <3>. QED
        BY <2>2, <2>3, <3>1
    <2>5. w \in Seq(Char)
      BY <1>0
    <2>6. p = [i \in 1..(Len(s) + 1) |-> Word(FieldEscapes, t[i])]
      BY <2>2
    <2>7. \A i \in 1..(Len(s) + 1) : p[i] = IF i <= Len(s) THEN q[i] ELSE w
      <3>. SUFFICES ASSUME NEW i \in 1..(Len(s) + 1) PROVE p[i] = IF i <= Len(s) THEN q[i] ELSE w
        OBVIOUS
      <3>1. CASE i <= Len(s)
        <4>1. i \in 1..Len(s)
          BY <2>2, <3>1
        <4>2. t[i] = s[i] /\ p[i] = Word(FieldEscapes, t[i]) /\ q[i] = Word(FieldEscapes, s[i])
          BY <2>2, <2>4, <2>6, <4>1
        <4>. QED
          BY <3>1, <4>2
      <3>2. CASE ~(i <= Len(s))
        <4>1. i = Len(s) + 1
          BY <2>2, <3>2
        <4>2. p[i] = w
          BY <2>2, <2>6, <4>1
        <4>. QED
          BY <3>2, <4>2
      <3>. QED
        BY <3>1, <3>2
    <2>. DEFINE a == Append(q, w)
    <2>8. /\ a \in Seq(Seq(Char)) /\ Len(a) = Len(s) + 1
          /\ \A i \in 1..(Len(s) + 1) : a[i] = IF i <= Len(s) THEN q[i] ELSE w
      <3>. HIDE DEF q, w
      <3>. QED
        BY <2>2, <2>4, <2>5
    <2>9. p \in Seq(Seq(Char)) /\ Len(p) = Len(s) + 1
      <3>1. \A i \in 1..(Len(s) + 1) : Word(FieldEscapes, t[i]) \in Seq(Char)
        <4>1. \A i \in 1..(Len(s) + 1) : t[i] \in Char
          <5>1. \A i \in 1..(Len(s) + 1) : i \in 1..Len(s) \/ i = Len(s) + 1
            BY <2>2
          <5>. QED
            BY <2>2, <5>1
        <4>. QED
          BY <1>0, <4>1
      <3>. QED
        BY <2>2, <2>6, <3>1
    <2>. HIDE DEF p, q, w, a
    <2>10. p = a
      BY <2>7, <2>8, <2>9, SeqEqual
    <2>11. FlattenSeq(p) = FlattenSeq(q) \o w
      BY <2>4, <2>5, <2>10, FlattenAppend DEF a
    <2>. QED
      BY <2>1, <2>11 DEF t, w
  <1>. QED
    BY <1>0, <1>1, <1>2

\* The states of the loops behind a whole text.
UnescapeAfter(s) == UnescapeStates(s)[Len(s)]
SplitAfter(s) == SplitStates(s)[Len(s)]

\* unescape_field, one character more.
LEMMA UnescapeAppend ==
    /\ UnescapeAfter(<<>>) = NoOutput
    /\ \A s \in Seq(Char) : \A ch \in Char :
          /\ UnescapeAfter(s) \in UnescapeState
          /\ UnescapeAfter(Append(s, ch)) = UnescapeStep(UnescapeAfter(s), ch)
  <1>1. UnescapeAfter(<<>>) = NoOutput
    <2>1. <<>> \in Seq(Char) /\ Len(<<>>) = 0
      OBVIOUS
    <2>. QED
      BY <2>1, UnescapeSteps DEF UnescapeAfter
  <1>2. ASSUME NEW s \in Seq(Char), NEW ch \in Char
        PROVE  /\ UnescapeAfter(s) \in UnescapeState
               /\ UnescapeAfter(Append(s, ch)) = UnescapeStep(UnescapeAfter(s), ch)
    <2>. DEFINE n == Len(s)
                t == Append(s, ch)
                f == UnescapeStates(s)
                g == UnescapeStates(t)
    <2>1. n \in Nat /\ t \in Seq(Char) /\ Len(t) = n + 1 /\ t[n + 1] = ch /\ \A i \in 1..n : t[i] = s[i]
      OBVIOUS
    <2>2. /\ \A i \in 0..n : f[i] \in UnescapeState
          /\ f[0] = NoOutput /\ \A i \in 1..n : f[i] = UnescapeStep(f[i - 1], s[i])
      BY UnescapeSteps
    <2>. HIDE DEF t
    <2>3. g[0] = NoOutput /\ \A i \in 1..(n + 1) : g[i] = UnescapeStep(g[i - 1], t[i])
      BY <2>1, UnescapeSteps
    <2>. HIDE DEF f, g, n
    <2>4. ASSUME NEW i \in 1..n, f[i - 1] = g[i - 1] PROVE f[i] = g[i]
      <3>1. i \in 1..(n + 1)
        BY <2>1
      <3>. QED
        BY <2>1, <2>2, <2>3, <2>4, <3>1
    <2>5. \A i \in 0..n : f[i] = g[i]
      <3>1. n \in Nat /\ f[0] = g[0]
        BY <2>1, <2>2, <2>3
      <3>. QED
        BY <2>4, <3>1, SameSteps, ZenonT(60)
    <2>6. n \in 0..n /\ n + 1 \in 1..(n + 1) /\ (n + 1) - 1 = n
      BY <2>1
    <2>7. f[n] \in UnescapeState /\ g[n + 1] = UnescapeStep(f[n], ch)
      BY <2>1, <2>2, <2>3, <2>5, <2>6
    <2>8. UnescapeAfter(s) = f[n] /\ UnescapeAfter(t) = g[n + 1]
      BY <2>1 DEF UnescapeAfter, f, g, n
    <2>. QED
      BY <2>7, <2>8 DEF t
  <1>. QED
    BY <1>1, <1>2

\* split_escaped_row, one character more.
LEMMA SplitAppend ==
    /\ SplitAfter(<<>>) = NoField
    /\ \A s \in Seq(Char) : \A ch \in Char :
          /\ SplitAfter(s) \in SplitState(Char)
          /\ SplitAfter(Append(s, ch)) = SplitStep(SplitAfter(s), ch)
  <1>1. SplitAfter(<<>>) = NoField
    <2>1. <<>> \in Seq(Char) /\ Len(<<>>) = 0
      OBVIOUS
    <2>. QED
      BY <2>1, SplitSteps DEF SplitAfter
  <1>2. ASSUME NEW s \in Seq(Char), NEW ch \in Char
        PROVE  /\ SplitAfter(s) \in SplitState(Char)
               /\ SplitAfter(Append(s, ch)) = SplitStep(SplitAfter(s), ch)
    <2>. DEFINE n == Len(s)
                t == Append(s, ch)
                f == SplitStates(s)
                g == SplitStates(t)
    <2>1. n \in Nat /\ t \in Seq(Char) /\ Len(t) = n + 1 /\ t[n + 1] = ch /\ \A i \in 1..n : t[i] = s[i]
      OBVIOUS
    <2>2. /\ \A i \in 0..n : f[i] \in SplitState(Char)
          /\ f[0] = NoField /\ \A i \in 1..n : f[i] = SplitStep(f[i - 1], s[i])
      BY SplitSteps
    <2>. HIDE DEF t
    <2>3. g[0] = NoField /\ \A i \in 1..(n + 1) : g[i] = SplitStep(g[i - 1], t[i])
      BY <2>1, SplitSteps
    <2>. HIDE DEF f, g, n
    <2>4. ASSUME NEW i \in 1..n, f[i - 1] = g[i - 1] PROVE f[i] = g[i]
      <3>1. i \in 1..(n + 1)
        BY <2>1
      <3>. QED
        BY <2>1, <2>2, <2>3, <2>4, <3>1
    <2>5. \A i \in 0..n : f[i] = g[i]
      <3>1. n \in Nat /\ f[0] = g[0]
        BY <2>1, <2>2, <2>3
      <3>. QED
        BY <2>4, <3>1, SameSteps, ZenonT(60)
    <2>6. n \in 0..n /\ n + 1 \in 1..(n + 1) /\ (n + 1) - 1 = n
      BY <2>1
    <2>7. f[n] \in SplitState(Char) /\ g[n + 1] = SplitStep(f[n], ch)
      BY <2>1, <2>2, <2>3, <2>5, <2>6
    <2>8. SplitAfter(s) = f[n] /\ SplitAfter(t) = g[n + 1]
      BY <2>1 DEF SplitAfter, f, g, n
    <2>. QED
      BY <2>7, <2>8 DEF t
  <1>. QED
    BY <1>1, <1>2

-----------------------------------------------------------------------------
(* A row that is written is read back.                                     *)

\* What escape_field makes of a character, and unescape_field of that.
LEMMA FieldWords ==
    ASSUME NEW ch \in Char
    PROVE  /\ ch \notin {"BSL", "BAR", "LF"} => Word(FieldEscapes, ch) = <<ch>>
           /\ ch \in {"BSL", "BAR", "LF"} =>
                 \E x \in Char : /\ Word(FieldEscapes, ch) = <<"BSL", x>>
                                 /\ x \in DOMAIN FieldLetters /\ FieldLetters[x] = ch
                                 /\ x \notin {"LF", "CR"}
  <1>1. ch \notin {"BSL", "BAR", "LF"} => Word(FieldEscapes, ch) = <<ch>>
    BY DEF Word, FieldEscapes
  <1>2. CASE ch \in {"BSL", "BAR", "LF"}
    <2>. DEFINE x == IF ch = "LF" THEN "n" ELSE ch
    <2>1. Word(FieldEscapes, ch) = <<"BSL", x>>
      BY <1>2 DEF Word, FieldEscapes
    <2>2. x \in Char /\ x \in DOMAIN FieldLetters /\ FieldLetters[x] = ch /\ x \notin {"LF", "CR"}
      BY <1>2, FieldTables DEF FieldLetters
    <2>. HIDE DEF x
    <2>. QED
      BY <1>2, <2>1, <2>2
  <1>. QED
    BY <1>1, <1>2

\* Sequences with one, two and three elements.
LEMMA Tuples ==
    ASSUME NEW S
    PROVE  /\ \A x \in S : Append(<<>>, x) = <<x>> /\ <<x>> \in Seq(S)
           /\ \A x, y \in S : Append(<<x>>, y) = <<x, y>> /\ <<x, y>> \in Seq(S)
           /\ \A x, y, z \in S : Append(<<x, y>>, z) = <<x, y, z>>
  <1>. SUFFICES ASSUME NEW x \in S, NEW y \in S, NEW z \in S
                PROVE  /\ Append(<<>>, x) = <<x>> /\ Append(<<x>>, y) = <<x, y>>
                       /\ Append(<<x, y>>, z) = <<x, y, z>> /\ <<x>> \in Seq(S) /\ <<x, y>> \in Seq(S)
    BY Zenon
  <1>. DEFINE a == <<x>>
              b == <<x, y>>
              c == <<x, y, z>>
              d == Append(a, y)
              e == Append(b, z)
  <1>1. /\ a \in Seq(S) /\ Len(a) = 1 /\ a[1] = x
        /\ b \in Seq(S) /\ Len(b) = 2 /\ b[1] = x /\ b[2] = y
        /\ c \in Seq(S) /\ Len(c) = 3 /\ c[1] = x /\ c[2] = y /\ c[3] = z
    OBVIOUS
  <1>2. Append(<<>>, x) = a
    OBVIOUS
  <1>. HIDE DEF a, b, c
  <1>0. \A q \in Seq(S) : \A u \in S :
           LET t == Append(q, u) IN
           t \in Seq(S) /\ Len(t) = Len(q) + 1 /\ (\A i \in 1..Len(q) : t[i] = q[i]) /\ t[Len(q) + 1] = u
    OBVIOUS
  <1>3. d \in Seq(S) /\ Len(d) = Len(a) + 1 /\ (\A i \in 1..Len(a) : d[i] = a[i]) /\ d[Len(a) + 1] = y
    BY <1>0, <1>1, Zenon
  <1>4. e \in Seq(S) /\ Len(e) = Len(b) + 1 /\ (\A i \in 1..Len(b) : e[i] = b[i]) /\ e[Len(b) + 1] = z
    BY <1>0, <1>1, Zenon
  <1>. HIDE DEF d, e
  <1>5. 1..2 = {1, 2} /\ 1..3 = {1, 2, 3}
    OBVIOUS
  <1>6. (\A i \in 1..2 : d[i] = b[i]) /\ \A i \in 1..3 : e[i] = c[i]
    BY <1>1, <1>3, <1>4, <1>5
  <1>7. d = b /\ e = c
    BY <1>1, <1>3, <1>4, <1>6, SeqEqual
  <1>. QED
    BY <1>1, <1>2, <1>7 DEF a, b, c, d, e

\* Two characters more.
LEMMA TwoMore ==
    ASSUME NEW S, NEW a \in Seq(S), NEW x \in S, NEW y \in S
    PROVE  /\ a \o <<x, y>> = Append(Append(a, x), y)
           /\ Append(a, x) \in Seq(S) /\ Append(Append(a, x), y) \in Seq(S)
  <1>. DEFINE b == <<x>>
  <1>1. b \in Seq(S) /\ Append(b, y) = <<x, y>>
    BY Tuples
  <1>2. Append(a, x) = a \o b /\ Append(a, x) \in Seq(S)
    BY AppendLaws
  <1>. HIDE DEF b
  <1>3. Append(a \o b, y) = a \o Append(b, y) /\ Append(a \o b, y) \in Seq(S)
    BY <1>1, <1>2, AppendLaws
  <1>. QED
    BY <1>1, <1>2, <1>3

\* unescape_field gives back what escape_field was given.
LEMMA UnescapedBack ==
    ASSUME NEW v \in Seq(Char)
    PROVE  UnescapeField(EscapeField(v)) = [out |-> v, ok |-> TRUE]
  <1>. DEFINE Read(s) == [out |-> s, pending |-> FALSE, ok |-> TRUE]
              T == {s \in Seq(Char) : UnescapeAfter(EscapeField(s)) = Read(s)}
  <1>1. <<>> \in T
    <2>1. UnescapeAfter(EscapeField(<<>>)) = NoOutput
      BY EscapeAppend, UnescapeAppend
    <2>. QED
      BY <2>1 DEF NoOutput
  <1>2. ASSUME NEW s \in Seq(Char), NEW ch \in Char, s \in T PROVE Append(s, ch) \in T
    <2>. DEFINE e == EscapeField(s)
                w == Word(FieldEscapes, ch)
    <2>1. e \in Seq(Char) /\ UnescapeAfter(e) = Read(s) /\ Append(s, ch) \in Seq(Char)
      BY <1>2, EscapedField
    <2>2. EscapeField(Append(s, ch)) = e \o w
      BY EscapeAppend
    <2>. HIDE DEF e
    <2>3. CASE ch \notin {"BSL", "BAR", "LF"}
      <3>0. w = <<ch>>
        BY <2>3, FieldWords
      <3>. HIDE DEF w
      <3>1. e \o w = Append(e, ch)
        BY <2>1, <3>0, AppendLaws
      <3>2. UnescapeAfter(Append(e, ch)) = UnescapeStep(Read(s), ch)
        BY <2>1, UnescapeAppend
      <3>3. UnescapeStep(Read(s), ch) = Read(Append(s, ch))
        BY <2>3 DEF UnescapeStep
      <3>. QED
        BY <2>1, <2>2, <3>1, <3>2, <3>3
    <2>4. CASE ch \in {"BSL", "BAR", "LF"}
      <3>1. PICK x \in Char : w = <<"BSL", x>> /\ x \in DOMAIN FieldLetters /\ FieldLetters[x] = ch
        BY <2>4, FieldWords
      <3>. HIDE DEF w
      <3>. DEFINE a == Append(e, "BSL")
                  mid == [out |-> s, pending |-> TRUE, ok |-> TRUE]
      <3>2. "BSL" \in Char
        BY FieldTables
      <3>3. e \o w = Append(a, x) /\ a \in Seq(Char)
        BY <2>1, <3>1, <3>2, TwoMore
      <3>4. UnescapeAfter(a) = UnescapeStep(Read(s), "BSL")
        BY <2>1, <3>2, UnescapeAppend
      <3>5. UnescapeStep(Read(s), "BSL") = mid
        BY DEF UnescapeStep
      <3>. HIDE DEF a
      <3>6. UnescapeAfter(Append(a, x)) = UnescapeStep(mid, x)
        BY <3>3, <3>4, <3>5, UnescapeAppend
      <3>7. UnescapeStep(mid, x) = Read(Append(s, ch))
        BY <3>1 DEF UnescapeStep
      <3>. QED
        BY <2>1, <2>2, <3>3, <3>6, <3>7
    <2>. QED
      BY <2>3, <2>4
  <1>3. Seq(Char) \subseteq T
    <2>. HIDE DEF T
    <2>. QED
      BY <1>1, <1>2, AppendInduction
  <1>4. UnescapeAfter(EscapeField(v)) = Read(v)
    BY <1>3
  <1>. DEFINE st == UnescapeAfter(EscapeField(v))
  <1>5. st.out = v /\ st.ok = TRUE /\ st.pending = FALSE
    BY <1>4
  <1>6. UnescapeField(EscapeField(v)) = [out |-> st.out, ok |-> st.ok /\ ~st.pending]
    BY DEF UnescapeField, UnescapeAfter
  <1>. HIDE DEF st
  <1>7. (st.ok /\ ~st.pending) = TRUE
    BY <1>5
  <1>. QED
    BY <1>5, <1>6, <1>7

\* split_escaped_row takes an escaped field as one.
LEMMA SplitBack ==
    ASSUME NEW p \in Seq(Char), NEW F \in Seq(Seq(Char)), NEW v \in Seq(Char),
           SplitAfter(p) = [raw |-> <<>>, pending |-> FALSE, fields |-> F]
    PROVE  /\ SplitAfter(p \o EscapeField(v)) = [raw |-> EscapeField(v), pending |-> FALSE, fields |-> F]
           /\ SplitAfter(Append(p \o EscapeField(v), "BAR"))
              = [raw |-> <<>>, pending |-> FALSE, fields |-> Append(F, EscapeField(v))]
  <1>. DEFINE Has(r) == [raw |-> r, pending |-> FALSE, fields |-> F]
              T == {s \in Seq(Char) : SplitAfter(p \o EscapeField(s)) = Has(EscapeField(s))}
  <1>1. <<>> \in T
    <2>1. EscapeField(<<>>) = <<>> /\ p \o <<>> = p /\ <<>> \in Seq(Char)
      BY EscapeAppend, ConcatEmptySeq
    <2>2. p \o EscapeField(<<>>) = p /\ Has(EscapeField(<<>>)) = Has(<<>>)
      BY <2>1
    <2>. QED
      BY <2>1, <2>2
  <1>2. ASSUME NEW s \in Seq(Char), NEW ch \in Char, s \in T PROVE Append(s, ch) \in T
    <2>. DEFINE e == EscapeField(s)
                w == Word(FieldEscapes, ch)
                pe == p \o e
    <2>1. e \in Seq(Char) /\ SplitAfter(pe) = Has(e) /\ Append(s, ch) \in Seq(Char)
      BY <1>2, EscapedField
    <2>2. EscapeField(Append(s, ch)) = e \o w
      BY EscapeAppend
    <2>. HIDE DEF e
    <2>3. pe \in Seq(Char)
      BY <2>1, ConcatProperties
    <2>4. CASE ch \notin {"BSL", "BAR", "LF"}
      <3>0. w = <<ch>>
        BY <2>4, FieldWords
      <3>. HIDE DEF w
      <3>1. e \o w = Append(e, ch) /\ p \o Append(e, ch) = Append(p \o e, ch)
        <4>2. Append(e, ch) = e \o <<ch>>
          BY <2>1, TextLaws, Zenon
        <4>3. Append(p \o e, ch) = p \o Append(e, ch)
          <5>1. e \in Seq(Char) /\ p \in Seq(Char) /\ ch \in Char
            BY <2>1
          <5>. HIDE DEF T, Has
          <5>. QED
            BY <5>1, AppendBehind, ZenonT(60)
        <4>. QED
          BY <3>0, <4>2, <4>3
      <3>4. p \o (e \o w) = Append(pe, ch)
        BY <3>1
      <3>. HIDE DEF pe
      <3>2. SplitAfter(Append(pe, ch)) = SplitStep(Has(e), ch)
        BY <2>1, <2>3, SplitAppend
      <3>3. SplitStep(Has(e), ch) = Has(Append(e, ch))
        BY <2>4 DEF SplitStep
      <3>. QED
        BY <2>1, <2>2, <3>1, <3>2, <3>3, <3>4
    <2>5. CASE ch \in {"BSL", "BAR", "LF"}
      <3>1. PICK x \in Char : w = <<"BSL", x>>
        BY <2>5, FieldWords
      <3>. HIDE DEF w
      <3>. DEFINE a == Append(e, "BSL")
                  pa == Append(pe, "BSL")
                  mid == [raw |-> a, pending |-> TRUE, fields |-> F]
      <3>2. "BSL" \in Char
        BY FieldTables
      <3>3. e \o w = Append(a, x) /\ a \in Seq(Char)
        BY <2>1, <3>1, <3>2, TwoMore
      <3>4. p \o a = pa /\ pa \in Seq(Char)
        BY <2>1, <2>3, <3>2, AppendLaws
      <3>. HIDE DEF pe
      <3>5. SplitAfter(pa) = SplitStep(Has(e), "BSL")
        BY <2>1, <2>3, <3>2, SplitAppend
      <3>6. SplitStep(Has(e), "BSL") = mid
        BY DEF SplitStep
      <3>. HIDE DEF a, pa
      <3>7. p \o Append(a, x) = Append(pa, x)
        <4>1. Append(p \o a, x) = p \o Append(a, x)
          BY <3>3, AppendBehind, ZenonT(60)
        <4>. QED
          BY <3>4, <4>1
      <3>8. SplitAfter(Append(pa, x)) = SplitStep(mid, x)
        BY <3>4, <3>5, <3>6, SplitAppend
      <3>9. SplitStep(mid, x) = Has(Append(a, x))
        BY DEF SplitStep
      <3>. QED
        BY <2>1, <2>2, <3>3, <3>7, <3>8, <3>9
    <2>. QED
      BY <2>4, <2>5
  <1>3. Seq(Char) \subseteq T
    <2>. HIDE DEF T
    <2>. QED
      BY <1>1, <1>2, AppendInduction
  <1>. DEFINE e == EscapeField(v)
              pe == p \o e
  <1>4. SplitAfter(pe) = Has(e)
    BY <1>3
  <1>5. "BAR" \in Char /\ e \in Seq(Char)
    BY FieldTables, EscapedField
  <1>6. pe \in Seq(Char)
    BY <1>5, ConcatProperties
  <1>. HIDE DEF e, pe
  <1>7. SplitAfter(Append(pe, "BAR")) = SplitStep(Has(e), "BAR")
    BY <1>4, <1>5, <1>6, SplitAppend
  <1>8. SplitStep(Has(e), "BAR") = [raw |-> <<>>, pending |-> FALSE, fields |-> Append(F, e)]
    BY DEF SplitStep
  <1>. QED
    BY <1>4, <1>7, <1>8 DEF e, pe

\* A line of three fields, without its line end.
Joined(a, b, c) == Append(Append(a, "BAR") \o b, "BAR") \o c

\* A line of escaped fields is split into them.
LEMMA SplitJoined ==
    ASSUME NEW u \in Seq(Char), NEW v \in Seq(Char), NEW w \in Seq(Char)
    PROVE  LET l == Joined(EscapeField(u), EscapeField(v), EscapeField(w)) IN
           /\ l \in Seq(Char)
           /\ Split(l) = [fields |-> <<EscapeField(u), EscapeField(v), EscapeField(w)>>, ok |-> TRUE]
  <1>. DEFINE a == EscapeField(u)
              b == EscapeField(v)
              c == EscapeField(w)
              A == Append(a, "BAR")
              B == Append(A \o b, "BAR")
              Then(fs) == [raw |-> <<>>, pending |-> FALSE, fields |-> fs]
  <1>1. a \in Seq(Char) /\ b \in Seq(Char) /\ c \in Seq(Char) /\ "BAR" \in Char
    BY EscapedField, FieldTables
  <1>2. A \in Seq(Char) /\ B \in Seq(Char) /\ B \o c \in Seq(Char)
    <2>. HIDE DEF a, b, c
    <2>1. A \in Seq(Char)
      BY <1>1
    <2>. HIDE DEF A
    <2>2. A \o b \in Seq(Char)
      BY <1>1, <2>1
    <2>3. B \in Seq(Char)
      BY <1>1, <2>2
    <2>. HIDE DEF B
    <2>. QED
      BY <1>1, <2>1, <2>3
  <1>3. SplitAfter(<<>>) = Then(<<>>) /\ <<>> \in Seq(Char) /\ <<>> \in Seq(Seq(Char)) /\ <<>> \o a = a
    BY <1>1, SplitAppend, ConcatEmptySeq DEF NoField
  <1>4. SplitAfter(A) = Then(Append(<<>>, a))
    <2>1. SplitAfter(Append(<<>> \o a, "BAR")) = Then(Append(<<>>, a))
      BY <1>3, SplitBack, Zenon
    <2>. QED
      BY <1>3, <2>1
  <1>5. Append(<<>>, a) = <<a>> /\ <<a>> \in Seq(Seq(Char))
    BY <1>1, Tuples
  <1>. HIDE DEF A
  <1>6. SplitAfter(B) = Then(Append(<<a>>, b))
    <2>1. SplitAfter(A) = Then(<<a>>)
      BY <1>4, <1>5
    <2>. QED
      <3>. DEFINE fs == <<a>>
      <3>1. fs \in Seq(Seq(Char)) /\ SplitAfter(A) = [raw |-> <<>>, pending |-> FALSE, fields |-> fs]
        BY <1>5, <2>1
      <3>. HIDE DEF fs
      <3>2. SplitAfter(B) = Then(Append(fs, b))
        BY <1>2, <3>1, SplitBack
      <3>. QED
        BY <3>2 DEF fs
  <1>7. Append(<<a>>, b) = <<a, b>> /\ <<a, b>> \in Seq(Seq(Char))
    BY <1>1, Tuples
  <1>. HIDE DEF B
  <1>8. SplitAfter(B \o c) = [raw |-> c, pending |-> FALSE, fields |-> <<a, b>>]
    <2>1. SplitAfter(B) = Then(<<a, b>>)
      BY <1>6, <1>7
    <2>. QED
      <3>. DEFINE fs == <<a, b>>
      <3>1. fs \in Seq(Seq(Char)) /\ SplitAfter(B) = [raw |-> <<>>, pending |-> FALSE, fields |-> fs]
        BY <1>7, <2>1
      <3>. HIDE DEF fs
      <3>2. SplitAfter(B \o c) = [raw |-> c, pending |-> FALSE, fields |-> fs]
        BY <1>2, <3>1, SplitBack
      <3>. QED
        BY <3>2 DEF fs
  <1>9. Append(<<a, b>>, c) = <<a, b, c>>
    BY <1>1, Tuples
  <1>10. Split(B \o c) = [fields |-> Append(<<a, b>>, c), ok |-> TRUE]
    <2>. DEFINE st == SplitAfter(B \o c)
    <2>1. st.raw = c /\ st.pending = FALSE /\ st.fields = <<a, b>>
      BY <1>8
    <2>2. Split(B \o c) = [fields |-> Append(st.fields, st.raw), ok |-> ~st.pending]
      BY DEF Split, SplitAfter
    <2>. HIDE DEF st
    <2>. QED
      BY <2>1, <2>2
  <1>. QED
    BY <1>2, <1>9, <1>10 DEF Joined, A, B

\* parse_line_into_row gives back the row of a line.
LEMMA ParsedBack ==
    ASSUME NEW u \in Seq(Char), NEW v \in Seq(Char), NEW w \in Seq(Char)
    PROVE  ParseLineIntoRow(Joined(EscapeField(u), EscapeField(v), EscapeField(w)))
           = [ok |-> TRUE, row |-> <<u, v, w>>]
  <1>. DEFINE l == Joined(EscapeField(u), EscapeField(v), EscapeField(w))
              fs == <<EscapeField(u), EscapeField(v), EscapeField(w)>>
              fields == [i \in DOMAIN fs |-> UnescapeField(fs[i])]
              outs == [i \in DOMAIN fields |-> fields[i].out]
  <1>1. Split(l) = [fields |-> fs, ok |-> TRUE]
    BY SplitJoined
  <1>2. DOMAIN fs = 1..3 /\ 1..3 = {1, 2, 3} /\ fs[1] = EscapeField(u) /\ fs[2] = EscapeField(v) /\ fs[3] = EscapeField(w)
    OBVIOUS
  <1>. HIDE DEF l, fs
  <1>3. ParseLineIntoRow(l) = [ok |-> TRUE /\ \A i \in DOMAIN fields : fields[i].ok, row |-> NormalizeFieldCount(outs)]
    BY <1>1 DEF ParseLineIntoRow
  <1>4. /\ DOMAIN fields = 1..3 /\ fields[1] = [out |-> u, ok |-> TRUE] /\ fields[2] = [out |-> v, ok |-> TRUE]
        /\ fields[3] = [out |-> w, ok |-> TRUE]
    BY <1>2, UnescapedBack
  <1>. HIDE DEF fields
  <1>5. /\ (TRUE /\ \A i \in DOMAIN fields : fields[i].ok) = TRUE
        /\ DOMAIN outs = 1..3 /\ outs[1] = u /\ outs[2] = v /\ outs[3] = w
    BY <1>2, <1>4
  <1>. HIDE DEF outs
  <1>6. NormalizeFieldCount(outs) = <<u, v, w>>
    <2>. DEFINE r == <<u, v, w>>
    <2>1. DOMAIN r = 1..3 /\ r[1] = u /\ r[2] = v /\ r[3] = w /\ r = [i \in 1..3 |-> r[i]]
      OBVIOUS
    <2>. HIDE DEF r
    <2>2. NormalizeFieldCount(outs) = [i \in 1..3 |-> outs[i]]
      BY <1>5 DEF NormalizeFieldCount, Columns
    <2>3. \A i \in 1..3 : outs[i] = r[i]
      BY <1>2, <1>5, <2>1
    <2>4. NormalizeFieldCount(outs) = r
      BY <2>1, <2>2, <2>3
    <2>. QED
      BY <2>4 DEF r
  <1>. QED
    BY <1>3, <1>5, <1>6 DEF l

-----------------------------------------------------------------------------
(* A line that is read is the line of its row.                             *)

\* The line of a row.
LEMMA RowShape ==
    ASSUME NEW r \in [1..Columns -> Seq(Char)]
    PROVE  LET l == Joined(EscapeField(r[1]), EscapeField(r[2]), EscapeField(r[3])) IN
           l \in Seq(Char) /\ RowLine(r) = Append(l, "LF")
  <1>. DEFINE a == EscapeField(r[1])
              b == EscapeField(r[2])
              c == EscapeField(r[3])
              u == <<"BAR">> \o b
              w == <<"BAR">> \o c
              part(i) == (IF i > 1 THEN <<"BAR">> ELSE <<>>) \o EscapeField(r[i])
              q == [i \in 1..3 |-> part(i)]
              t == <<a, u, w>>
  <1>0. 1..3 = {1, 2, 3} /\ Columns = 3 /\ DOMAIN r = 1..3 /\ "BAR" \in Char /\ "LF" \in Char
    BY FieldTables DEF Columns
  <1>1. a \in Seq(Char) /\ b \in Seq(Char) /\ c \in Seq(Char)
    <2>1. r[1] \in Seq(Char) /\ r[2] \in Seq(Char) /\ r[3] \in Seq(Char)
      BY <1>0
    <2>. QED
      BY <2>1, EscapedField
  <1>2. part(1) = a /\ part(2) = u /\ part(3) = w
    <2>1. <<>> \o a = a
      BY <1>1, TextLaws
    <2>. QED
      BY <2>1
  <1>3. RowLine(r) = FlattenSeq(q) \o <<"LF">>
    BY <1>0 DEF RowLine
  <1>. HIDE DEF a, b, c
  <1>4. u \in Seq(Char) /\ w \in Seq(Char)
    <2>1. <<"BAR">> \in Seq(Char)
      BY <1>0
    <2>. QED
      BY <1>1, <2>1, ConcatProperties
  <1>. HIDE DEF u, w, part
  <1>5. q = t
    <2>1. DOMAIN t = 1..3 /\ t[1] = a /\ t[2] = u /\ t[3] = w /\ t = [i \in 1..3 |-> t[i]]
      OBVIOUS
    <2>. HIDE DEF t
    <2>2. \A i \in 1..3 : part(i) = t[i]
      BY <1>0, <1>2, <2>1
    <2>. QED
      BY <2>1, <2>2
  <1>6. FlattenSeq(t) = ((<<>> \o a) \o u) \o w
    <2>0. <<>> \in Seq(Seq(Char)) /\ FlattenSeq(<<>>) = <<>>
      BY DEF FlattenSeq
    <2>1. /\ Append(<<>>, a) = <<a>> /\ <<a>> \in Seq(Seq(Char))
          /\ Append(<<a>>, u) = <<a, u>> /\ <<a, u>> \in Seq(Seq(Char))
          /\ Append(<<a, u>>, w) = t
      BY <1>1, <1>4, Tuples
    <2>. DEFINE x == <<a>>
                y == <<a, u>>
    <2>. HIDE DEF t, x, y
    <2>2. FlattenSeq(Append(<<>>, a)) = FlattenSeq(<<>>) \o a
      BY <1>1, <2>0, FlattenAppend
    <2>3. FlattenSeq(Append(x, u)) = FlattenSeq(x) \o u
      BY <1>4, <2>1, FlattenAppend DEF x
    <2>4. FlattenSeq(Append(y, w)) = FlattenSeq(y) \o w
      BY <1>4, <2>1, FlattenAppend DEF y
    <2>. QED
      BY <2>0, <2>1, <2>2, <2>3, <2>4 DEF x, y
  <1>. HIDE DEF q, t
  <1>. DEFINE A == Append(a, "BAR")
              B == Append(A \o b, "BAR")
  <1>7. <<>> \o a = a /\ a \o u = A \o b /\ A \in Seq(Char)
    <2>1. Append(a, "BAR") \o b = a \o (<<"BAR">> \o b)
      BY <1>0, <1>1, AppendBehind, ZenonT(60)
    <2>. QED
      BY <1>0, <1>1, <2>1, TextLaws DEF u
  <1>. HIDE DEF A
  <1>. DEFINE Ab == A \o b
  <1>8. Ab \in Seq(Char)
    BY <1>1, <1>7, ConcatProperties
  <1>9. B = Append(Ab, "BAR")
    OBVIOUS
  <1>. HIDE DEF Ab, B
  <1>10. Ab \o w = B \o c /\ B \in Seq(Char)
    <2>0. Ab \in Seq(Char) /\ c \in Seq(Char) /\ "BAR" \in Char
      BY <1>0, <1>1, <1>8
    <2>1. Append(Ab, "BAR") \o c = Ab \o (<<"BAR">> \o c)
      BY <2>0, TextLaws
    <2>. QED
      BY <1>0, <1>8, <1>9, <2>1, TextLaws DEF w
  <1>11. B \o c \in Seq(Char)
    BY <1>1, <1>10, ConcatProperties
  <1>. DEFINE l == B \o c
  <1>12. FlattenSeq(q) = l
    BY <1>5, <1>6, <1>7, <1>10 DEF Ab
  <1>. HIDE DEF l
  <1>13. l \o <<"LF">> = Append(l, "LF") /\ l \in Seq(Char)
    BY <1>0, <1>11, TextLaws DEF l
  <1>14. l = Joined(a, b, c)
    BY DEF l, B, A, Ab, Joined
  <1>. QED
    BY <1>3, <1>12, <1>13, <1>14 DEF a, b, c

\* What unescape_field has read can be written again, up to a backslash that
\* waits for its letter.
Rest(pending) == IF pending THEN <<"BSL">> ELSE <<>>

GoesBack(raw, pending) ==
    LET u == UnescapeAfter(raw) IN
    /\ u.pending = pending
    /\ u.ok => EscapeField(u.out) \o Rest(pending) = raw

\* The same with one character more.
LEMMA BackStep ==
    ASSUME NEW raw \in Seq(Char), NEW pending \in BOOLEAN, NEW ch \in Char, ch # "LF",
           pending \/ ch # "BAR", GoesBack(raw, pending)
    PROVE  /\ pending => GoesBack(Append(raw, ch), FALSE)
           /\ ~pending /\ ch = "BSL" => GoesBack(Append(raw, ch), TRUE)
           /\ ~pending /\ ch # "BSL" => GoesBack(Append(raw, ch), FALSE)
  <1>. DEFINE u == UnescapeAfter(raw)
              n == UnescapeAfter(Append(raw, ch))
              e == EscapeField(u.out)
  <1>0. "BSL" \in Char
    BY FieldTables
  <1>1. u \in UnescapeState /\ n = UnescapeStep(u, ch)
    BY UnescapeAppend
  <1>2. u.pending = pending /\ (u.ok => e \o Rest(pending) = raw)
    BY DEF GoesBack
  <1>3. u.out \in Seq(Char) /\ u.ok \in BOOLEAN
    BY <1>1 DEF UnescapeState
  <1>4. e \in Seq(Char)
    BY <1>3, EscapedField
  <1>. HIDE DEF u
  <1>5. ASSUME pending PROVE GoesBack(Append(raw, ch), FALSE)
    <2>. DEFINE c == IF ch \in DOMAIN FieldLetters THEN FieldLetters[ch] ELSE ch
    <2>1. n = [out |-> Append(u.out, c), pending |-> FALSE, ok |-> u.ok /\ ch \in DOMAIN FieldLetters]
      BY <1>1, <1>2, <1>5 DEF UnescapeStep
    <2>2. n.out = Append(u.out, c) /\ n.pending = FALSE /\ n.ok = (u.ok /\ ch \in DOMAIN FieldLetters)
      BY <2>1
    <2>. HIDE DEF n
    <2>3. ASSUME n.ok PROVE EscapeField(n.out) \o <<>> = Append(raw, ch)
      <3>1. u.ok /\ ch \in DOMAIN FieldLetters
        BY <2>2, <2>3
      <3>2. c \in Char /\ Word(FieldEscapes, c) = <<"BSL", ch>>
        BY <3>1, FieldTables DEF FieldLetters, Word, FieldEscapes
      <3>. HIDE DEF c
      <3>3. EscapeField(n.out) = e \o <<"BSL", ch>>
        BY <1>3, <2>2, <3>2, EscapeAppend
      <3>. HIDE DEF e
      <3>4. e \o <<"BSL">> = raw
        BY <1>2, <1>5, <3>1 DEF Rest
      <3>5. e \o <<"BSL", ch>> = Append(Append(e, "BSL"), ch)
        BY <1>0, <1>4, TwoMore
      <3>6. Append(e, "BSL") = e \o <<"BSL">>
        BY <1>0, <1>4, TextLaws
      <3>7. EscapeField(n.out) = Append(raw, ch)
        BY <3>3, <3>4, <3>5, <3>6
      <3>. QED
        BY <3>7, TextLaws
    <2>. QED
      BY <2>2, <2>3 DEF GoesBack, n, Rest
  <1>6. ASSUME ~pending, ch = "BSL" PROVE GoesBack(Append(raw, ch), TRUE)
    <2>1. n = [u EXCEPT !.pending = TRUE]
      BY <1>1, <1>2, <1>6 DEF UnescapeStep
    <2>2. n.out = u.out /\ n.pending = TRUE /\ n.ok = u.ok
      BY <1>1, <2>1 DEF UnescapeState
    <2>. HIDE DEF n
    <2>3. ASSUME n.ok PROVE EscapeField(n.out) \o <<"BSL">> = Append(raw, ch)
      <3>1. u.ok /\ EscapeField(n.out) = e
        BY <2>2, <2>3
      <3>. HIDE DEF e
      <3>2. e \o <<>> = raw
        BY <1>2, <1>6, <3>1 DEF Rest
      <3>3. e = raw
        BY <1>4, <3>2, TextLaws
      <3>. QED
        BY <1>0, <1>6, <3>1, <3>3, TextLaws
    <2>. QED
      BY <2>2, <2>3 DEF GoesBack, n, Rest
  <1>7. ASSUME ~pending, ch # "BSL" PROVE GoesBack(Append(raw, ch), FALSE)
    <2>1. n = [u EXCEPT !.out = Append(@, ch)]
      BY <1>1, <1>2, <1>7 DEF UnescapeStep
    <2>2. n.out = Append(u.out, ch) /\ n.pending = FALSE /\ n.ok = u.ok
      BY <1>1, <1>2, <1>7, <2>1 DEF UnescapeState
    <2>. HIDE DEF n
    <2>3. ASSUME n.ok PROVE EscapeField(n.out) \o <<>> = Append(raw, ch)
      <3>0. Word(FieldEscapes, ch) = <<ch>>
        BY <1>7, FieldWords
      <3>1. u.ok /\ EscapeField(n.out) = e \o <<ch>>
        BY <1>3, <2>2, <2>3, <3>0, EscapeAppend
      <3>. HIDE DEF e
      <3>2. e \o <<>> = raw
        BY <1>2, <1>7, <3>1 DEF Rest
      <3>3. e = raw
        BY <1>4, <3>2, TextLaws
      <3>4. EscapeField(n.out) = Append(raw, ch)
        BY <3>1, <3>3, TextLaws
      <3>. QED
        BY <3>4, TextLaws
    <2>. QED
      BY <2>2, <2>3 DEF GoesBack, n, Rest
  <1>. QED
    BY <1>5, <1>6, <1>7

\* Where split_escaped_row is: what it has put into fields is the line so far.
SplitSoFar(l) ==
    LET st == SplitAfter(l) IN
    /\ GoesBack(st.raw, st.pending)
    /\ \A j \in 1..Len(st.fields) : GoesBack(st.fields[j], FALSE)
    /\ Len(st.fields) = 0 => l = st.raw
    /\ Len(st.fields) = 1 => l = Append(st.fields[1], "BAR") \o st.raw
    /\ Len(st.fields) = 2 => l = Joined(st.fields[1], st.fields[2], st.raw)

\* One character more.
LEMMA SplitSoFarStep ==
    ASSUME NEW l \in Seq(Char), NEW ch \in Char, ch # "LF", SplitSoFar(l)
    PROVE  SplitSoFar(Append(l, ch))
  <1>. DEFINE st == SplitAfter(l)
              n == SplitAfter(Append(l, ch))
  <1>0. "BAR" \in Char /\ st \in SplitState(Char) /\ n = SplitStep(st, ch)
    BY FieldTables, SplitAppend
  <1>1. st.raw \in Seq(Char) /\ st.pending \in BOOLEAN /\ st.fields \in Seq(Seq(Char))
    BY <1>0 DEF SplitState
  <1>2. /\ GoesBack(st.raw, st.pending)
        /\ \A j \in 1..Len(st.fields) : GoesBack(st.fields[j], FALSE)
        /\ Len(st.fields) = 0 => l = st.raw
        /\ Len(st.fields) = 1 => l = Append(st.fields[1], "BAR") \o st.raw
        /\ Len(st.fields) = 2 => l = Joined(st.fields[1], st.fields[2], st.raw)
    BY DEF SplitSoFar
  <1>3. Len(st.fields) \in Nat /\ \A j \in 1..Len(st.fields) : st.fields[j] \in Seq(Char)
    BY <1>1, ElementOfSeq
  <1>. HIDE DEF st
  <1>4. ASSUME n.raw = Append(st.raw, ch), n.fields = st.fields, GoesBack(n.raw, n.pending)
        PROVE  SplitSoFar(Append(l, ch))
    <2>. DEFINE a == st.fields[1]
                b == st.fields[2]
                c == st.raw
    <2>1. ASSUME Len(st.fields) = 1 PROVE Append(l, ch) = Append(a, "BAR") \o Append(c, ch)
      <3>1. a \in Seq(Char)
        BY <1>3, <2>1
      <3>2. Append(a, "BAR") \in Seq(Char)
        BY <1>0, <3>1, TextLaws
      <3>3. l = Append(a, "BAR") \o c
        BY <1>2, <2>1
      <3>. DEFINE d == Append(a, "BAR")
      <3>. HIDE DEF a, c, d
      <3>4. Append(d \o c, ch) = d \o Append(c, ch)
        BY <1>1, <3>2, AppendBehind, ZenonT(60) DEF c, d
      <3>. QED
        BY <3>3, <3>4 DEF d
    <2>2. ASSUME Len(st.fields) = 2 PROVE Append(l, ch) = Joined(a, b, Append(c, ch))
      <3>1. a \in Seq(Char) /\ b \in Seq(Char)
        BY <1>3, <2>2
      <3>. DEFINE d == Append(a, "BAR")
                  f == Append(d \o b, "BAR")
      <3>2. d \in Seq(Char)
        BY <1>0, <3>1, TextLaws
      <3>. HIDE DEF d
      <3>3. d \o b \in Seq(Char)
        BY <3>1, <3>2, ConcatProperties
      <3>4. f \in Seq(Char)
        BY <1>0, <3>3, TextLaws
      <3>5. l = f \o c
        BY <1>2, <2>2 DEF Joined, d
      <3>6. Joined(a, b, Append(c, ch)) = f \o Append(c, ch)
        BY DEF Joined, d
      <3>. HIDE DEF a, b, c, f
      <3>7. Append(f \o c, ch) = f \o Append(c, ch)
        BY <1>1, <3>4, AppendBehind, ZenonT(60) DEF c
      <3>. QED
        BY <3>5, <3>6, <3>7
    <2>. QED
      BY <1>2, <1>4, <2>1, <2>2 DEF SplitSoFar
  <1>5. CASE st.pending
    <2>1. n.raw = Append(st.raw, ch) /\ n.fields = st.fields /\ n.pending = FALSE
      BY <1>0, <1>5 DEF SplitStep, SplitState
    <2>2. GoesBack(Append(st.raw, ch), FALSE)
      BY <1>1, <1>2, <1>5, BackStep
    <2>. QED
      BY <1>4, <2>1, <2>2
  <1>6. CASE ~st.pending /\ ch = "BSL"
    <2>1. n.raw = Append(st.raw, ch) /\ n.fields = st.fields /\ n.pending = TRUE
      BY <1>0, <1>6 DEF SplitStep, SplitState
    <2>2. GoesBack(Append(st.raw, ch), TRUE)
      BY <1>1, <1>2, <1>6, BackStep
    <2>. QED
      BY <1>4, <2>1, <2>2
  <1>7. CASE ~st.pending /\ ch \notin {"BSL", "BAR"}
    <2>1. n.raw = Append(st.raw, ch) /\ n.fields = st.fields /\ n.pending = FALSE
      BY <1>0, <1>1, <1>7 DEF SplitStep, SplitState
    <2>2. GoesBack(Append(st.raw, ch), FALSE)
      BY <1>1, <1>2, <1>7, BackStep
    <2>. QED
      BY <1>4, <2>1, <2>2
  <1>8. CASE ~st.pending /\ ch = "BAR"
    <2>. DEFINE fs == st.fields
                g == Append(fs, st.raw)
    <2>1. n.raw = <<>> /\ n.fields = g /\ n.pending = FALSE
      BY <1>0, <1>1, <1>8 DEF SplitStep, SplitState
    <2>2. /\ Len(g) = Len(fs) + 1 /\ g[Len(fs) + 1] = st.raw /\ \A j \in 1..Len(fs) : g[j] = fs[j]
      BY <1>1
    <2>. HIDE DEF n, g, fs
    <2>3. GoesBack(<<>>, FALSE)
      <3>1. UnescapeAfter(<<>>) = NoOutput /\ EscapeField(<<>>) = <<>> /\ <<>> \o <<>> = <<>>
        BY UnescapeAppend, EscapeAppend
      <3>. QED
        BY <3>1 DEF GoesBack, NoOutput, Rest
    <2>4. \A j \in 1..Len(g) : GoesBack(g[j], FALSE)
      <3>1. \A j \in 1..Len(g) : j \in 1..Len(fs) \/ j = Len(fs) + 1
        BY <1>3, <2>2 DEF fs
      <3>2. GoesBack(st.raw, FALSE)
        BY <1>1, <1>2, <1>8
      <3>. QED
        BY <1>2, <2>2, <3>1, <3>2 DEF fs
    <2>5. Len(fs) \in Nat
      BY <1>3 DEF fs
    <2>6. Len(g) # 0 /\ (Len(g) = 1 => Len(fs) = 0) /\ (Len(g) = 2 => Len(fs) = 1)
      <3>. DEFINE m == Len(fs)
      <3>1. Len(g) = m + 1 /\ m \in Nat
        BY <2>2, <2>5
      <3>. DEFINE k == Len(g)
      <3>2. k = m + 1
        BY <3>1
      <3>. HIDE DEF m, k
      <3>3. k # 0 /\ (k = 1 => m = 0) /\ (k = 2 => m = 1)
        BY <3>1, <3>2
      <3>. QED
        BY <3>3, Zenon DEF m, k
    <2>7. ASSUME Len(g) = 1 PROVE Append(l, ch) = Append(g[1], "BAR") \o <<>>
      <3>1. l = st.raw /\ g[1] = st.raw
        BY <1>2, <2>2, <2>6, <2>7 DEF fs
      <3>2. Append(l, "BAR") \in Seq(Char)
        BY <1>0, TextLaws
      <3>. QED
        BY <1>8, <3>1, <3>2, TextLaws
    <2>8. ASSUME Len(g) = 2 PROVE Append(l, ch) = Joined(g[1], g[2], <<>>)
      <3>1. l = Append(fs[1], "BAR") \o st.raw /\ g[1] = fs[1] /\ g[2] = st.raw
        <4>1. Len(fs) = 1
          BY <2>6, <2>8
        <4>2. 1 \in 1..Len(fs) /\ Len(fs) + 1 = 2
          BY <4>1
        <4>3. Len(st.fields) = 1
          BY <4>1 DEF fs
        <4>4. g[1] = fs[1] /\ g[2] = st.raw
          BY <2>2, <4>2
        <4>5. l = Append(fs[1], "BAR") \o st.raw
          BY <1>2, <4>3 DEF fs
        <4>. QED
          BY <4>4, <4>5
      <3>2. Append(l, "BAR") \in Seq(Char)
        BY <1>0, TextLaws
      <3>3. Joined(g[1], g[2], <<>>) = Append(l, "BAR") \o <<>>
        BY <3>1 DEF Joined
      <3>. QED
        BY <1>8, <3>2, <3>3, TextLaws
    <2>. QED
      BY <2>1, <2>3, <2>4, <2>6, <2>7, <2>8 DEF SplitSoFar, n
  <1>. QED
    BY <1>5, <1>6, <1>7, <1>8

\* So it is on every line.
LEMMA SplitSoFarHolds ==
    ASSUME NEW l \in Seq(Char \ {"LF"})
    PROVE  SplitSoFar(l)
  <1>. DEFINE C == Char \ {"LF"}
              T == {s \in Seq(Char) : SplitSoFar(s)}
  <1>1. <<>> \in T
    <2>1. SplitAfter(<<>>) = NoField /\ <<>> \in Seq(Char)
      BY SplitAppend
    <2>2. UnescapeAfter(<<>>) = NoOutput /\ EscapeField(<<>>) = <<>> /\ <<>> \o <<>> = <<>>
      BY UnescapeAppend, EscapeAppend
    <2>3. GoesBack(<<>>, FALSE)
      BY <2>2 DEF GoesBack, NoOutput, Rest
    <2>. QED
      <3>1. /\ SplitAfter(<<>>).raw = <<>> /\ SplitAfter(<<>>).pending = FALSE
            /\ SplitAfter(<<>>).fields = <<>>
        BY <2>1 DEF NoField
      <3>2. Len(<<>>) = 0
        OBVIOUS
      <3>3. 1..0 = {}
        OBVIOUS
      <3>4. SplitSoFar(<<>>)
        <4>. DEFINE st == SplitAfter(<<>>)
        <4>1. st.raw = <<>> /\ st.pending = FALSE /\ st.fields = <<>>
          BY <3>1
        <4>. HIDE DEF st
        <4>2. /\ GoesBack(st.raw, st.pending) /\ Len(st.fields) = 0
              /\ ~(Len(st.fields) = 1) /\ ~(Len(st.fields) = 2)
          <5>1. GoesBack(st.raw, st.pending)
            BY <2>3, <4>1, Zenon
          <5>2. Len(st.fields) = 0
            BY <3>2, <4>1, Zenon
          <5>. QED
            BY <5>1, <5>2
        <4>3. \A j \in 1..Len(st.fields) : GoesBack(st.fields[j], FALSE)
          BY <3>3, <4>2
        <4>. QED
          BY <4>1, <4>2, <4>3, Zenon DEF SplitSoFar, st
      <3>. QED
        BY <2>1, <3>4
  <1>2. Seq(C) \subseteq Seq(Char)
    <2>1. C \subseteq Char
      OBVIOUS
    <2>. QED
      BY <2>1, SeqMonotonic, Zenon
  <1>3. ASSUME NEW s \in Seq(C), NEW x \in C, s \in T PROVE Append(s, x) \in T
    <2>1. s \in Seq(Char) /\ x \in Char /\ x # "LF" /\ SplitSoFar(s)
      BY <1>2, <1>3
    <2>2. Append(s, x) \in Seq(Char)
      BY <2>1, TextLaws
    <2>. QED
      BY <2>1, <2>2, SplitSoFarStep
  <1>4. Seq(C) \subseteq T
    <2>. HIDE DEF T, C
    <2>. QED
      BY <1>1, <1>3, AppendInduction
  <1>. QED
    BY <1>4

\* A line of three fields that can be parsed is the line of the row it is parsed
\* into.
LEMMA ReadIsWritten ==
    ASSUME NEW l \in Seq(Char \ {"LF"}), Len(Split(l).fields) = Columns, ParseLineIntoRow(l).ok
    PROVE  RowLine(ParseLineIntoRow(l).row) = Append(l, "LF")
  <1>. DEFINE st == SplitAfter(l)
              fs == Split(l).fields
              r == ParseLineIntoRow(l).row
  <1>0. Columns = 3 /\ 1..3 = {1, 2, 3}
    BY DEF Columns
  <1>1. l \in Seq(Char)
    <2>1. Char \ {"LF"} \subseteq Char
      OBVIOUS
    <2>. QED
      BY <2>1, SeqMonotonic, Zenon
  <1>2. st \in SplitState(Char) /\ fs = Append(st.fields, st.raw) /\ Split(l).ok = ~st.pending
    <2>1. st \in SplitState(Char)
      <3>1. Len(l) \in 0..Len(l)
        BY <1>1
      <3>. QED
        BY <1>1, <3>1, SplitSteps DEF SplitAfter
    <2>. QED
      BY <2>1 DEF Split, SplitAfter
  <1>3. SplitSoFar(l)
    BY SplitSoFarHolds
  <1>4. st.raw \in Seq(Char) /\ st.fields \in Seq(Seq(Char)) /\ st.pending \in BOOLEAN
    BY <1>2 DEF SplitState
  <1>5. /\ Split(l).ok
        /\ \A i \in DOMAIN fs : UnescapeField(fs[i]).ok
        /\ r = NormalizeFieldCount([i \in DOMAIN fs |-> UnescapeField(fs[i]).out])
    BY DEF ParseLineIntoRow
  <1>6. /\ GoesBack(st.raw, st.pending)
        /\ \A j \in 1..Len(st.fields) : GoesBack(st.fields[j], FALSE)
        /\ Len(st.fields) = 2 => l = Joined(st.fields[1], st.fields[2], st.raw)
    BY <1>3 DEF SplitSoFar
  <1>. HIDE DEF st, fs, r
  <1>7. /\ Len(st.fields) = 2 /\ DOMAIN fs = 1..3
        /\ fs[1] = st.fields[1] /\ fs[2] = st.fields[2] /\ fs[3] = st.raw
    <2>1. Len(fs) = 3
      BY <1>0 DEF fs
    <2>2. Len(fs) = Len(st.fields) + 1 /\ Len(st.fields) \in Nat /\ DOMAIN fs = 1..Len(fs)
      BY <1>2, <1>4
    <2>3. \A j \in 1..Len(st.fields) : fs[j] = st.fields[j]
      BY <1>2, <1>4
    <2>4. fs[Len(st.fields) + 1] = st.raw
      BY <1>2, <1>4
    <2>5. Len(st.fields) = 2
      <3>. DEFINE m == Len(st.fields)
      <3>1. 3 = m + 1 /\ m \in Nat
        BY <2>1, <2>2
      <3>. HIDE DEF m
      <3>2. m = 2
        BY <3>1
      <3>. QED
        BY <3>2 DEF m
    <2>6. 1 \in 1..Len(st.fields) /\ 2 \in 1..Len(st.fields) /\ Len(st.fields) + 1 = 3
      BY <2>5
    <2>. QED
      BY <2>1, <2>2, <2>3, <2>4, <2>5, <2>6
  <1>8. ~st.pending
    BY <1>2, <1>5
  <1>9. \A i \in 1..3 : GoesBack(fs[i], FALSE) /\ fs[i] \in Seq(Char)
    <2>1. st.pending = FALSE
      BY <1>4, <1>8
    <2>2. 1 \in 1..Len(st.fields) /\ 2 \in 1..Len(st.fields)
      BY <1>7
    <2>3. st.fields[1] \in Seq(Char) /\ st.fields[2] \in Seq(Char)
      BY <1>4, <2>2, ElementOfSeq
    <2>. QED
      BY <1>0, <1>4, <1>6, <1>7, <2>1, <2>2, <2>3
  <1>10. ASSUME NEW i \in 1..3
         PROVE  UnescapeField(fs[i]).out \in Seq(Char) /\ EscapeField(UnescapeField(fs[i]).out) = fs[i]
    <2>. DEFINE u == UnescapeAfter(fs[i])
    <2>1. UnescapeField(fs[i]) = [out |-> u.out, ok |-> u.ok /\ ~u.pending]
      BY DEF UnescapeField, UnescapeAfter
    <2>2. UnescapeField(fs[i]).out = u.out /\ UnescapeField(fs[i]).ok = (u.ok /\ ~u.pending)
      BY <2>1
    <2>3. u.ok
      BY <1>5, <1>7, <2>2
    <2>4. EscapeField(u.out) \o <<>> = fs[i]
      BY <1>9, <2>3 DEF GoesBack, Rest
    <2>5. u.out \in Seq(Char)
      BY <1>9, <2>2, UnescapedType
    <2>6. EscapeField(u.out) \in Seq(Char)
      BY <2>5, EscapedField
    <2>. QED
      BY <2>2, <2>4, <2>5, <2>6, TextLaws
  <1>11. r \in [1..Columns -> Seq(Char)] /\ \A i \in 1..3 : r[i] = UnescapeField(fs[i]).out
    <2>. DEFINE outs == [i \in DOMAIN fs |-> UnescapeField(fs[i]).out]
    <2>1. DOMAIN outs = 1..3 /\ \A i \in 1..3 : outs[i] = UnescapeField(fs[i]).out
      BY <1>7
    <2>2. r = NormalizeFieldCount(outs)
      BY <1>5
    <2>. HIDE DEF outs
    <2>3. r = [i \in 1..3 |-> outs[i]]
      BY <1>0, <2>1, <2>2 DEF NormalizeFieldCount
    <2>. QED
      BY <1>0, <1>10, <2>1, <2>3
  <1>12. RowLine(r) = Append(Joined(EscapeField(r[1]), EscapeField(r[2]), EscapeField(r[3])), "LF")
    BY <1>11, RowShape
  <1>13. EscapeField(r[1]) = fs[1] /\ EscapeField(r[2]) = fs[2] /\ EscapeField(r[3]) = fs[3]
    BY <1>0, <1>10, <1>11
  <1>14. l = Joined(fs[1], fs[2], fs[3])
    BY <1>6, <1>7
  <1>. QED
    BY <1>12, <1>13, <1>14 DEF r

-----------------------------------------------------------------------------
(* The lines of a file.                                                    *)

\* The last character of a text.
LEMMA LastOne ==
    /\ \A s \in Seq(Char) : \A x \in Char :
          Append(s, x) # <<>> /\ Front(Append(s, x)) = s /\ Last(Append(s, x)) = x
    /\ \A s \in Seq(Char) : s # <<>> =>
          Front(s) \in Seq(Char) /\ Last(s) \in Char /\ s = Append(Front(s), Last(s))
  <1>1. ASSUME NEW s \in Seq(Char), NEW x \in Char
        PROVE  Append(s, x) # <<>> /\ Front(Append(s, x)) = s /\ Last(Append(s, x)) = x
    <2>. DEFINE t == Append(s, x)
    <2>1. t \in Seq(Char) /\ Len(t) = Len(s) + 1 /\ Len(s) \in Nat /\ t[Len(s) + 1] = x
          /\ \A i \in 1..Len(s) : t[i] = s[i]
      OBVIOUS
    <2>. HIDE DEF t
    <2>2. t # <<>>
      <3>1. Len(<<>>) = 0
        OBVIOUS
      <3>2. Len(t) # 0
        BY <2>1
      <3>. QED
        BY <3>1, <3>2, Zenon
    <2>3. Last(t) = x
      BY <2>1 DEF Last
    <2>. DEFINE f == SubSeq(t, 1, Len(s))
    <2>4. f \in Seq(Char) /\ Len(f) = Len(s) /\ \A i \in 1..Len(s) : f[i] = t[i]
      <3>1. 1 \in Int /\ Len(s) \in Int /\ \A i \in 1..Len(s) : t[i] \in Char
        BY <2>1, ElementOfSeq
      <3>2. /\ f \in Seq(Char) /\ Len(f) = IF 1 <= Len(s) THEN Len(s) - 1 + 1 ELSE 0
            /\ \A i \in 1..Len(s) - 1 + 1 : f[i] = t[1 + i - 1]
        BY <3>1, SubSeqProperties
      <3>. HIDE DEF f
      <3>. QED
        BY <2>1, <3>2
    <2>. HIDE DEF f
    <2>5. f = s
      BY <2>1, <2>4, SeqEqual
    <2>6. Front(t) = f
      <3>1. Len(t) - 1 = Len(s)
        BY <2>1
      <3>. QED
        BY <3>1 DEF Front, f
    <2>. QED
      BY <2>2, <2>3, <2>5, <2>6 DEF t
  <1>2. ASSUME NEW s \in Seq(Char), s # <<>>
        PROVE  Front(s) \in Seq(Char) /\ Last(s) \in Char /\ s = Append(Front(s), Last(s))
    <2>1. Len(s) \in Nat /\ Len(s) # 0
      BY <1>2, EmptySeq
    <2>2. Len(s) \in 1..Len(s)
      BY <2>1
    <2>3. Last(s) \in Char
      BY <2>2, ElementOfSeq, SMTT(30) DEF Last
    <2>. DEFINE f == SubSeq(s, 1, Len(s) - 1)
                x == Last(s)
                t == Append(f, x)
    <2>4. f \in Seq(Char) /\ Len(f) = Len(s) - 1 /\ \A i \in 1..Len(s) - 1 : f[i] = s[i]
      <3>1. 1 \in Int /\ Len(s) - 1 \in Int /\ \A i \in 1..Len(s) - 1 : s[i] \in Char
        BY <2>1, ElementOfSeq
      <3>2. /\ f \in Seq(Char) /\ Len(f) = IF 1 <= Len(s) - 1 THEN Len(s) - 1 - 1 + 1 ELSE 0
            /\ \A i \in 1..Len(s) - 1 - 1 + 1 : f[i] = s[1 + i - 1]
        BY <3>1, SubSeqProperties
      <3>3. Len(s) - 1 - 1 + 1 = Len(s) - 1 /\ (~(1 <= Len(s) - 1) => Len(s) - 1 = 0)
        BY <2>1, SMTT(30)
      <3>4. ASSUME NEW i \in 1..Len(s) - 1 PROVE f[i] = s[i]
        <4>1. i \in 1..Len(s) - 1 - 1 + 1 /\ 1 + i - 1 = i
          BY <3>3
        <4>. QED
          BY <3>2, <4>1
      <3>. HIDE DEF f
      <3>. QED
        BY <3>2, <3>3, <3>4
    <2>. HIDE DEF f, x
    <2>5. t \in Seq(Char) /\ Len(t) = Len(f) + 1 /\ t[Len(f) + 1] = x /\ \A i \in 1..Len(f) : t[i] = f[i]
      BY <2>3, <2>4 DEF x
    <2>. HIDE DEF t
    <2>6. s[Len(s)] = x
      BY DEF x, Last
    <2>7. Len(t) = Len(s) /\ \A i \in 1..Len(s) : i \in 1..Len(s) - 1 \/ i = Len(s)
      BY <2>1, <2>4, <2>5
    <2>8. t[Len(s)] = x
      <3>1. Len(f) + 1 = Len(s)
        BY <2>1, <2>4
      <3>. QED
        BY <2>5, <3>1
    <2>9. \A i \in 1..Len(s) : t[i] = s[i]
      BY <2>4, <2>5, <2>6, <2>7, <2>8
    <2>10. t = s
      BY <2>5, <2>7, <2>9, SeqEqual
    <2>. QED
      BY <2>3, <2>4, <2>10 DEF t, f, x, Front
  <1>. QED
    BY <1>1, <1>2

\* No field brings a line feed into the file.
LEMMA EscapedNoLf ==
    ASSUME NEW v \in Seq(Char)
    PROVE  EscapeField(v) \in Seq(Char \ {"LF"})
  <1>. DEFINE C == Char \ {"LF"}
              T == {s \in Seq(Char) : EscapeField(s) \in Seq(C)}
  <1>1. <<>> \in T
    <2>1. <<>> \in Seq(C) /\ <<>> \in Seq(Char)
      OBVIOUS
    <2>2. EscapeField(<<>>) = <<>>
      BY EscapeAppend
    <2>. HIDE DEF C
    <2>. QED
      BY <2>1, <2>2, Zenon
  <1>2. ASSUME NEW s \in Seq(Char), NEW ch \in Char, s \in T PROVE Append(s, ch) \in T
    <2>. DEFINE w == Word(FieldEscapes, ch)
                e == EscapeField(s)
    <2>1. w \in Seq(C)
      <3>1. CASE ch \notin {"BSL", "BAR", "LF"}
        <4>1. w = <<ch>> /\ ch \in C
          BY <3>1, FieldWords
        <4>. HIDE DEF w, C
        <4>. QED
          BY <4>1, Tuples
      <3>2. CASE ch \in {"BSL", "BAR", "LF"}
        <4>1. PICK x \in Char : w = <<"BSL", x>> /\ x \notin {"LF", "CR"}
          BY <3>2, FieldWords
        <4>2. "BSL" \in C /\ x \in C
          BY <4>1, FieldTables
        <4>. HIDE DEF w, C
        <4>. QED
          BY <4>1, <4>2, Tuples
      <3>. QED
        BY <3>1, <3>2
    <2>2. e \in Seq(C)
      BY <1>2
    <2>3. EscapeField(Append(s, ch)) = e \o w /\ Append(s, ch) \in Seq(Char)
      BY EscapeAppend, TextLaws
    <2>. HIDE DEF e, w, C
    <2>4. e \o w \in Seq(C)
      BY <2>1, <2>2, ConcatProperties
    <2>. QED
      BY <2>3, <2>4
  <1>. HIDE DEF T
  <1>3. Seq(Char) \subseteq T
    BY <1>1, <1>2, AppendInduction
  <1>. QED
    BY <1>3 DEF T

\* A row is one line.
LEMMA JoinedNoLf ==
    ASSUME NEW a \in Seq(Char \ {"LF"}), NEW b \in Seq(Char \ {"LF"}), NEW c \in Seq(Char \ {"LF"})
    PROVE  Joined(a, b, c) \in Seq(Char \ {"LF"})
  <1>. DEFINE C == Char \ {"LF"}
  <1>0. "BAR" \in C
    BY FieldTables
  <1>1. a \in Seq(C) /\ b \in Seq(C) /\ c \in Seq(C)
    OBVIOUS
  <1>. HIDE DEF C
  <1>. DEFINE A == Append(a, "BAR")
              B == Append(A \o b, "BAR")
  <1>2. A \in Seq(C)
    BY <1>0, <1>1, AppendLaws
  <1>. HIDE DEF A
  <1>3. A \o b \in Seq(C)
    BY <1>1, <1>2, ConcatProperties
  <1>4. B \in Seq(C)
    BY <1>0, <1>3, AppendLaws
  <1>. HIDE DEF B
  <1>5. B \o c \in Seq(C)
    BY <1>1, <1>4, ConcatProperties
  <1>. QED
    BY <1>5 DEF Joined, A, B, C

\* The carriage return that read_line takes for a part of the line end is the
\* last character of the last column.
LEMMA KeptJoined ==
    ASSUME NEW a \in Seq(Char), NEW b \in Seq(Char), NEW w \in Seq(Char)
    PROVE  /\ Kept(w) \in Seq(Char)
           /\ Kept(Joined(a, b, EscapeField(w))) = Joined(a, b, EscapeField(Kept(w)))
  <1>. DEFINE A == Append(a, "BAR")
              d == A \o b
              B == Append(d, "BAR")
  <1>0. "BAR" \in Char /\ "BSL" \in Char /\ "BAR" # "CR"
    BY FieldTables
  <1>1. A \in Seq(Char)
    BY <1>0, TextLaws
  <1>2. \A c : Joined(a, b, c) = B \o c
    BY DEF Joined
  <1>. HIDE DEF A
  <1>3. d \in Seq(Char)
    BY <1>1, ConcatProperties
  <1>. HIDE DEF d
  <1>4. B \in Seq(Char)
    BY <1>0, <1>3, TextLaws
  <1>5. B # <<>> /\ Last(B) = "BAR"
    BY <1>0, <1>3, LastOne
  <1>. HIDE DEF B
  <1>6. CASE w = <<>>
    <2>1. EscapeField(w) = <<>> /\ Kept(w) = w
      BY <1>6, EscapeAppend DEF Kept
    <2>2. B \o <<>> = B
      BY <1>4, TextLaws
    <2>3. Kept(B) = B
      BY <1>0, <1>5 DEF Kept
    <2>. QED
      BY <1>2, <2>1, <2>2, <2>3
  <1>7. CASE w # <<>>
    <2>. DEFINE s == Front(w)
                ch == Last(w)
                e == EscapeField(s)
                u == Word(FieldEscapes, ch)
    <2>1. s \in Seq(Char) /\ ch \in Char /\ w = Append(s, ch)
      BY <1>7, LastOne
    <2>2. Kept(w) = IF ch = "CR" THEN s ELSE w
      BY <1>7 DEF Kept
    <2>. HIDE DEF s, ch
    <2>3. e \in Seq(Char) /\ EscapeField(w) = e \o u
      BY <2>1, EscapedField, EscapeAppend
    <2>. HIDE DEF e
    <2>4. ASSUME NEW x \in Char, NEW f \in Seq(Char), EscapeField(w) = Append(f, x)
          PROVE  B \o EscapeField(w) = Append(B \o f, x) /\ B \o f \in Seq(Char)
                 /\ Kept(B \o EscapeField(w)) = IF x = "CR" THEN B \o f ELSE B \o EscapeField(w)
      <3>1. B \o f \in Seq(Char)
        BY <1>4, ConcatProperties
      <3>2. B \o Append(f, x) = Append(B \o f, x)
        BY <1>4, TextLaws
      <3>. DEFINE g == B \o f
                  h == Append(g, x)
      <3>3. B \o EscapeField(w) = h
        BY <2>4, <3>2
      <3>. HIDE DEF g
      <3>4. h # <<>> /\ Front(h) = g /\ Last(h) = x
        BY <3>1, LastOne DEF g
      <3>. HIDE DEF h
      <3>5. Kept(h) = IF x = "CR" THEN g ELSE h
        BY <3>4 DEF Kept
      <3>. QED
        BY <3>1, <3>3, <3>5 DEF g, h
    <2>5. CASE ch \notin {"BSL", "BAR", "LF"}
      <3>1. u = <<ch>>
        BY <2>1, <2>5, FieldWords
      <3>2. EscapeField(w) = Append(e, ch)
        BY <2>1, <2>3, <3>1, TextLaws
      <3>3. Kept(B \o EscapeField(w)) = IF ch = "CR" THEN B \o e ELSE B \o EscapeField(w)
        BY <2>1, <2>3, <2>4, <3>2
      <3>4. EscapeField(s) = e
        BY DEF e
      <3>. QED
        BY <1>2, <2>1, <2>2, <3>3, <3>4
    <2>6. CASE ch \in {"BSL", "BAR", "LF"}
      <3>1. PICK x \in Char : u = <<"BSL", x>> /\ x \notin {"LF", "CR"}
        BY <2>1, <2>6, FieldWords
      <3>. DEFINE f == Append(e, "BSL")
      <3>2. e \o <<"BSL", x>> = Append(f, x) /\ f \in Seq(Char)
        BY <1>0, <2>3, TwoMore
      <3>. HIDE DEF f
      <3>3. EscapeField(w) = Append(f, x)
        BY <2>3, <3>1, <3>2
      <3>4. Kept(B \o EscapeField(w)) = IF x = "CR" THEN B \o f ELSE B \o EscapeField(w)
        BY <2>4, <3>2, <3>3
      <3>. QED
        BY <1>2, <2>1, <2>2, <2>6, <3>1, <3>4
    <2>. QED
      BY <2>5, <2>6
  <1>. QED
    BY <1>6, <1>7

\* A piece of a text.
LEMMA CutOut ==
    ASSUME NEW s \in Seq(Char), NEW n \in Nat, NEW l \in Seq(Char), n + Len(l) <= Len(s),
           \A i \in 1..Len(l) : s[n + i] = l[i]
    PROVE  SubSeq(s, n + 1, n + Len(l)) = l
  <1>. DEFINE m == Len(l)
              lo == n + 1
              hi == n + m
              t == SubSeq(s, lo, hi)
  <1>1. m \in Nat /\ n + m <= Len(s) /\ Len(s) \in Nat
    OBVIOUS
  <1>. HIDE DEF m
  <1>2. lo \in Int /\ hi \in Int /\ \A k \in lo..hi : k \in 1..Len(s)
    BY <1>1
  <1>3. hi - lo + 1 = m /\ (~(lo <= hi) => m = 0) /\ \A i \in 1..m : lo + i - 1 = n + i
    BY <1>1
  <1>4. \A k \in lo..hi : s[k] \in Char
    BY <1>2, ElementOfSeq
  <1>. HIDE DEF lo, hi
  <1>5. /\ t \in Seq(Char) /\ Len(t) = IF lo <= hi THEN hi - lo + 1 ELSE 0
        /\ \A i \in 1..hi - lo + 1 : t[i] = s[lo + i - 1]
    BY <1>2, <1>4, SubSeqProperties
  <1>. HIDE DEF t
  <1>6. Len(t) = m
    BY <1>3, <1>5
  <1>7. ASSUME NEW i \in 1..m PROVE t[i] = l[i]
    <2>1. t[i] = s[n + i]
      BY <1>3, <1>5
    <2>. QED
      BY <2>1 DEF m
  <1>8. t = l
    BY <1>5, <1>6, <1>7, SeqEqual DEF m
  <1>. QED
    BY <1>8 DEF t, lo, hi, m

\* The line that begins behind p.
LEMMA LineBetween ==
    ASSUME file \in Seq(Char), NEW p \in Seq(Char), NEW l \in Seq(Char \ {"LF"}), NEW q \in Seq(Char),
           file = (p \o Append(l, "LF")) \o q
    PROVE  /\ Len(p) + 1 <= Len(file) /\ LineEnd(Len(p) + 1) = Len(p) + Len(l) + 1
           /\ ReadLine(Len(p) + 1) = Kept(l)
  <1>. DEFINE n == Len(p)
              m == Len(l)
              a == Append(l, "LF")
              b == p \o a
              from == n + 1
              e == LineEnd(from)
  <1>0. "LF" \in Char
    BY FieldTables
  <1>1. l \in Seq(Char) /\ \A i \in 1..m : l[i] # "LF"
    <2>1. Char \ {"LF"} \subseteq Char
      OBVIOUS
    <2>2. \A i \in 1..m : l[i] \in Char \ {"LF"}
      BY ElementOfSeq
    <2>3. l \in Seq(Char)
      BY <2>1, SeqMonotonic, Zenon
    <2>. QED
      BY <2>2, <2>3
  <1>2. n \in Nat /\ m \in Nat /\ Len(q) \in Nat
    BY <1>1
  <1>3. a \in Seq(Char) /\ Len(a) = m + 1 /\ a[m + 1] = "LF" /\ \A i \in 1..m : a[i] = l[i]
    BY <1>0, <1>1
  <1>. HIDE DEF a
  <1>4. b \in Seq(Char) /\ Len(b) = n + m + 1 /\ \A i \in 1..m + 1 : b[n + i] = a[i]
    <2>1. /\ b \in Seq(Char) /\ Len(b) = n + Len(a)
          /\ \A i \in 1..n + Len(a) : b[i] = IF i <= n THEN p[i] ELSE a[i - n]
      BY <1>3, ConcatProperties
    <2>. HIDE DEF b, n, m
    <2>2. Len(b) = n + m + 1
      BY <1>2, <1>3, <2>1
    <2>3. ASSUME NEW i \in 1..m + 1 PROVE b[n + i] = a[i]
      <3>. DEFINE j == n + i
      <3>1. j \in 1..n + Len(a) /\ ~(j <= n) /\ j - n = i
        BY <1>2, <1>3
      <3>. HIDE DEF j
      <3>2. b[j] = IF j <= n THEN p[j] ELSE a[j - n]
        BY <2>1, <3>1
      <3>3. b[j] = a[i]
        BY <3>1, <3>2
      <3>. QED
        BY <3>3 DEF j
    <2>. QED
      BY <2>1, <2>2, <2>3
  <1>5. file = b \o q
    BY DEF a
  <1>. HIDE DEF b
  <1>6. Len(file) = n + m + 1 + Len(q) /\ \A i \in 1..n + m + 1 : file[i] = b[i]
    <2>1. /\ Len(file) = Len(b) + Len(q)
          /\ \A i \in 1..Len(b) + Len(q) : file[i] = IF i <= Len(b) THEN b[i] ELSE q[i - Len(b)]
      <3>1. b \in Seq(Char) /\ q \in Seq(Char)
        BY <1>4
      <3>2. /\ Len(b \o q) = Len(b) + Len(q)
            /\ \A i \in 1..Len(b) + Len(q) : (b \o q)[i] = IF i <= Len(b) THEN b[i] ELSE q[i - Len(b)]
        BY <3>1, ConcatProperties, Zenon
      <3>. QED
        BY <1>5, <3>2, Zenon
    <2>. HIDE DEF n, m
    <2>. QED
      BY <1>2, <1>4, <2>1
  <1>. HIDE DEF n, m
  <1>7. file[n + m + 1] = "LF" /\ \A i \in 1..m : file[n + i] = l[i]
    <2>1. m + 1 \in 1..m + 1 /\ n + (m + 1) = n + m + 1 /\ n + m + 1 \in 1..n + m + 1
      BY <1>2
    <2>2. b[n + (m + 1)] = a[m + 1]
      BY <1>4, <2>1
    <2>3. file[n + m + 1] = "LF"
      BY <1>3, <1>6, <2>1, <2>2
    <2>4. ASSUME NEW i \in 1..m PROVE file[n + i] = l[i]
      <3>1. n + i \in 1..n + m + 1 /\ i \in 1..m + 1
        BY <1>2
      <3>. QED
        BY <1>3, <1>4, <1>6, <3>1
    <2>. QED
      BY <2>3, <2>4
  <1>8. from \in Nat /\ 1 <= from /\ from <= Len(file)
    BY <1>2, <1>6
  <1>9. /\ e \in Nat /\ from <= e /\ e <= Len(file) + 1
        /\ \A k \in from..e - 1 : file[k] # "LF"
        /\ e <= Len(file) => file[e] = "LF"
    BY <1>8, LineEnds
  <1>. HIDE DEF e
  <1>10. e = n + m + 1
    <2>1. ~(n + m + 1 < e)
      <3>. SUFFICES ASSUME n + m + 1 < e PROVE FALSE
        OBVIOUS
      <3>1. n + m + 1 \in from..e - 1
        BY <1>2, <1>9
      <3>. QED
        BY <1>7, <1>9, <3>1
    <2>2. ~(e < n + m + 1)
      <3>. SUFFICES ASSUME e < n + m + 1 PROVE FALSE
        OBVIOUS
      <3>1. e - n \in 1..m /\ n + (e - n) = e /\ e <= Len(file)
        BY <1>2, <1>6, <1>9
      <3>2. file[n + (e - n)] = l[e - n]
        BY <1>7, <3>1
      <3>. QED
        BY <1>1, <1>9, <3>1, <3>2 DEF m
    <2>. QED
      BY <1>2, <1>9, <2>1, <2>2
  <1>. DEFINE line == SubSeq(file, n + 1, n + m)
  <1>11. line = l
    <2>1. n + m <= Len(file)
      BY <1>2, <1>6
    <2>. QED
      BY <1>1, <1>2, <1>7, <2>1, CutOut DEF m
  <1>12. ReadLine(from) = Kept(l)
    <2>1. e - 1 = n + m
      BY <1>2, <1>10
    <2>2. SubSeq(file, from, LineEnd(from) - 1) = l
      BY <1>11, <2>1 DEF e
    <2>. HIDE DEF from
    <2>. QED
      BY <2>2 DEF ReadLine, Kept
  <1>. QED
    BY <1>8, <1>10, <1>12 DEF e, n, m

\* read_line returns no line feed.
LEMMA ReadNoLf ==
    ASSUME file \in Seq(Char), NEW from \in Nat, 1 <= from, from <= Len(file)
    PROVE  ReadLine(from) \in Seq(Char \ {"LF"})
  <1>. DEFINE e == LineEnd(from)
              C == Char \ {"LF"}
              line == SubSeq(file, from, e - 1)
  <1>1. e \in Nat /\ e <= Len(file) + 1 /\ \A k \in from..e - 1 : file[k] # "LF"
    BY LineEnds
  <1>2. ReadLine(from) = IF line # <<>> /\ Last(line) = "CR" THEN Front(line) ELSE line
    BY DEF ReadLine
  <1>. HIDE DEF e
  <1>3. \A k \in from..e - 1 : k \in 1..Len(file)
    BY <1>1
  <1>4. \A k \in from..e - 1 : file[k] \in C
    BY <1>1, <1>3, ElementOfSeq
  <1>5. from \in Int /\ e - 1 \in Int
    BY <1>1
  <1>. HIDE DEF C
  <1>6. line \in Seq(C)
    BY <1>4, <1>5, SubSeqProperties
  <1>. HIDE DEF line
  <1>7. Front(line) \in Seq(C)
    <2>1. 1 \in Int /\ Len(line) - 1 \in Int /\ \A i \in 1..Len(line) - 1 : line[i] \in C
      BY <1>6, ElementOfSeq
    <2>. QED
      BY <2>1, SubSeqProperties DEF Front
  <1>. QED
    BY <1>2, <1>6, <1>7 DEF C

\* A row as it is read again.
KeptRow(r) == <<r[1], r[2], Kept(r[3])>>

\* The line of a row, wherever it is in the file, is read as the row.
LEMMA LineAt ==
    ASSUME file \in Seq(Char), NEW p \in Seq(Char), NEW q \in Seq(Char),
           NEW r \in [1..Columns -> Seq(Char)], file = (p \o RowLine(r)) \o q
    PROVE  /\ Len(p) + 1 <= Len(file) /\ LineEnd(Len(p) + 1) = Len(p) + Len(RowLine(r))
           /\ ParseLineIntoRow(ReadLine(Len(p) + 1)).ok
           /\ ParseLineIntoRow(ReadLine(Len(p) + 1)).row = KeptRow(r)
  <1>. DEFINE x == r[1]
              y == r[2]
              z == r[3]
              a == EscapeField(x)
              b == EscapeField(y)
              c == EscapeField(z)
              l == Joined(a, b, c)
  <1>1. x \in Seq(Char) /\ y \in Seq(Char) /\ z \in Seq(Char)
    BY DEF Columns
  <1>3. RowLine(r) = Append(l, "LF")
    BY RowShape
  <1>. HIDE DEF x, y, z
  <1>4. a \in Seq(Char \ {"LF"}) /\ b \in Seq(Char \ {"LF"}) /\ c \in Seq(Char \ {"LF"})
    BY <1>1, EscapedNoLf
  <1>5. a \in Seq(Char) /\ b \in Seq(Char)
    BY <1>1, EscapedField
  <1>6. Kept(z) \in Seq(Char) /\ Kept(l) = Joined(a, b, EscapeField(Kept(z)))
    BY <1>1, <1>5, KeptJoined
  <1>7. ParseLineIntoRow(Kept(l)) = [ok |-> TRUE, row |-> <<x, y, Kept(z)>>]
    BY <1>1, <1>6, ParsedBack
  <1>8. l \in Seq(Char \ {"LF"})
    BY <1>4, JoinedNoLf
  <1>9. file = (p \o Append(l, "LF")) \o q
    BY <1>3
  <1>. HIDE DEF l
  <1>10. /\ Len(p) + 1 <= Len(file) /\ LineEnd(Len(p) + 1) = Len(p) + Len(l) + 1
         /\ ReadLine(Len(p) + 1) = Kept(l)
    BY <1>8, <1>9, LineBetween
  <1>11. Len(RowLine(r)) = Len(l) + 1 /\ Len(l) \in Nat /\ Len(p) \in Nat
    <2>1. l \in Seq(Char)
      <3>1. Char \ {"LF"} \subseteq Char
        OBVIOUS
      <3>. QED
        BY <1>8, <3>1, SeqMonotonic, Zenon
    <2>2. Len(Append(l, "LF")) = Len(l) + 1
      BY <2>1
    <2>. QED
      BY <1>3, <2>1, <2>2
  <1>12. LineEnd(Len(p) + 1) = Len(p) + Len(RowLine(r))
    <2>. DEFINE n == Len(p)
                m == Len(l)
    <2>1. n + m + 1 = n + (m + 1)
      BY <1>11
    <2>. QED
      BY <1>10, <1>11, <2>1
  <1>. QED
    BY <1>7, <1>10, <1>12 DEF KeptRow, x, y, z

-----------------------------------------------------------------------------
(* The rows that are read.                                                 *)

FirstLine == RowLine(FirstRow)
SecondLine == RowLine(<<SecondId, value[1], value[2]>>)
SecondRow == <<SecondId, value[1], Kept(value[2])>>

\* A row that a client has sent, and the one that was there before.
StoredInv ==
    entry \in {"api", "cli"} =>
        /\ phase \in {"json", "lex", "refused", "stored", "scan", "lookup", "respond", "done"}
        /\ phase \in {"json", "lex", "refused", "stored", "lookup"} => rows = <<>>
        /\ file = IF phase \in {"json", "lex", "refused"} THEN FirstLine ELSE FirstLine \o SecondLine
        /\ phase \in {"stored", "lookup"} => cursor = Len(FirstLine) + 1
        /\ phase = "scan" =>
              \/ cursor = 1 /\ rows = <<>>
              \/ cursor = Len(FirstLine) + 1 /\ rows = <<FirstRow>>
              \/ cursor = Len(file) + 1 /\ rows = <<FirstRow, SecondRow>>
        /\ phase \in {"respond", "done"} => rows \in {<<SecondRow>>, <<FirstRow, SecondRow>>}

\* The row of the line that begins at k is among rs.
HasRow(rs, k) ==
    /\ ParseLineIntoRow(ReadLine(k)).ok
    /\ \E i \in DOMAIN rs : rs[i] = ParseLineIntoRow(ReadLine(k)).row

\* A scan of any file: it leaves out no line.
ScanInv ==
    entry = "file" =>
        /\ phase \in {"scan", "malformed", "respond", "done"}
        /\ phase = "scan" => \A k \in LineStarts : k < cursor => HasRow(rows, k)
        /\ phase \in {"respond", "done"} => \A k \in LineStarts : HasRow(rows, k)

\* The file of a row and of the one before is read as the two rows.
LEMMA TwoLines ==
    ASSUME file \in Seq(Char), value \in Seq(Char) \X Seq(Char), file = FirstLine \o SecondLine
    PROVE  /\ Len(FirstLine) \in Nat /\ 1 <= Len(FirstLine) /\ Len(FirstLine) + 1 <= Len(file)
           /\ LineEnd(1) = Len(FirstLine) /\ LineEnd(Len(FirstLine) + 1) = Len(file)
           /\ ParseLineIntoRow(ReadLine(1)).ok /\ ParseLineIntoRow(ReadLine(1)).row = FirstRow
           /\ ParseLineIntoRow(ReadLine(Len(FirstLine) + 1)).ok
           /\ ParseLineIntoRow(ReadLine(Len(FirstLine) + 1)).row = SecondRow
  <1>. DEFINE F == FirstLine
              S == SecondLine
  <1>1. value[1] \in Seq(Char) /\ value[2] \in Seq(Char) /\ SecondId \in Seq(Char)
        /\ <<"1">> \in Seq(Char) /\ <<"n">> \in Seq(Char)
    <2>1. {"1", "n", "2"} \subseteq Char
      BY DEF Char, Letters, Digits
    <2>. QED
      BY <2>1 DEF SecondId
  <1>2. F \in Seq(Char) /\ S \in Seq(Char)
    <2>1. FirstRow \in [1..Columns -> Seq(Char)] /\ <<SecondId, value[1], value[2]>> \in [1..Columns -> Seq(Char)]
      BY <1>1, RowType
    <2>2. "LF" \in Char
      BY FieldTables
    <2>. QED
      BY <2>1, <2>2, RowShape, TextLaws DEF FirstLine, SecondLine
  <1>3. <<>> \in Seq(Char) /\ Len(<<>>) = 0
    OBVIOUS
  <1>4. file = (<<>> \o F) \o S /\ file = (F \o S) \o <<>> /\ Len(file) = Len(F) + Len(S) /\ Len(F) \in Nat
    BY <1>2, TextLaws, ConcatProperties
  <1>5. Kept(<<"n">>) = <<"n">>
    BY DEF Kept, Last
  <1>. HIDE DEF F, S
  <1>. DEFINE o == <<>>
              r == <<SecondId, value[1], value[2]>>
  <1>6. /\ FirstRow \in [1..Columns -> Seq(Char)] /\ r \in [1..Columns -> Seq(Char)]
        /\ KeptRow(FirstRow) = FirstRow /\ KeptRow(r) = SecondRow
    <2>1. KeptRow(FirstRow) = FirstRow
      BY <1>5 DEF KeptRow, FirstRow
    <2>. QED
      BY <1>1, <2>1, RowType DEF KeptRow, SecondRow
  <1>. HIDE DEF o, r
  <1>7. /\ Len(o) + 1 <= Len(file) /\ LineEnd(Len(o) + 1) = Len(o) + Len(F)
        /\ ParseLineIntoRow(ReadLine(Len(o) + 1)).ok
        /\ ParseLineIntoRow(ReadLine(Len(o) + 1)).row = FirstRow
    <2>1. F = RowLine(FirstRow) /\ o \in Seq(Char)
      BY <1>3 DEF F, FirstLine, o
    <2>2. file = (o \o RowLine(FirstRow)) \o S
      BY <1>4, <2>1 DEF o
    <2>. QED
      BY <1>2, <1>6, <2>1, <2>2, LineAt, ZenonT(60)
  <1>8. /\ Len(F) + 1 <= Len(file) /\ LineEnd(Len(F) + 1) = Len(F) + Len(S)
        /\ ParseLineIntoRow(ReadLine(Len(F) + 1)).ok
        /\ ParseLineIntoRow(ReadLine(Len(F) + 1)).row = SecondRow
    <2>1. S = RowLine(r) /\ o \in Seq(Char)
      BY <1>3 DEF S, SecondLine, r, o
    <2>2. file = (F \o RowLine(r)) \o o
      BY <1>4, <2>1 DEF o
    <2>. QED
      BY <1>2, <1>6, <2>1, <2>2, LineAt, ZenonT(60)
  <1>9. Len(o) + 1 = 1 /\ Len(o) + Len(F) = Len(F)
    BY <1>3, <1>4 DEF o
  <1>10. LineEnd(1) = Len(F) /\ ParseLineIntoRow(ReadLine(1)).ok /\ ParseLineIntoRow(ReadLine(1)).row = FirstRow
    BY <1>7, <1>9
  <1>11. 1 <= Len(F)
    <2>1. 1 <= Len(file)
      BY <1>7, <1>9
    <2>2. 1 <= LineEnd(1)
      BY <2>1, LineEnds
    <2>. QED
      BY <1>10, <2>2
  <1>. QED
    BY <1>4, <1>8, <1>10, <1>11 DEF F

\* That is how every row goes its way.
LEMMA StoredInvHolds == Spec => []StoredInv
  <1>1. Init => StoredInv
    BY DEF Init, StoredInv, FirstLine
  <1>2. TextInv /\ ClientInv /\ DataInv /\ StoredInv /\ [Next]_vars => StoredInv'
    <2>. SUFFICES ASSUME TextInv, ClientInv, DataInv, StoredInv, [Next]_vars, entry' \in {"api", "cli"}
                  PROVE  StoredInv'
      BY DEF StoredInv
    <2>0. UNCHANGED <<entry, value>>
      BY DEF Next, ExtractField, LeaveJson, Tokenize, Insert, Select, ReadRow, ScanEnd, Respond, UseTable, Finished,
             vars, pathVars
    <2>1. entry \in {"api", "cli"} /\ value \in Seq(Char) \X Seq(Char) /\ LexInv
      BY <2>0 DEF TextInv
    <2>2. FirstLine' = FirstLine /\ SecondLine' = SecondLine /\ SecondRow' = SecondRow
      BY <2>0 DEF FirstLine, SecondLine, SecondRow
    <2>3. CASE UNCHANGED <<phase, file, cursor, rows>>
      BY <2>1, <2>2, <2>3 DEF StoredInv
    <2>4. CASE LeaveJson
      <3>1. phase = "json" /\ phase' \in {"lex", "refused"} /\ UNCHANGED <<file, cursor, rows>>
        BY <2>4 DEF LeaveJson
      <3>. QED
        BY <2>1, <2>2, <3>1 DEF StoredInv
    <2>5. CASE Insert
      <3>0. phase = "lex" /\ lexed # "busy" /\ rows' = rows
        BY <2>5 DEF Insert
      <3>1. file = FirstLine /\ rows = <<>>
        BY <2>1, <3>0 DEF StoredInv
      <3>2. CASE ~IsInsert
        <4>1. phase' = "refused" /\ file' = file
          BY <2>5, <3>2 DEF Insert
        <4>. QED
          BY <2>2, <3>0, <3>1, <4>1 DEF StoredInv
      <3>3. CASE IsInsert
        <4>1. lexed = "ok"
          <5>1. lexed \in {"busy", "ok", "memory"} /\ (lexed = "memory" => tokens = <<>>)
            BY <2>1, <3>0 DEF ClientInv
          <5>2. tokens # <<>>
            BY <3>3, InsertTokens
          <5>. QED
            BY <3>0, <5>1, <5>2
        <4>2. tokens[6].text = value[1] /\ tokens[8].text = value[2]
          BY <2>1, <4>1 DEF ClientInv, Got
        <4>3. file' = file \o RowLine(<<SecondId, value[1], value[2]>>) /\ cursor' = Len(file) + 1
              /\ phase' = "stored"
          BY <2>5, <3>3, <4>2 DEF Insert
        <4>4. file' = FirstLine \o SecondLine /\ cursor' = Len(FirstLine) + 1
          BY <3>1, <4>3 DEF SecondLine
        <4>. QED
          BY <2>2, <3>0, <3>1, <4>3, <4>4 DEF StoredInv
      <3>. QED
        BY <3>2, <3>3
    <2>6. CASE Select
      <3>1. /\ phase = "stored" /\ UNCHANGED <<file, rows>>
            /\ (phase' = "scan" /\ cursor' = 1) \/ (phase' = "lookup" /\ cursor' = cursor)
        BY <2>6 DEF Select
      <3>2. file = FirstLine \o SecondLine /\ rows = <<>> /\ cursor = Len(FirstLine) + 1
        BY <2>1, <3>1 DEF StoredInv
      <3>. QED
        BY <2>2, <3>1, <3>2 DEF StoredInv
    <2>7. CASE ReadRow
      <3>. DEFINE F == Len(FirstLine)
                  parsed == ParseLineIntoRow(ReadLine(cursor))
      <3>1. phase \in {"scan", "lookup"} /\ cursor <= Len(file) /\ file' = file
        BY <2>7 DEF ReadRow
      <3>2. file = FirstLine \o SecondLine /\ file \in Seq(Char)
        BY <2>1, <3>1 DEF StoredInv, DataInv
      <3>3. /\ F \in Nat /\ 1 <= F /\ F + 1 <= Len(file)
            /\ LineEnd(1) = F /\ LineEnd(F + 1) = Len(file)
            /\ ParseLineIntoRow(ReadLine(1)).ok /\ ParseLineIntoRow(ReadLine(1)).row = FirstRow
            /\ ParseLineIntoRow(ReadLine(F + 1)).ok /\ ParseLineIntoRow(ReadLine(F + 1)).row = SecondRow
        BY <2>1, <3>2, TwoLines
      <3>4. (cursor = 1 /\ phase = "scan" /\ rows = <<>>)
            \/ (cursor = F + 1 /\ phase = "scan" /\ rows = <<FirstRow>>)
            \/ (cursor = F + 1 /\ phase = "lookup" /\ rows = <<>>)
        <4>1. ~(cursor = Len(file) + 1)
          BY <3>1, <3>2
        <4>. QED
          BY <2>1, <3>1, <4>1 DEF StoredInv
      <3>5. parsed.ok
        BY <3>3, <3>4
      <3>6. rows' = Append(rows, parsed.row) /\ cursor' = LineEnd(cursor) + 1
            /\ phase' = IF phase = "lookup" THEN "respond" ELSE phase
        BY <2>7, <3>5 DEF ReadRow
      <3>7. Append(<<>>, FirstRow) = <<FirstRow>> /\ Append(<<>>, SecondRow) = <<SecondRow>>
            /\ Append(<<FirstRow>>, SecondRow) = <<FirstRow, SecondRow>>
        <4>1. FirstRow \in {FirstRow, SecondRow} /\ SecondRow \in {FirstRow, SecondRow}
          OBVIOUS
        <4>. QED
          BY <4>1, Tuples
      <3>. HIDE DEF F
      <3>8. CASE cursor = 1 /\ phase = "scan" /\ rows = <<>>
        <4>1. parsed.row = FirstRow /\ LineEnd(cursor) = F
          BY <3>3, <3>8
        <4>2. rows' = <<FirstRow>> /\ cursor' = F + 1 /\ phase' = "scan"
          BY <3>6, <3>7, <3>8, <4>1
        <4>. QED
          BY <2>2, <3>1, <3>2, <4>2 DEF StoredInv, F
      <3>9. CASE cursor = F + 1 /\ phase = "scan" /\ rows = <<FirstRow>>
        <4>1. parsed.row = SecondRow /\ LineEnd(cursor) = Len(file)
          BY <3>3, <3>9
        <4>2. rows' = <<FirstRow, SecondRow>> /\ cursor' = Len(file') + 1 /\ phase' = "scan"
          BY <3>1, <3>6, <3>7, <3>9, <4>1
        <4>. QED
          BY <2>2, <3>1, <3>2, <4>2 DEF StoredInv
      <3>10. CASE cursor = F + 1 /\ phase = "lookup" /\ rows = <<>>
        <4>1. parsed.row = SecondRow
          BY <3>3, <3>10
        <4>2. rows' = <<SecondRow>> /\ phase' = "respond"
          BY <3>6, <3>7, <3>10, <4>1
        <4>. QED
          BY <2>2, <3>1, <3>2, <4>2 DEF StoredInv
      <3>. QED
        BY <3>4, <3>8, <3>9, <3>10
    <2>8. CASE ScanEnd
      <3>1. phase = "scan" /\ cursor > Len(file) /\ phase' = "respond" /\ UNCHANGED <<file, rows>>
        BY <2>8 DEF ScanEnd
      <3>2. file = FirstLine \o SecondLine /\ file \in Seq(Char)
        BY <2>1, <3>1 DEF StoredInv, DataInv
      <3>3. Len(FirstLine) \in Nat /\ 1 <= Len(FirstLine) /\ Len(FirstLine) + 1 <= Len(file)
        BY <2>1, <3>2, TwoLines
      <3>4. ~(cursor = 1) /\ ~(cursor = Len(FirstLine) + 1)
        BY <3>1, <3>2, <3>3
      <3>5. rows = <<FirstRow, SecondRow>>
        BY <2>1, <3>1, <3>4 DEF StoredInv
      <3>. QED
        BY <2>2, <3>1, <3>2, <3>5 DEF StoredInv
    <2>9. CASE Respond
      <3>1. phase = "respond" /\ phase' = "done" /\ UNCHANGED <<file, rows>>
        BY <2>9 DEF Respond
      <3>. QED
        BY <2>1, <2>2, <3>1 DEF StoredInv
    <2>10. CASE ExtractField \/ Tokenize \/ UseTable \/ Finished \/ UNCHANGED vars
      <3>1. UNCHANGED pathVars
        BY <2>10, Zenon DEF ExtractField, Tokenize, UseTable, Finished, vars
      <3>. QED
        BY <2>3, <3>1 DEF pathVars
    <2>. QED
      BY Zenon, <2>4, <2>5, <2>6, <2>7, <2>8, <2>9, <2>10 DEF Next
  <1>. QED
    BY <1>1, <1>2, TextInvHolds, ClientInvHolds, DataInvHolds, PTL DEF Spec

\* Every scan is so.
LEMMA ScanInvHolds == Spec => []ScanInv
  <1>1. Init => ScanInv
    <2>. SUFFICES ASSUME Init, entry = "file" PROVE ScanInv
      BY DEF ScanInv
    <2>1. phase = "scan" /\ cursor = 1
      BY DEF Init
    <2>2. \A k \in LineStarts : ~(k < 1)
      BY DEF LineStarts
    <2>. QED
      BY <2>1, <2>2 DEF ScanInv
  <1>2. DataInv /\ ScanInv /\ [Next]_vars => ScanInv'
    <2>. SUFFICES ASSUME DataInv, ScanInv, [Next]_vars, entry' = "file" PROVE ScanInv'
      BY DEF ScanInv
    <2>1. entry = "file"
      BY DEF Next, ExtractField, LeaveJson, Tokenize, Insert, Select, ReadRow, ScanEnd, Respond, UseTable, Finished,
             vars, pathVars
    <2>2. phase \in {"scan", "malformed", "respond", "done"}
      BY <2>1 DEF ScanInv
    <2>3. file \in Seq(Char) /\ cursor \in Nat /\ rows \in Seq([1..Columns -> Seq(Char)])
      BY DEF DataInv
    <2>4. ASSUME file' = file PROVE LineStarts' = LineStarts /\ \A k : ReadLine(k)' = ReadLine(k)
      BY <2>4 DEF LineStarts, ReadLine, LineEnd
    <2>5. CASE UNCHANGED <<phase, file, cursor, rows>>
      BY <2>1, <2>4, <2>5 DEF ScanInv, HasRow
    <2>6. CASE ReadRow
      <3>. DEFINE e == LineEnd(cursor)
                  parsed == ParseLineIntoRow(ReadLine(cursor))
      <3>1. phase = "scan" /\ cursor <= Len(file) /\ file' = file
        BY <2>2, <2>6 DEF ReadRow
      <3>2. CASE ~parsed.ok
        <4>1. phase' = "malformed"
          BY <2>6, <3>2 DEF ReadRow
        <4>. QED
          BY <4>1 DEF ScanInv
      <3>3. CASE parsed.ok
        <4>1. rows' = Append(rows, parsed.row) /\ cursor' = e + 1 /\ phase' = "scan"
          BY <2>6, <3>1, <3>3 DEF ReadRow
        <4>2. 1 <= cursor
          BY <2>3, <3>1 DEF DataInv
        <4>3. e \in Nat /\ cursor <= e /\ \A k \in cursor..e - 1 : file[k] # "LF"
          BY <2>3, <3>1, <4>2, LineEnds
        <4>4. parsed.row \in [1..Columns -> Seq(Char)]
          BY <2>3, <3>1, <4>2, ReadLineType, ParsedRowType
        <4>. HIDE DEF e
        <4>5. ASSUME NEW k \in LineStarts, k < e + 1 PROVE k < cursor \/ k = cursor
          <5>1. k \in Nat /\ (k = 1 \/ file[k - 1] = "LF")
            BY <2>3 DEF LineStarts
          <5>2. ASSUME cursor < k PROVE FALSE
            <6>1. k - 1 \in cursor..e - 1 /\ k # 1
              BY <2>3, <4>2, <4>3, <4>5, <5>1, <5>2
            <6>. QED
              BY <4>3, <5>1, <6>1
          <5>. QED
            BY <2>3, <5>1, <5>2
        <4>. DEFINE row == parsed.row
                    n == Len(rows)
        <4>6. row \in [1..Columns -> Seq(Char)]
          BY <4>4
        <4>7. rows' = Append(rows, row)
          BY <4>1
        <4>. HIDE DEF row, parsed
        <4>8. /\ \A i \in DOMAIN rows : i \in DOMAIN rows' /\ rows'[i] = rows[i]
              /\ n + 1 \in DOMAIN rows' /\ rows'[n + 1] = row
          <5>1. /\ rows' \in Seq([1..Columns -> Seq(Char)]) /\ Len(rows') = n + 1 /\ rows'[n + 1] = row
                /\ \A i \in 1..n : rows'[i] = rows[i]
            BY <2>3, <4>6, <4>7
          <5>2. n \in Nat /\ DOMAIN rows = 1..n /\ DOMAIN rows' = 1..n + 1
            BY <2>3, <5>1
          <5>. QED
            BY <5>1, <5>2
        <4>9. ASSUME NEW k \in LineStarts, k < e + 1 PROVE HasRow(rows', k)
          <5>1. CASE k < cursor
            <6>1. HasRow(rows, k)
              BY <2>1, <3>1, <5>1 DEF ScanInv
            <6>. QED
              BY <4>8, <6>1 DEF HasRow
          <5>2. CASE k = cursor
            BY <3>3, <4>8, <5>2 DEF HasRow, parsed, row
          <5>. QED
            BY <4>5, <4>9, <5>1, <5>2
        <4>. QED
          BY <2>4, <3>1, <4>1, <4>9 DEF ScanInv, HasRow
      <3>. QED
        BY <3>2, <3>3
    <2>7. CASE ScanEnd
      <3>1. phase = "scan" /\ cursor > Len(file) /\ phase' = "respond" /\ UNCHANGED <<file, rows>>
        BY <2>7 DEF ScanEnd
      <3>2. \A k \in LineStarts : k < cursor
        BY <2>3, <3>1 DEF LineStarts
      <3>. QED
        BY <2>1, <2>4, <3>1, <3>2 DEF ScanInv, HasRow
    <2>8. CASE Respond
      <3>1. phase = "respond" /\ phase' = "done" /\ UNCHANGED <<file, rows>>
        BY <2>8 DEF Respond
      <3>. QED
        BY <2>1, <2>4, <3>1 DEF ScanInv, HasRow
    <2>9. CASE LeaveJson \/ Insert \/ Select
      BY <2>2, <2>9 DEF LeaveJson, Insert, Select
    <2>10. CASE ExtractField \/ Tokenize \/ UseTable \/ Finished \/ UNCHANGED vars
      <3>1. UNCHANGED pathVars
        BY <2>10, Zenon DEF ExtractField, Tokenize, UseTable, Finished, vars
      <3>. QED
        BY <2>5, <3>1 DEF pathVars
    <2>. QED
      BY Zenon, <2>6, <2>7, <2>8, <2>9, <2>10 DEF Next
  <1>. QED
    BY <1>1, <1>2, DataInvHolds, PTL DEF Spec

\* For every row and every data file: a row is one line of the file, what is read
\* back is the row that was stored but for a carriage return at its end, the row
\* before it is still there, and every complete line of a file that can be read is
\* the line that would be written for its row.
THEOREM RowsAreAlwaysReadBack == Spec => []RowsReadBack
  <1>1. DataInv /\ StoredInv /\ ScanInv => RowsReadBack
    <2>. SUFFICES ASSUME DataInv, StoredInv, ScanInv PROVE RowsReadBack
      OBVIOUS
    <2>1. ASSUME entry \in {"api", "cli"} PROVE phase # "malformed"
      BY <2>1 DEF StoredInv
    <2>2. ASSUME entry \in {"api", "cli"}, phase \in {"respond", "done"}
          PROVE  rows \in {<<SecondRow>>, <<FirstRow, SecondRow>>}
      BY <2>2 DEF StoredInv
    <2>3. ASSUME entry = "file", phase = "done", NEW k \in LineStarts, Len(Split(ReadLine(k)).fields) = Columns
          PROVE  \E i \in DOMAIN rows : RowLine(rows[i]) = Append(ReadLine(k), "LF")
      <3>1. HasRow(rows, k)
        BY <2>3 DEF ScanInv
      <3>2. k \in Nat /\ 1 <= k /\ k <= Len(file) /\ file \in Seq(Char)
        BY DEF LineStarts, DataInv
      <3>3. ReadLine(k) \in Seq(Char \ {"LF"})
        BY <3>2, ReadNoLf
      <3>4. RowLine(ParseLineIntoRow(ReadLine(k)).row) = Append(ReadLine(k), "LF")
        BY <2>3, <3>1, <3>3, ReadIsWritten DEF HasRow
      <3>. QED
        BY <3>1, <3>4 DEF HasRow
    <2>. QED
      BY <2>1, <2>2, <2>3, Zenon DEF RowsReadBack, SecondRow
  <1>. QED
    BY <1>1, DataInvHolds, StoredInvHolds, ScanInvHolds, PTL

-----------------------------------------------------------------------------
(* The columns of a table.                                                 *)

\* The loop of Ascending, one number at a time.
LEMMA AscendingSteps ==
    ASSUME NEW S, NEW n \in Nat
    PROVE  LET st == AscendingUpTo(S, n) IN
           /\ \A i \in 0..n : st[i] \in Seq(1..n)
           /\ st[0] = <<>>
           /\ \A i \in 1..n : st[i] = IF i \in S THEN Append(st[i - 1], i) ELSE st[i - 1]
  <1>. DEFINE Q == Seq(1..n)
              step == [i \in 1..n |-> [x \in Q |-> IF i \in S THEN Append(x, i) ELSE x]]
              st == AscendingUpTo(S, n)
              Fixed(c) == c = [i \in 0..n |-> IF i = 0 THEN <<>>
                                              ELSE IF i \in S THEN Append(c[i - 1], i) ELSE c[i - 1]]
  <1>1. <<>> \in Q /\ \A i \in 1..n : \A x \in Q : Append(x, i) \in Q
    OBVIOUS
  <1>. HIDE DEF Q
  <1>2. PICK f : /\ f \in [0..n -> Q] /\ f[0] = <<>>
                 /\ \A i \in 1..n : f[i] = IF i \in S THEN Append(f[i - 1], i) ELSE f[i - 1]
    <2>1. Steps(step, Q, n)
      BY <1>1 DEF Steps
    <2>2. PICK f : Iteration(f, Q, n, <<>>, step)
      <3>. HIDE DEF step
      <3>. QED
        BY <1>1, <2>1, Iterates
    <2>3. f \in [0..n -> Q] /\ f[0] = <<>> /\ \A i \in 1..n : f[i] = step[i][f[i - 1]]
      BY <2>2 DEF Iteration
    <2>4. ASSUME NEW i \in 1..n PROVE f[i] = IF i \in S THEN Append(f[i - 1], i) ELSE f[i - 1]
      <3>1. i - 1 \in 0..n
        OBVIOUS
      <3>2. f[i - 1] \in Q
        BY <2>3, <3>1
      <3>. QED
        BY <2>3, <3>2
    <2>. QED
      BY <2>3, <2>4
  <1>3. Fixed(f)
    <2>1. \A i \in 0..n : f[i] = IF i = 0 THEN <<>> ELSE IF i \in S THEN Append(f[i - 1], i) ELSE f[i - 1]
      <3>1. \A i \in 0..n : i = 0 \/ (i # 0 /\ i \in 1..n)
        OBVIOUS
      <3>. QED
        BY <1>2, <3>1, Zenon
    <2>. QED
      BY <1>2, <2>1
  <1>4. st = CHOOSE c : Fixed(c)
    BY DEF AscendingUpTo
  <1>5. Fixed(st)
    <2>. HIDE DEF st, Fixed
    <2>. QED
      BY <1>3, <1>4
  <1>6. \A i \in 0..n : st[i] = IF i = 0 THEN <<>> ELSE IF i \in S THEN Append(st[i - 1], i) ELSE st[i - 1]
    <2>. HIDE DEF st
    <2>. QED
      BY <1>5
  <1>. HIDE DEF st, Fixed
  <1>7. st[0] = <<>> /\ \A i \in 1..n : st[i] = IF i \in S THEN Append(st[i - 1], i) ELSE st[i - 1]
    BY <1>6
  <1>8. \A i \in 0..n : f[i] = st[i]
    <2>1. f[0] = st[0]
      BY <1>2, <1>7
    <2>2. \A i \in 1..n : f[i - 1] = st[i - 1] => f[i] = st[i]
      BY <1>2, <1>7
    <2>. QED
      BY <2>1, <2>2, SameSteps, ZenonT(60)
  <1>. QED
    BY <1>2, <1>7, <1>8 DEF st, Q

\* What Ascending computes is what g has, if g is computed in the same way.
LEMMA AscendingIs ==
    ASSUME NEW S, NEW n \in Nat, NEW g, g[0] = <<>>,
           \A i \in 1..n : g[i] = IF i \in S THEN Append(g[i - 1], i) ELSE g[i - 1]
    PROVE  Ascending(S, n) = g[n]
  <1>. DEFINE st == AscendingUpTo(S, n)
  <1>1. st[0] = <<>> /\ \A i \in 1..n : st[i] = IF i \in S THEN Append(st[i - 1], i) ELSE st[i - 1]
    BY AscendingSteps
  <1>. HIDE DEF st
  <1>2. st[0] = g[0] /\ \A i \in 1..n : st[i - 1] = g[i - 1] => st[i] = g[i]
    BY <1>1
  <1>3. \A i \in 0..n : st[i] = g[i]
    BY <1>2, SameSteps, ZenonT(60)
  <1>4. n \in 0..n
    OBVIOUS
  <1>. QED
    BY <1>3, <1>4 DEF Ascending, st

\* It is a sequence of numbers up to n.
LEMMA AscendingType ==
    ASSUME NEW S, NEW n \in Nat
    PROVE  Ascending(S, n) \in Seq(1..n)
  <1>1. n \in 0..n
    OBVIOUS
  <1>. QED
    BY <1>1, AscendingSteps DEF Ascending

\* No number.
LEMMA AscendingNone ==
    ASSUME NEW n \in Nat
    PROVE  Ascending({}, n) = <<>>
  <1>. DEFINE g == [i \in 0..n |-> <<>>]
  <1>1. /\ g[0] = <<>> /\ g[n] = <<>>
        /\ \A i \in 1..n : g[i] = IF i \in {} THEN Append(g[i - 1], i) ELSE g[i - 1]
    OBVIOUS
  <1>. HIDE DEF g
  <1>. QED
    BY <1>1, AscendingIs

\* One number.
LEMMA AscendingOne ==
    ASSUME NEW n \in Nat, NEW m \in 1..n
    PROVE  Ascending({m}, n) = <<m>>
  <1>. DEFINE g == [i \in 0..n |-> IF i < m THEN <<>> ELSE <<m>>]
  <1>1. g[0] = <<>> /\ g[n] = <<m>>
    OBVIOUS
  <1>2. ASSUME NEW i \in 1..n PROVE g[i] = IF i \in {m} THEN Append(g[i - 1], i) ELSE g[i - 1]
    <2>1. i - 1 \in 0..n /\ (i - 1 < m <=> i <= m)
      OBVIOUS
    <2>2. Append(<<>>, m) = <<m>>
      OBVIOUS
    <2>3. CASE i = m
      <3>1. g[i - 1] = <<>> /\ g[i] = <<m>>
        BY <2>1, <2>3
      <3>. HIDE DEF g
      <3>. QED
        BY <2>2, <2>3, <3>1
    <2>4. CASE i # m
      <3>1. i - 1 < m <=> i < m
        BY <2>4
      <3>2. g[i] = g[i - 1]
        BY <2>1, <3>1
      <3>. HIDE DEF g
      <3>. QED
        BY <2>4, <3>2
    <2>. QED
      BY <2>3, <2>4
  <1>. HIDE DEF g
  <1>. DEFINE S == {m}
  <1>3. \A i \in 1..n : g[i] = IF i \in S THEN Append(g[i - 1], i) ELSE g[i - 1]
    BY <1>2
  <1>. HIDE DEF S
  <1>4. Ascending(S, n) = g[n]
    <2>1. g[0] = <<>>
      BY <1>1, Zenon
    <2>. QED
      BY <1>3, <2>1, AscendingIs
  <1>. QED
    BY <1>1, <1>4 DEF S

\* Without one number; if that is n + 1, none is left out.
LEMMA AscendingBut ==
    ASSUME NEW n \in Nat, NEW j \in 1..n + 1
    PROVE  Ascending((1..n) \ {j}, n)
           = [i \in 1..(IF n < j THEN n ELSE n - 1) |-> IF i < j THEN i ELSE i + 1]
  <1>. DEFINE S == (1..n) \ {j}
              part(k) == [i \in 1..(IF k < j THEN k ELSE k - 1) |-> IF i < j THEN i ELSE i + 1]
              g == [k \in 0..n |-> part(k)]
  <1>1. g[0] = <<>>
    <2>1. 0 \in 0..n /\ 0 < j
      OBVIOUS
    <2>2. g[0] = [i \in 1..0 |-> IF i < j THEN i ELSE i + 1]
      BY <2>1
    <2>3. 1..0 = {}
      OBVIOUS
    <2>. QED
      BY <2>2, <2>3
  <1>2. ASSUME NEW k \in 1..n PROVE g[k] = IF k \in S THEN Append(g[k - 1], k) ELSE g[k - 1]
    <2>1. g[k] = part(k) /\ g[k - 1] = part(k - 1)
      OBVIOUS
    <2>. HIDE DEF g
    <2>2. CASE k < j
      <3>1. k \in S
        BY <2>2
      <3>. DEFINE a == [i \in 1..k - 1 |-> i]
                  b == [i \in 1..k |-> i]
      <3>2. part(k - 1) = a /\ part(k) = b
        BY <2>2
      <3>3. a \in Seq(Nat) /\ b \in Seq(Nat) /\ Len(a) = k - 1 /\ Len(b) = k
        OBVIOUS
      <3>4. b = Append(a, k)
        <4>1. Append(a, k) \in Seq(Nat) /\ Len(Append(a, k)) = k
          BY <3>3
        <4>2. \A i \in 1..k : Append(a, k)[i] = b[i]
          BY <3>3
        <4>. QED
          BY <3>3, <4>1, <4>2, SeqEqual
      <3>. HIDE DEF a, b, part, S
      <3>. QED
        BY <2>1, <3>1, <3>2, <3>4
    <2>3. CASE k = j
      <3>1. k \notin S /\ k - 1 < j /\ ~(k < j)
        BY <2>3
      <3>2. part(k) = part(k - 1)
        BY <3>1
      <3>. HIDE DEF part, S
      <3>. QED
        BY <2>1, <3>1, <3>2
    <2>4. CASE j < k
      <3>1. k \in S
        BY <2>4
      <3>. DEFINE h(i) == IF i < j THEN i ELSE i + 1
                  a == [i \in 1..k - 2 |-> h(i)]
                  b == [i \in 1..k - 1 |-> h(i)]
      <3>2. part(k - 1) = a /\ part(k) = b
        <4>1. ~(k < j) /\ ~(k - 1 < j) /\ k - 1 - 1 = k - 2
          BY <2>4
        <4>. QED
          BY <4>1
      <3>3. k - 2 \in Nat /\ k - 1 \in Nat /\ h(k - 1) = k /\ \A i \in 1..k - 1 : h(i) \in Nat
        BY <2>4
      <3>. HIDE DEF h
      <3>4. a \in Seq(Nat) /\ b \in Seq(Nat) /\ Len(a) = k - 2 /\ Len(b) = k - 1
        BY <3>3
      <3>5. b = Append(a, k)
        <4>1. Append(a, k) \in Seq(Nat) /\ Len(Append(a, k)) = k - 1
          BY <3>3, <3>4
        <4>2. ASSUME NEW i \in 1..k - 1 PROVE Append(a, k)[i] = b[i]
          <5>1. i \in 1..k - 2 \/ i = k - 1
            OBVIOUS
          <5>2. i \in 1..k - 2 => Append(a, k)[i] = h(i)
            BY <3>4
          <5>3. Append(a, k)[k - 2 + 1] = k /\ k - 2 + 1 = k - 1
            BY <3>3, <3>4
          <5>4. b[i] = h(i)
            OBVIOUS
          <5>. HIDE DEF a, b
          <5>. QED
            BY <3>3, <5>1, <5>2, <5>3, <5>4
        <4>. HIDE DEF a, b
        <4>. QED
          BY <3>4, <4>1, <4>2, SeqEqual
      <3>. HIDE DEF a, b, part, S
      <3>. QED
        BY <2>1, <3>1, <3>2, <3>5
    <2>. QED
      BY <2>2, <2>3, <2>4
  <1>3. g[n] = part(n)
    OBVIOUS
  <1>. HIDE DEF g
  <1>4. Ascending(S, n) = g[n]
    <2>. HIDE DEF S
    <2>. QED
      BY <1>1, <1>2, AscendingIs
  <1>. QED
    BY <1>3, <1>4

\* The place of v in s, or 0.
LEMMA PlaceOf ==
    ASSUME NEW T, NEW s \in Seq(T), NEW v
    PROVE  LET m == Max({i \in DOMAIN s : s[i] = v} \cup {0}) IN
           \/ m = 0 /\ \A i \in DOMAIN s : s[i] # v
           \/ m # 0 /\ m \in DOMAIN s /\ s[m] = v
  <1>. DEFINE M == {i \in DOMAIN s : s[i] = v} \cup {0}
  <1>1. DOMAIN s = 1..Len(s) /\ Len(s) \in Nat
    OBVIOUS
  <1>2. M \subseteq Nat /\ M # {} /\ \A y \in M : y <= Len(s)
    BY <1>1
  <1>3. \E x \in M : \A y \in M : x >= y
    <2>. HIDE DEF M
    <2>. QED
      BY <1>1, <1>2, NatMax
  <1>4. Max(M) \in M /\ \A y \in M : Max(M) >= y
    BY <1>3 DEF Max
  <1>. DEFINE m == Max(M)
  <1>5. m \in M /\ \A y \in M : m >= y
    BY <1>4
  <1>. HIDE DEF m
  <1>6. m = 0 => \A i \in DOMAIN s : s[i] # v
    <2>1. \A i \in DOMAIN s : ~(0 >= i)
      BY <1>1
    <2>. QED
      BY <1>5, <2>1
  <1>7. m # 0 => m \in DOMAIN s /\ s[m] = v
    BY <1>5
  <1>. QED
    BY <1>6, <1>7 DEF m

\* The columns have different names.
ColumnsInv == (\E S : columns \in Seq(S)) /\ IsInjective(columns)

\* schema_find_column_index finds a column by its name.
LEMMA ColumnFound ==
    ASSUME ColumnsInv
    PROVE  /\ Len(columns) \in Nat /\ DOMAIN columns = 1..Len(columns)
           /\ \A i \in DOMAIN columns : ColumnIndex(columns[i]) = i
           /\ \A name : ColumnIndex(name) # 0 =>
                 ColumnIndex(name) \in DOMAIN columns /\ columns[ColumnIndex(name)] = name
           /\ \A name : ColumnIndex(name) = 0 => \A i \in DOMAIN columns : columns[i] # name
  <1>1. PICK S : columns \in Seq(S)
    BY DEF ColumnsInv
  <1>2. ASSUME NEW name
        PROVE  \/ ColumnIndex(name) = 0 /\ \A i \in DOMAIN columns : columns[i] # name
               \/ ColumnIndex(name) # 0 /\ ColumnIndex(name) \in DOMAIN columns
                  /\ columns[ColumnIndex(name)] = name
    <2>. DEFINE k == Max({i \in DOMAIN columns : columns[i] = name} \cup {0})
    <2>1. \/ k = 0 /\ \A i \in DOMAIN columns : columns[i] # name
          \/ k # 0 /\ k \in DOMAIN columns /\ columns[k] = name
      BY <1>1, PlaceOf, ZenonT(60)
    <2>2. ColumnIndex(name) = k
      BY DEF ColumnIndex
    <2>. HIDE DEF k
    <2>. QED
      BY <2>1, <2>2
  <1>3. ASSUME NEW i \in DOMAIN columns PROVE ColumnIndex(columns[i]) = i
    <2>. DEFINE m == ColumnIndex(columns[i])
    <2>1. m \in DOMAIN columns /\ columns[m] = columns[i]
      BY <1>2
    <2>. HIDE DEF m
    <2>2. m = i
      BY <2>1 DEF ColumnsInv, IsInjective
    <2>. QED
      BY <2>2 DEF m
  <1>4. Len(columns) \in Nat /\ DOMAIN columns = 1..Len(columns)
    BY <1>1
  <1>. QED
    BY <1>2, <1>3, <1>4

\* The names of the values in an INSERT.
Names(list) ==
    LET free == Ascending({i \in DOMAIN columns : columns[i] # Id}, Len(columns))
    IN  IF list # <<>> THEN list ELSE [k \in DOMAIN free |-> columns[free[k]]]

\* The values given to a column.
Given(list, values, c) == {values[k] : k \in {j \in DOMAIN Names(list) : Names(list)[j] = c}}

\* What the statement says of one column.
LEMMA SaidOf ==
    ASSUME NEW list, NEW values, NEW id, NEW c \in Range(columns)
    PROVE  Said(list, values, id)[c]
           = IF c = Id THEN Numeral(id)
             ELSE IF Given(list, values, c) = {} THEN "" ELSE CHOOSE v \in Given(list, values, c) : TRUE
  BY DEF Said, Given, Names

\* A column that is named once gets its value.
LEMMA GivenOnce ==
    ASSUME NEW list, NEW values, NEW c, NEW k \in DOMAIN Names(list), Names(list)[k] = c,
           \A j \in DOMAIN Names(list) : Names(list)[j] = c => j = k
    PROVE  Given(list, values, c) # {} /\ (CHOOSE v \in Given(list, values, c) : TRUE) = values[k]
  <1>. DEFINE G == Given(list, values, c)
  <1>1. {j \in DOMAIN Names(list) : Names(list)[j] = c} = {k}
    OBVIOUS
  <1>2. G = {values[k]}
    BY <1>1 DEF Given
  <1>. HIDE DEF G
  <1>3. (CHOOSE v \in G : TRUE) = values[k] /\ G # {}
    BY <1>2
  <1>. QED
    BY <1>3 DEF G

\* The order of the values without a list: the columns but the id.
LEMMA NamesInOrder ==
    ASSUME ColumnsInv
    PROVE  LET n == Len(columns)
               j == IF HasId THEN ColumnIndex(Id) ELSE n + 1
               h == [i \in 1..(IF n < j THEN n ELSE n - 1) |-> IF i < j THEN i ELSE i + 1]
           IN  Names(<<>>) = [k \in DOMAIN h |-> columns[h[k]]]
  <1>. DEFINE n == Len(columns)
              j == IF HasId THEN ColumnIndex(Id) ELSE n + 1
              h == [i \in 1..(IF n < j THEN n ELSE n - 1) |-> IF i < j THEN i ELSE i + 1]
              free == Ascending({i \in DOMAIN columns : columns[i] # Id}, n)
  <1>1. n \in Nat /\ DOMAIN columns = 1..n
    BY ColumnFound
  <1>2. j \in 1..n + 1 /\ {i \in DOMAIN columns : columns[i] # Id} = (1..n) \ {j}
    <2>. HIDE DEF n
    <2>1. CASE HasId
      <3>1. j \in 1..n /\ columns[j] = Id /\ j = ColumnIndex(Id)
        BY <1>1, <2>1, ColumnFound DEF HasId
      <3>. HIDE DEF j
      <3>2. \A i \in DOMAIN columns : columns[i] = Id <=> i = j
        BY <1>1, <3>1, ColumnFound
      <3>. QED
        BY <1>1, <3>1, <3>2
    <2>2. CASE ~HasId
      <3>1. \A i \in DOMAIN columns : columns[i] # Id
        BY <2>2, ColumnFound DEF HasId
      <3>2. j = n + 1
        BY <2>2
      <3>. HIDE DEF j
      <3>. QED
        BY <1>1, <3>1, <3>2
    <2>. QED
      BY <2>1, <2>2
  <1>3. Names(<<>>) = [k \in DOMAIN free |-> columns[free[k]]]
    BY DEF Names
  <1>. HIDE DEF n, j
  <1>4. Ascending((1..n) \ {j}, n) = h
    BY <1>1, <1>2, AscendingBut
  <1>5. free = h
    BY <1>2, <1>4
  <1>. HIDE DEF free, h
  <1>6. Names(<<>>) = [k \in DOMAIN h |-> columns[h[k]]]
    BY <1>3, <1>5
  <1>. QED
    BY <1>6 DEF h, n, j

\* build_insert_row puts every value into the column the statement means.
LEMMA InsertSays ==
    ASSUME ColumnsInv, NEW list \in Seq(Seq(STRING)), NEW values, NEW id,
           IF HasId THEN ValidForAutoId(list, values) ELSE ValidWithoutId(list, values)
    PROVE  LET said == Said(list, values, id) IN
           /\ (IF HasId THEN RowWithGeneratedId(list, values, id) ELSE RowWithoutId(list, values))
              = [i \in DOMAIN columns |-> said[columns[i]]]
           /\ HasId => said[Id] = Numeral(id)
  <1>. DEFINE said == Said(list, values, id)
              row == IF HasId THEN RowWithGeneratedId(list, values, id) ELSE RowWithoutId(list, values)
              n == Len(columns)
              j == IF HasId THEN ColumnIndex(Id) ELSE n + 1
              d == ColumnIndex(Id)
  <1>1. n \in Nat /\ DOMAIN columns = 1..n
    BY ColumnFound
  <1>2. HasId => d \in 1..n /\ columns[d] = Id
    BY <1>1, ColumnFound DEF HasId
  <1>3. list # <<>> => IsInjective(list)
    BY DEF ValidForAutoId, ValidWithoutId
  <1>4. ASSUME NEW i \in DOMAIN columns, columns[i] = Id PROVE HasId /\ i = d
    BY <1>4, ColumnFound DEF HasId
  <1>5. ASSUME NEW i \in DOMAIN columns PROVE columns[i] \in Range(columns)
    BY DEF Range
  <1>6. ASSUME NEW i \in DOMAIN columns, columns[i] # Id, list = <<>>
        PROVE  said[columns[i]] = values[IF i < j THEN i ELSE i - 1]
    <2>. DEFINE c == columns[i]
                k == IF i < j THEN i ELSE i - 1
                h == [a \in 1..(IF n < j THEN n ELSE n - 1) |-> IF a < j THEN a ELSE a + 1]
                N == Names(<<>>)
    <2>1. N = [a \in DOMAIN h |-> columns[h[a]]]
      BY NamesInOrder
    <2>2. j \in 1..n + 1 /\ i # j
      <3>1. CASE HasId
        <4>1. j = d
          BY <3>1
        <4>. HIDE DEF j, d, n
        <4>. QED
          BY <1>1, <1>2, <1>6, <3>1, <4>1
      <3>2. CASE ~HasId
        <4>1. j = n + 1
          BY <3>2
        <4>. HIDE DEF j, n
        <4>. QED
          BY <1>1, <4>1
      <3>. QED
        BY <3>1, <3>2
    <2>. HIDE DEF j, n, N
    <2>3. k \in DOMAIN h /\ h[k] = i
      BY <1>1, <2>2
    <2>4. \A a \in DOMAIN h : h[a] \in DOMAIN columns /\ (h[a] = i => a = k)
      BY <1>1, <2>2
    <2>. HIDE DEF h, k
    <2>5. DOMAIN N = DOMAIN h /\ \A a \in DOMAIN h : N[a] = columns[h[a]]
      BY <2>1
    <2>6. k \in DOMAIN N /\ N[k] = c /\ \A a \in DOMAIN N : N[a] = c => a = k
      BY <2>3, <2>4, <2>5 DEF ColumnsInv, IsInjective
    <2>7. Given(list, values, c) # {} /\ (CHOOSE v \in Given(list, values, c) : TRUE) = values[k]
      BY <1>6, <2>6, GivenOnce DEF N
    <2>8. said[c] = IF c = Id THEN Numeral(id)
             ELSE IF Given(list, values, c) = {} THEN "" ELSE CHOOSE v \in Given(list, values, c) : TRUE
      BY <1>5, SaidOf
    <2>. HIDE DEF said
    <2>9. said[c] = values[k]
      BY <1>6, <2>7, <2>8
    <2>. QED
      BY <2>9 DEF k
  <1>7. ASSUME NEW i \in DOMAIN columns, columns[i] # Id, list # <<>>
        PROVE  said[columns[i]] = Listed(list, values, i)
    <2>. DEFINE c == columns[i]
                k == Max({a \in DOMAIN list : list[a] = c} \cup {0})
                G == Given(list, values, c)
    <2>1. \/ k = 0 /\ \A a \in DOMAIN list : list[a] # c
          \/ k # 0 /\ k \in DOMAIN list /\ list[k] = c
      BY PlaceOf, ZenonT(60)
    <2>2. Listed(list, values, i) = IF k = 0 THEN "" ELSE values[k]
      BY DEF Listed
    <2>3. Names(list) = list
      BY <1>7 DEF Names
    <2>4. said[c] = IF c = Id THEN Numeral(id) ELSE IF G = {} THEN "" ELSE CHOOSE v \in G : TRUE
      BY <1>5, SaidOf
    <2>. HIDE DEF k, said
    <2>5. CASE k = 0
      <3>1. {a \in DOMAIN list : list[a] = c} = {}
        BY <2>1, <2>5
      <3>2. G = {}
        BY <2>3, <3>1 DEF Given
      <3>. HIDE DEF G
      <3>. QED
        BY <1>7, <2>2, <2>4, <2>5, <3>2
    <2>6. CASE k # 0
      <3>1. k \in DOMAIN list /\ list[k] = c
        BY <2>1, <2>6
      <3>2. \A a \in DOMAIN list : list[a] = c => a = k
        BY <1>3, <1>7, <3>1 DEF IsInjective
      <3>3. G # {} /\ (CHOOSE v \in G : TRUE) = values[k]
        BY <2>3, <3>1, <3>2, GivenOnce
      <3>. HIDE DEF G
      <3>. QED
        BY <1>7, <2>2, <2>4, <2>6, <3>3
    <2>. QED
      BY <2>5, <2>6
  <1>8. ASSUME NEW i \in DOMAIN columns, columns[i] = Id PROVE said[columns[i]] = Numeral(id)
    <2>. DEFINE c == columns[i]
    <2>1. said[c] = IF c = Id THEN Numeral(id)
             ELSE IF Given(list, values, c) = {} THEN "" ELSE CHOOSE v \in Given(list, values, c) : TRUE
      BY <1>5, SaidOf
    <2>. HIDE DEF said
    <2>. QED
      BY <1>8, <2>1
  <1>. HIDE DEF said
  <1>9. ASSUME NEW i \in DOMAIN columns PROVE row[i] = said[columns[i]]
    <2>1. CASE HasId
      <3>1. row[i] = CASE i = d -> Numeral(id)
                       [] i # d /\ list = <<>> -> values[IF i < d THEN i ELSE i - 1]
                       [] OTHER -> Listed(list, values, i)
        BY <2>1 DEF RowWithGeneratedId
      <3>2. j = d
        BY <2>1
      <3>3. i = d <=> columns[i] = Id
        BY <1>2, <1>4, <2>1
      <3>. HIDE DEF row, d, j
      <3>4. CASE i = d
        BY <1>8, <3>1, <3>3, <3>4
      <3>5. CASE i # d /\ list = <<>>
        BY <1>6, <3>1, <3>2, <3>3, <3>5
      <3>6. CASE i # d /\ list # <<>>
        BY <1>7, <3>1, <3>3, <3>6
      <3>. QED
        BY <3>4, <3>5, <3>6
    <2>2. CASE ~HasId
      <3>1. row[i] = IF list = <<>> THEN values[i] ELSE Listed(list, values, i)
        BY <2>2 DEF RowWithoutId
      <3>2. j = n + 1 /\ i < n + 1
        BY <1>1, <2>2
      <3>3. columns[i] # Id
        BY <1>4, <2>2
      <3>. HIDE DEF row, j, n
      <3>4. CASE list = <<>>
        BY <1>6, <3>1, <3>2, <3>3, <3>4
      <3>5. CASE list # <<>>
        BY <1>7, <3>1, <3>3, <3>5
      <3>. QED
        BY <3>4, <3>5
    <2>. QED
      BY <2>1, <2>2
  <1>10. row = [i \in DOMAIN columns |-> row[i]]
    BY DEF RowWithGeneratedId, RowWithoutId
  <1>11. HasId => said[Id] = Numeral(id)
    BY <1>1, <1>2, <1>8
  <1>12. row = [i \in DOMAIN columns |-> said[columns[i]]]
    <2>. HIDE DEF row
    <2>. QED
      BY <1>9, <1>10
  <1>. QED
    BY <1>11, <1>12 DEF said

\* Every row has, column by column, what its INSERT said by name, and the index
\* leads to the row of its id.
RowsInv ==
    /\ \E S : named \in Seq(S)
    /\ \E S : rowsOf \in Seq(S)
    /\ Len(rowsOf) = Len(named) /\ Len(rowsOf) <= MaxTableRows
    /\ \A k \in 1..Len(named) : rowsOf[k] = [i \in DOMAIN columns |-> named[k][columns[i]]]
    /\ HasId => /\ index \in Seq(Nat) /\ Len(index) = Len(named)
                /\ \A k \in 1..Len(named) : index[k] = k /\ named[k][Id] = Numeral(k)

\* The table on its way from the schema file to the answer.
TableInv ==
    /\ ColumnsInv
    /\ table = "schema" => rowsOf = <<>> /\ named = <<>> /\ index = <<>>
    /\ RowsInv

\* One column more, with a name of its own.
LEMMA OneColumnMore ==
    ASSUME ColumnsInv, NEW name, name \notin Range(columns), columns' = Append(columns, name)
    PROVE  ColumnsInv'
  <1>. DEFINE n == Len(columns)
  <1>1. PICK S : columns \in Seq(S)
    BY DEF ColumnsInv
  <1>2. columns \in Seq(S \cup {name}) /\ name \in S \cup {name}
    BY <1>1, SeqMonotonic, Zenon
  <1>3. /\ columns' \in Seq(S \cup {name}) /\ DOMAIN columns' = 1..n + 1 /\ columns'[n + 1] = name
        /\ n \in Nat /\ DOMAIN columns = 1..n /\ \A i \in 1..n : columns'[i] = columns[i]
    BY <1>2
  <1>. HIDE DEF n
  <1>4. \A i \in 1..n + 1 : i \in 1..n \/ i = n + 1
    BY <1>3
  <1>5. \A i \in 1..n : columns[i] # name
    BY <1>3 DEF Range
  <1>6. \A a, b \in 1..n : columns[a] = columns[b] => a = b
    BY <1>3 DEF ColumnsInv, IsInjective
  <1>7. \A a, b \in 1..n + 1 : columns'[a] = columns'[b] => a = b
    BY <1>3, <1>4, <1>5, <1>6
  <1>. QED
    BY <1>3, <1>7 DEF ColumnsInv, IsInjective

\* A table without rows, before and after a step.
LEMMA NoRows ==
    /\ rowsOf = <<>> /\ named = <<>> /\ index = <<>> => RowsInv
    /\ rowsOf' = <<>> /\ named' = <<>> /\ index' = <<>> => RowsInv'
  <1>1. <<>> \in Seq({}) /\ <<>> \in Seq(Nat) /\ Len(<<>>) = 0 /\ 0 <= MaxTableRows
    BY MaxTableRowsAssumption
  <1>2. \A k \in 1..Len(<<>>) : FALSE
    BY <1>1
  <1>3. ASSUME rowsOf = <<>>, named = <<>>, index = <<>> PROVE RowsInv
    BY <1>1, <1>2, <1>3, Zenon DEF RowsInv
  <1>4. ASSUME rowsOf' = <<>>, named' = <<>>, index' = <<>> PROVE RowsInv'
    BY <1>1, <1>2, <1>4, Zenon DEF RowsInv
  <1>. QED
    BY <1>3, <1>4

\* A step that leaves the table alone.
LEMMA TableStays ==
    ASSUME ColumnsInv, RowsInv, columns' = columns, rowsOf' = rowsOf, index' = index, named' = named
    PROVE  ColumnsInv' /\ RowsInv'
  <1>1. HasId' <=> HasId
    BY DEF HasId, ColumnIndex
  <1>2. ColumnsInv'
    BY DEF ColumnsInv
  <1>. QED
    BY <1>1, <1>2 DEF RowsInv

\* One row more.
LEMMA OneRowMore ==
    ASSUME ColumnsInv, RowsInv, NEW list \in Seq(Seq(STRING)), NEW values, ExecuteInsert(list, values)
    PROVE  RowsInv'
  <1>. DEFINE id == Len(rowsOf) + 1
              said == Said(list, values, id)
              row == IF HasId THEN RowWithGeneratedId(list, values, id) ELSE RowWithoutId(list, values)
              n == Len(named)
              valid == IF HasId THEN ValidForAutoId(list, values) ELSE ValidWithoutId(list, values)
  <1>0. columns' = columns /\ HasId' = HasId
    BY DEF ExecuteInsert, HasId, ColumnIndex
  <1>1. CASE ~valid
    <2>1. UNCHANGED <<rowsOf, index, named>>
      BY <1>1 DEF ExecuteInsert
    <2>. QED
      BY <1>0, <2>1 DEF RowsInv
  <1>2. CASE valid
    <2>1. /\ rowsOf' = Append(rowsOf, row) /\ index' = (IF HasId THEN Append(index, id) ELSE index)
          /\ named' = Append(named, said) /\ Len(rowsOf) < MaxTableRows
      BY <1>2 DEF ExecuteInsert
    <2>2. row = [i \in DOMAIN columns |-> said[columns[i]]] /\ (HasId => said[Id] = Numeral(id))
      BY <1>2, InsertSays
    <2>. HIDE DEF row, said
    <2>3. PICK S : named \in Seq(S)
      BY DEF RowsInv
    <2>4. PICK T : rowsOf \in Seq(T)
      BY DEF RowsInv
    <2>5. n \in Nat /\ Len(rowsOf) = n /\ id = n + 1 /\ n < MaxTableRows
      BY <2>1, <2>3 DEF RowsInv
    <2>. HIDE DEF id
    <2>6. /\ named' \in Seq(S \cup {said}) /\ Len(named') = n + 1 /\ named'[n + 1] = said
          /\ \A k \in 1..n : named'[k] = named[k]
      <3>1. named \in Seq(S \cup {said}) /\ said \in S \cup {said}
        BY <2>3, SeqMonotonic, Zenon
      <3>. QED
        BY <2>1, <3>1
    <2>7. /\ rowsOf' \in Seq(T \cup {row}) /\ Len(rowsOf') = n + 1 /\ rowsOf'[n + 1] = row
          /\ \A k \in 1..n : rowsOf'[k] = rowsOf[k]
      <3>1. rowsOf \in Seq(T \cup {row}) /\ row \in T \cup {row}
        BY <2>4, SeqMonotonic, Zenon
      <3>. QED
        BY <2>1, <2>5, <3>1
    <2>8. ASSUME HasId
          PROVE  /\ index' \in Seq(Nat) /\ Len(index') = n + 1 /\ index'[n + 1] = id
                 /\ \A k \in 1..n : index'[k] = k
      <3>1. index \in Seq(Nat) /\ Len(index) = n /\ \A k \in 1..n : index[k] = k
        BY <2>8 DEF RowsInv
      <3>2. id \in Nat
        BY <2>5
      <3>3. index' = Append(index, id)
        BY <2>1, <2>8
      <3>. HIDE DEF n
      <3>. QED
        BY <2>5, <3>1, <3>2, <3>3
    <2>9. /\ \A k \in 1..n : rowsOf[k] = [i \in DOMAIN columns |-> named[k][columns[i]]]
          /\ HasId => \A k \in 1..n : named[k][Id] = Numeral(k)
      BY DEF RowsInv
    <2>. HIDE DEF n
    <2>10. \A k \in 1..n + 1 : k \in 1..n \/ k = n + 1
      BY <2>5
    <2>11. \A k \in 1..n + 1 : rowsOf'[k] = [i \in DOMAIN columns |-> named'[k][columns[i]]]
      <3>1. ASSUME NEW k \in 1..n PROVE rowsOf'[k] = [i \in DOMAIN columns |-> named'[k][columns[i]]]
        BY <2>6, <2>7, <2>9
      <3>2. rowsOf'[n + 1] = [i \in DOMAIN columns |-> named'[n + 1][columns[i]]]
        BY <2>2, <2>6, <2>7
      <3>. QED
        BY <2>10, <3>1, <3>2
    <2>12. HasId => \A k \in 1..n + 1 : index'[k] = k /\ named'[k][Id] = Numeral(k)
      BY <2>2, <2>5, <2>6, <2>8, <2>9, <2>10
    <2>13. n + 1 <= MaxTableRows
      BY <2>5, MaxTableRowsAssumption
    <2>. QED
      <3>1. (\E U : named' \in Seq(U)) /\ (\E U : rowsOf' \in Seq(U))
        BY <2>6, <2>7, Zenon
      <3>2. Len(rowsOf') = Len(named') /\ Len(rowsOf') <= MaxTableRows
        BY <2>6, <2>7, <2>13
      <3>3. \A k \in 1..Len(named') : rowsOf'[k] = [i \in DOMAIN columns' |-> named'[k][columns'[i]]]
        BY <1>0, <2>6, <2>11
      <3>4. HasId' => /\ index' \in Seq(Nat) /\ Len(index') = Len(named')
                      /\ \A k \in 1..Len(named') : index'[k] = k /\ named'[k][Id] = Numeral(k)
        BY <1>0, <2>6, <2>8, <2>12
      <3>. QED
        BY <3>1, <3>2, <3>3, <3>4, Zenon DEF RowsInv
  <1>. QED
    BY <1>1, <1>2

\* The answer by name.
Meant(q) == {k \in DOMAIN named : HasCondition(q) => named[k][q.where[1]] = q.where[2]}
Asked(q) == IF q.list = <<>> THEN columns ELSE q.list
AnswerTo(q, k) == [i \in DOMAIN Asked(q) |-> named[k][Asked(q)[i]]]

\* A row is tested and projected by name.
LEMMA ByName ==
    ASSUME ColumnsInv, RowsInv, NEW q, ValidSelect(q), NEW k \in DOMAIN named
    PROVE  Projected(q, rowsOf[k]) = AnswerTo(q, k) /\ (RowMatches(q, rowsOf[k]) <=> k \in Meant(q))
  <1>. DEFINE row == rowsOf[k]
              says == named[k]
  <1>1. k \in 1..Len(named)
    BY DEF RowsInv
  <1>2. row = [i \in DOMAIN columns |-> says[columns[i]]]
    BY <1>1 DEF RowsInv
  <1>. HIDE DEF row, says
  <1>3. ASSUME NEW name, ColumnIndex(name) # 0 PROVE row[ColumnIndex(name)] = says[name]
    BY <1>2, <1>3, ColumnFound
  <1>4. Projected(q, row) = [i \in DOMAIN Asked(q) |-> says[Asked(q)[i]]]
    <2>1. CASE q.list = <<>>
      BY <1>2, <2>1 DEF Projected, Asked
    <2>2. CASE q.list # <<>>
      <3>1. \A i \in DOMAIN q.list : ColumnIndex(q.list[i]) # 0
        BY DEF ValidSelect
      <3>2. \A i \in DOMAIN q.list : row[ColumnIndex(q.list[i])] = says[q.list[i]]
        BY <1>3, <3>1
      <3>. QED
        BY <2>2, <3>2 DEF Projected, Asked
    <2>. QED
      BY <2>1, <2>2
  <1>5. RowMatches(q, row) <=> (HasCondition(q) => says[q.where[1]] = q.where[2])
    BY <1>3 DEF RowMatches, ValidSelect
  <1>. QED
    BY <1>4, <1>5 DEF row, says, AnswerTo, Meant

\* A scan finds the rows that are meant.
LEMMA ScanByName ==
    ASSUME ColumnsInv, RowsInv, NEW q, ValidSelect(q)
    PROVE  LET meant == Ascending(Meant(q), Len(named)) IN
           ByScan(q) = [k \in DOMAIN meant |-> AnswerTo(q, meant[k])]
  <1>. DEFINE n == Len(named)
              M == Meant(q)
              P == {k \in DOMAIN rowsOf : RowMatches(q, rowsOf[k])}
              meant == Ascending(M, n)
              picked == Ascending(P, Len(rowsOf))
  <1>1. n \in Nat /\ DOMAIN named = 1..n /\ DOMAIN rowsOf = 1..n /\ Len(rowsOf) = n
    BY DEF RowsInv
  <1>2. P = M
    BY <1>1, ByName DEF Meant
  <1>. HIDE DEF n, M, P
  <1>3. meant \in Seq(1..n)
    BY <1>1, AscendingType
  <1>4. picked = meant
    BY <1>1, <1>2
  <1>5. ByScan(q) = [i \in DOMAIN picked |-> Projected(q, rowsOf[picked[i]])]
    BY DEF ByScan, P
  <1>. HIDE DEF meant, picked
  <1>6. ASSUME NEW i \in DOMAIN meant PROVE Projected(q, rowsOf[meant[i]]) = AnswerTo(q, meant[i])
    <2>1. i \in 1..Len(meant)
      BY <1>3
    <2>2. meant[i] \in DOMAIN named
      BY <1>1, <1>3, <2>1, ElementOfSeq
    <2>. QED
      BY <2>2, ByName
  <1>7. ByScan(q) = [i \in DOMAIN meant |-> AnswerTo(q, meant[i])]
    BY <1>4, <1>5, <1>6
  <1>. QED
    BY <1>7 DEF meant, M, n

\* The index finds the same.
LEMMA IndexByName ==
    ASSUME ColumnsInv, RowsInv, NEW q, ValidSelect(q), CanUseIdIndex(q)
    PROVE  LET meant == Ascending(Meant(q), Len(named)) IN
           ByIndex(q) = [k \in DOMAIN meant |-> AnswerTo(q, meant[k])]
  <1>. DEFINE n == Len(named)
              M == Meant(q)
              meant == Ascending(M, n)
              id == ValueOf(q.where[2])
  <1>1. n \in Nat /\ DOMAIN named = 1..n /\ n <= MaxTableRows
    BY DEF RowsInv
  <1>2. HasId /\ HasCondition(q) /\ q.where[1] = Id /\ Canonical(q.where[2])
    BY DEF CanUseIdIndex
  <1>3. id \in 1..MaxLiteral /\ q.where[2] = Numeral(id)
    BY <1>2 DEF Canonical, ValueOf
  <1>4. /\ DOMAIN index = 1..n /\ \A k \in 1..n : index[k] = k
        /\ \A k \in 1..n : named[k][Id] = Numeral(k)
    BY <1>2 DEF RowsInv
  <1>. HIDE DEF id, n
  <1>5. \A k \in 1..n : Numeral(k) = Numeral(id) <=> k = id
    <2>1. \A k \in 1..n : k \in 1..MaxTableRows
      BY <1>1, MaxTableRowsAssumption
    <2>. QED
      BY <1>3, <2>1, NumeralAssumption
  <1>6. \A k \in 1..n : k \in M <=> k = id
    BY <1>1, <1>2, <1>3, <1>4, <1>5 DEF Meant
  <1>7. M \subseteq 1..n
    BY <1>1 DEF Meant
  <1>8. ByIndex(q) = IF id \in DOMAIN index /\ RowMatches(q, rowsOf[index[id]])
                       THEN <<Projected(q, rowsOf[index[id]])>> ELSE <<>>
    BY DEF ByIndex, id
  <1>. HIDE DEF M
  <1>9. CASE id \in 1..n
    <2>1. M = {id}
      BY <1>6, <1>7, <1>9
    <2>2. meant = <<id>>
      BY <1>1, <1>9, <2>1, AscendingOne
    <2>3. index[id] = id /\ id \in DOMAIN named /\ id \in M
      BY <1>1, <1>4, <1>9, <2>1
    <2>4. RowMatches(q, rowsOf[id]) /\ Projected(q, rowsOf[id]) = AnswerTo(q, id)
      BY <2>3, ByName DEF M
    <2>5. ByIndex(q) = <<AnswerTo(q, id)>>
      BY <1>4, <1>8, <1>9, <2>3, <2>4
    <2>6. <<AnswerTo(q, id)>> = [k \in DOMAIN <<id>> |-> AnswerTo(q, <<id>>[k])]
      OBVIOUS
    <2>. QED
      BY <2>2, <2>5, <2>6 DEF M, n
  <1>10. CASE id \notin 1..n
    <2>1. M = {}
      BY <1>6, <1>7, <1>10
    <2>2. meant = <<>>
      BY <1>1, <2>1, AscendingNone
    <2>3. ByIndex(q) = <<>>
      BY <1>4, <1>8, <1>10
    <2>4. <<>> = [k \in DOMAIN <<>> |-> AnswerTo(q, <<>>[k])]
      OBVIOUS
    <2>. QED
      BY <2>2, <2>3, <2>4 DEF M, n
  <1>. QED
    BY <1>9, <1>10

\* So is every table.
LEMMA TableInvHolds == Spec => [](TableInv /\ SelectAnswersByName)
  <1>1. Init => TableInv /\ SelectAnswersByName
    <2>. SUFFICES ASSUME Init PROVE TableInv /\ SelectAnswersByName
      OBVIOUS
    <2>1. columns = <<>> /\ rowsOf = <<>> /\ named = <<>> /\ index = <<>> /\ table = "schema"
      BY DEF Init, TableInit
    <2>2. ColumnsInv
      <3>1. <<>> \in Seq({}) /\ DOMAIN <<>> = {}
        OBVIOUS
      <3>. QED
        BY <2>1, <3>1 DEF ColumnsInv, IsInjective
    <2>. QED
      BY <2>1, <2>2, NoRows DEF TableInv, SelectAnswersByName
  <1>2. TableInv /\ SelectAnswersByName /\ [Next]_vars => (TableInv /\ SelectAnswersByName)'
    <2>. SUFFICES ASSUME TableInv, SelectAnswersByName, [Next]_vars PROVE TableInv' /\ SelectAnswersByName'
      OBVIOUS
    <2>0. ColumnsInv /\ RowsInv
      BY DEF TableInv
    <2>1. CASE UNCHANGED tableVars
      <3>1. UNCHANGED <<columns, table, rowsOf, index, named, query, result>>
        BY <2>1 DEF tableVars
      <3>2. ColumnsInv' /\ RowsInv'
        BY <2>0, <3>1, TableStays
      <3>3. SelectAnswersByName'
        BY <3>1 DEF SelectAnswersByName
      <3>. QED
        BY <3>1, <3>2, <3>3 DEF TableInv
    <2>2. CASE LoadColumn
      <3>1. table = "schema" /\ UNCHANGED <<rowsOf, index, named>>
        BY <2>2 DEF LoadColumn
      <3>2. rowsOf = <<>> /\ named = <<>> /\ index = <<>>
        BY <3>1 DEF TableInv
      <3>3. RowsInv'
        <4>1. rowsOf' = <<>> /\ named' = <<>> /\ index' = <<>>
          BY <3>1, <3>2
        <4>. QED
          BY <4>1, NoRows
      <3>. DEFINE name == Trimmed(Head(lines))
      <3>4. \/ columns' = columns /\ table' = "schema"
            \/ columns' = <<>> /\ table' = "bad"
            \/ name \notin Range(columns) /\ columns' = Append(columns, name) /\ table' = "schema"
        BY <2>2, <3>1 DEF LoadColumn
      <3>. HIDE DEF name
      <3>5. ColumnsInv'
        <4>1. CASE columns' = columns
          BY <2>0, <4>1 DEF ColumnsInv
        <4>2. CASE columns' = <<>>
          <5>1. <<>> \in Seq({}) /\ DOMAIN <<>> = {}
            OBVIOUS
          <5>. QED
            BY <4>2, <5>1 DEF ColumnsInv, IsInjective
        <4>3. CASE name \notin Range(columns) /\ columns' = Append(columns, name)
          BY <2>0, <4>3, OneColumnMore
        <4>. QED
          BY <3>4, <4>1, <4>2, <4>3
      <3>. QED
        BY <3>1, <3>2, <3>3, <3>4, <3>5 DEF TableInv, SelectAnswersByName
    <2>3. CASE SchemaEnd
      <3>1. /\ UNCHANGED <<columns, rowsOf, index, named>> /\ table' \in {"bad", "ready"}
        BY <2>3 DEF SchemaEnd
      <3>2. ColumnsInv' /\ RowsInv'
        BY <2>0, <3>1, TableStays
      <3>. QED
        BY <3>1, <3>2 DEF TableInv, SelectAnswersByName
    <2>4. CASE SchemaFails
      <3>1. table = "schema" /\ UNCHANGED <<rowsOf, index, named>> /\ columns' = <<>> /\ table' = "bad"
        BY <2>4 DEF SchemaFails
      <3>2. rowsOf' = <<>> /\ named' = <<>> /\ index' = <<>>
        BY <3>1 DEF TableInv
      <3>3. ColumnsInv'
        <4>1. <<>> \in Seq({}) /\ DOMAIN <<>> = {}
          OBVIOUS
        <4>. QED
          BY <3>1, <4>1 DEF ColumnsInv, IsInjective
      <3>. QED
        BY <3>1, <3>2, <3>3, NoRows DEF TableInv, SelectAnswersByName
    <2>5. ASSUME NEW list \in InsertLists, NEW values \in ValueLists, ExecuteInsert(list, values)
          PROVE  TableInv' /\ SelectAnswersByName'
      <3>1. list \in Seq(Seq(STRING))
        BY InsertListsAssumption
      <3>2. RowsInv'
        BY <2>0, <2>5, <3>1, OneRowMore
      <3>3. columns' = columns /\ table' \in {"ready", "refused"}
        BY <2>5 DEF ExecuteInsert
      <3>4. ColumnsInv'
        BY <2>0, <3>3 DEF ColumnsInv
      <3>. QED
        BY <3>2, <3>3, <3>4 DEF TableInv, SelectAnswersByName
    <2>6. ASSUME NEW q \in Queries, ExecuteSelect(q)
          PROVE  TableInv' /\ SelectAnswersByName'
      <3>1. UNCHANGED <<columns, rowsOf, index, named>> /\ table' \in {"answered", "refused"}
        BY <2>6 DEF ExecuteSelect
      <3>2. ColumnsInv' /\ RowsInv'
        BY <2>0, <3>1, TableStays
      <3>3. SelectAnswersByName'
        <4>1. CASE ~ValidSelect(q)
          BY <2>6, <4>1 DEF ExecuteSelect, SelectAnswersByName
        <4>2. CASE ValidSelect(q)
          <5>. DEFINE meant == Ascending(Meant(q), Len(named))
          <5>1. query' = q /\ result' = IF CanUseIdIndex(q) THEN ByIndex(q) ELSE ByScan(q)
            BY <2>6, <4>2 DEF ExecuteSelect
          <5>2. ByScan(q) = [k \in DOMAIN meant |-> AnswerTo(q, meant[k])]
            BY <2>0, <4>2, ScanByName
          <5>3. CanUseIdIndex(q) => ByIndex(q) = [k \in DOMAIN meant |-> AnswerTo(q, meant[k])]
            BY <2>0, <4>2, IndexByName
          <5>4. result' = [k \in DOMAIN meant |-> AnswerTo(q, meant[k])]
            BY <5>1, <5>2, <5>3
          <5>. QED
            <6>. DEFINE list == IF query'.list = <<>> THEN columns' ELSE query'.list
                        M == {k \in DOMAIN named' : HasCondition(query') =>
                                named'[k][query'.where[1]] = query'.where[2]}
            <6>1. list = Asked(q) /\ M = Meant(q)
              BY <3>1, <5>1 DEF Asked, Meant
            <6>2. Ascending(M, Len(named')) = meant
              BY <3>1, <6>1
            <6>. HIDE DEF list, M, meant
            <6>3. result' = [k \in DOMAIN meant |-> [i \in DOMAIN list |-> named'[meant[k]][list[i]]]]
              BY <3>1, <5>4, <6>1 DEF AnswerTo
            <6>. QED
              BY <6>2, <6>3, Zenon DEF SelectAnswersByName, list, M
        <4>. QED
          BY <4>1, <4>2
      <3>. QED
        BY <3>1, <3>2, <3>3 DEF TableInv
    <2>7. CASE UseTable
      BY <2>2, <2>3, <2>4, <2>5, <2>6, <2>7 DEF UseTable, TableNext
    <2>. QED
      BY Zenon, <2>1, <2>7
         DEF Next, ExtractField, LeaveJson, Tokenize, Insert, Select, ReadRow, ScanEnd, Respond, Finished, vars
  <1>. QED
    BY <1>1, <1>2, PTL DEF Spec

\* For every schema, every INSERT and every SELECT: a SELECT answers by name what
\* the INSERTs said by name, through the index as without it.
THEOREM SelectAlwaysAnswersByName == Spec => []SelectAnswersByName
  BY TableInvHolds, PTL
=============================================================================
