---------------------------- MODULE MCValuePath ----------------------------
(* Short values of every character some notation treats specially. *)
EXTENDS ValuePath

Characters == {"n", Quote, "DQ", "BSL", "BAR", "LF", "CR", "TAB", "CTRL"}

\* Two characters in one column and one in the other.
ShortRows ==
    (BoundedSeq(Characters, 2) \X BoundedSeq(Characters, 1))
    \cup (BoundedSeq(Characters, 1) \X BoundedSeq(Characters, 2))

\* Every text of up to four characters, one of each class and two for some.
ShortTexts == BoundedSeq({"a", "INSERT", "1", "DOT", "MINUS", Quote, "SPACE", "SEMICOLON", "?"}, 4)

\* Every data file of up to six characters.
ShortFiles == BoundedSeq({"n", "BAR", "BSL", "LF", "CR"}, 6)

\* Schema files of up to three lines.
A == <<"a">>
B == <<"b">>
ShortSchemas == BoundedSeq({Id, A, <<"SPACE", "b", "CR">>, <<"SPACE">>}, 3)

\* Column lists in both orders, with the id, a repeated and an unknown column.
SomeInserts == {<<>>, <<A>>, <<B, A>>, <<A, A>>, <<Id, A>>, <<B, <<"z">>>>}
SomeSelects == {<<>>, <<A>>, <<B, A>>, <<A, Id, A>>, <<<<"z">>>>}
SomeValues == {<<"1">>, <<"x">>, <<"1", "x">>, <<"x", "1", "x">>}
SomeConditions == ({A, Id} \X {"1", "2", "12", "01", "x"}) \cup {<<<<"z">>, "x">>}
=============================================================================
