--------------------------- MODULE MCRequestPath ---------------------------
(* Requests around the limits of header and body. *)
EXTENDS RequestPath

CrLf == <<"CR", "LF">>
Lines == {<<"len0">>, <<"len1">>, <<"len2">>, <<"len3">>, <<"lenBad">>, <<"x">>}

\* Header lines: up to two of every kind; a header that is one byte too long and
\* fits the buffer, and a longer one; some with a CR or an LF that ends no line.
Headers ==
    {<<>>}
    \cup {l \o CrLf : l \in Lines \cup {<<"len2", "CR">>, <<"CR", "len2">>, <<"LF", "len2">>}}
    \cup {l \o CrLf \o k \o CrLf : l, k \in Lines}
    \cup {<<"len2">> \o CrLf \o <<"x", "x">> \o CrLf,
          <<"len2">> \o CrLf \o <<"x">> \o CrLf \o <<"x">> \o CrLf}

\* Complete requests, with too little, enough and too much behind the header,
\* also with an empty line in the body. Each may end early: see RecvFails.
AllStreams ==
    {r \o CrLf \o h \o CrLf \o b :
        r \in {<<"POST">>, <<"GET">>, <<"x">>, <<>>},
        h \in Headers,
        b \in {<<"b1">>, <<"b1", "b2", "b3">>, CrLf \o CrLf}}

Head3 == <<"h1", "h2", "h3">>
Body2 == <<"j1", "j2">>
SqlText == <<"b1", "b2">>
=============================================================================
