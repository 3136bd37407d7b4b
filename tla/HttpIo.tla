------------------------------- MODULE HttpIo -------------------------------
(***************************************************************************)
(* The bytes of one connection: http_read_request, which takes a request   *)
(* from the socket in whatever pieces recv returns, and                    *)
(* http_send_json_response, which writes the answer in whatever pieces     *)
(* send accepts (src/http.c).                                              *)
(*                                                                         *)
(* A text is a sequence of symbols that each count for one byte: CR, LF,   *)
(* a POST or another request line, a Content-Length line (Declared), and   *)
(* the rest. A cut inside such a line makes no difference, because lines   *)
(* are looked at only when the header is complete. Requests with NUL bytes *)
(* are left out. EINTR repeats the call and is no step.                    *)
(***************************************************************************)
EXTENDS Integers, SequencesExt, FiniteSetsExt

CONSTANTS
    MaxHeader,      \* HTTP_MAX_HEADER_SIZE
    MaxBody,        \* HTTP_MAX_BODY_SIZE
    ResponseHead,   \* the status line and the headers of the answer
    ResponseBody    \* its JSON text

ASSUME LimitsAssumption == MaxHeader \in Nat /\ MaxBody \in Nat
ASSUME ResponseAssumption ==
    ResponseHead \in Seq(STRING) \ {<<>>} /\ ResponseBody \in Seq(STRING)

VARIABLES
    stream,     \* what the client sends
    arrived,    \* how much of it recv has returned
    gone,       \* recv has returned 0 or an error
    buffer,     \* buffer[0 .. total_read - 1]
    body,       \* body_storage[0 .. copied_bytes - 1]
    length,     \* body_length
    io,         \* where the worker is
    request,    \* what http_read_request returned
    sent,       \* the local of write_all
    wire,       \* what the client has been sent
    delivered   \* http_send_json_response returned 0

readVars == <<stream, arrived, gone, buffer, body, length, request>>
sendVars == <<sent, wire, delivered>>
httpVars == <<readVars, io, sendVars>>

\* The Content-Length lines, by their value. strtoull reads a negative or an
\* overlong number as a huge one, so that "len3" stands for these as well; a
\* line with no value, or with something after the number, is "lenBad".
Declared == [len0 |-> 0, len1 |-> 1, len2 |-> 2, len3 |-> 3]
LengthLines == DOMAIN Declared \cup {"lenBad"}

NoRequest == [status |-> "none", method |-> "", body |-> <<>>]
Refused(status) == [status |-> status, method |-> "", body |-> <<>>]
Read(method, text) == [status |-> "ok", method |-> method, body |-> text]

HttpInit(texts) ==
    /\ stream \in texts
    /\ arrived = 0
    /\ gone = FALSE
    /\ buffer = <<>>
    /\ body = <<>>
    /\ length = 0
    /\ io = "header"
    /\ request = NoRequest
    /\ sent = 0
    /\ wire = <<>>
    /\ delivered = FALSE

-----------------------------------------------------------------------------
(* Looking at a header.                                                    *)

CrLfs(t) == {i \in 1..Len(t) - 1 : t[i] = "CR" /\ t[i + 1] = "LF"}
EndOfLine(t, p) == Min({i \in CrLfs(t) : i >= p})
LineAt(t, p) == SubSeq(t, p, EndOfLine(t, p) - 1)

\* The places of the empty line that ends a header.
HeaderEnds(t) == {i \in CrLfs(t) : i + 2 \in CrLfs(t)}

\* find_header_end: the header up to and with the empty line.
HeaderLength(t) == Min(HeaderEnds(t)) + 3

\* Where the lines of header h begin that give a Content-Length.
LengthLinesOf(h) ==
    {p \in 3..Len(h) - 2 : p - 2 \in CrLfs(h) /\ h[p] \in LengthLines}

\* parse_request_line
MethodOf(h) ==
    LET line == LineAt(h, 1) IN
    IF line # <<>> /\ line[1] \in {"POST", "GET"} THEN line[1] ELSE "malformed"

\* parse_content_length and the tests after it, for a complete header: the
\* length of the body, or why there is none.
BodyLength(h) ==
    LET found == LengthLinesOf(h)
        line == LineAt(h, CHOOSE p \in found : TRUE)
    IN  CASE MethodOf(h) = "malformed" -> [status |-> "bad", length |-> 0]
          [] MethodOf(h) = "GET" -> [status |-> "ok", length |-> 0]
          [] MethodOf(h) = "POST" ->
               IF Cardinality(found) # 1 \/ Len(line) # 1 \/ line[1] \notin DOMAIN Declared
                 THEN [status |-> "bad", length |-> 0]
                 ELSE IF Declared[line[1]] > MaxBody
                   THEN [status |-> "too_large", length |-> 0]
                   ELSE [status |-> "ok", length |-> Declared[line[1]]]

-----------------------------------------------------------------------------
(* http_read_request.                                                      *)

Capacity == MaxHeader + MaxBody + 1
Arriving(n) == SubSeq(stream, arrived + 1, arrived + n)
Pieces(room) == 1..Min({room, Len(stream) - arrived})

ReadReturns(result) ==
    /\ request' = result
    /\ io' = "read"

HeaderTooLong ==
    /\ io = "header" /\ Len(buffer) >= MaxHeader
    /\ ReadReturns(Refused("bad"))
    /\ UNCHANGED <<stream, arrived, gone, buffer, body, length, sendVars>>

\* Faulty RecvHeader: no room is left for the terminating NUL.
RecvHeaderFillsBuffer ==
    /\ io = "header" /\ Len(buffer) < MaxHeader
    /\ \E n \in Pieces(Capacity - Len(buffer)) :
          /\ buffer' = buffer \o Arriving(n)
          /\ arrived' = arrived + n
    /\ io' = IF HeaderEnds(buffer') = {} THEN "header" ELSE "parse"
    /\ UNCHANGED <<stream, gone, body, length, request, sendVars>>

RecvHeader ==
    /\ io = "header" /\ Len(buffer) < MaxHeader
    /\ \E n \in Pieces(Capacity - 1 - Len(buffer)) :
          /\ buffer' = buffer \o Arriving(n)
          /\ arrived' = arrived + n
    /\ io' = IF HeaderEnds(buffer') = {} THEN "header" ELSE "parse"
    /\ UNCHANGED <<stream, gone, body, length, request, sendVars>>

\* recv returns 0 or fails: the client is gone, or has sent all it will send.
RecvFails ==
    /\ \/ io = "header" /\ Len(buffer) < MaxHeader
       \/ io = "body" /\ Len(body) < length
    /\ gone' = TRUE
    /\ ReadReturns(Refused("bad"))
    /\ UNCHANGED <<stream, arrived, buffer, body, length, sendVars>>

\* What came with the header and belongs to the body, of which n bytes are due.
InitialBody(n) ==
    LET h == HeaderLength(buffer) IN SubSeq(buffer, h + 1, h + Min({n, Len(buffer) - h}))

\* Faulty ParseHeader: the limit on the header is left to the test before recv.
ParseHeaderUnlimited ==
    LET parsed == BodyLength(SubSeq(buffer, 1, HeaderLength(buffer))) IN
    /\ io = "parse"
    /\ IF parsed.status # "ok"
         THEN ReadReturns(Refused(parsed.status)) /\ UNCHANGED <<body, length>>
         ELSE /\ length' = parsed.length
              /\ body' = InitialBody(parsed.length)
              /\ io' = "body"
              /\ UNCHANGED request
    /\ UNCHANGED <<stream, arrived, gone, buffer, sendVars>>

\* The header is complete, within its limit or not; a body gets its memory.
ParseHeader ==
    LET h == HeaderLength(buffer)
        parsed == BodyLength(SubSeq(buffer, 1, h))
    IN
    /\ io = "parse"
    /\ IF h > MaxHeader \/ parsed.status # "ok"
         THEN /\ ReadReturns(Refused(IF h > MaxHeader THEN "bad" ELSE parsed.status))
              /\ UNCHANGED <<body, length>>
         ELSE /\ length' = parsed.length
              /\ body' = InitialBody(parsed.length)
              /\ io' = "body"
              /\ UNCHANGED request
    /\ UNCHANGED <<stream, arrived, gone, buffer, sendVars>>

\* malloc of the body fails.
BodyAllocationFails ==
    LET h == HeaderLength(buffer) IN
    /\ io = "parse"
    /\ h <= MaxHeader /\ BodyLength(SubSeq(buffer, 1, h)).status = "ok"
    /\ ReadReturns(Refused("internal"))
    /\ UNCHANGED <<stream, arrived, gone, buffer, body, length, sendVars>>

RecvBody ==
    /\ io = "body" /\ Len(body) < length
    /\ \E n \in Pieces(length - Len(body)) :
          /\ body' = body \o Arriving(n)
          /\ arrived' = arrived + n
    /\ UNCHANGED <<stream, gone, buffer, length, io, request, sendVars>>

BodyComplete ==
    /\ io = "body" /\ Len(body) = length
    /\ ReadReturns(Read(MethodOf(buffer), body))
    /\ UNCHANGED <<stream, arrived, gone, buffer, body, length, sendVars>>

\* http_read_request is left, and its buffer is gone.
LeaveRead ==
    /\ io = "read"
    /\ io' = "handle"
    /\ stream' = <<>> /\ arrived' = 0 /\ gone' = FALSE
    /\ buffer' = <<>> /\ body' = <<>> /\ length' = 0
    /\ UNCHANGED <<request, sendVars>>

-----------------------------------------------------------------------------
(* http_send_json_response.                                                *)

Response == ResponseHead \o ResponseBody
Sending == IF io = "sendHead" THEN ResponseHead ELSE ResponseBody

BeginResponse ==
    /\ io = "handle"
    /\ io' = "sendHead"
    /\ UNCHANGED <<readVars, sendVars>>

\* One call of write_all has sent n more bytes of its text.
Accepted(n) ==
    IF sent + n < Len(Sending)
      THEN /\ sent' = sent + n
           /\ UNCHANGED <<io, delivered>>
      ELSE /\ sent' = 0
           /\ io' = IF io = "sendHead" /\ ResponseBody # <<>> THEN "sendBody" ELSE "closed"
           /\ delivered' = (io' = "closed")

\* Faulty Send: after a partial send the text is sent from its start.
SendRestarts ==
    /\ io \in {"sendHead", "sendBody"}
    /\ \E n \in 1..Len(Sending) - sent :
          /\ wire' = wire \o SubSeq(Sending, 1, n)
          /\ Accepted(n)
    /\ UNCHANGED readVars

\* One send: it takes some of what is left.
Send ==
    /\ io \in {"sendHead", "sendBody"}
    /\ \E n \in 1..Len(Sending) - sent :
          /\ wire' = wire \o SubSeq(Sending, sent + 1, sent + n)
          /\ Accepted(n)
    /\ UNCHANGED readVars

\* send fails; the handler closes the connection all the same.
SendFails ==
    /\ io \in {"sendHead", "sendBody"}
    /\ io' = "closed"
    /\ UNCHANGED <<readVars, sendVars>>

ReadStep ==
    \/ HeaderTooLong \/ RecvHeader \/ RecvFails
    \/ ParseHeader \/ BodyAllocationFails \/ RecvBody \/ BodyComplete
    \/ LeaveRead

SendStep == Send \/ SendFails

-----------------------------------------------------------------------------
\* The buffer always has room for the NUL behind what was read, the body never
\* outgrows the memory allocated for it, and no byte of the request is lost or
\* used twice between the two loops.
BytesAccountedFor ==
    /\ Len(buffer) <= Capacity - 1
    /\ Len(body) <= length
    /\ buffer = SubSeq(stream, 1, Len(buffer))
    /\ length > 0 => body = SubSeq(stream, HeaderLength(stream) + 1,
                                   HeaderLength(stream) + Len(body))

\* What a text means that is followed by the end of the stream.
Meaning(t) ==
    IF HeaderEnds(t) = {} \/ HeaderLength(t) > MaxHeader
      THEN Refused("bad")
      ELSE LET h == HeaderLength(t)
               parsed == BodyLength(SubSeq(t, 1, h))
           IN  IF parsed.status # "ok" THEN Refused(parsed.status)
                 ELSE IF Len(t) - h < parsed.length THEN Refused("bad")
                 ELSE Read(MethodOf(t), SubSeq(t, h + 1, h + parsed.length))

\* However the bytes are cut into pieces, http_read_request returns what the
\* whole text means, or after a failed recv what the text up to there means; a
\* header is refused for its size exactly if its end is not within the limit,
\* although the limit is tested before the next piece is read.
PiecesMakeNoDifference ==
    io = "read" /\ request.status # "internal" =>
        request = Meaning(IF gone THEN SubSeq(stream, 1, arrived) ELSE stream)

\* The client gets the answer in order and without repetition, and all of it
\* when http_send_json_response returns 0.
ResponseIsWhole ==
    /\ IsPrefix(wire, Response)
    /\ delivered => wire = Response
=============================================================================
