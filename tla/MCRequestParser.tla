-------------------------- MODULE MCRequestParser --------------------------
(* Instances of RequestParser for TLC.                                     *)
EXTENDS RequestGrammar

GET  == 1
POST == 2

\* Start lines and headers of requests without a body.
BodyLess ==
  [start : {GET, Unknown, Invalid}, headers : {<<>>, <<Other>>, <<Other, NoColon>>},
   chunks : {<<>>}, trailer : {FALSE}, length : {0}, blank : {"none"}]

\* Chunked requests: up to two chunks, one of them of negative size, headers in
\* any order, a trailer or none.
ChunkedPosts ==
  [start : {POST}, headers : {<<Chunked>>, <<Other, Chunked>>, <<2, Chunked>>,
                               <<Chunked, NotChunked>>},
   chunks : {<<>>, <<1>>, <<3>>, <<2, 1>>, <<1, 2>>, <<1, -1>>}, trailer : BOOLEAN,
   length : {0}, blank : {"none"}]

\* Requests with one Content-Length or two, or with nothing that tells their length,
\* and with a Transfer-Encoding in front of the one that says chunked.
OtherPosts ==
  [start : {POST}, headers : {<<>>, <<Other>>, <<NotDigits>>, <<2>>, <<2, Other>>,
                               <<2, NotDigits>>, <<NotDigits, 2>>, <<NotChunked>>,
                               <<NotChunked, Chunked>>, <<NotDigits, NotChunked, Chunked>>},
   chunks : {<<>>}, trailer : {FALSE}, length : {0}, blank : {"none"}]

\* Requests with an empty line that does not belong there.
WithEmptyLine ==
  [start : {GET}, headers : {<<Other>>}, chunks : {<<>>}, trailer : {FALSE},
   length : {0}, blank : {"start"}]
  \cup
  [start : {POST}, headers : {<<Chunked>>}, chunks : {<<>>, <<2>>}, trailer : {FALSE},
   length : {0}, blank : {"start", "size"}]

MCMessages == WithEmptyLine \cup BodyLess \cup ChunkedPosts \cup OtherPosts

\* A complete request whose Content-Length is written in digits.
LengthMessages ==
  [start : {POST}, headers : {<<2>>, <<Other, 2>>, <<NotDigits>>}, chunks : {<<>>},
   trailer : {FALSE}, length : {0, 2}, blank : {"none"}]

MCStreams == {Render(m) : m \in Messages}

\* Which of them are well-formed, by what they are made of.
Regular(m) ==
  /\ m.start # Invalid /\ NoColon \notin Range(m.headers) /\ m.blank = "none"
  /\ m.start \in BodyMethods =>
       IsChunked(m) /\ ~m.trailer /\ \A i \in 1..Len(m.chunks) : m.chunks[i] > 0

\* WellFormed() says of the text what Regular() says of the message.
ASSUME WellFormedAssumption == \A m \in Messages : WellFormed(Render(m)) <=> Regular(m)
=============================================================================
