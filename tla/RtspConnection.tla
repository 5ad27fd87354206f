---------------------------- MODULE RtspConnection ----------------------------
(***************************************************************************)
(* The request loop of an RTSP client connection: handle_request_bytes()   *)
(* and rtsp_server_write_cb() of livemedia/rtsp_server.c over the request  *)
(* buffer of livemedia/generic_media_server.c.                             *)
(*                                                                         *)
(* rtsp_server_write_cb() is called in two ways: with status 1 when bytes  *)
(* have been read, and by libuv when a response has been written.  Only    *)
(* the second call takes the answered request out of the buffer.           *)
(*                                                                         *)
(* A byte is modelled by its kind and the number of its request.  The      *)
(* pointer last_crlf is its distance from the buffer, so it begins at -3.  *)
(*                                                                         *)
(* Of a request it is told whether its handler writes a response.  Nothing *)
(* is written for the URL "*", for an unknown command, by the stubs behind *)
(* TEARDOWN, PAUSE, GET_PARAMETER and SET_PARAMETER, nor by those that are *)
(* to put a content into the response: what the buffer held is sent.       *)
(***************************************************************************)
EXTENDS Integers, SequencesExt, FiniteSetsExt

CONSTANTS
  Clients,     \* what a client may send: its requests, and whether it is patient
  BufferSize,  \* REQUEST_BUFFER_SIZE
  LeftOver     \* what content_length may hold when a completed write begins

ASSUME ClientsAssumption ==
  \A client \in Clients :
    /\ client.requests \in Seq([text : Nat, body : Nat, answers : BOOLEAN])
    /\ client.patient \in BOOLEAN
ASSUME SizesAssumption == BufferSize \in Nat \ {0} /\ LeftOver \subseteq Nat

VARIABLES
  client,                     \* the client
  received,                   \* how many of its bytes have been read
  request_buffer,
  request_bytes_already_seen,
  request_buffer_bytes_left,
  last_crlf,
  response_buffer,            \* the request that the response there answers, 0 when empty
  is_active,
  recursion_count,
  socket,                     \* open, closed, reused after it was closed, or lost
  writes,                     \* the contexts of the writes under way
  responses                   \* history: the responses written

buffer_vars == <<request_buffer, request_bytes_already_seen, request_buffer_bytes_left, last_crlf>>
connection_vars ==
  <<client, received, request_buffer, request_bytes_already_seen, request_buffer_bytes_left,
    last_crlf, response_buffer, is_active, recursion_count, socket, writes, responses>>

Indices == 0 .. BufferSize - 1
Blank == <<"blank", 0>>

(* The bytes of request r: a command, its fields, an empty line, a body. *)
RequestBytes(r) ==
  LET request == client.requests[r] IN
    <<<<"start", r>>>> \o [i \in 1 .. request.text |-> <<"text", r>>]
    \o <<<<"CR", r>>, <<"LF", r>>, <<"CR", r>>, <<"LF", r>>>>
    \o [i \in 1 .. request.body |-> <<"body", r>>]

Requests == 1 .. Len(client.requests)

(* What the client sends, up to each request. *)
SentUpTo[r \in 0 .. Len(client.requests)] ==
  IF r = 0 THEN << >> ELSE SentUpTo[r - 1] \o RequestBytes(r)
Sent == SentUpTo[Len(client.requests)]
EndOf(r) == Len(SentUpTo[r])
TotalSent == Len(Sent)

ConnectionInit ==
  /\ client \in Clients
  /\ received = 0
  /\ request_buffer = [i \in Indices |-> Blank]
  /\ request_bytes_already_seen = 0
  /\ request_buffer_bytes_left = BufferSize
  /\ last_crlf = -3
  /\ response_buffer = 0
  /\ is_active = TRUE
  /\ recursion_count = 0
  /\ socket = "open"
  /\ writes = << >>
  /\ responses = << >>

------------------------------------------------------------------------------
(* Looking at the bytes of the buffer. *)

LineEndsAt(buffer, p) == buffer[p][1] = "CR" /\ buffer[p + 1][1] = "LF"

(* Mutant: only the new bytes are searched. *)
LineEndsNewOnly(buffer, seen, last, n) ==
  {p \in seen .. seen + n - 2 : LineEndsAt(buffer, p)}

(* The line ends behind the last one seen, n bytes being new. *)
LineEnds(buffer, seen, last, n) ==
  {p \in Max({last + 2, 0}) .. seen + n - 2 : LineEndsAt(buffer, p)}

(* An empty line: a line end right behind another one. *)
EmptyLines(ends, last) == {p \in ends : p - 2 \in ends \cup {last}}

(* The request that the bytes up to the empty line at p are: 0 when they are  *)
(* not one, and then no handler is called.                                   *)
ParsedRequest(buffer, p) ==
  LET r == buffer[0][2]
      text == [i \in 1 .. p + 2 |-> buffer[i - 1]]
  IN IF r # 0 /\ IsPrefix(text, RequestBytes(r)) THEN r ELSE 0

BodyLength(r) == IF r = 0 THEN 0 ELSE client.requests[r].body

Refused(n, left) == n >= left

(* What n new bytes behind the seen ones amount to. *)
LookAt(buffer, seen, left, last, n) ==
  LET ends == LineEnds(buffer, seen, last, n)
      empty == EmptyLines(ends, last)
      end == Min(empty)
      request == ParsedRequest(buffer, end)
  IN
  IF Refused(n, left) THEN [verdict |-> "refused", last |-> last, request |-> 0]
  ELSE IF empty = {} THEN [verdict |-> "incomplete", last |-> Max(ends \cup {last}), request |-> 0]
  ELSE [verdict |-> IF seen + n < end + 2 + BodyLength(request) THEN "incomplete" ELSE "complete",
        last |-> end - 2, request |-> request]

(* The buffer's counters behind n new bytes; a refused read leaves them.      *)
Count(seen, left, n, verdict) ==
  /\ request_bytes_already_seen' = IF verdict = "refused" THEN seen ELSE seen + n
  /\ request_buffer_bytes_left' = IF verdict = "refused" THEN left ELSE left - n

(* What the response buffer holds behind the handler of the request: a handler *)
(* that writes nothing, or no handler, leaves the last response there, or the *)
(* empty string that the connection was allocated with.                      *)
Answer(request) ==
  IF request # 0 /\ client.requests[request].answers THEN request ELSE response_buffer

(* The response buffer is written out under context n, whatever is in it.     *)
Respond(pending, request, n) ==
  /\ response_buffer' = Answer(request)
  /\ responses' = Append(responses, response_buffer')
  /\ writes' = Append(pending, n)

------------------------------------------------------------------------------
(* Bytes arrive. *)

(* handle_request_bytes() counts the context that it makes. *)
CountContext == recursion_count' = recursion_count + 1

(* A patient client awaits a response before it sends the next request, for  *)
(* ever when an empty one was written; how the bytes are cut into reads is up *)
(* to the network.  An eager one sends whole requests at any time.           *)
MayArrive(n) ==
  IF client.patient
    THEN /\ writes = << >> /\ 0 \notin ToSet(responses)
         /\ received + n <= EndOf(Min({Len(responses) + 1, Len(client.requests)}))
    ELSE \E r \in Requests : received + n = EndOf(r)

(* generic_media_server_client_connection_read_cb(): the bytes are copied     *)
(* into the buffer and looked at, with status 1.                             *)
Read(n) ==
  LET seen == request_bytes_already_seen
      sent == Sent
      buffer == [i \in Indices |-> IF i \in seen .. seen + n - 1
                                     THEN sent[received + 1 + i - seen] ELSE request_buffer[i]]
      look == LookAt(buffer, seen, request_buffer_bytes_left, last_crlf, n)
  IN
  /\ socket = "open"
  /\ n <= request_buffer_bytes_left /\ received + n <= TotalSent
  /\ MayArrive(n)
  /\ received' = received + n
  /\ CountContext
  /\ request_buffer' = buffer
  /\ last_crlf' = look.last
  /\ Count(seen, request_buffer_bytes_left, n, look.verdict)
  /\ is_active' = (is_active /\ look.verdict # "refused")
  /\ IF look.verdict = "complete"
       THEN Respond(writes, look.request, n)
       ELSE UNCHANGED <<response_buffer, responses, writes>>
  /\ UNCHANGED <<client, socket>>

(* The peer is gone.  read_cb passes the negative count to memcpy(), which is *)
(* undefined: the process dies, or goes on and calls handle_request_bytes(). *)
PeerGone ==
  /\ socket = "open"
  /\ \/ /\ socket' = "lost"
        /\ UNCHANGED <<recursion_count, is_active>>
     \/ /\ is_active
        /\ is_active' = FALSE
        /\ CountContext
        /\ UNCHANGED socket
  /\ UNCHANGED <<client, received, buffer_vars, response_buffer, writes, responses>>

------------------------------------------------------------------------------
(* A response has been written. *)

(* Mutant: the place of the last line end is kept. *)
FreshLastCrlfKept == last_crlf

(* reset_request_buffer(): three bytes before the buffer. *)
FreshLastCrlf == -3

(* The end of rtsp_server_write_cb(): the context is given up.  A connection  *)
(* that was marked inactive is deleted when no other context counts, else its *)
(* sockets are closed, through a pointer that is NULL the second time.       *)
CleanUp ==
  /\ recursion_count' = recursion_count - 1
  /\ socket' = IF is_active THEN socket
               ELSE IF recursion_count' = 0 THEN "deleted"
               ELSE IF socket = "open" THEN "closed" ELSE "reused"

(* Mutant: the bytes of the request are left in the buffer. *)
LeftoverUnmoved(buffer, size, remaining) == buffer

(* What memmove() leaves in the buffer. *)
Leftover(buffer, size, remaining) ==
  [i \in Indices |-> IF i < remaining THEN buffer[size + i] ELSE buffer[i]]

(* rtsp_server_write_cb() with any other status.  The length of the request   *)
(* is reckoned with an uninitialized content_length.  Bytes behind it are    *)
(* looked at as if they had just been read; with a negative rest, as many    *)
(* stale ones as the context's read had brought.                             *)
WriteDone(content_length) ==
  LET size == last_crlf + 4 + content_length
      remaining == request_bytes_already_seen - size
      n == IF remaining > 0 THEN remaining ELSE Head(writes)
      buffer == Leftover(request_buffer, size, remaining)
      look == LookAt(buffer, 0, BufferSize, FreshLastCrlf, n)
      again == remaining # 0
  IN
  /\ writes # << >>
  /\ socket \in {"open", "closed"}
  /\ request_buffer' = buffer
  /\ last_crlf' = IF again THEN look.last ELSE FreshLastCrlf
  /\ IF again
       THEN Count(0, BufferSize, n, look.verdict)
       ELSE request_bytes_already_seen' = 0 /\ request_buffer_bytes_left' = BufferSize
  /\ is_active' = (is_active /\ (again => look.verdict # "refused"))
  /\ IF again /\ look.verdict = "complete"
       THEN /\ Respond(Tail(writes), look.request, Head(writes))
            /\ socket' = IF socket = "open" THEN socket ELSE "reused"
            /\ UNCHANGED recursion_count
       ELSE /\ writes' = Tail(writes)
            /\ CleanUp
            /\ UNCHANGED <<response_buffer, responses>>
  /\ UNCHANGED <<client, received>>

ConnectionNext ==
  \/ \E n \in 1 .. BufferSize : Read(n)
  \/ PeerGone
  \/ \E content_length \in LeftOver : WriteDone(content_length)

ConnectionSpec == ConnectionInit /\ [][ConnectionNext]_connection_vars

(* The loop reads what has arrived, and writes the responses out. *)
ConnectionFairSpec ==
  /\ ConnectionSpec
  /\ WF_connection_vars(\E n \in 1 .. BufferSize : Read(n))
  /\ WF_connection_vars(\E content_length \in LeftOver : WriteDone(content_length))

------------------------------------------------------------------------------
(* Types.  One byte of the buffer always stays free behind the bytes seen.    *)
ConnectionTypeOK ==
  /\ received \in 0 .. TotalSent
  /\ DOMAIN request_buffer = Indices
  /\ request_bytes_already_seen \in 0 .. BufferSize - 1
  /\ request_buffer_bytes_left = BufferSize - request_bytes_already_seen
  /\ last_crlf \in -3 .. BufferSize - 3
  /\ response_buffer \in Requests \cup {0}
  /\ is_active \in BOOLEAN
  /\ recursion_count \in Nat
  /\ socket \in {"open", "closed", "reused", "deleted", "lost"}

(* Every write under way is counted, so the connection is not deleted under   *)
(* its callback; but the context of the read that made a connection inactive *)
(* counts for ever, so it is never deleted at all, although the code says     *)
(* that it is terminated, and deleted when the outermost call is left.       *)
ContextsCounted ==
  recursion_count >= Len(writes) + (IF is_active THEN 0 ELSE 1)

(* A patient client's connection never uses a socket that it has closed.      *)
SocketClosedOnce == client.patient => socket # "reused"

(* What the k-th response written answers: request k when its handler writes  *)
(* one, and else what the response before it answered, 0 with none before.   *)
Due(k) == IF client.requests[k].answers THEN k ELSE IF k = 1 THEN 0 ELSE responses[k - 1]

(* For a patient client whose requests have no bodies one response is written *)
(* to each, in order, and not before the request is complete, however it is   *)
(* cut into reads.  It is the request's own if its handler writes one, and    *)
(* otherwise the response before it goes out a second time: the client cannot *)
(* tell it from an answer.  A request with a body is answered too, but its    *)
(* body is then taken for the beginning of the next request.  Meanwhile the   *)
(* connection is not deleted under a write, nor its socket used once it is    *)
(* closed.                                                                   *)
AnsweredInOrder ==
  /\ ConnectionTypeOK /\ ContextsCounted /\ SocketClosedOnce
  /\ client.patient /\ is_active =>
       \A k \in 1 .. Len(responses) :
         (\A q \in Requests : q < k => client.requests[q].body = 0) =>
           /\ k \in Requests /\ responses[k] = Due(k)
           /\ EndOf(k) <= received

(* When an eager client's requests are all equally long, have no bodies and   *)
(* have handlers that answer, each of them is answered at least once, though  *)
(* reads arrive while responses are written and the same bytes may be handled *)
(* again.  With requests of different lengths one may be forgotten: a         *)
(* negative rest makes the loop look at as many stale bytes as another read   *)
(* had brought.                                                              *)
NoneForgotten ==
  /\ ~client.patient /\ is_active /\ writes = << >>
  /\ \A r, q \in Requests :
       /\ client.requests[r] = client.requests[q]
       /\ client.requests[r].body = 0 /\ client.requests[r].answers
  => \A r \in Requests : EndOf(r) <= received => r \in ToSet(responses)

(* A patient client whose requests have no bodies, and handlers that answer,   *)
(* is not left without the responses to what it sent, unless it left or its  *)
(* request was refused.  One whose first request has a handler that writes    *)
(* nothing waits for ever.                                                   *)
AllAnswered ==
  /\ client.patient
  /\ \A r \in Requests : client.requests[r].body = 0 /\ client.requests[r].answers
  => <>(\/ Len(responses) = Len(client.requests)
        \/ ~is_active \/ socket = "lost")
==============================================================================
