------------------------------ MODULE RtspClients ------------------------------
(***************************************************************************)
(* A server and its clients, as far as its objects and its answers to      *)
(* DESCRIBE and SETUP go (rtsp_server.c, generic_media_server.c): who is   *)
(* let in, what is looked up, and what is made and unmade by requests, by  *)
(* timeouts and by the program that offers and withdraws the stream.  What *)
(* SETUP makes for a track once it has found it is module OnDemand's.      *)
(*                                                                         *)
(* A request is [path, cseq, blank]: the parts of its URL after the host,  *)
(* each with how it is written, whether it has a CSeq, and whether its     *)
(* first word ends in a blank.                                             *)
(***************************************************************************)
EXTENDS Description

CONSTANTS
  Requests,     \* what clients ask for
  Connections,  \* numbers of connections
  Sessions      \* ids of client sessions

VARIABLES
  answer,       \* history: the request that the last step let in, if it had to
  challenge     \* history: what each connection was told last

allvars == <<vars, answer, challenge>>

Connection(c) == <<"connection", c>>
ClientSession(i) == <<"client_session", i>>
NoAnswer == [ok |-> FALSE]
NotTold == [realm |-> Null, nonce |-> Null]

ClientsInit == Init /\ answer = NoAnswer /\ challenge = [c \in Connections |-> NotTold]

KeepStream == UNCHANGED <<made, sps, pps, rate, given, reading, fmtp, clock>>
Forget == answer' = NoAnswer /\ UNCHANGED challenge

------------------------------------------------------------------------------
(* Requests.  The last part of a URL is taken as it is written, the parts    *)
(* before it as they are meant.                                              *)

Bad == [pre |-> << >>, suf |-> << >>, bad |-> TRUE]
DecodeUrl(parts) == [i \in DOMAIN parts |-> [parts[i] EXCEPT !.escaped = FALSE]]
ParseRtspRequestString(request) ==
  IF ~request.blank \/ ~request.cseq THEN Bad
  ELSE [pre |-> DecodeUrl(Front(request.path)), suf |-> <<Last(request.path)>>, bad |-> FALSE]

StreamName == <<[name |-> "stream", escaped |-> FALSE]>>
Lookup(name) == IF name = StreamName THEN LookupServerMediaSession(heap) ELSE Null

------------------------------------------------------------------------------
(* Connections and who is let in *)

(* Bound: one attempt for each number.                                       *)
AcceptConnection(c) ==
  /\ Lives(heap, Server, "self")
  /\ \A part \in {"self", "lost_socket"} : ~Lives(heap, Connection(c), part)
  /\ heap' \in IncomingConnection(heap, Connection(c))
  /\ UNCHANGED held /\ KeepStream /\ Forget

(* The peer is gone: its sockets are closed, and nothing else.               *)
EndConnection(c) ==
  /\ Lives(heap, Connection(c), "our_socket")
  /\ heap' = CloseSockets(heap, Connection(c))
  /\ UNCHANGED held /\ KeepStream /\ Forget

UsersIn(h) == {user \in Users : LookupPassword(h, user)}

(* The outcomes of a request from c.  Bound: no header where nobody looks at  *)
(* it.                                                                       *)
Outcomes(c, header) ==
  LET asked == Ref(heap, Server, "auth_db") # Null
      named == asked /\ NamesChallenge(heap, Connection(c), header)
  IN  {AuthenticationOk(heap, Connection(c), header, digest, nonce) :
         nonce \in (IF asked THEN Digests ELSE IF header = NoHeader THEN {Null} ELSE {}),
         digest \in (IF named THEN Digests ELSE {Null})}

(* A refusal tells the client a new challenge.                               *)
Authenticated(c, header, outcome) ==
  LET told == [realm |-> Ref(outcome.heap, Connection(c), "realm"),
               nonce |-> Ref(outcome.heap, Connection(c), "nonce")]
  IN  /\ answer' = IF outcome.ok /\ Ref(heap, Server, "auth_db") # Null
                   THEN [ok |-> TRUE, connection |-> c, header |-> header,
                         our_response |-> outcome.response]
                   ELSE NoAnswer
      /\ challenge' = IF outcome.ok THEN challenge ELSE [challenge EXCEPT ![c] = told]

(* The reference is taken so that nobody removes the session meanwhile.      *)
DescribeSession(h, media) ==
  LET described == AddReference(GenerateSdpDescription(AddReference(h, media, 1), media), media, -1)
  IN  IF media = Null THEN h
      ELSE IF Ref(described, media, "reference_count") = 0 /\
              Ref(described, media, "delete_when_unreferenced")
           THEN RemoveServerMediaSession(described, media) ELSE described

HandleCmdDescribe(c, request, header) ==
  LET url == ParseRtspRequestString(request)
  IN  /\ Lives(heap, Connection(c), "our_socket") /\ ~url.bad
      /\ \E outcome \in Outcomes(c, header) :
           /\ heap' = IF outcome.ok THEN DescribeSession(outcome.heap, Lookup(url.pre \o url.suf))
                      ELSE outcome.heap
           /\ Authenticated(c, header, outcome)
      /\ UNCHANGED held /\ KeepStream

------------------------------------------------------------------------------
(* SETUP, in a new client session or in one that is named *)

(* The path is a stream and a track, or else the stream only.                *)
StreamOf(url) == IF Lookup(url.pre) # Null THEN Lookup(url.pre) ELSE Lookup(url.pre \o url.suf)
HandleCmdSetup(h, o, url) ==
  LET media == StreamOf(url)
      bound == Ref(h, o, "our_server_media_session")
  IN  IF media = Null \/ bound \notin {Null, media} THEN h
      ELSE MakeStreamStates(BindSession(h, o, media), o)

(* Bound: an id that left something behind is not used again.                *)
SetupFirst(c, i, request, header) ==
  LET url == ParseRtspRequestString(request)
  IN  /\ Lives(heap, Connection(c), "our_socket") /\ ~url.bad
      /\ \A b \in heap.live : b[1] # ClientSession(i)
      /\ \E outcome \in Outcomes(c, header) :
           /\ heap' = IF outcome.ok
                      THEN HandleCmdSetup(CreateNewClientSessionWithId(outcome.heap, ClientSession(i)),
                                          ClientSession(i), url)
                      ELSE outcome.heap
           /\ Authenticated(c, header, outcome)
      /\ UNCHANGED held /\ KeepStream

SetupAgain(c, i, request) ==
  LET url == ParseRtspRequestString(request)
  IN  /\ Lives(heap, Connection(c), "our_socket") /\ ~url.bad
      /\ ClientSession(i) \in ClientSessions(heap)
      /\ heap' = HandleCmdSetup(NoteLiveness(heap, ClientSession(i)), ClientSession(i), url)
      /\ UNCHANGED held /\ KeepStream /\ Forget

LivenessTimeout(i) ==
  /\ ClientSession(i) \in ClientSessions(heap)
  /\ heap' = LivenessTimeoutTask(heap, ClientSession(i))
  /\ UNCHANGED held /\ KeepStream /\ Forget

------------------------------------------------------------------------------
(* What the program does with its server *)

Offered == LookupServerMediaSession(heap) = Session

RemoveSession ==
  /\ Offered /\ heap' = RemoveServerMediaSession(heap, Session)
  /\ UNCHANGED held /\ KeepStream /\ Forget

CloseClients ==
  /\ Offered /\ heap' = CloseAllClientSessions(heap, Session)
  /\ UNCHANGED held /\ KeepStream /\ Forget

DeleteSession ==
  /\ Offered /\ heap' = DeleteMediaSessionAndClients(heap, Session)
  /\ UNCHANGED held /\ KeepStream /\ Forget

(* Bound: the database comes and goes while there are no client sessions.    *)
SetUpDatabase(realm) ==
  /\ ~Lives(heap, Database, "self") /\ ClientSessions(heap) = {}
  /\ heap' = SetAuthenticationDatabase(NewUserAuthenticationDatabase(heap, realm), Database)
  /\ UNCHANGED held /\ KeepStream /\ Forget

AddUser(user) ==
  /\ Lives(heap, Database, "self") /\ heap' = AddUserRecord(heap, user)
  /\ UNCHANGED held /\ KeepStream /\ Forget

RemoveUser(user) ==
  /\ Lives(heap, Database, "self") /\ heap' = RemoveUserRecord(heap, user)
  /\ UNCHANGED held /\ KeepStream /\ Forget

TakeDownDatabase ==
  /\ Lives(heap, Database, "self") /\ ClientSessions(heap) = {}
  /\ heap' = DeleteUserAuthenticationDatabase(SetAuthenticationDatabase(heap, Null), UsersIn(heap))
  /\ UNCHANGED held /\ KeepStream /\ Forget

------------------------------------------------------------------------------
(* Bound: a program has played streams of its own or serves clients, and     *)
(* stops where it touched what is gone.                                      *)
Harmless == {<<"late", Sink(s), "out_buf">> : s \in {Dummy, Stream}}
            \cup {<<"overrun", Connection(c), "our_response">> : c \in Connections}
Runs == heap.faults \subseteq Harmless
Serving == \/ \E c \in Connections : Lives(heap, Connection(c), "self")
           \/ <<Database, "realm">> \in DOMAIN heap.ref
Played == Sink(Stream) \in held \/ <<Sink(Stream), "delete">> \in DOMAIN heap.ref

Alone == Runs /\ Forget /\ (SessionNext \/ (~Serving /\ StreamNext))

Clients ==
  /\ Runs /\ ~Played /\ Lives(heap, Server, "self")
  /\ \/ \E c \in Connections : AcceptConnection(c) \/ EndConnection(c)
     \/ \E c \in Connections, r \in Requests, a \in Headers : HandleCmdDescribe(c, r, a)
     \/ \E c \in Connections, i \in Sessions, r \in Requests, a \in Headers : SetupFirst(c, i, r, a)
     \/ \E c \in Connections, i \in Sessions, r \in Requests : SetupAgain(c, i, r)
     \/ \E i \in Sessions : LivenessTimeout(i)
     \/ RemoveSession \/ CloseClients \/ DeleteSession
     \/ \E realm \in Realms : SetUpDatabase(realm)
     \/ \E user \in Users : AddUser(user) \/ RemoveUser(user)
     \/ TakeDownDatabase

Next == Alone \/ Clients
Spec == ClientsInit /\ [][Next]_allvars

------------------------------------------------------------------------------
(* Nothing is released twice and nothing is touched after its release,       *)
(* except the packet buffer of a sink, which the sink clears once more when  *)
(* it is destroyed, and a stream that is deleted while clients are on it.    *)
(* When program and clients are done, what stays is the server with the      *)
(* connections it ever had, the timers and track iterators of client         *)
(* sessions, the copies a framer made of parameter sets, the names of files, *)
(* and the addresses that a description was written with.                    *)
Kept(b) ==
  \/ b[1] \in {Tables, Server} \cup {Connection(c) : c \in Connections}
  \/ b[1] \in {ClientSession(i) : i \in Sessions} /\ b[2] \in {"liveness_check_task", "server_media_subsession_iterator"}
  \/ b \in {Framer(Stream)} \X {"last_seen_sps", "last_seen_pps"}
  \/ b[1] \in {Subsession(t) : t \in 1 .. NumTracks} /\ b[2] \in {"file_name", "ip_address_str"}
  \/ b = <<Session, "ip_address_str">>

Done == /\ held = {} /\ ~Lives(heap, Database, "self")
        /\ Lives(heap, Server, "self") => ~Offered /\ ClientSessions(heap) = {}

ReleasedOnce ==
  /\ heap.faults \subseteq Harmless \cup {<<"late", Session, "self">>}
  /\ ~Runs => \A o \in ClientSessions(heap) : Ref(heap, o, "our_server_media_session") = Null
  /\ Done /\ Runs => \A b \in heap.live : Kept(b)

(* While there is a database, a DESCRIBE and a first SETUP are let in only   *)
(* for a user in the database, with the realm and the nonce that this        *)
(* connection was told when it was last refused, and with the response that  *)
(* the server computed: the challenges of other connections and earlier ones *)
(* do not count (rtsp_server.c:1877-1918).  The property does not say that   *)
(* the client knows the password, for that response has nothing to do with   *)
(* it (our_md5.c:74, 348); and it says what becomes of the test of line 1884 *)
(* being the wrong way round: only a header that does not parse is let in.   *)
AdmittedAsChallenged ==
  answer.ok =>
    LET told == challenge[answer.connection]
    IN  /\ told # NotTold
        /\ Field(answer.header, "realm") = told.realm
        /\ Field(answer.header, "nonce") = told.nonce
        /\ Field(answer.header, "username") \in UsersIn(heap)
        /\ Field(answer.header, "response") = answer.our_response
        /\ ~ParseAuthorizationHeader(answer.header)
===============================================================================
