----------------------------- MODULE ServerClasses -----------------------------
(***************************************************************************)
(* The objects of a server and how long they last (generic_media_server.c, *)
(* rtsp_server.c): the server with its socket and tables, the media        *)
(* session it offers, its client connections and client sessions, and the  *)
(* database of users.  Operators take a heap (module MediaClasses) to the  *)
(* next; one whose outcome is not the server's to decide is a set of       *)
(* heaps.                                                                  *)
(*                                                                         *)
(* The sessions that a program makes all have one name, so the table of    *)
(* media sessions has one entry: the field "server_media_sessions".  A     *)
(* timer that is closed is free when the loop comes round; nothing looks   *)
(* at it in between.                                                       *)
(***************************************************************************)
EXTENDS MediaClasses, SequencesExt

Server == <<"server", 0>>
Database == <<"database", 0>>

------------------------------------------------------------------------------
(* The server.  It is made once and never closed.                            *)

(* A step on the way to the socket may fail, the last ones when the          *)
(* descriptor is open already.                                               *)
SetupStreamSocket(h) ==
  {h, Make(h, Server, {"descriptor"}), Make(h, Server, {"server_socket"})}

(* A socket that cannot be made to listen is closed again.                   *)
SetUpOurSocket(h) ==
  UNION {IF Lives(made, Server, "server_socket")
         THEN {made, Free(made, Server, "server_socket")} ELSE {made} : made \in SetupStreamSocket(h)}

GenericMediaServerInit(h) ==
  Set(Set(Set(Make(MediumInit(h, Server), Server,
                   {"server_media_sessions", "client_connections", "client_sessions"}),
      Server, "server_media_sessions", Null), Server, "client_sessions", {}),
      Server, "delete", "generic_media_server")

RtspServerInit(h) ==
  Set(Set(Make(GenericMediaServerInit(h), Server, {"tcp_streaming_database", "pending_requests"}),
      Server, "auth_db", Null), Server, "delete", "rtsp_server")
NewRtspServer(h) == RtspServerInit(New(h, Server))

CreateNewServer(h) ==
  {IF Lives(made, Server, "server_socket") THEN NewRtspServer(made) ELSE made : made \in SetUpOurSocket(h)}

------------------------------------------------------------------------------
(* Its media sessions *)

LookupServerMediaSession(h) == Ref(h, Server, "server_media_sessions")

RemoveServerMediaSession(h, o) ==
  IF o = Null THEN h
  ELSE LET removed == Set(Touch(h, o, "self"), Server, "server_media_sessions", Null)
       IN  IF Ref(h, o, "reference_count") = 0 THEN CloseMedium(removed, o)
           ELSE Set(removed, o, "delete_when_unreferenced", TRUE)

AddServerMediaSession(h, o) ==
  Set(RemoveServerMediaSession(h, LookupServerMediaSession(h)), Server, "server_media_sessions", o)

AddReference(h, o, n) ==
  LET count == Ref(h, o, "reference_count") + n
  IN  Set(Touch(h, o, "self"), o, "reference_count", IF count < 0 THEN 0 ELSE count)

------------------------------------------------------------------------------
(* Client connections stay in memory, and in their table, when they end.     *)

ClientConnectionInit(h, c) == Touch(h, Server, "client_connections")
RtspClientConnectionInit(h, c) ==
  Set(Set(ClientConnectionInit(h, c), c, "realm", Null), c, "nonce", Null)
NewRtspClientConnection(h, c) == RtspClientConnectionInit(New(h, c), c)

(* The handle for a connection that is gone again is lost.                   *)
IncomingConnection(h, c) ==
  {Make(h, c, {"lost_socket"}), NewRtspClientConnection(Make(h, c, {"our_socket"}), c)}

CloseSockets(h, c) == Free(h, c, "our_socket")

------------------------------------------------------------------------------
(* Client sessions *)

NoteLiveness(h, o) ==
  LET media == Ref(h, o, "our_server_media_session")
      noted == IF media = Null THEN h ELSE Touch(h, media, "self")
  IN  Touch(noted, o, "liveness_check_task")

ClientSessionInit(h, o) ==
  NoteLiveness(Set(Set(Make(h, o, {"liveness_check_task"}),
    o, "our_server_media_session", Null), o, "liveness_check_task", o), o)
RtspClientSessionInit(h, o) == ClientSessionInit(h, o)
NewRtspClientSession(h, o) == RtspClientSessionInit(New(h, o), o)

ClientSessions(h) == Ref(h, Server, "client_sessions")
CreateNewClientSessionWithId(h, o) ==
  Set(NewRtspClientSession(h, o), Server, "client_sessions", ClientSessions(h) \cup {o})

ReclaimStreamStates(h, o) == FreeIf(h, o, "stream_states")

(* Mutant: a session that ends keeps its reference. *)
ClientSessionKeepsReference(h, o) ==
  LET stopped == IF Ref(h, o, "liveness_check_task") = Null THEN h
                 ELSE Free(h, o, "liveness_check_task")
  IN  Set(stopped, Server, "client_sessions", ClientSessions(h) \ {o})

(* The stream goes with its last client session: the test whether it is to   *)
(* be deleted then looks at the address of the flag.                         *)
ClientSessionDeinit(h, o) ==
  LET media    == Ref(h, o, "our_server_media_session")
      stopped  == IF Ref(h, o, "liveness_check_task") = Null THEN h
                  ELSE Free(h, o, "liveness_check_task")
      unlisted == Set(stopped, Server, "client_sessions", ClientSessions(h) \ {o})
      released == AddReference(unlisted, media, -1)
  IN  IF media = Null THEN unlisted
      ELSE IF Ref(released, media, "reference_count") = 0
           THEN Set(RemoveServerMediaSession(released, media), o, "our_server_media_session", Null)
           ELSE released

RtspClientSessionDeinit(h, o) == ClientSessionDeinit(ReclaimStreamStates(h, o), o)
DeleteRtspClientSession(h, o) == Forgotten(Free(RtspClientSessionDeinit(h, o), o, "self"), o)

(* The timer that has run out is not its session's any more.                 *)
LivenessTimeoutTask(h, o) ==
  DeleteRtspClientSession(Set(h, o, "liveness_check_task", Null), o)

CloseAllClientSessions(h, media) ==
  LET sessions == SetToSeq(ClientSessions(h))
      Closed[i \in 0 .. Len(sessions)] ==
        IF i = 0 THEN h
        ELSE IF Ref(Closed[i - 1], sessions[i], "our_server_media_session") # media THEN Closed[i - 1]
        ELSE DeleteRtspClientSession(Closed[i - 1], sessions[i])
  IN  Closed[Len(sessions)]
DeleteMediaSessionAndClients(h, media) ==
  RemoveServerMediaSession(CloseAllClientSessions(h, media), media)

(* The first SETUP ties the session to the stream; the first that is not     *)
(* refused makes the states of its tracks, and an iterator that stays.       *)
BindSession(h, o, media) ==
  IF Ref(h, o, "our_server_media_session") # Null THEN h
  ELSE AddReference(Set(h, o, "our_server_media_session", media), media, 1)
MakeStreamStates(h, o) ==
  IF Lives(h, o, "stream_states") THEN h
  ELSE Make(h, o, {"stream_states", "server_media_subsession_iterator"})

------------------------------------------------------------------------------
(* The database of users, with a copy of the password of each *)

Password(user) == <<"password", user>>

NewUserAuthenticationDatabase(h, realm) ==
  Set(Make(h, Database, {"self", "table", "realm"}), Database, "realm", realm)
AddUserRecord(h, user) == Make(FreeIf(h, Password(user), "self"), Password(user), {"self"})
RemoveUserRecord(h, user) == FreeIf(h, Password(user), "self")
LookupPassword(h, user) == Lives(h, Password(user), "self")

RemoveNext(h, users) == [h EXCEPT !.live = @ \ {<<Password(user), "self">> : user \in users}]
DeleteUserAuthenticationDatabase(h, users) ==
  Free(Free(RemoveNext(Free(h, Database, "realm"), users), Database, "table"), Database, "self")

SetAuthenticationDatabase(h, db) == Set(h, Server, "auth_db", db)
===============================================================================
