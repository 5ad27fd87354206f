----------------------------- MODULE TcpStreaming -----------------------------
(***************************************************************************)
(* Streaming over the TCP connection of RTSP: livemedia/rtsp_server.c.     *)
(* The server lists under each socket the (session, track) pairs that are  *)
(* streamed over it, and each client session keeps for each of its tracks  *)
(* the socket it is streamed over.  A SETUP may come over any connection,  *)
(* may be repeated, and may change the transport.                          *)
(*                                                                         *)
(* A socket is the address of its handle: when a connection is closed the  *)
(* address may come back as that of a later one.  The code that would stop *)
(* the streaming over a closed socket is never reached: the sockets are    *)
(* closed by the parent class, also when a connection is deleted, because  *)
(* its delete pointer is not the one that its constructor means to set.    *)
(* Pausing and deleting a stream are stubs.                                *)
(***************************************************************************)
EXTENDS Integers, SequencesExt, FiniteSetsExt

CONSTANTS
  Sessions,       \* client session ids
  NumTracks,      \* tracks of a session (num_stream_states)
  Sockets,        \* addresses of socket handles
  None,           \* NULL
  ChannelIds,     \* how many channel ids an unsigned char can hold
  MaxSetups       \* bound: the SETUPs of the sessions there are, together

ASSUME ConstantsAssumption ==
  /\ None \notin Sockets \cup {"UDP", "TCP"}
  /\ NumTracks \in Nat
  /\ ChannelIds \in Nat \ {0}
  /\ MaxSetups \in Nat

VARIABLES
  connections,            \* the sockets of the connections that are open
  client_sessions,
  alive,                  \* the sessions whose liveness is being noted, again and again
  tcp_streaming_database, \* the records of each socket, the last one first
  tcp_socket_num,         \* of each stream state of a session
  stream_token,           \* of each stream state: NULL, or how it was last set up
  tcp_stream_id_count,    \* of each session
  channel,                \* history: the channel that the server took for a track
  setups                  \* history: how many SETUPs a session has had

state_vars == <<tcp_socket_num, stream_token, tcp_stream_id_count>>
history_vars == <<channel, setups>>
vars == <<connections, client_sessions, alive, tcp_streaming_database, tcp_socket_num, stream_token,
          tcp_stream_id_count, channel, setups>>

Tracks == 0 .. NumTracks - 1
Transports == {"UDP", "TCP"}

Init ==
  /\ connections = {}
  /\ client_sessions = {}
  /\ alive = {}
  /\ tcp_streaming_database = [k \in Sockets |-> << >>]
  /\ tcp_socket_num = [c \in Sessions |-> [t \in Tracks |-> None]]
  /\ stream_token = [c \in Sessions |-> [t \in Tracks |-> None]]
  /\ tcp_stream_id_count = [c \in Sessions |-> 0]
  /\ channel = [c \in Sessions |-> [t \in Tracks |-> None]]
  /\ setups = [c \in Sessions |-> 0]

------------------------------------------------------------------------------
(* Connections. *)

(* A client connects; the address of the handle is one that is free. *)
Connect(k) ==
  /\ k \notin connections
  /\ connections' = connections \cup {k}
  /\ UNCHANGED <<client_sessions, alive, tcp_streaming_database, state_vars, history_vars>>

(* close_sockets(): the records of the socket stay. *)
CloseSockets(k) ==
  /\ k \in connections
  /\ connections' = connections \ {k}
  /\ UNCHANGED <<client_sessions, alive, tcp_streaming_database, state_vars, history_vars>>

------------------------------------------------------------------------------
(* Records. *)

(* A record of the streaming of one track of a session. *)
NewRecord(c, t) == <<c, t>>

(* note_tcp_streaming_on_socket(): a record in front of those of the socket. *)
Noted(database, k, c, t) == [database EXCEPT ![k] = <<NewRecord(c, t)>> \o @]

(* Mutant: only the first record of the socket is looked at. *)
UnnotedHead(database, k, c, t) ==
  IF k # None /\ database[k] # << >> /\ Head(database[k]) = <<c, t>>
    THEN [database EXCEPT ![k] = Tail(@)] ELSE database

(* unnote_tcp_streaming_on_socket(): the first record of the track goes, from *)
(* the head of the list or out of its middle.                                *)
Unnoted(database, k, c, t) ==
  IF k = None THEN database ELSE [database EXCEPT ![k] = RemoveFirst(@, NewRecord(c, t))]

(* A repeated SETUP ends the existing streaming of the track first. *)
Restarted(c, t) ==
  IF stream_token[c][t] = None THEN tcp_streaming_database
  ELSE Unnoted(tcp_streaming_database, tcp_socket_num[c][t], c, t)

------------------------------------------------------------------------------
(* handle_cmd_setup(), the stream and the track being found.  A session that  *)
(* does not exist yet has been created by the same request.  Either way its  *)
(* liveness has been noted.                                                  *)

SetupOver(c, t, k, transport) ==
  /\ k \in connections
  /\ MapThenSumSet(LAMBDA d : setups[d], Sessions) < MaxSetups
  /\ setups' = [setups EXCEPT ![c] = @ + 1]
  /\ client_sessions' = client_sessions \cup {c}
  /\ alive' = alive \cup {c}
  /\ stream_token' = [stream_token EXCEPT ![c][t] = transport]
  /\ UNCHANGED connections

(* Mutant: the socket is forgotten and its record is not. *)
SetupUdpForgetting(c, t, k) ==
  /\ SetupOver(c, t, k, "UDP")
  /\ tcp_socket_num' = [tcp_socket_num EXCEPT ![c][t] = None]
  /\ channel' = [channel EXCEPT ![c][t] = None]
  /\ UNCHANGED <<tcp_streaming_database, tcp_stream_id_count>>

(* UDP is asked for.  A socket of an earlier SETUP stays in the state. *)
SetupUdp(c, t, k) ==
  /\ SetupOver(c, t, k, "UDP")
  /\ tcp_streaming_database' = Restarted(c, t)
  /\ channel' = [channel EXCEPT ![c][t] = None]
  /\ UNCHANGED <<tcp_socket_num, tcp_stream_id_count>>

(* Mutant: a channel per SETUP, where RTP and RTCP take one each. *)
NextStreamIdByOne(count) == (count + 1) % ChannelIds

NextStreamId(count) == (count + 2) % ChannelIds

(* TCP is asked for, over the connection that the request came on.  Whether   *)
(* or not the client names its channels, the session's next one is taken.    *)
SetupTcp(c, t, k, client_names_channel) ==
  /\ SetupOver(c, t, k, "TCP")
  /\ tcp_streaming_database' = Noted(Restarted(c, t), k, c, t)
  /\ tcp_socket_num' = [tcp_socket_num EXCEPT ![c][t] = k]
  /\ tcp_stream_id_count' = [tcp_stream_id_count EXCEPT ![c] = NextStreamId(@)]
  /\ channel' = [channel EXCEPT ![c][t] =
                   IF client_names_channel THEN None ELSE tcp_stream_id_count[c]]

(* reclaim_stream_states(): the records of the tracks go, one track after the *)
(* other.                                                                    *)
Reclaimed(c) ==
  LET upto[n \in 0 .. NumTracks] ==
        IF n = 0 THEN tcp_streaming_database
        ELSE Unnoted(upto[n - 1], tcp_socket_num[c][n - 1], c, n - 1)
  IN  upto[NumTracks]

(* The deinit of a session. *)
SessionEnds(c) ==
  /\ c \in client_sessions
  /\ client_sessions' = client_sessions \ {c}
  /\ alive' = alive \ {c}
  /\ tcp_streaming_database' = Reclaimed(c)
  /\ tcp_socket_num' = [tcp_socket_num EXCEPT ![c] = [t \in Tracks |-> None]]
  /\ stream_token' = [stream_token EXCEPT ![c] = [t \in Tracks |-> None]]
  /\ tcp_stream_id_count' = [tcp_stream_id_count EXCEPT ![c] = 0]
  /\ channel' = [channel EXCEPT ![c] = [t \in Tracks |-> None]]
  /\ setups' = [setups EXCEPT ![c] = 0]
  /\ UNCHANGED connections

------------------------------------------------------------------------------
(* The liveness of sessions. *)

LivenessChanges(sessions) ==
  /\ alive' = sessions
  /\ UNCHANGED <<connections, client_sessions, tcp_streaming_database, state_vars, history_vars>>

(* A PLAY, a keep-alive or a report of RTCP notes the liveness of a session   *)
(* again, and its timer starts from the beginning.                           *)
NoteLiveness(c) == c \in client_sessions \ alive /\ LivenessChanges(alive \cup {c})

(* The client falls silent: nothing more is noted, unless it comes back.      *)
FallsSilent(c) == c \in alive /\ LivenessChanges(alive \ {c})

(* liveness_timeout_task(): nothing was noted for the reclamation time. *)
LivenessTimeout(c) == c \notin alive /\ SessionEnds(c)

Setup ==
  \E c \in Sessions, t \in Tracks, k \in Sockets :
    \/ SetupUdp(c, t, k)
    \/ \E client_names_channel \in BOOLEAN : SetupTcp(c, t, k, client_names_channel)

Next ==
  \/ \E k \in Sockets : Connect(k)
  \/ \E k \in Sockets : CloseSockets(k)
  \/ Setup
  \/ \E c \in Sessions : LivenessTimeout(c)
  \/ \E c \in Sessions : SessionEnds(c)  \* closed by the application
  \/ \E c \in Sessions : NoteLiveness(c) \/ FallsSilent(c)

Spec == Init /\ [][Next]_vars

(* The loop runs the timer of a session that stays silent; whether a client   *)
(* falls silent is up to it, and the application need not close a session.   *)
FairSpec == Spec /\ \A c \in Sessions : WF_vars(LivenessTimeout(c))

------------------------------------------------------------------------------
(* Types. *)
TypeOK ==
  /\ connections \subseteq Sockets
  /\ client_sessions \subseteq Sessions
  /\ alive \subseteq client_sessions
  /\ tcp_streaming_database \in [Sockets -> Seq(Sessions \X Tracks)]
  /\ tcp_socket_num \in [Sessions -> [Tracks -> Sockets \cup {None}]]
  /\ stream_token \in [Sessions -> [Tracks -> Transports \cup {None}]]
  /\ tcp_stream_id_count \in [Sessions -> 0 .. ChannelIds - 1]
  /\ channel \in [Sessions -> [Tracks -> (0 .. ChannelIds - 1) \cup {None}]]
  /\ setups \in [Sessions -> Nat]
  /\ \A c \in Sessions : c \notin client_sessions => setups[c] = 0

Occurrences(records, record) == Cardinality({i \in DOMAIN records : records[i] = record})

(* The table of the server and the states of the sessions agree, though each  *)
(* is updated without a look at the other: a track that was last set up over *)
(* TCP has one record, under the socket in its state, and no other track has *)
(* any, whatever connections the requests came on, were closed, or took the  *)
(* address of a closed one.                                                  *)
RecordsAgree ==
  /\ TypeOK
  /\ \A k \in Sockets, c \in Sessions, t \in Tracks :
       Occurrences(tcp_streaming_database[k], <<c, t>>) =
         IF stream_token[c][t] = "TCP" /\ tcp_socket_num[c][t] = k THEN 1 ELSE 0

(* As long as a session has not come round to the first channels again, two   *)
(* tracks whose channels the server took share neither RTP's nor RTCP's.     *)
ChannelsOf(c, t) == {channel[c][t], (channel[c][t] + 1) % ChannelIds}
ChannelsDistinct ==
  \A c \in Sessions : 2 * setups[c] <= ChannelIds =>
    \A t, u \in Tracks :
      t # u /\ channel[c][t] # None /\ channel[c][u] # None =>
        ChannelsOf(c, t) \cap ChannelsOf(c, u) = {}

(* Although closing a connection leaves its records behind, none stays for    *)
(* ever once the clients are gone: when in the end no session's liveness is   *)
(* noted any more, by a SETUP, a PLAY, a keep-alive or a report, the timers   *)
(* of the sessions empty the table.  A session that is kept alive over        *)
(* another connection keeps the records of a closed one.                     *)
RecordsEnd ==
  <>[](alive = {}) => <>[](\A k \in Sockets : tcp_streaming_database[k] = << >>)
==============================================================================
