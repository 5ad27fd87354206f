------------------------------- MODULE OnDemand -------------------------------
(***************************************************************************)
(* What SETUP and PLAY make of a stream that is read from a file for each  *)
(* client: the client sessions' stream states (livemedia/rtsp_server.c),   *)
(* the streams and destinations of an on-demand subsession                 *)
(* (on_demand_server_media_subsession.c, h264_video_file_server_media_     *)
(* subsession.c), with the sockets of module Groupsock, the objects of     *)
(* module Media and the headers of module RtspHeaders.                     *)
(*                                                                         *)
(* Pausing, deleting and reclaiming a stream have no body, so what a SETUP *)
(* made outlives the session and a repeated SETUP.  A destination over TCP *)
(* is built from the address of a local variable, so a PLAY to it is       *)
(* undefined: the server ends, or goes on as if the socket were of no use. *)
(* The packets of a stream are in module RtpSession, its units in module   *)
(* H264Parser; here its reader asks the file for data.                     *)
(***************************************************************************)
EXTENDS Groupsock, Media, RtspHeaders

CONSTANTS
  StreamName,  \* of the media session
  NumTracks,   \* subsessions; main.c has one
  Sessions,    \* client session ids
  Urls,        \* [pre, suf], the two parts of the name in a request
  Transports,  \* Transport headers, as sequences of fields
  Port,        \* initial_port_num as it is given
  OtherPorts,  \* ports that other programs open
  ReuseFirstSource,
  MaxStreams,  \* bound: how many streams are made
  MaxRead      \* bound: the most that a reader asks for

ASSUME OnDemandAssumption ==
  /\ NumTracks \in Nat \ {0} /\ {Port, MaxStreams, MaxRead} \subseteq Nat
  /\ OtherPorts \subseteq Nat /\ ReuseFirstSource \in BOOLEAN

VARIABLES
  process,   \* "running" or "crashed"
  file,      \* there is a file of the name
  net,       \* sockets, see module Groupsock
  media,     \* objects, see module Media
  sdp_lines, \* the tracks that have been described
  streams,   \* the stream states made so far, in order
  last_stream_token, \* of each track
  client_sessions,
  destinations,      \* of each track, for each session that set it up
  told,      \* history: the server ports in the last answer to a SETUP
  played     \* history: the tracks, by session, that a PLAY has named

vars == <<process, file, net, media, sdp_lines, streams, last_stream_token,
          client_sessions, destinations, told, played>>

TrackIds == 1 .. NumTracks
TrackName(t) == <<"track", t>>
NoStream == 0
NoTrack == 0
Other == 0     \* owner of a port: not the server
Sdp == -1      \* owner of the socket of a description
NoPorts == [rtp |-> 0, rtcp |-> 0]

(* create_new_stream_source(): a file source and a framer that owns it.      *)
CreateNewStreamSource(m, exists) ==
  NewFilter(CreateNewFileSource(m, exists), "framer", GenerateNewName(m))
SourceIn(m) == GenerateNewName(m) + 1
NewObject(m, kind) == AddNew(m, Medium(kind, NoMedium))
FileOf(m, source) == m.table[source].input

(* The server, the media session and its subsessions are media too. *)
Permanent == 1 .. NumTracks + 2

PermanentKind(n) == CASE n = 1 -> "server" [] n = 2 -> "session" [] OTHER -> "subsession"

Init ==
  /\ process = "running" /\ file \in BOOLEAN
  /\ net = NewNetwork
  /\ media = [NewMediaTable EXCEPT
                !.table = [n \in Permanent |-> Medium(PermanentKind(n), NoMedium)],
                !.next = NumTracks + 3]
  /\ sdp_lines = {} /\ streams = << >>
  /\ last_stream_token = [t \in TrackIds |-> NoStream]
  /\ client_sessions = [s \in Sessions |-> [status |-> "new", states |-> << >>]]
  /\ destinations = [t \in TrackIds |-> << >>]
  /\ told = [s \in Sessions |-> [t \in TrackIds |-> NoPorts]]
  /\ played = {}

Crash ==
  /\ process' = "crashed"
  /\ UNCHANGED <<file, net, media, sdp_lines, streams, last_stream_token,
                 client_sessions, destinations, told, played>>

------------------------------------------------------------------------------
(* sdp_lines() of a track that has none: a source, a socket without a port   *)
(* and a sink are made, looked at, and closed again.                         *)
SdpLines(acc, t) ==
  LET gs     == NewGroupsock(acc.net, 0, 0, Sdp)
      source == SourceIn(acc.media)
      made   == NewObject(CreateNewStreamSource(acc.media, file), "sink")
  IN  IF t \in sdp_lines THEN acc
      ELSE [net |-> DeleteGroupsock(gs.net, gs.gs, Sdp),
            media |-> CloseMedium(CloseMedium(made, source + 1), source)]

(* Track after track. *)
Described ==
  LET upto[t \in 0 .. NumTracks] ==
        IF t = 0 THEN [net |-> net, media |-> media] ELSE SdpLines(upto[t - 1], t)
  IN  upto[NumTracks]

(* DESCRIBE: the lines of every track, made once. *)
Describe ==
  /\ process = "running"
  /\ sdp_lines' = TrackIds
  /\ net' = Described.net /\ media' = Described.media
  /\ UNCHANGED <<process, file, streams, last_stream_token, client_sessions,
                 destinations, told, played>>

------------------------------------------------------------------------------
(* SETUP. *)

(* The track that a name or a request stands for. *)
TrackOf(name) == IF \E t \in TrackIds : TrackName(t) = name
                   THEN CHOOSE t \in TrackIds : TrackName(t) = name ELSE NoTrack

NamesStream(url) == url.pre = StreamName \/ (url.pre = << >> /\ url.suf = StreamName)

SetupTrack(url) ==
  IF url.pre = StreamName /\ url.suf # << >> THEN TrackOf(url.suf)
  ELSE IF NumTracks = 1 THEN 1 ELSE NoTrack

(* Mutant: the port is taken as it is given. *)
InitialPortAsGiven == Port

InitialPort == 2 * ((Port + 1) \div 2)

(* The sockets of a stream: one for raw UDP, else a pair with adjacent ports. *)
(* The server ends at a port that it cannot have.                            *)
StreamSockets(t, tcp, owner) ==
  LET first  == NewGroupsock(NewNoReuse(net), 0, InitialPort, owner)
      second == NewGroupsock(first.net, 0, InitialPort + 1, owner)
  IN  CASE t.rtp_port = 0 /\ ~tcp ->
             [net |-> net, crashed |-> FALSE, rtp |-> NoGroupsock, rtcp |-> NoGroupsock]
        [] t.rtcp_port = 0 /\ (t.rtp_port # 0 \/ tcp) ->
             [net |-> first.net, crashed |-> first.crashed,
              rtp |-> RemoveAllDestinations(first.gs), rtcp |-> NoGroupsock]
        [] OTHER ->
             [net |-> second.net, crashed |-> first.crashed \/ second.crashed,
              rtp |-> RemoveAllDestinations(first.gs),
              rtcp |-> RemoveAllDestinations(second.gs)]

NewStream(s, track, source, sinks, socks) ==
  [session |-> s, track |-> track, source |-> source, sink |-> sinks.rtp,
   udp_sink |-> sinks.udp, rtp_gs |-> socks.rtp, rtcp_gs |-> socks.rtcp,
   rtcp_instance |-> NoMedium, fragmenter |-> NoMedium,
   are_currently_playing |-> FALSE, ended |-> FALSE]

Reuses(track) == last_stream_token[track] # NoStream /\ ReuseFirstSource

(* get_stream_parameters() where it makes a stream, which becomes number k.  *)
MakeStream(s, track, t, tcp) ==
  LET k      == Len(streams) + 1
      socks  == StreamSockets(t, tcp, k)
      source == SourceIn(media)
      made   == CreateNewStreamSource(media, file)
      sinks  == CASE ~socks.rtp.socket  -> [rtp |-> NoMedium, udp |-> NoMedium]
                  [] socks.rtp.socket /\ ~socks.rtcp.socket
                                        -> [rtp |-> NoMedium, udp |-> GenerateNewName(made)]
                  [] OTHER              -> [rtp |-> GenerateNewName(made), udp |-> NoMedium]
  IN  IF socks.crashed THEN [crashed |-> TRUE]
      ELSE [crashed |-> FALSE, net |-> socks.net, token |-> k,
            media |-> IF socks.rtp.socket THEN NewObject(made, "sink") ELSE made,
            streams |-> Append(streams, NewStream(s, track, source, sinks, socks)),
            ports |-> [rtp |-> socks.rtp.port, rtcp |-> socks.rtcp.port]]

(* get_stream_parameters(): to use a stream again is to count a reference    *)
(* where reference_count() has no body and says NULL.                        *)
GetStreamParameters(s, track, t, tcp) ==
  IF Reuses(track) THEN [crashed |-> TRUE] ELSE MakeStream(s, track, t, tcp)

(* The destination of the session for the track, in place of an earlier one. *)
WithDestination(s, track, tcp) ==
  LET known == destinations[track]
  IN  [destinations EXCEPT ![track] =
         [c \in {s} \cup DOMAIN known |-> IF c = s THEN [is_tcp |-> tcp] ELSE known[c]]]

(* The states of a session, made at the first SETUP that names the stream,   *)
(* even when it names no track.                                              *)
StatesOf(s) ==
  IF client_sessions[s].status = "new"
    THEN [t \in TrackIds |-> [token |-> NoStream, tcp |-> FALSE]]
    ELSE client_sessions[s].states

(* handle_cmd_setup(); a name without a stream is answered and changes       *)
(* nothing.  A socket that an earlier SETUP noted for the track stays, so    *)
(* the destination is TCP from then on (rtsp_server.c:2718).                 *)
Setup(s, url, fields) ==
  LET track == SetupTrack(url)
      t     == ParseTransport(fields)
      tcp   == t.mode = "tcp" \/ StatesOf(s)[track].tcp
      p     == GetStreamParameters(s, track, t, tcp)
      Keep(states) == client_sessions' =
                         [client_sessions EXCEPT ![s] = [status |-> "bound", states |-> states]]
  IN  /\ process = "running" /\ client_sessions[s].status # "ended"
      /\ NamesStream(url)
      /\ \/ /\ track = NoTrack
            /\ Keep(StatesOf(s))
            /\ UNCHANGED <<process, file, net, media, sdp_lines, streams,
                           last_stream_token, destinations, told, played>>
         \/ /\ track # NoTrack
            /\ Len(streams) < MaxStreams
            /\ IF p.crashed THEN Crash
               ELSE /\ Keep([StatesOf(s) EXCEPT ![track] = [token |-> p.token, tcp |-> tcp]])
                    /\ net' = p.net /\ media' = p.media /\ streams' = p.streams
                    /\ last_stream_token' = [last_stream_token EXCEPT ![track] = p.token]
                    /\ destinations' = WithDestination(s, track, tcp)
                    /\ told' = [told EXCEPT ![s][track] =
                         IF t.mode = "tcp" THEN NoPorts ELSE p.ports]
                    /\ UNCHANGED <<process, file, sdp_lines, played>>

------------------------------------------------------------------------------
(* PLAY. *)

(* handle_cmd_within_session(): the tracks that the command is for.          *)
TracksWithin(url) ==
  IF url.suf # << >> /\ url.pre = StreamName THEN {TrackOf(url.suf)} \ {NoTrack}
  ELSE IF url.suf = StreamName \/ (url.suf = << >> /\ url.pre = StreamName) THEN TrackIds
  ELSE {}

(* Mutant: the last stream of the track is started. *)
TokenLastMade(s, track) == last_stream_token[track]

Token(s, track) == client_sessions[s].states[track].token

(* start_playing() of the sink, with which a fragmenter comes for RTP: the   *)
(* file is asked for data, and it must be there.                             *)
StartSink(acc, k) ==
  LET st   == acc.streams[k]
      made == IF st.sink = NoMedium THEN acc.media
              ELSE NewFilter(acc.media, "fragmenter", st.source)
      from == FileOf(acc.media, st.source)
  IN  IF ~Readable(acc.media, from) THEN [acc EXCEPT !.crashed = TRUE]
      ELSE [acc EXCEPT !.media = DoGetNextFrame(made, from),
              !.streams[k] = [st EXCEPT !.are_currently_playing = TRUE,
                 !.fragmenter = IF st.sink = NoMedium THEN NoMedium ELSE GenerateNewName(acc.media)]]

(* The RTCP instance of a stream with an RTP sink, made when it first plays. *)
WithRtcp(acc, k) ==
  IF acc.streams[k].sink = NoMedium \/ acc.streams[k].rtcp_instance # NoMedium THEN acc
  ELSE [acc EXCEPT !.media = NewObject(@, "rtcp"),
                   !.streams[k] = [@ EXCEPT !.rtcp_instance = GenerateNewName(acc.media)]]

(* start_stream() and stream_state start_playing(), for one track.           *)
StartStream(s, survives, acc, track) ==
  LET k   == Token(s, track)
      ctl == WithRtcp(acc, k)
      st  == ctl.streams[k]
  IN  IF acc.crashed \/ k = NoStream \/ s \notin DOMAIN destinations[track] THEN acc
      ELSE IF destinations[track][s].is_tcp /\ st.sink # NoMedium /\ ~survives
        THEN [acc EXCEPT !.crashed = TRUE]
      ELSE IF st.are_currently_playing \/ (st.sink = NoMedium /\ st.udp_sink = NoMedium) THEN ctl
      ELSE StartSink(ctl, k)

Started(s, url, survives) ==
  LET upto[t \in 0 .. NumTracks] ==
        IF t = 0 THEN [crashed |-> FALSE, media |-> media, streams |-> streams]
        ELSE IF t \in TracksWithin(url) THEN StartStream(s, survives, upto[t - 1], t)
        ELSE upto[t - 1]
  IN  upto[NumTracks]

Play(s, url) ==
  /\ process = "running" /\ client_sessions[s].status = "bound"
  /\ \E survives \in BOOLEAN :
       LET done == Started(s, url, survives)
       IN  IF done.crashed THEN Crash
           ELSE /\ media' = done.media /\ streams' = done.streams
                /\ played' = played \cup {<<s, t>> : t \in TracksWithin(url)}
                /\ UNCHANGED <<process, file, net, sdp_lines, last_stream_token,
                               client_sessions, destinations, told>>

(* The session ends: its states are freed, and nothing else.                 *)
ReclaimStreamStates(s) ==
  /\ process = "running" /\ client_sessions[s].status = "bound"
  /\ client_sessions' = [client_sessions EXCEPT ![s] = [status |-> "ended", states |-> << >>]]
  /\ told' = [told EXCEPT ![s] = [t \in TrackIds |-> NoPorts]]
  /\ UNCHANGED <<process, file, net, media, sdp_lines, streams, last_stream_token,
                 destinations, played>>

------------------------------------------------------------------------------
(* The loop, and the world around the server. *)

File(i) == FileOf(media, streams[i].source)

(* The reader of a stream wants more. *)
Ask(i) ==
  /\ process = "running" /\ i \in DOMAIN streams
  /\ streams[i].are_currently_playing /\ ~streams[i].ended
  /\ ~media.table[File(i)].awaiting
  /\ media' = DoGetNextFrame(media, File(i))
  /\ UNCHANGED <<process, file, net, sdp_lines, streams, last_stream_token,
                 client_sessions, destinations, told, played>>

(* The idle handle of a file.  At the end of the file its reader is told and *)
(* asks no more.                                                             *)
FileReadable(i) ==
  /\ process = "running" /\ i \in DOMAIN streams
  /\ media.table[File(i)].idling
  /\ \E max_size \in 1 .. MaxRead :
       /\ media' = FileReadableHandler(media, File(i), max_size)
       /\ streams' = [streams EXCEPT ![i].ended =
            @ \/ (media.table[File(i)].awaiting /\ AtEnd(media, File(i)))]
  /\ UNCHANGED <<process, file, net, sdp_lines, last_stream_token,
                 client_sessions, destinations, told, played>>

(* Other programs, with and without sharing their ports. *)
OtherBinds(p) ==
  /\ process = "running"
  /\ \E reuse \in {Shared, Unshared} :
       MayBind(net, p, reuse) /\ net' = Bind(net, p, Other, reuse)
  /\ UNCHANGED <<process, file, media, sdp_lines, streams, last_stream_token,
                 client_sessions, destinations, told, played>>

OtherReleases(p) ==
  /\ process = "running" /\ \E b \in Bound(net, p) : b.owner = Other
  /\ net' = [net EXCEPT !.bound = {b \in @ : b.port # p \/ b.owner # Other}]
  /\ UNCHANGED <<process, file, media, sdp_lines, streams, last_stream_token,
                 client_sessions, destinations, told, played>>

FileChanges ==
  /\ process = "running" /\ file' = ~file
  /\ UNCHANGED <<process, net, media, sdp_lines, streams, last_stream_token,
                 client_sessions, destinations, told, played>>

Next ==
  \/ Describe
  \/ \E s \in Sessions, url \in Urls, t \in Transports : Setup(s, url, t)
  \/ \E s \in Sessions, url \in Urls : Play(s, url)
  \/ \E s \in Sessions : ReclaimStreamStates(s)
  \/ \E i \in 1 .. MaxStreams : Ask(i) \/ FileReadable(i)
  \/ \E p \in OtherPorts : OtherBinds(p) \/ OtherReleases(p)
  \/ FileChanges

(* The loop runs every idle handle in each of its rounds. *)
Spec == Init /\ [][Next]_vars /\ \A i \in 1 .. MaxStreams : WF_vars(FileReadable(i))

------------------------------------------------------------------------------
(* Tokens and destinations go together: a track that a session has a token   *)
(* for has a stream of that track, and a destination under the session       *)
(* (get_stream_parameters(), on_demand_server_media_subsession.c:497-510).   *)
TypeOK ==
  /\ process \in {"running", "crashed"}
  /\ \A s \in Sessions : \A t \in DOMAIN client_sessions[s].states :
       LET k == client_sessions[s].states[t].token
       IN  k # NoStream => /\ k \in DOMAIN streams /\ streams[k].track = t
                           /\ s \in DOMAIN destinations[t]
  /\ \A n \in DOMAIN media.table : n < media.next /\ media.table[n].input < n

(* A port of the server is nobody else's, neither another program's nor      *)
(* another stream's ("ensures that we skip over ports that are already in    *)
(* use", on_demand_server_media_subsession.c:412): the sockets of the        *)
(* streams forbid sharing.                                                   *)
PortsExclusive ==
  \A b, c \in net.bound : b.port = c.port /\ b # c => b.owner = Other /\ c.owner = Other

(* What a client was told in the answer to SETUP stays true as long as the   *)
(* session does: the ports are bound by its stream, and a pair is an even    *)
(* port and the next one ("adjacent port numbers (RTP port number even)",    *)
(* on_demand_server_media_subsession.c:428).                                 *)
ToldPortsBound ==
  \A s \in Sessions, t \in TrackIds :
    LET ports == told[s][t]
    IN  /\ \A p \in {ports.rtp, ports.rtcp} \ {0} :
             \E b \in Bound(net, p) : b.owner = client_sessions[s].states[t].token
        /\ ports.rtcp # 0 => ports.rtp % 2 = 0 /\ ports.rtcp = ports.rtp + 1

ObjectsOf(m, st) ==
  {st.source, FileOf(m, st.source), st.sink, st.udp_sink,
   st.rtcp_instance, st.fragmenter} \ {NoMedium}

(* The table of media names the permanent ones and those of the streams, and *)
(* no other: what sdp_lines() makes it also closes, inputs included          *)
(* (on_demand_server_media_subsession.c:306-331).                            *)
MediaAccounted ==
  /\ TypeOK
  /\ DOMAIN media.table = Permanent \cup UNION {ObjectsOf(media, streams[i]) : i \in DOMAIN streams}

(* A stream plays only if its own session asked for its track: a SETUP of    *)
(* another session, later for the same track, does not get in between        *)
(* (rtsp_server.c:3186-3200).                                                *)
PlayedAsAsked ==
  \A i \in DOMAIN streams : streams[i].are_currently_playing =>
    <<streams[i].session, streams[i].track>> \in played

(* A reader that waits for data is answered, however often the idle handle   *)
(* was taken down before it asked (byte_stream_file_source.c:158, 173, 305). *)
Awaiting(i) == i \in DOMAIN streams /\ media.table[File(i)].awaiting
AwaitedIsAnswered ==
  \A i \in 1 .. MaxStreams : Awaiting(i) ~> (~Awaiting(i) \/ process = "crashed")

(* "ensures that we skip over ports that are already in use"                 *)
(* (on_demand_server_media_subsession.c:412 and 432): a SETUP finds a port,  *)
(* whichever are taken, and the server goes on.                              *)
BusyPortSkipped ==
  [][\A s \in Sessions, url \in Urls, t \in Transports :
       Setup(s, url, t) => process' = "running"]_vars
===============================================================================
