# A verification of the RTSP server

The repository is a port of the live555 streaming server to C and to the event
loop of libuv. It serves one H.264 file: a client asks for the stream by RTSP
(DESCRIBE, SETUP, PLAY) and receives it as RTP packets. This directory holds
TLA+ models of the parts that decide whether it does so correctly, what TLC
checks of them on small instances, and proofs that tlapm checks for every
instance.

All models are written from the code under `src/`. What the code does and what it
should do sometimes differ; the models do what the code does. Where that
contradicts a promise that the code makes in so many words, a run shows it
("Findings"); the other places are listed under "Known divergences".

## The system

One process, one thread, one libuv loop. Whatever happens is a callback run to
its end: bytes arrived on a socket, a write was completed, an idle handle ran,
a timer fired; or it is a call that the application makes. So there are no data
races, and the interleavings that matter are those of callbacks: what one of them
leaves in a structure, a pointer, a counter or a buffer for the next to find.
Nothing is persisted and nothing restarts.

### Inventory

| part | files | state it keeps | operations |
|---|---|---|---|
| media server | `generic_media_server.c`, parts of `rtsp_server.c` | the table of streams by name; the tables of client sessions and connections; per stream a reference count and a deletion flag; per session the stream it has set up and a liveness timer | add, remove, close clients of, delete a stream; create, find, time out a session; DESCRIBE, SETUP; clean up |
| media session | `server_media_session.c`, the PLAY part of `rtsp_server.c` and `rtsp_common.c` | the subsessions in order; the cached lines of the description; per track where a seek is taken to have started | add a subsession, test a scale, duration, description; parse a range, seek, resume, answer |
| client connection | `rtsp_server.c`, `generic_media_server.c` | the request buffer with its counters, the place of the last line end, the response buffer, a count of contexts, an active flag, the socket | a read, a completed write, termination |
| RTP over TCP | `rtsp_server.c`, `rtp_interface.c` | who streams over which socket, the channels given out | note, unnote, stop streaming on a socket |
| on-demand subsession | `on_demand_server_media_subsession.c` and the file subsessions | the last stream state, the destinations by session id, the ports | parameters of a stream, start, description |
| stream parser | `stream_parser.c`, `framed_source.c` | two banks of bytes, three indices, a pending read and the address it was given | ensure bytes, get, save, restore, swap banks, flush, two ends of input |
| H.264 framer | `h264or5_video_stream_framer.c`, `mpeg_video_stream_parser.c`, `mpeg_video_stream_framer.c` | the parser's flags, the reader's buffer with its saved end, parameter sets, picture marks, the frame rate | parse, continue, end of file, stop; read a parameter set |
| H.264 fragmenter | `h264or5_video_rtp_sink.c` | a buffer with one NAL unit, two offsets, a flag | get next frame, frame arrived, stop |
| RTP sink | `multi_framed_rtp_sink.c`, `media_sink.c`, `rtp_sink.c` | the packet buffer, sequence number, timestamp base with a preset flag, counts | start, pack, send, continue, stop, announce |
| RTCP | `rtcp.c`, `rtcp_from_spec.c` | a report buffer, a timer, the time of the last report | make, report on demand, report on the timer |
| file source | `byte_stream_file_source.c` | the descriptor, the idle handle, whether somebody waits | get next frame, readable, stop, close |
| hash table | `basic_hash_table.c`, `hash_table.c` | chains in buckets, counts, an iterator | add, remove, look up, rebuild, iterate |
| media objects | `media.c` and the constructors and destructors of every class | a lookup table by generated name; who owns whom | create, look up, close |
| groupsock | `src/groupsock/` | sockets, the flag that forbids sharing of ports, destination lists | open, make, delete |
| authentication | `digest_authentication.c`, `our_md5.c`, parts of `rtsp_server.c` | per connection the realm and nonce of the last challenge; the user database | refuse, challenge, admit |
| encodings | `base64.c`, `bit_vector.c` | none | pure functions on bytes and bits |
| RTP sources | `rtp_source.c`, `multi_framed_rtp_source.c`, `h264_video_rtp_source.c` | a reordering buffer, reception statistics | stubs |
| SRTP, MIKEY and others | `srtp_cryptographic_context.c`, `mikey.c`, `format.c`, `Locale.c`, `group_eid.c` | none | stubs and plain data |
| program | `main.c` | the loop | builds one server (port 8555, no user database, reclamation after 65 s) with one session of one H.264 file |

### How the parts interact

* A connection's read callback copies bytes into its request buffer and looks for
  the end of a request; the handler for it is called on the connection or on the
  client session that its `Session:` header names, and writes one response into the connection's
  buffer, or none: several handlers are stubs, and then the response before it is sent once more.
* A handler of SETUP makes a client session in the server's table, looks the
  stream up by name, takes a reference to it, and asks the subsession for the
  parameters of a stream: a source, a sink, two sockets, a destination. PLAY seeks the
  tracks, makes their RTCP instances and starts their sinks.
* Frames are pulled, never pushed: sink, fragmenter, framer, file source. Each asks
  the one behind it with `get_next_frame()`, giving an address to write to and
  two callbacks (a frame arrived, the input is closed), and each remembers in
  `is_currently_awaiting_data` that it has asked. The source answers from the loop.
* Sink and RTCP instance share the timestamp base: a PLAY presets the timestamp of the
  next packet, a report converts the time of the clock by the same base.
* Timers: the liveness timer of a client session, restarted by any request that
  carries its id, ends the session, which gives the reference back; the timer of an RTCP
  instance; the timer behind a packet.
* The application (`main.c`) adds streams, and may remove, replace or delete them
  while clients watch.

### What is hard, and what correctness means

| part | the hard behaviour | what makes it correct |
|---|---|---|
| media server | removal, replacement, timeouts and requests in any order over reference counts and raw pointers | counts are exact, nothing reachable is freed, what is withdrawn goes away, silent sessions end |
| media session | ranges that are clipped, turned round, open or unreadable; tracks that do not agree; seeks and resumptions in any order | the answer to a seek says what the tracks were told; what is said of a session holds for its tracks |
| client connection | requests cut anywhere; reads while a write is pending; a callback that two kinds of events share | each request gets one response, in order, when complete; the connection outlives its writes |
| stream parser | a parse interrupted anywhere and begun again; an address taken before and used after a bank swap | the banks are one stream of bytes; nothing is lost or read twice |
| H.264 framer | start codes across reads; flags that survive an interruption; bit codes of variable length in escaped bytes | units come out once, in order, marked as the whole file says; the end is reached; the frame rate is that of the copy that was saved |
| fragmenter | headers written over the data | all bytes go out, in order; the start is marked, and so is the end; each end of a picture is marked once |
| RTP sink, RTCP | a stop while a frame is awaited; a preset timestamp between packets and reports | packets are whole and numbered; packets and reports lie on one clock |
| on-demand subsession | two sessions with the same track; ports taken by others; what stubs leave behind | ports are exclusive; a stream plays for its own session; nothing unnamed stays |
| media objects | every class ends by its own part and then its parent's; owners close what they own | nothing is released twice or used late |
| authentication | an answer to an earlier or another challenge | only the last challenge of this connection counts, with the response the server computed |
| hash table | removal during iteration, rebuild | an associative array; an iteration visits every key once |
| RTP over TCP | tables updated by SETUP, by the end of a session, by the end of a connection | they agree; channels do not collide |

`PROJECT.json` lists these hazards one by one, at the line where each would bite, with
the properties that guard it.

## The modules

| module | models | what it is |
|---|---|---|
| `StreamDirectory` | | abstract specification: a directory of live streams |
| `MediaServer`, `ServerProofs` | media server | the tables, counts, flags and timers; implements `StreamDirectory` |
| `ByteStream` | | abstract specification: one stream of bytes with a place to come back to |
| `StreamParser`, `StreamingProofs` | stream parser | banks, indices, pending read; implements `ByteStream` |
| `H264Parser`, `H264Proofs` | H.264 framer | the parse over a byte stream, from interruption to interruption |
| `Fragmenter`, `H264Proofs` | fragmenter | fragments of a unit in a shared buffer; `H264Proofs` holds the proofs of both and of their composition |
| `VideoSink`, `H264Proofs` | framer, fragmenter and marker bits | `H264Parser` composed with `Fragmenter` and the sink's handling of picture ends |
| `AssociativeArray` | | abstract specification: a table with an iteration |
| `HashTable`, `HashTableProofs` | hash table | chains and rebuilds; implements `AssociativeArray` |
| `RtspConnection`, `ConnectionProofs` | client connection | the request loop over the request buffer |
| `TcpStreaming`, `ConnectionProofs` | RTP over TCP, its records | the table of who streams over a socket, the states of the sessions, the channels; `ConnectionProofs` holds the proofs of both |
| `PacketBuffer` | packet buffer | operators on a record |
| `RtpSink` | sink | header, frame, packet, preset timestamp; the actions of the sink |
| `RtpSession`, `StreamingProofs` | sink and RTCP | `RtpSink` composed with the RTCP instance of the stream; `StreamingProofs` holds the proofs of both ends of a stream |
| `Groupsock` | sockets | operators on the state of the network |
| `Media` | media table, file source | operators on the table of objects |
| `RtspHeaders` | headers of a SETUP | the transport header |
| `OnDemand`, `OnDemandProofs` | on-demand subsession | SETUP, DESCRIBE and PLAY over `Groupsock`, `Media` and `RtspHeaders` |
| `ServerMediaSession` | media session | operators on a sequence of subsessions |
| `PlayRange`, `ServerProofs` | PLAY and DESCRIBE, in time | ranges, scales, what a seek tells the tracks; `ServerProofs` holds the proofs of the server and of this |
| `MediaClasses` | media objects | constructors and destructors over a heap of blocks |
| `ServerClasses` | server objects | server, connections, client sessions, users over the same heap |
| `Authentication` | authentication | challenge and answer |
| `BitVector`, `SpsAnalysis`, `Base64`, `Base64Proofs` | encodings | bits and Exp-Golomb codes, parameter sets, base64 |
| `Description` | descriptions and streams | objects from making to end; what is described of a stream |
| `RtspClients`, `ClientsProofs` | server and clients | `Description` composed with connections, client sessions, users and the program |
| `MC...` | | instances for TLC |

`H264Parser` is built on top of `ByteStream` rather than on the two banks: its
places are places in the stream. That is justified by `StreamParser`, which
implements `ByteStream` (checked, and proved). The modules of the server likewise use
tables as functions, justified by `HashTable`, which implements `AssociativeArray` (checked, and proved) but for the answer to an
addition of a value that is there, which nobody looks at.

Types are in the property that rests on them: the type predicates of `H264Parser`, `HashTable`, `RtspConnection`,
`TcpStreaming`, `RtpSession` and `OnDemand` are conjuncts of `UnitsInOrder` (and with that of `Fragmenter`, of `EachEndMarkedOnce`), `EntriesLinkedOnce`, `AnsweredInOrder`, `RecordsAgree`,
`PacketsWellFormed` and `MediaAccounted`.

### MediaServer

State and code: `server_media_sessions` and `client_sessions` are the two hash
tables; `life` is the memory of a stream (freed is "closed");
`reference_count` and `delete_when_unreferenced` are the fields of the stream;
`our_server_media_session` is the field of the client session; `idle` is the time
since `schedule_liveness_check` last ran for it.

One action per call or callback: `AddServerMediaSession`, `RemoveServerMediaSession`,
`CloseAllClientSessions`, `DeleteServerMediaSession`, `Cleanup` are calls of the
application; `SetupNewSession`, `SetupInSession`, `NoteLiveness`, `Describe` are
requests; `LivenessTimeout` is the timer; `Tick` is time. `Release` is the end of a session as the code does it: the
flag is tested by its address, so the last viewer takes the name off the table
whatever is listed there.

Abstracted: a stream is its name and identity (no subsessions, no SDP text); a request is
what it does to these tables. A request that must find a session and does not
(the code answers 454) changes nothing and is not an action.

* `RefCountExact`, `ReachableLive`: the count is the number of
  viewers; no dangling pointer. That a marked stream that is alive has a viewer, so that the
  removal at the end of DESCRIBE is never needed, is proved (`MarksAreReferenced`).
* `ImplementsDirectory`: every step is a step of `StreamDirectory`, whose three
  actions publish, watch and retire.
* `SilentSessionsEnd`, `WithdrawnStreamsClose` (liveness).
* Instance: two streams of one name (one replaces the other), one of another name, two
  session ids (two viewers of one stream, or of two), timers of two ticks. Two ids
  are also the least for which "not the previous id" can refuse one. Symmetry is not used,
  because liveness is checked in the same run.

### StreamParser

State and code: the fields of `stream_parser_t` under their names, and of the
source the pending read with the address (`to_bank`, `to_index`) it was given. A byte is
its place in what the source has supplied, so a wrong move, a lost and a repeated byte all
show. The parser itself is any that keeps within its look-ahead: it may read any
number of bytes, save its place or finish a frame at any time. `ensure_valid_bytes1()`
jumps out of the parse (`EnsureValidBytes`), the source answers (`AfterGettingBytes`, `OnInputClosure`)
and the parse starts again from the saved place.

* `BankHoldsTail`, `ReadLandsBehind`, `NeverAborts`, `ImplementsByteStream`.
* Instance: banks of 5 bytes, look-ahead 4, a stream of 9, so that banks are swapped
  several times at every place and a read may fill a bank to its last byte. The stream's
  length (`StreamLength`) is the only bound; the proofs hold for every value of all four.

### H264Parser

One action per way that `parse()` gets on: `AskForMore` (interrupted), `SkipToFirstStartCode`,
`SaveBytes` (a turn of the loop that saves bytes), `InterruptedAtUnitEnd` (interrupted while it
looks at the first byte of the next unit), `EndUnit` (a frame), `SaveTrailing` (what is behind the last
start code), the answers of the file, and the stop. As the file subsession builds the framer:
no start codes in the output, no inserted delimiters.

The reference definition is `Spans`: the units of the file as its start codes cut it,
found in the whole file at once. `UnitsInOrder` (order, once, none missing, and which bytes), `UnitsLabelled` (picture marks and
kept parameter sets) and `AllDelivered` relate what the reader was handed to it. `words` is history, the places that the words of a unit were saved from:
`UnitsInOrder` says that these words cover the unit, one behind the other, and that the reader's buffer holds them. It does not say that the buffer holds the unit. A
byte that is saved by itself, because a start code may begin behind it, goes out as a word whose three high bytes are zero (`WordAt`; line 824 calls
`save4_bytes()` where the comments at 823 and 832 say "Save the first byte" and "forming a complete NAL unit").
`AllDelivered` is liveness too: which units are handed on, that the framer comes to rest at
an empty unit only, and that a reader who asked is answered, with a unit or the end, where there is none.

The marker for the end of a picture is raised by a unit that ends one and lowered by the sink alone, when it puts the mark on a packet (`taken` of `Deliver`). In
`H264Parser` by itself the sink may take any mark that is up; `VideoSink` says which it takes.

* The last unit of a file is never delivered: `AllDelivered` says which units come. Times are counted in frames; as the
  code is written they never move.
* `MaxSize` is at least 4 in the run for a reason that the proofs show: with less room no word of `save4_bytes()` fits, every frame
  is empty and the parser rests at the first.

### Fragmenter

`AskForUnit`, `AfterGettingFrame` (which sends the first fragment, or the unit as a whole), `HandleClosure`, `NextFragment`,
`DoStopGettingFrames`. A cell of the buffer is a byte of a unit or a header
made from its first byte; `ByteAt(k, j)` is the byte of the unit that belongs into cell j of fragment k.

* `BytesSentInOrder`: the fragments hold the bytes of the unit in order, each once, and there are no more of them than it takes. It says what is wrong too: every fragment is as
  long as a packet, so the last one carries what lies behind the unit, and none has the end bit, because line 279 adds the offset to the size where it should subtract it.
* `StartMarkedOnce`: the start bit is on the first fragment and no other.
* `FragmentedNeverCompleted` (proved): the flag by which the sink recognises the end of a unit is never set for a fragmented one.

### VideoSink

The framer writes into the buffer of the fragmenter, and every frame of the fragmenter becomes a packet. `AskFramer` is a request that passes through to the framer,
`DeliverUnit` a unit that the framer hands on, with the first packet of it, `SendFragment` the next, `ParseOn` and `ReadAnswers` the steps of the framer below, `Stop` the end of playing, which goes down from filter to filter.
`Marks` is `do_special_frame_handling()`: the marker bit is set, and the framer's mark taken, by a packet that completes a unit while the mark is up.

* `EachEndMarkedOnce`: a packet has the marker bit just if it is a whole unit and a picture ended with that unit, or with one since the last packet that had the bit. So no end is
  marked twice and none is lost, but one that falls on a fragmented unit is marked late.
* `UnitEndMarked` is what the comments in the code promise of the end of a unit, and is refuted (run `video_sink_end`).
* Instance: every file of a long start code, a slice, three pieces (a zero byte, a slice, the start of
  a slice or picture parameter set, a sequence parameter set, a short start code) and an end, so that start codes
  lie next to each other, overlap zero bytes and are cut by reads of one to four bytes. One stop. Buffers of 13 bytes and packets of 5, so that units
  go out whole, in two and in several fragments, and do or do not fit the buffer; 205,964 states.

### HashTable

The chains as sequences of keys, the iterator as in the code: the entry it will
return next. `EntriesLinkedOnce`, `IteratorNotDangling`, `ImplementsArray`. The array is that of the headers, whose `add` "returns the old value if different, otherwise 0"
(`hash_table.h:57`, `basic_hash_table.h:81`). The code returns the old value also when it equals the new one; `AddOfSameValue` is that one call, and `ImplementsArray` names it as the exception. Five keys in a table
that starts with one bucket and is rebuilt twice, at once and at the fourth entry, with keys that share
a chain before, between and after the rebuilds. The two sizes are constants of
the code (4 and 3); smaller ones make rebuilds happen with few keys.
Values are only stored and compared, so the run uses their symmetry.

### RtspConnection

`handle_request_bytes()` is `rtsp_server_write_cb()` called with status 1; libuv calls the same
function when a response has been written, and only then is the answered request
taken out of the buffer. `Read` is the first, `WriteDone` the second, `PeerGone` a read that fails. The
first two share `LookAt`: what new bytes amount to (refused, incomplete, complete).

Who sends: a patient client awaits each response before it sends on, while the
network cuts its bytes anywhere; an eager one sends whole requests at any time. A patient
client's next read never overtakes the callback of a write, since libuv runs the
callbacks of finished writes before it polls for input; for an eager one it does when
the write would have blocked, for instance because RTP packets fill the same socket.

`Answer` is what a request leaves in the response buffer. A request whose handler writes a response (`answers`) leaves its own; one for the whole server, one that cannot be parsed, a
PAUSE, a TEARDOWN, one of an unknown kind leaves what was there (`rtsp_server.c:1528-1530`, `1595-1606`, stubs `2951-2960`, `3271-3302`), and that is sent: the response before it a second time, or
nothing when it is the first. `response_buffer` is therefore the number of the request that the response there belongs to, and 0 when empty.

* `AnsweredInOrder`, with the count of contexts and the closing of the socket as conjuncts: one response per request, in order, not before the request is complete, and `Due` says whose it is. `NoneForgotten` and `AllAnswered` (liveness)
  are about requests whose handlers write a response: a client whose first request has a handler that writes nothing waits for ever.
* `NoneForgotten` is stated for requests of one length and without bodies, and holds for them. With bodies it does not, even when all
  requests are equal: a body stays in the buffer, is taken for the beginning of the next request and shifts all that follows. For two lengths it does not: with
  requests short, long, short, the second arrives while the first response is being
  written (and the first is handled again), the third likewise; when the repeated responses complete,
  the buffer has been reset, the rest is negative, and as many stale bytes
  as an earlier read had brought are looked at; the bytes of the third request are
  then behind the wrong place and it is never answered. The source promises nothing that this contradicts, so
  it is a hazard and not a finding.
* A response goes out once for each time its request is handled. With no bodies and a patient client that is
  once; a request's body is never taken out of the buffer and is taken for the
  beginning of the next request (`AnsweredInOrder` speaks of the requests before it).
* `LeftOver` is what the uninitialised `content_length` may hold when a completed write
  begins. The run takes 0, the only value with which the server works at all; with 1 `AnsweredInOrder` fails at once.
* `PeerGone` hands a negative count to `memcpy`: undefined, and taken either to end the process or to
  go on. A failed read of 0 bytes (libuv's EAGAIN) does nothing and is left out.
* Instance: a buffer of 16 bytes, requests of five to seven bytes, one with a body, one that is too long, one that its handler leaves unanswered;
  two or three requests from a patient client, three or four from an eager one; 17,826 states. So the buffer can hold three requests
  and be overrun by a fourth.

### TcpStreaming

`tcp_streaming_database` is the server's table, per socket a list with the last record first;
`tcp_socket_num`, `stream_token` and `tcp_stream_id_count` are the fields of a session's stream states. `SetupUdp` and
`SetupTcp` are `handle_cmd_setup()` once stream and track are found, `SessionEnds` is `reclaim_stream_states()`, by the timer (`LivenessTimeout`) or by the application,
`Connect` and `CloseSockets` the life of a connection. `channel` and `setups` are history. `alive` holds the sessions whose
clients are heard of: a SETUP puts its session there, `NoteLiveness` is a PLAY, a keep-alive or a report that does, `FallsSilent` is a client that sends nothing any more, and only a silent session is ended by its timer.

A socket is the address of its handle, and so may come back as that of a later connection. `CloseSockets` leaves the
records where they are: `stop_tcp_streaming_on_socket()` is reached only through the delete function of an RTSP connection, and the constructor
stores that function in the wrong place (`rtsp_server.c:759`), so the parent class closes the socket. The records of an
address may therefore be of connections of different times. `RecordsAgree` says that they are nevertheless those of the
tracks that the sessions believe to be streamed over it, each once; `RecordsEnd` that all go when in the end every client has fallen silent. A session that is kept alive keeps its records, also those of a closed connection.

* `ChannelsDistinct`: the channels that the server takes for two tracks differ, until the count comes round.
* A SETUP that fails changes nothing here. `get_stream_parameters()` always returns a token (it tries ports until one is free).
* `UDP` after `TCP` leaves the socket in the stream state, as the code does.
* Instance: two sessions of two tracks, two addresses, four SETUPs in all (`MaxSetups`), so that one session sets a track up again
  while the other's records stand before and behind its own; four channel ids instead of 256, so that the count comes round.

### PacketBuffer, RtpSink, RtpSession

State and code: `sink` holds the fields of the sink's classes, `sink.buf` its packet buffer (`out_packet_buffer_t` with its offsets and
its cells); `rtcp` the fields of the RTCP instance with a buffer of its own. The unit is the 32-bit word. A cell is named by
what was written there, so an insertion at a wrong place shows. `awaiting` is the request that the source has not answered;
`announced`, `packets` and `reports` are history.

`StartPlaying` builds the header and asks for a frame; `Deliver` is `after_getting_frame1()` to the end of the callback: the frame, the
marker bit, the timestamp into its hole, the packet out, the timer. `StopPlaying` withdraws the request and clears the buffer. `Announce` is the end of `start_stream()`: the
number and the timestamp of the next packet are asked for. `ReportNow` and `OnExpire` are the two ways to a report; `SendNext` the timer behind a packet, whose function is a stub.

* `PacketsWellFormed`: every packet is a whole header with the next number and one whole frame, whatever was stopped or reported before; the buffers keep their bounds.
* `PresetIsUsed`: the packet after a PLAY carries what `start_stream()` asked for, though reports use the same base: a report is not made while a timestamp is preset.
* `ReportsTruthful`: a report and the last packet before it lie on one clock, and the report counts what was sent and is as long as it says.
* The random start of number and base is fixed; timestamps are modulo `TimestampMod`, numbers modulo `SeqMod` = 4, so that numbers come round within a run. The interval of `rtcp_interval()` depends on an average
  that a function without a return value yields; it is any number of seconds up to `MaxInterval`. `DelayUnit` stands for the factor 1000 by which the delay of the timer is too long.
* Instance: packets of 4 to 7 words in a buffer of 13, reports of at most 12, clock 5 to 6, two starts, two reports; 186,141 states. A frame is the longest or the shortest that a packet holds.
  The modulus 2^16 is less than the clock rate of 90,000, so that the base comes round between two seconds.

### OnDemand, Groupsock, Media, RtspHeaders

State and code: `client_sessions` with their stream states and tokens, `streams` (the stream states of the subsessions, which the code only
makes), `destinations` (the table of a subsession, by session id), `last_stream_token`, `sdp_lines` (made once), `net` (who has bound which port, and whether shared), `media` (the
table of media by name, with the state of the file source in each entry). `told` and `played` are history.

`Setup` is `handle_cmd_setup()` with `get_stream_parameters()`: transport header, source, sockets, sink, destination; `Play` is `start_stream()` and
`start_playing()` for the tracks a URL names; `Describe` makes the objects of `sdp_lines()` and closes them. `FileReadable` is the idle handle of a file source,
`Ask` a reader that wants more, `OtherBinds` and `OtherReleases` are other programs, `FileChanges` makes the file come and go.

* `PortsExclusive`, `ToldPortsBound`: a port of a stream is nobody else's, and what SETUP told stays true as long as the session does.
* `MediaAccounted`: the table of media holds the permanent objects and those of the streams, whatever was described in between.
* `PlayedAsAsked`: only the streams of sessions that asked play, though `last_stream_token` belongs to whoever came last.
* `AwaitedIsAnswered` (liveness): a reader that waits for the file gets data or its end, however often the idle handle was taken down.
* The server ends where the code does: at a port it cannot have, at a PLAY without a file, at a count of references through a stub, and perhaps at a PLAY over TCP, whose
  destination is built from the address of a local variable (`survives`). After that nothing happens.
* Streams are only made, never deleted: `pause`, `delete_stream` and `reclaim` are stubs.
* Instance: two sessions, one track and the name of one that is not there, five URLs, five transports (a pair, the last port number, raw UDP, port 0, TCP), an odd port given, one other port, two streams; a file of two bytes
  read one at a time in blocks of two, so that a read loses what the library read ahead. The run for the finding takes two tracks.

### ServerMediaSession, PlayRange

State and code: `session` (the subsessions in the order of their tracks), `lines` (the range line each track keeps from its first DESCRIBE), `sdp` (the last description), `set_up`, `start_npt` (the field of
the stream state) and `told` (the length handed to a track).

A range is one of the forms the parser of `rtsp_common.c` tells apart, with its misreadings; times are whole seconds. `Play` is `handle_cmd_play()`: scale, range, clipping to the length, seeks, answer.

A seek only remembers (`Sought`): `seek_stream_source` and `set_stream_source_duration` of the subsession move no source (`on_demand_server_media_subsession.c:712-721`). Where a track is the server cannot tell. `get_current_npt()` reads
the presentation times of the sink through functions that return nothing (`rtp_sink.c:292-306`); a PLAY that resumes therefore yields any time (`CurrentNpts`) or ends the process (`Died`).

* `PlaysWhatItSays`: the answer to a PLAY that seeks names a part of the stream, the right way around for the scale, and the tracks that were sought are told to play that. Nothing is said of a PLAY that resumes.
* `SpeaksForAllTracks`: the speed answered suits every track; the length of each is described, once.
* Instance: up to two tracks of four kinds (of unknown length, of a length with two sets of speeds, sought by clock), speeds -1 and 4, 14 ranges, times read between -1 and 1; 21,470 states.

### MediaClasses, ServerClasses, Authentication, Description, RtspClients

A heap is a record: the blocks that are allocated (an object and a part of it), the objects in the table of media, the pointers, and the
faults: what was touched or freed when it was no longer there. A constructor and a destructor are operators from heap to heap, each calling that of the class it extends as
the code does, and `DeleteMedium` dispatches on the class whose `delete` the object has. Objects own objects, so in the code a `delete` comes back to `close` from inside. Who owns what is
known, and the model says it: an owner closes with `CloseBy(Delete, ...)`, where `Delete` is what the `delete` of the owned object may be (`DeleteFile`, `DeleteFragmenter`), and stops its source the same way
(`StopFile`, `StopFramer`). A subsession owns the next of its kind; `DeleteAllSubsessions` therefore goes down the chain to close and back up to free, as the calls in the code do. `Description` runs the calls of the library over it: a session with its subsessions, a
description with its source and sink, a stream with its RTCP instance, in the order the library keeps. `RtspClients` adds what arrives: connections that come and go, DESCRIBE, SETUP, timeouts, and the program
that offers, withdraws and deletes the session, sets up the database and its users.

* `ReleasedOnce`: nothing is released twice or touched after its release, except for the faults that do happen in the code, which the property permits by name (`Harmless`, and the session): the packet buffer of a sink that is destroyed, a stream that is deleted with clients on it, the
  digest that overruns its memory; and when all is done, what stays is what that list says.
* `AdmittedAsChallenged`: while there is a database, DESCRIBE and the first SETUP are let in only for a user in it, with the realm and nonce of the last refusal of this connection, and with the response that the server computed.
  A digest is any value, as it is in the program (`our_md5.c` sets up no context and transforms nothing), so this does not say that the client knows the password. The test of `rtsp_server.c:1884` is the wrong way round, and
  the property says so: only a header that the parser rejects is let in.
* The framer keeps copies of the bytes it saved (`Saved`), not of what the encoder wrote: `SavedUnit` puts three zeros before each byte that is saved by itself, which is every byte whose window of four ends in a 0 or a 1. A set is `Whole` if there is none but for its
  own end, which needs a length divisible by four.
* `TimingAsWritten`: the frame rate is that of the clock an encoder wrote into the parameter set, whatever else is in the set (lists of factors, cropping, a colour description, interlacing) and however it was
  escaped, up to the first set that is not whole; the rate is then read from the wrong place. The sets are written in `MCDescription` from the standard, and read by `SpsAnalysis` with the reader of `BitVector`.
* `ParameterSetsDescribed`: the line `a=fmtp` is there when both sets are known, and a reader of its base64 gets, byte for byte, the sets that the sink was given or the copies of the framer, with profile and level.
* Instance: one session of two subsessions, one stream made twice, four shapes of a sequence parameter set, three of them whole, and a picture parameter set that is not; two connections, two client sessions, two digests (each symmetric), one user, one realm in the server and another in headers,
  seven headers, three requests; 78,769 states.

## Fairness

The loop of libuv does not stop while handles are active, and a callback that is due is called. That is all
that is assumed:

* `MediaServer`: weak fairness of `Tick` and of each `LivenessTimeout`. Time passes, and a timer that is due fires
  before time moves on. Clients and the application need do nothing; `WithdrawnStreamsClose` has as its
  condition that clients fall silent.
* `VideoSink`: weak fairness of the parse (`ParseOn \/ DeliverUnit`: once called it runs to its end) and of `ReadAnswers` (a
  pending file read is called back). That the sink asks again is not assumed: the function that would (`multi_framed_rtp_sink.c:668`) is a stub, and `AllDelivered` promises an answer
  only to a reader who has asked. A stop is not required to happen; it is bounded by `MaxStops`.
* `RtspConnection`: weak fairness of `Read` (what a client has sent arrives) and of
  `WriteDone` (a write is called back). The client is not required to leave.
* `TcpStreaming`: weak fairness of `LivenessTimeout` of each session: the timer of a session that stays silent runs out (in ticks: `SilentSessionsEnd` of `MediaServer`).
  Clients need not fall silent and the application need not close a session; `RecordsEnd` has as its condition that in the end no client is heard of.
* `OnDemand`: weak fairness of `FileReadable` for each stream: the loop runs every idle handle in each of its rounds.

Where a configuration turns deadlock checking off, the system may really come to rest: a media server with no
timers and no streams left, a file that has been read, a connection whose client has
what it asked for, a server that has ended, a bound that is reached.

## The runs

| run | kind | shows |
|---|---|---|
| `mediaserver` | pass | counts, life and directory under requests, timeouts, closes and replacements in any order; silent sessions and withdrawn streams go away |
| `stream_parser` | pass | two banks behave as one stream |
| `video_sink` | pass | units in order, once, marked rightly, to the end of the file; all bytes of a unit in order, the start marked once; each end of a picture marked once |
| `video_sink_end` | violation | the last fragment of a unit has no end mark |
| `hash_table` | pass | chains, rebuilds and iteration are an associative array, but for the answer to adding a value again |
| `rtsp_connection` | pass | one response for each request, in order, and whose it is; none is forgotten that its handler answers; contexts and sockets |
| `tcp_streaming` | pass | the records of who streams over a socket agree with the sessions' states, and go once clients are silent; channels do not collide |
| `rtp_session` | pass | packets are whole and numbered; preset timestamps are used; reports and packets lie on one clock |
| `on_demand` | pass | ports are exclusive; objects are accounted for; streams play for their own sessions; a waiting reader is answered |
| `play_range` | pass | what a PLAY that seeks answers is what the tracks were told; a session speaks for its tracks |
| `description` | pass | objects are released once, but for the late uses that are permitted by name; parameter sets are read and described as saved; only the last challenge of a connection lets in |
| `on_demand_ports` | violation | a port in use ends the server |

Every property of a passing run has a mutant in `PROJECT.json`: a definition changed as a slip in the code would
change it, for which TLC finds the property violated. The definitions commented "Mutant" in the modules are these changes.

## Findings

1. `on_demand_server_media_subsession.c:412`: ports in use are to be skipped, but the constructor of a groupsock goes on with a socket it did not get
   (`groupsock_helper.c:671-699` asks libuv for the descriptor of a null handle). Already the second SETUP of all meets such a
   port, since the first stream holds the first pair and the object that forbids sharing is never deleted. (`on_demand_ports`)
2. `h264or5_video_rtp_sink.c:278`: the comments promise the E bit on the last fragment of a unit (260-262) and the marker bit on the last packet of a picture (604-606). The rest of a unit is reckoned by a sum where the
   difference is meant, so no fragment is ever taken for the last: none has the E bit, none the marker bit, and the last carries bytes from behind the unit. (`video_sink_end`; proved for all sizes: `NoFragmentCompletes`)

## Known divergences

Read while modelling, and part of the models where they touch what these show. Where a line of the source promises the
opposite, it is quoted; the properties that touch these places say what the code does there, and no run is spent on refuting the rest.

Tables
* `basic_hash_table.c:124-139`: adding the value that a key has already returns that value, where `hash_table.h:57` promises 0.

Streams and sessions
* `generic_media_server.c:772`: the end of a client session tests the address of the deletion flag instead of its value. The
  last client of a stream to go takes the stream (or its successor of the same name) off the table. `Release` does the same.
* `generic_media_server.c:301`: `delete_server_media_session()` uses the stream after its clients were closed, which frees it.
* `rtsp_server.c:173`: closing the server calls a null pointer; so does giving up the tables of media with the last
  one (`media.c:442-476`), since nobody sets their `delete`.
* The end of a connection closes its socket and nothing else: the object, its table entry and its authenticator stay. A timeout leaves the session's timer (`generic_media_server.c:898`), a SETUP its iterator (`rtsp_server.c:2578`), a
  description the server's address (`server_media_session.c:259`), a listening socket that fails late its descriptor (`groupsock_helper.c:448-459`).
* TEARDOWN, `pause_stream`, `delete_stream` and `reclaim` are stubs: started streams are never closed.

Requests
* `rtsp_server.c:1364`: a connection that a read marks inactive is not terminated, although 1357-1358 say "Terminate this connection" and 1623-1625 that it is deleted when the outermost call is left: the
  context of that very read stays counted, so the count never reaches 0.
* Requests whose handlers write nothing (`rtsp_server.c:1528-1530`, `1595-1606`, `2951-2960`, `3271-3302`) are answered by the response before them, or by nothing.
* `rtsp_server.c:1835`: a header `Authorization` that is parsed without a fault is refused, and one with something behind its last field is looked at: the test of the
  result is the wrong way round. `our_md5.c` writes 33 bytes into 16. SETUP in a session is not authenticated at all.
* `rtsp_server.c:1463`: the zero byte behind a request is compared instead of assigned.
* `rtsp_server.c:2718`: a SETUP over UDP keeps the socket of an earlier one over TCP.
* `client_port=65535` makes the RTCP port 0. A SETUP with an unknown track still ties the session to the stream.
* `rtsp_server.c:3189-3220`: `RTP-Info` always says `seq=0;rtptime=0`.

PLAY
* A start in hours hides an end in seconds; `now-h:m:s` reads the hours only; `-h:m:s` is misread as a start; `smtpe` seeks to 0.
* A seek moves no source, and the current play time is read through stubs (`rtp_sink.c:292-306`): a PLAY that resumes reads from nowhere.
* `now-e` with e before the current time gives the length 0, which means "to the end", while the answer names e.
* A track keeps the range line of its first DESCRIBE. The defaults for seeking and scale do nothing.

The way of the bytes
* `h264or5_video_stream_framer.c:824`: "Save the first byte" (823) saves four, so some units carry three zero bytes before some bytes that are
  not in the file, and do not form "a complete NAL unit" (833). The copies of parameter sets (896, 923) have them too: the clock is read from the wrong place and the description is not what the encoder wrote, unless the set is `Whole`.
  `:986`: the time of the next picture is computed into a copy, so time does not advance.
* `multi_framed_rtp_sink.c:668`: the continuation after a packet is a stub, so a sink sends one packet for each start.
* `byte_stream_file_source.c:323`: the file is read through a stream opened anew for each read; what was read ahead is lost. `:76,185`: the idle
  handle is freed without being closed.
* `multi_framed_rtp_sink.c:81`: the packet buffer is freed before the stop that clears it (`:290`). A framer's copies of parameter sets and a
  file subsession's name are never freed.
* The closure handlers of sink and instance are stubs: the end of a source goes unnoticed. `rtp_sink.c:364` takes the microseconds from the seconds. `rtcp.c:1070` waits 1000 times too long, `rtcp.c:1179` writes a text
  behind its structure.
* A file that is not there is found out at PLAY, which then crashes.
* `h264_video_file_server_media_subsession.c:140`: the sink of a description is remembered longer than it lives, and never asked.

## The proofs

Each module of proofs assumes what the constants of its module are said to be (the named `ASSUME`s) and nothing else.

**MediaServer** (`StreamsAssumption`, `SessionsAssumption`: every stream has a
name, NULL is no stream, streams and session ids are finite sets, ids are not 0, the reclamation time is
a number). The inductive invariant `IInv` is `TypeOK` with the three safety invariants and two more:
`EndedSessionsPointNowhere`, since a count is over sessions in the table while `ReachableLive` speaks of all of them,
and `UnbornUnmarked`, since an object that is created must not be marked already. They need each other: that a
released stream is reached by nobody follows from an exact count; that the count does not go below zero follows from
the session that is a viewer; that the name which the last viewer takes off the
table is that of a stream with the same name follows from `ReachableLive`. One lemma per action proves that it keeps
`IInv`; the cardinality of the viewers before and after a step is a lemma of its own for one viewer more, one less and all of them.
`TypeCorrect`, `ReferencesCounted`, `NothingDangles` and `MarksAreReferenced` follow. `DirectoryImplemented` proves
`Spec => ImplementsDirectory`: `AddServerMediaSession` is a `Publish`, both SETUPs are a `Watch` (or a stutter), and every removal, end of
a session and the clean-up is a `Retire`, with the invariant giving that what is reachable is live.

**StreamParser** (`SizesAssumption`: sizes are numbers, banks are not empty). `ParserIInv` is `ParserTypeOK`, `IndexOrder`, `BankHoldsTail` and `ReadLandsBehind`. `SwapKeepsBytes` says that the swap keeps the
valid bytes from the saved place on; `AbortNeedsRoom` that giving up implies a look-ahead larger than a bank, which gives
`AlwaysRoom` (`NeverAborts`). `StreamImplemented` proves `ParserSpec => ImplementsByteStream`:
a byte read from the current bank is the byte of the stream at that place by `BankHoldsTail`, a bank
swap is a return to the saved place with nothing new, a flush is `Flush`.

**H264Parser** (`BoundsAssumption`: the file is a sequence of bytes, sizes are numbers). The first part is about files, not about steps: a start code in four bytes (`LongCodeBytes`,
`StartCodeBytes`), codes do not overlap (`CodesApart`), the step of `SaveBytes` reads over none (`StepOver`), the code found from right behind another is one of the file's and
not the tail of a long one (`NextCodeIsCode`), and the unit between the two is one of `Spans`, the next behind those that begin before it (`UnitEnds`). `IInv` then says where the parser is: right behind a code or
further on with no code in between (`PlacesInv`), with as many units handed on as begin before its place (`OrderInv`, a cardinality), the buffer empty as long as nothing of the
unit was read (`BufferInv`). `FirstByteInv` is what makes the interruption at the end of a unit harmless. The flag of the first byte is already reset there, so the parse that begins
again may take the zero byte of the start code for the unit's first; but that happens only for types that leave the end of the picture to the next unit, and type 0
leaves it to the next unit as well and is no parameter set (`TypeTold`). `LabelsInv` carries the marks and parameter sets from unit to unit, with the mark up or down as the reader left it; and the words saved so far cover the unit from its first byte to the place of the parse. `HandedOnInOrder` and `HandedOnLabelled`
follow. `HandedOnAtTheEnd` adds what is known when no more bytes come: the parse waits behind less than a code, or behind a unit that cannot be decided (`EndInv`), so nothing decidable lies ahead; and `StallsAsStated` says
that only an empty unit brings the parser to rest, for buffers with room for a word. They are the two safety parts of `AllDelivered`; that the end is reached stays with TLC.

**Fragmenter** (`SizesAssumption`: the buffer is not empty and a packet takes more than the two header bytes).
`FragmentsIInv` adds to the safety invariants `RestIntact`: while part of a unit is to be sent, the offset is where the next fragment's bytes belong
(`ByteAt(Len(fragments) + 1, 3)`), every byte from there on is intact, and so is cell 0, from which the header of each fragment is made. The
offset is at least the size of a packet, so the two cells that a fragment overwrites lie behind cell 0 and before the bytes still to be sent;
that is all of `NextFragmentIInv`. `FragmentsCarryTheUnit` and `StartIsMarkedOnce` follow. That the size of the rest is reckoned by a sum where the
difference is meant makes the code send too much, never too little; and that the sum is always more than a packet, because the offset alone is at least that, is `NoFragmentCompletes`.

**VideoSink** (the assumptions of both, and `BuffersAssumption`: the framer writes into the fragmenter's buffer). Every step of the composition is a step or a stutter of the framer and of the fragmenter (`FramerSteps`, `FragmenterSteps`); for
the latter the invariant says that a unit handed on is not empty and fits the buffer, and that a truncated one left less than a word of room. `SinkRunsBoth` follows, and with it `FromFileToPackets`: what was proved of the two holds of their composition. The marker bits (`EachEndMarkedOnce`) are model-checked.

**HashTable** (`SizesAssumption`). The functions of the code that walk a chain or the buckets (a rebuild, the order of an iteration) are recursive functions and
folds, about which the provers have no induction. So each is characterised by one step (`ChainMovedSteps`, `RebuiltSteps`, `FoldOfOneMore`), which
is proved by exhibiting the function, and what it computes by a smallest counterexample, counting up (`CountingUp`): `RebuiltLinks` says that a rebuild
links what was linked, each once, at the index its key has by the new mask. `IInv` is `TableOK` (every entry in the chain of its index, once; the counts), the types of the iterator,
`IteratorNotDangling` and that what the user holds has been passed. `LinkedOnce` and `NotDangling` follow. `TableImplementsArray` proves `Spec => ImplementsArray`: the keys still to be visited are those in the chain of the
next entry from it on and in the later buckets (`PendingKnown`), and each step takes one away, or none, as the array does; `AddOfSameValue` is a step of its own. It holds for any hash, also one under which all keys collide.

**RtpSession** (`SinkAssumption`, `RtcpAssumption`: sizes are numbers, a packet holds more than its header and at least the preferred size, the moduli are not 0; `ReportFits`: the buffer of the RTCP instance holds a sender report with the
longest name, as its 1438 bytes do). None of the
properties is inductive. That a packet is whole needs the header that waits in the buffer while the source is asked (`HeaderBuilt`), and that
the buffer is empty when the sink has no source (`SinkInv`); that the preset timestamp is used needs that an announcement is
the sink's number and base as long as the preset flag is set (`AnnouncedInv`): every conversion drops the flag, and a report makes none while it is set. That numbers follow one another is arithmetic modulo
`SeqMod` (`PacketsInv`). The lemmas about the packet buffer (what `Enqueue`, `InsertWord`, `SkipWords` and the resets leave) are stated once and cited. `EveryPacketWellFormed` and
`EveryPresetUsed` follow, for buffers, frames, clocks and numbers of any size. `EveryReportTruthful` needs the sums over the packets sent so far, which are folds: `TotalOfOneMore` says what one more packet
adds, and `ReportsInv` that the counters of the sink are these sums. That the packet and the report lie on one clock is `OneClock`, arithmetic modulo
`TimestampMod`: the base is preset by an announcement and fixed by the packet that uses it, and no report is made in between.

**TcpStreaming** (`ConstantsAssumption`). `ChannelsDistinct` needs to know where the count stands: channels are taken from below, each SETUP takes at most two, and as long as
twice the SETUPs do not reach the number of channels the count lies beyond all that were taken (`Beyond`); at the SETUP that reaches it the count may come round, but the channels are still apart (`Apart`).
`ChannelsStayDistinct` holds for any number of sessions, tracks and channels. `RecordsAlwaysAgree` rests on `RecordsInv`: every list names a track at most once, and names exactly the tracks whose state has that socket. Removing the first record that matches removes
the only one (`FirstRemoved`), noting at the front adds one (`InFront`), and the end of a session, a loop over its tracks, unlists each of them (`ReclaimedLists`, by counting up as in `HashTable`). A SETUP
first unlists the track from the socket it had (`RestartedUnlists`); were that left out, a track set up twice would stand in two lists.

**OnDemand** (`OnDemandAssumption`: there is a track, ports and bounds are numbers; `FileAssumption`). `IInv` has one part for each table. `NetOK`: whatever the server has bound forbids sharing, and such a port has no other owner; a socket that forbids sharing
is bound only to a port that nobody has (`MayBind`), and the socket of a description is gone when the description is. `TokensInv`: a token names a stream that this very session set up for this very track, and the session has
a destination there; `ToldInv`: that stream holds the ports that were told. `Accounted`: every object in the table is permanent or one of a stream's, the other way round as well, and a stream that does not play has no
fragmenter yet, so none is lost when it starts. `Described` and `Started` are loops over the tracks, recursive functions again: each is characterised by one step, what it keeps is shown by counting up, and a PLAY that ends the server half way
through keeps nothing. `PortsStayExclusive`, `ToldPortsStayBound`, `EveryMediumAccounted` and `OnlyAskedPlays` follow, for any number of sessions, tracks, streams and ports, for any name and transport, with or without `ReuseFirstSource`.

**RtspConnection** (`ClientsAssumption`, `SizesAssumption`: a client has a sequence of requests with texts and bodies of any length, the buffer is not empty). What a client has sent up to a request is a recursive
function, known by its one step and by counting up (`SentInSteps`, `RequestsEnd`, `EndsGrow`, `SentHolds`). What a look at the buffer finds is the last line end of the text in it or nothing
(`LineEndsOf`, `TextParsed`, `LookFinds`, `LookWaits`). `Kept` (types, the count of contexts, one write at a time for who waits) needs to know nothing of `content_length`: `ContextsStayCounted` holds whatever an unset one contains.
`Orderly` adds, for a patient client whose requests have no bodies before the current one, that what is answered is what was read, by the response that is due (`Answered`), that between two answers the buffer holds the beginning of the
request whose turn it is, looked at up to its last line end (`Awaiting`), and that while a response is written it holds that request and nothing behind it (`Answering`). `AnsweredOneByOne` follows. `Eager` is for equal requests that may
arrive at any time: everything in the buffer comes in whole requests, also the stale bytes that a repeated response looks at (`Chunks`); the first that was not taken out has its response under way
(`FirstReplied`), and none that was read is neither answered nor in the buffer (`Covered`). `NoneIsForgotten` follows. These two have the hypothesis that an unset `content_length` is 0, as in the run: the only
value with which the server works. The proof is what showed that `NoneForgotten` must exclude bodies.

**PlayRange** (`RangeAssumption`, `SubsessionsAssumption`: times in a request are numbers, speeds are whole, finite in number and include 1). `ScaleInv` says that the speed that a session answers suits its tracks; it rests on `TestScaleFactorOK`, whose choice of the nearest speed exists because a
finite set of numbers has a nearest one (by the well-founded order of the naturals). `LinesInv` says that the lines kept are those of the session as it is, since tracks are added before anybody asks.
That an answer is a part of the stream is `SaneRangeOK`, about every range, length and scale. `EveryAnswerTrue` and `SessionSpeaksForTracks` follow.

**RtspClients** (`DescriptionAssumption`, `AuthenticationAssumption`: tracks and bounds are numbers, a parameter set is a sequence of bytes with at least its header, a client may send no header). Neither `ReleasedOnce` nor `AdmittedAsChallenged` is
inductive: that a destructor finds what it frees depends on everything that was made, linked and freed before. `IInv` therefore describes the whole heap. Either a server came to be, and then (`Up`) there is, part by part, what must be there, what may be, and
what must not: the server and the table of media (`ServerUp`); the objects of a description, which do not outlive it (`DummiesGone`); the stream, whose source, sink and RTCP instance are there exactly when the program holds them, its
fragmenter once the sink was started and then between sink and framer (`StreamPart`, `SinkReady`, `SinkBusy`); the client sessions, each with a timer that is its own (`ClientPart`); the session with its chain of subsessions, which is
there as long as it is offered, held or used, and whose reference count is the number of client sessions that point to it (`SessionPart`); the connections, of which none has a nonce without a realm (`ConnectionPart`); the database with the passwords
(`DatabasePart`); and nothing else (`NoOther`). Or none came to be (`Down`), and at most its socket was made. Or a stream was deleted with clients on it, which is the step that ends the run (`Runs`), and after it no client session points to it.
`Told` says that what a connection was told last is what it remembers, which is all that `AdmittedAsChallenged` needs beyond the step itself; the response is compared in that step.

The argument goes up the code class by class. What one operation changes is a lemma for each (`SetGives`, `MakeGives`, `FreeGives` and so on), and that it changes nothing else is `Clean(h, g, O)`: outside the objects O the heaps are the same, and so are their
faults. A destructor is a chain of such steps, so each has a lemma that says what it takes away, and under which conditions without a fault; the conditions are what `IInv` keeps. `DeleteAllSubsessions`, `CloseAllClientSessions`, `NewSubsessions` and
`GenerateSdpDescription` run along a chain or a set; they are recursive functions, each characterised by its step (`EndedSteps`, `ClosedSteps` and so on), and what they do to the first i objects is shown by counting up. That the chain which
`Subsessions` walks is the subsessions in the order of their tracks is `SubsessionsGives`. What a step does not touch stays described as it was (`ServerStays`, `SessionStays` and the other `...Stays`).
`NothingReleasedTwice` and `OnlyTheChallengedAdmitted` follow, for any number of tracks, users, realms, client sessions and connections; `ClientsAsDescribed` states the description itself.

What the stream says of its parameter sets rests on the same description. `SetsKept` is inductive with it: what was given is a set of an encoder and what was seen the copy of one, and a sink that asked for a unit, or whose source has seen a set, has its fragmenter between
them (`SinkBusy`), so that `aux_sdp_line` finds the source. `RateKept` is `TimingAsWritten` for the time when nobody looks as well. The line `a=fmtp` is read back because base64 is (`Base64Proofs`): for every sequence of bytes `DecodeGives`, from groups of three bytes and four
letters (`EncodeGroupGives`, `JoinedGives`), the number of letters that stand for padding, and the zeros that are taken off (`TrimGives`); the comma is no letter, so `ParseGives` finds two records. `ReadersGetTheSets` and `RateIsTheFirstClocks` each have
a hypothesis about the bits of the sets themselves: `ProfilesRead`, that without their escapes a set and its copy have the profile behind the header, and `ClocksRead`, that the analysis of a set that was saved whole finds the clock that was written. What these readers make of a set
is a matter of its bits one by one; the sets of `MCDescription` satisfy both hypotheses.

**Only model-checked.** Liveness and everything about `ENABLED`, which the prover does not
handle: `AllDelivered` as a whole, `AllAnswered`, `RecordsEnd`, `AwaitedIsAnswered`, `SilentSessionsEnd` and `WithdrawnStreamsClose`. What the chains of readers of `SpsAnalysis`
find in a set is checked on the sets of `MCDescription` only, by the same two properties that are proved from it (`TimingAsWritten` from `ClocksRead`, `ParameterSetsDescribed` from `ProfilesRead`): it goes over every bit of a set, which would need induction over data.

## Not modelled, and why

* H.265, start codes in the output and inserted delimiters in the framer: the
  file subsession never asks for them. Hypothetical reference decoder parameters: their parser is a stub.
* `get_bits` and `skip_bits` of the stream parser, `put_bits` and `copy_bits` of the bit vector: nothing calls them.
* The receiving side (`rtp_source.c`, `multi_framed_rtp_source.c`, most of `h264_video_rtp_source.c`, incoming RTCP, interleaved data
  read over TCP): stubs that nothing in the server makes.
* Overflowing packets, statistics of receivers, BYE, reaping of members: stubs.
* Texts: SDP, headers, dates and URLs beyond what is told apart above.
* HTTP tunnelling, TEARDOWN, PAUSE, SRTP, MIKEY: stubs in this port.
* Calls of the operating system: options of sockets, multicast, names and addresses (`net_address.c`, `our_ip_address()`), clock, random numbers; the RTCP interval (floating point).
* Closing the server and what follows the loop in `main.c`: it ends in a call of a null pointer, and the loop does not end.
* The parse that is entered again from a source that answers inside the request (`stream_parser.c:512`): the file source never does.

## What could follow

* The composition of `VideoSink` and `RtpSession`, with the sending of further packets once its continuation has a body.
* Closing streams (`delete_stream`, `reclaim`) in `OnDemand` and `Description` when these stubs are filled.
