------------------------------- MODULE RtpSink -------------------------------
(***************************************************************************)
(* The RTP sink of an H.264 stream, the classes MediaSink, RTPSink,        *)
(* MultiFramedRTPSink and H264or5VideoRTPSink of livemedia/ taken together,*)
(* with what it uses of its source (the fragmenter of module Fragmenter    *)
(* behind the framer of module H264Parser) and of the libuv loop.          *)
(*                                                                         *)
(* start_playing() builds the header of a packet and asks for a frame; the *)
(* frame is read into the packet buffer behind the header, completes it,   *)
(* and the packet goes out.  Then a timer is started for the next packet.  *)
(*                                                                         *)
(* Sizes are in 32-bit words; the RTP header has three.  Time is counted   *)
(* in seconds, which is all that convert_to_rtp_timestamp() makes of it:   *)
(* the term for the microseconds uses tv_sec again (rtp_sink.c:364).       *)
(***************************************************************************)
EXTENDS PacketBuffer

CONSTANTS
  PreferredSize, MaxSize, BufferSize, \* the sizes given to the packet buffer
  Frequency,    \* timestamp_frequency
  TimestampMod, \* a timestamp has 2^32 values
  SeqMod,       \* a sequence number has 2^16 values
  StartTime,    \* the second in which the server starts
  MaxTime,      \* bound: the last second
  MaxStarts     \* bound: how often the sink is started

RtpHeaderSize == 3 \* rtp_header_size

ASSUME SinkAssumption ==
  /\ {PreferredSize, MaxSize, BufferSize, Frequency, StartTime, MaxTime, MaxStarts} \subseteq Nat
  /\ 0 < PreferredSize /\ PreferredSize <= MaxSize /\ RtpHeaderSize < MaxSize
  /\ 0 < BufferSize
  /\ {TimestampMod, SeqMod} \subseteq Nat \ {0}

VARIABLES
  sink,     \* the sink object
  awaiting, \* the source was asked for a frame and has not answered
  source_closed, \* the source came to its end
  picture_end_marker, \* of the framer
  now,
  starts,   \* history: how often the sink was started
  announced, \* history: what start_stream() last asked for, until it is used
  packets   \* history: the RTP packets that went out

source_vars == <<awaiting, source_closed, picture_end_marker>>
sink_vars == <<sink, source_vars, now, starts, announced, packets>>

(* Header words: sequence number and marker bit, time stamp, source id. *)
Header(seq, marker) == <<"header", seq, marker>>
Timestamp(t) == <<"timestamp", t, 0>>
Ssrc == <<"ssrc", 0, 0>>
FrameWord(i, n) == <<"frame", i, n>>

SinkInit ==
  /\ sink \in [seq_no : {SeqMod - 1}, timestamp_base : {TimestampMod - 1},
               buf : {NewBuffer(PreferredSize, MaxSize, BufferSize)},
               source : {"none"}, our_fragmenter : {FALSE}, input : {FALSE}, to : {0},
               is_first_packet : {TRUE}, timestamp_position : {0},
               num_frames_used_so_far : {0}, overflowed : {FALSE}, timer : {FALSE},
               packet_count : {0}, octet_count : {0}, preset : {FALSE}]
  /\ awaiting = FALSE /\ source_closed = FALSE
  /\ picture_end_marker = TRUE \* as if a picture had just ended
  /\ now = StartTime /\ starts = 0
  /\ announced = {} /\ packets = << >>

------------------------------------------------------------------------------
(* convert_to_rtp_timestamp(): the value, and the base that is left behind.  *)
Rounded(ticks) == (2 * ticks + 1000000) \div 2000000
Ticks(t) == Frequency * t + Rounded(Frequency * t)
BaseFor(s, t) ==
  IF s.preset THEN (s.timestamp_base - Ticks(t)) % TimestampMod ELSE s.timestamp_base
RtpTimestamp(s, t) == (BaseFor(s, t) + Ticks(t)) % TimestampMod

(* Mutant: the base is left as it was when the preset time stamp is used. *)
ConvertedUnbased(s, t) == [s EXCEPT !.preset = FALSE]

Converted(s, t) == [s EXCEPT !.timestamp_base = BaseFor(s, t), !.preset = FALSE]

(* preset_next_time_stamp().  A groupsock never has two destinations, for    *)
(* add_destination() has no body.                                            *)
Preset(s, t) ==
  [s EXCEPT !.timestamp_base = RtpTimestamp(s, t), !.preset = TRUE]

(* build_and_send_packet() up to the frame: the header with a hole for the   *)
(* time stamp.  The special header of H.264 is empty.                        *)
BuildHeader(s) ==
  LET hdr == Enqueue(s.buf, <<Header(s.seq_no, 0)>>)
  IN  [s EXCEPT !.timer = FALSE, !.timestamp_position = hdr.cur_offset,
                !.buf = Enqueue(SkipWords(hdr, 1), <<Ssrc>>),
                !.num_frames_used_so_far = 0]

(* pack_frame(): the source is to write behind the header.                   *)
PackFrame(s) == [s EXCEPT !.to = Cur(s.buf)]

(* start_playing() on a sink that is not being played.  The first start      *)
(* creates the fragmenter, a later one gives it its input again.             *)
StartPlaying ==
  /\ starts < MaxStarts
  /\ sink.source = "none"
  /\ sink' = PackFrame(BuildHeader([sink EXCEPT
               !.our_fragmenter = TRUE, !.input = TRUE, !.source = "fragmenter",
               !.is_first_packet = TRUE]))
  /\ starts' = starts + 1
  /\ awaiting' = TRUE /\ source_closed' = FALSE
  /\ UNCHANGED <<picture_end_marker, now, announced, packets>>

(* Mutant: what was enqueued for the packet is left in the buffer. *)
StoppedKeeping(s) ==
  [s EXCEPT !.buf = ResetOverflowData(ResetPacketStart(s.buf)),
            !.timer = FALSE, !.source = "none"]

(* The sink after stop_playing(): the packet under construction is gone.     *)
Stopped(s) ==
  [s EXCEPT !.buf = ResetOverflowData(ResetOffset(ResetPacketStart(s.buf))),
            !.timer = FALSE, !.source = "none"]

(* stop_playing(): the fragmenter passes it on to the framer, which starts   *)
(* afresh (module H264Parser).  The request for a frame is withdrawn.        *)
StopPlaying ==
  /\ sink.source # "none"
  /\ sink' = Stopped(sink)
  /\ awaiting' = FALSE /\ picture_end_marker' = TRUE
  /\ UNCHANGED <<source_closed, now, starts, announced, packets>>

------------------------------------------------------------------------------
(* do_special_frame_handling(): the marker bit, if the frame completes a unit *)
(* that ends a picture, and the time stamp in its hole.                      *)
SpecialHandling(s, t, completed, marker) ==
  LET mark   == completed /\ s.input /\ marker
      word   == ExtractWord(s.buf, 0)
      marked == IF mark THEN InsertWord(s.buf, Header(word[2], 1), 0) ELSE s.buf
  IN  [sink   |-> [Converted(s, t) EXCEPT
                     !.buf = InsertWord(marked, Timestamp(RtpTimestamp(s, t)), s.timestamp_position)],
       marker |-> marker /\ ~mark]

(* send_packet_if_necessary(): the counts, the number and the buffer for the *)
(* next packet; and the timer, for the source does not say that it has ended. *)
SentPacket(s) ==
  [s EXCEPT !.packet_count = @ + 1,
            !.octet_count = @ + s.buf.cur_offset - RtpHeaderSize,
            !.seq_no = (@ + 1) % SeqMod,
            !.buf = ResetOffset(ResetPacketStart(s.buf)),
            !.num_frames_used_so_far = 0, !.timer = TRUE]

(* after_getting_frame1() for n words with presentation time t.  The packet  *)
(* is always sent with this frame: no other one may follow it (H.264's       *)
(* frame_can_appear_after_packet_start()).  A frame that does not fit would  *)
(* be asked of three functions that have no body.                            *)
AfterGettingFrame(n, t, completed, ends) ==
  LET frame == Written(sink.buf, sink.to, [i \in 1 .. n |-> FrameWord(i, n)])
      used  == [sink EXCEPT !.buf = Increment(frame, n),
                            !.num_frames_used_so_far = @ + 1]
      done  == SpecialHandling(used, t, completed, picture_end_marker \/ ends)
  IN  IF WouldOverflow(frame, n)
        THEN /\ sink' = [sink EXCEPT !.overflowed = TRUE, !.buf =
                           SetOverflowData(frame, frame.cur_offset, n)]
             /\ UNCHANGED <<picture_end_marker, announced, packets>>
        ELSE /\ sink' = SentPacket(done.sink)
             /\ packets' = Append(packets, [words |-> Packet(done.sink.buf), time |-> t, due |-> announced])
             /\ announced' = {}
             /\ picture_end_marker' = done.marker

(* The longest frame that the fragmenter hands on (its max_output_packet_size). *)
MaxOutput == MaxSize - RtpHeaderSize

(* The source answers with a frame, the shortest or the longest, of a unit   *)
(* that it completes or not; and the unit ends a picture or not.             *)
Deliver ==
  /\ awaiting
  /\ awaiting' = FALSE
  /\ \E n \in {1, MaxOutput}, t \in StartTime .. now, completed, ends \in BOOLEAN :
       AfterGettingFrame(n, t, completed, ends)
  /\ UNCHANGED <<source_closed, now, starts>>

(* The source comes to its end.  The closure handler of the sink has no body, *)
(* so the sink goes on as if it were being played.                           *)
SourceCloses ==
  /\ awaiting
  /\ awaiting' = FALSE /\ source_closed' = TRUE
  /\ UNCHANGED <<sink, picture_end_marker, now, starts, announced, packets>>

(* The timer for the next packet.  send_next() has no body.                  *)
SendNext ==
  /\ sink.timer
  /\ sink' = [sink EXCEPT !.timer = FALSE]
  /\ UNCHANGED <<source_vars, now, starts, announced, packets>>

(* The end of start_stream(): the number and the time stamp of the next      *)
(* packet are asked for.  They are assigned to the parameters that should    *)
(* point to them (on_demand_server_media_subsession.c:541), so the client    *)
(* is not told; the time stamp is preset all the same.                       *)
Announce ==
  /\ announced' = {[seq |-> sink.seq_no, timestamp |-> RtpTimestamp(sink, now)]}
  /\ sink' = Preset(sink, now)
  /\ UNCHANGED <<source_vars, now, starts, packets>>

Tick ==
  /\ now < MaxTime
  /\ now' = now + 1
  /\ UNCHANGED <<sink, source_vars, starts, announced, packets>>

SinkNext ==
  StartPlaying \/ StopPlaying \/ Deliver \/ SourceCloses \/ SendNext \/ Announce \/ Tick
==============================================================================
