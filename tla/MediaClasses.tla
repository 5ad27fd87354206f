----------------------------- MODULE MediaClasses -----------------------------
(***************************************************************************)
(* How the objects of the library are made and unmade: the constructors    *)
(* and destructors of a description's and a stream's classes, each one     *)
(* calling that of the class it extends (livemedia).                       *)
(*                                                                         *)
(* The heap is a record: live, the blocks <<object, part>> that are        *)
(* allocated; listed, the objects in the table of media; ref, the pointers *)
(* <<object, field>> and the class whose delete and stop an object runs;   *)
(* faults, what was touched or released when it was no longer there.  A    *)
(* pointer is set to NULL when what it points to is freed by its owner, so *)
(* a guarded free is of a part that may be missing.                        *)
(***************************************************************************)
EXTENDS Integers, Sequences

Null == <<"null", 0>>
EmptyHeap == [live |-> {}, listed |-> {}, ref |-> << >>, faults |-> {}]

Lives(h, o, part) == <<o, part>> \in h.live
Ref(h, o, field) == IF <<o, field>> \in DOMAIN h.ref THEN h.ref[o, field] ELSE Null
Set(h, o, field, target) ==
  [h EXCEPT !.ref = [p \in DOMAIN @ \cup {<<o, field>>} |-> IF p = <<o, field>> THEN target ELSE @[p]]]
Fault(h, kind, o, part) == [h EXCEPT !.faults = @ \cup {<<kind, o, part>>}]
Make(h, o, parts) == [h EXCEPT !.live = @ \cup ({o} \X parts)]
Touch(h, o, part) == IF Lives(h, o, part) THEN h ELSE Fault(h, "late", o, part)

Free(h, o, part) ==
  IF Lives(h, o, part) THEN [h EXCEPT !.live = @ \ {<<o, part>>}]
                       ELSE Fault(h, "twice", o, part)
FreeIf(h, o, part) == IF Lives(h, o, part) THEN Free(h, o, part) ELSE h

(* What was in an object that is gone is nothing any more. *)
Forgotten(h, o) == [h EXCEPT !.ref = [p \in {q \in DOMAIN @ : q[1] # o} |-> @[p]]]

------------------------------------------------------------------------------
(* Medium: a timer of its own, and a name in the table.  The tables are made *)
(* with the first one.                                                       *)

Tables == <<"tables", 0>>
NewMediaLookupTable(h) == Make(h, Tables, {"media_table", "media_table.table"})
NewTables(h) == Make(h, Tables, {"self"})
GetOurTables(h) == IF Lives(h, Tables, "self") THEN h ELSE NewTables(h)
OurMedia(h) == IF Lives(h, Tables, "media_table") THEN h ELSE NewMediaLookupTable(GetOurTables(h))

MediumInit(h, o) ==
  Set([Make(OurMedia(h), o, {"next_task"}) EXCEPT !.listed = @ \cup {o}], o, "delete", "medium")

New(h, o) == Make(h, o, {"self"})

MediumDeinit(h, o) == FreeIf(h, o, "next_task")

(* Closing is by the name in the object, and once.  Who owns another object   *)
(* knows what it may be, so each closes with what that one's delete() is.    *)
(* The table goes with its last medium, through a delete that nobody set.    *)
RemoveMedium(h, o) ==
  LET left == [h EXCEPT !.listed = @ \ {o}]
  IN  IF left.listed = {} THEN Fault(left, "null", Tables, "media_table") ELSE left

CloseBy(Delete(_, _), h, o) ==
  LET named == Touch(h, o, "self")
      left  == RemoveMedium(named, o)
  IN  CASE o = Null -> h
        [] o # Null /\ o \notin h.listed -> named
        [] o # Null /\ o \in h.listed -> IF left.listed = {} THEN left ELSE Delete(left, o)

------------------------------------------------------------------------------
(* Sources *)

MediaSourceInit(h, o) == Set(MediumInit(h, o), o, "delete", "media_source")
MediaSourceDeinit(h, o) == MediumDeinit(h, o)

FramedSourceInit(h, o) ==
  Set(Set(MediaSourceInit(h, o), o, "stop", "framed_source"), o, "delete", "framed_source")
FramedSourceDeinit(h, o) == MediaSourceDeinit(h, o)
FramedSourceStop(h, o) == Touch(h, o, "next_task")

FramedFileSourceInit(h, o) ==
  Set(Make(FramedSourceInit(h, o), o, {"fid"}), o, "delete", "framed_file_source")
FramedFileSourceDeinit(h, o) == FramedSourceDeinit(FreeIf(h, o, "fid"), o)

ByteStreamFileSourceInit(h, o) ==
  Set(Set(FramedFileSourceInit(h, o), o, "stop", "byte_stream"), o, "delete", "byte_stream")
ByteStreamFileSourceDeinit(h, o) ==
  IF ~Lives(h, o, "fid") THEN h ELSE FramedFileSourceDeinit(FreeIf(h, o, "idler"), o)
NewByteStreamFileSource(h, o) == ByteStreamFileSourceInit(New(h, o), o)
DeleteByteStreamFileSource(h, o) == Free(ByteStreamFileSourceDeinit(h, o), o, "self")
ByteStreamFileSourceStop(h, o) == FreeIf(Touch(h, o, "next_task"), o, "idler")
StopFile(h, o) ==
  CASE Ref(h, o, "stop") = "byte_stream" -> ByteStreamFileSourceStop(Touch(h, o, "self"), o)

(* Data was asked for: the idle handle that will read it is made.            *)
ByteStreamFileSourceRead(h, o) == Make(Touch(h, o, "self"), o, {"idler"})

------------------------------------------------------------------------------
(* Filters own the source they read from, and stop it when they stop.  One    *)
(* that still has its source when it ends reads a file.                      *)

FramedFilterInit(h, o, input) ==
  Set(Set(Set(FramedSourceInit(h, o), o, "input_source", input), o, "stop", "framed_filter"),
      o, "delete", "framed_filter")
DeleteFile(h, o) ==
  CASE Ref(h, o, "delete") = "byte_stream" -> DeleteByteStreamFileSource(h, o)
FramedFilterDeinit(h, o) ==
  FramedSourceDeinit(CloseBy(DeleteFile, h, Ref(h, o, "input_source")), o)

FramedFilterStop(h, o, input_stopped) ==
  IF Ref(h, o, "input_source") = Null THEN FramedSourceStop(h, o) ELSE input_stopped

ReassignInputSource(h, o, input) == Set(h, o, "input_source", input)

------------------------------------------------------------------------------
(* The framer and its parser *)

StreamParserInit(h, p) == Set(Make(h, p, {"bank0", "bank1"}), p, "delete", "stream_parser")
StreamParserDeinit(h, p) == FreeIf(FreeIf(h, p, "bank0"), p, "bank1")

MpegVideoStreamParserInit(h, p) == Set(StreamParserInit(h, p), p, "delete", "mpeg_parser")
MpegVideoStreamParserDeinit(h, p) == StreamParserDeinit(h, p)

H264or5VideoStreamParserInit(h, p) ==
  Set(MpegVideoStreamParserInit(h, p), p, "delete", "h264or5_parser")
H264or5VideoStreamParserDeinit(h, p) == MpegVideoStreamParserDeinit(h, p)

NewH264or5VideoStreamParser(h, p) == H264or5VideoStreamParserInit(New(h, p), p)
DeleteStreamParser(h, p) == Free(H264or5VideoStreamParserDeinit(h, p), p, "self")

MpegVideoStreamFramerInit(h, o, input) ==
  Set(Set(Set(FramedFilterInit(h, o, input), o, "parser", Null), o, "stop", "mpeg_framer"),
      o, "delete", "mpeg_framer")

(* The parser goes first: what the filter closes next must not call it.      *)
MpegVideoStreamFramerDeinit(h, o) ==
  FramedFilterDeinit(DeleteStreamParser(h, Ref(h, o, "parser")), o)

FlushInput(h, o) == Touch(h, Ref(h, o, "parser"), "self")
MpegVideoStreamFramerStop(h, o) ==
  LET flushed == FlushInput(h, o)
  IN  FramedFilterStop(flushed, o, StopFile(FramedSourceStop(flushed, o), Ref(flushed, o, "input_source")))
StopFramer(h, o) ==
  CASE Ref(h, o, "stop") = "mpeg_framer" -> MpegVideoStreamFramerStop(Touch(h, o, "self"), o)

H264or5VideoStreamFramerInit(h, o, input, parser) ==
  Set(Set(NewH264or5VideoStreamParser(MpegVideoStreamFramerInit(h, o, input), parser),
          o, "parser", parser), o, "delete", "h264or5_framer")
H264or5VideoStreamFramerDeinit(h, o) == MpegVideoStreamFramerDeinit(h, o)

H264VideoStreamFramerInit(h, o, input, parser) ==
  Set(H264or5VideoStreamFramerInit(h, o, input, parser), o, "delete", "h264_framer")
H264VideoStreamFramerDeinit(h, o) == H264or5VideoStreamFramerDeinit(h, o)
NewH264VideoStreamFramer(h, o, input, parser) ==
  H264VideoStreamFramerInit(New(h, o), o, input, parser)
DeleteH264VideoStreamFramer(h, o) == Free(H264VideoStreamFramerDeinit(h, o), o, "self")

(* A set replaces the copy of the one before.                                *)
SaveCopyOfSps(h, o) == Make(FreeIf(h, o, "last_seen_sps"), o, {"last_seen_sps"})
SaveCopyOfPps(h, o) == Make(FreeIf(h, o, "last_seen_pps"), o, {"last_seen_pps"})

------------------------------------------------------------------------------
(* What a sink is made of: buffer, statistics, interface to the network *)

NewOutPacketBuffer(h, o) == Make(h, o, {"out_buf", "out_buf.buf"})
DeleteOutPacketBuffer(h, o) ==
  IF Lives(h, o, "out_buf") THEN Free(FreeIf(h, o, "out_buf.buf"), o, "out_buf") ELSE h

NewTransmissionStatsDb(h, o) == Make(h, o, {"stats_db", "stats_db.table"})
DeleteTransmissionStatsDb(h, o) == Free(Free(h, o, "stats_db.table"), o, "stats_db")

RtpInterfaceInit(h, o, gs) ==
  Set(Make(Touch(h, gs, "self"), o, {"poll_handle", "poll_data"}), o, "gs", gs)
ForgetOurGroupsock(h, o) == Set(h, o, "gs", Null)
StopNetworkReading(h, o) ==
  IF Ref(h, o, "gs") = Null THEN h ELSE Touch(h, Ref(h, o, "gs"), "self")
RtpInterfaceDeinit(h, o) == FreeIf(FreeIf(StopNetworkReading(h, o), o, "poll_data"), o, "poll_handle")

NewRtpInterface(h, o, gs) == RtpInterfaceInit(Make(h, o, {"rtp_interface"}), o, gs)
DeleteRtpInterface(h, o) == Free(RtpInterfaceDeinit(h, o), o, "rtp_interface")

------------------------------------------------------------------------------
(* The fragmenter of a sink: it reads from a framer that it does not own. *)

FragmenterInit(h, o, input) ==
  Set(Set(Make(FramedFilterInit(h, o, input), o, {"input_buffer"}), o, "stop", "fragmenter"),
      o, "delete", "fragmenter")
DetachInputSource(h, o) ==
  LET input == Ref(h, o, "input_source")
  IN  IF input = Null THEN h ELSE ReassignInputSource(StopFramer(h, input), o, Null)
FragmenterDeinit(h, o) ==
  FramedFilterDeinit(DetachInputSource(FreeIf(h, o, "input_buffer"), o), o)
FragmenterStop(h, o) ==
  FramedFilterStop(h, o, StopFramer(FramedSourceStop(h, o), Ref(h, o, "input_source")))
NewFragmenter(h, o, input) == FragmenterInit(New(h, o), o, input)
DeleteFragmenter(h, o) == Free(FragmenterDeinit(h, o), o, "self")

(* stop(): that of the class the source of a sink was made as.               *)
StopGettingFrames(h, o) ==
  LET told == Touch(h, o, "self")
      stop == Ref(h, o, "stop")
  IN  CASE stop = "mpeg_framer" -> MpegVideoStreamFramerStop(told, o)
        [] stop = "fragmenter"  -> FragmenterStop(told, o)

------------------------------------------------------------------------------
(* Sinks *)

MediaSinkInit(h, o) ==
  Set(Set(Set(MediumInit(h, o), o, "source", Null), o, "stop_playing", "media_sink"),
      o, "delete", "media_sink")

MediaSinkStop(h, o) ==
  LET source  == Ref(h, o, "source")
      stopped == IF source = Null THEN h ELSE StopGettingFrames(h, source)
  IN  Set(Touch(stopped, o, "next_task"), o, "source", Null)

(* The sink of packets clears the packet it was filling.                     *)
MultiFramedRtpSinkStop(h, o) == MediaSinkStop(Touch(h, o, "out_buf"), o)

StopPlaying(h, o) ==
  IF Ref(h, o, "stop_playing") = "multi_framed" THEN MultiFramedRtpSinkStop(h, o)
                                                ELSE MediaSinkStop(h, o)

MediaSinkDeinit(h, o) == MediumDeinit(StopPlaying(h, o), o)

RtpSinkInit(h, o, gs) ==
  Set(NewTransmissionStatsDb(Make(NewRtpInterface(MediaSinkInit(h, o), o, gs), o, {"format_name"}), o),
      o, "delete", "rtp_sink")
RtpSinkDeinit(h, o) ==
  MediaSinkDeinit(DeleteRtpInterface(ForgetOurGroupsock(
    Free(DeleteTransmissionStatsDb(h, o), o, "format_name"), o), o), o)

SetPacketSizes(h, o) == NewOutPacketBuffer(DeleteOutPacketBuffer(h, o), o)

MultiFramedRtpSinkInit(h, o, gs) ==
  Set(Set(SetPacketSizes(RtpSinkInit(h, o, gs), o), o, "stop_playing", "multi_framed"),
      o, "delete", "multi_framed")

(* The buffer goes first, and the sink stops once more after that.           *)
MultiFramedRtpSinkDeinit(h, o) == RtpSinkDeinit(DeleteOutPacketBuffer(h, o), o)

VideoRtpSinkInit(h, o, gs) == Set(MultiFramedRtpSinkInit(h, o, gs), o, "delete", "video_rtp_sink")
VideoRtpSinkDeinit(h, o) == MultiFramedRtpSinkDeinit(h, o)

(* given: the parameter sets the sink is made with, which it copies.         *)
H264or5VideoRtpSinkInit(h, o, gs, given) ==
  Set(Set(Make(VideoRtpSinkInit(h, o, gs), o, given), o, "our_fragmenter", Null),
      o, "delete", "h264or5_rtp_sink")

(* The sink stops while it still has its fragmenter, and closes it.          *)
H264or5VideoRtpSinkDeinit(h, o) ==
  LET fragmenter == Ref(h, o, "our_fragmenter")
      freed   == FreeIf(FreeIf(FreeIf(Set(h, o, "source", fragmenter), o, "fmtp_sdp_line"), o, "sps"), o, "pps")
      closed  == CloseBy(DeleteFragmenter, StopPlaying(freed, o), fragmenter)
  IN  VideoRtpSinkDeinit(Set(closed, o, "source", Null), o)

H264VideoRtpSinkInit(h, o, gs, given) ==
  Set(H264or5VideoRtpSinkInit(h, o, gs, given), o, "delete", "h264_rtp_sink")
H264VideoRtpSinkDeinit(h, o) == H264or5VideoRtpSinkDeinit(h, o)
NewH264VideoRtpSink(h, o, gs, given) == H264VideoRtpSinkInit(New(h, o), o, gs, given)
DeleteH264VideoRtpSink(h, o) == Free(H264VideoRtpSinkDeinit(h, o), o, "self")

(* A sink plays one source at a time; the fragmenter is made the first time  *)
(* and then given the new source.                                            *)
ContinuePlaying(h, o, fragmenter) ==
  LET source == Ref(h, o, "source")
      input  == IF Ref(h, o, "our_fragmenter") = Null
                THEN Set(NewFragmenter(h, fragmenter, source), o, "our_fragmenter", fragmenter)
                ELSE ReassignInputSource(h, Ref(h, o, "our_fragmenter"), source)
  IN  Set(input, o, "source", fragmenter)
StartPlaying(h, o, source, fragmenter) ==
  IF Ref(h, o, "source") # Null THEN h
  ELSE ContinuePlaying(Set(h, o, "source", source), o, fragmenter)

------------------------------------------------------------------------------
(* The RTCP instance of a sink *)

NewRtcpMemberDatabase(h, o) == Make(h, o, {"known_members", "known_members.table"})
DeleteRtcpMemberDatabase(h, o) == Free(Free(h, o, "known_members.table"), o, "known_members")

RtcpInstanceInit(h, o, gs, sink) ==
  Set(Set(NewOutPacketBuffer(Make(NewRtcpMemberDatabase(
            RtpInterfaceInit(MediumInit(h, o), o, gs), o), o, {"in_buf"}), o),
          o, "sink", sink), o, "delete", "rtcp_instance")

(* Saying goodbye has no body.                                               *)
RtcpInstanceDeinit(h, o) ==
  MediumDeinit(RtpInterfaceDeinit(FreeIf(DeleteOutPacketBuffer(
    DeleteRtcpMemberDatabase(h, o), o), o, "in_buf"), o), o)
NewRtcpInstance(h, o, gs, sink) == RtcpInstanceInit(New(h, o), o, gs, sink)
DeleteRtcpInstance(h, o) == Free(RtcpInstanceDeinit(h, o), o, "self")

------------------------------------------------------------------------------
(* Sessions and subsessions: each subsession owns the next one. *)

ServerMediaSubsessionInit(h, o) ==
  Set(Set(Set(MediumInit(h, o), o, "next", Null), o, "parent_session", Null),
      o, "delete", "server_media_subsession")
ServerMediaSubsessionDeinit(h, o) == FreeIf(h, o, "track_id")

OnDemandSubsessionInit(h, o) ==
  Set(Make(ServerMediaSubsessionInit(h, o), o, {"destination_hash_table"}), o, "delete", "on_demand")
OnDemandSubsessionDeinit(h, o) ==
  ServerMediaSubsessionDeinit(Free(FreeIf(h, o, "sdp_lines"), o, "destination_hash_table"), o)

(* The name of the file is copied, and never freed.                          *)
FileSubsessionInit(h, o) ==
  Set(Make(OnDemandSubsessionInit(h, o), o, {"file_name"}), o, "delete", "file_subsession")
FileSubsessionDeinit(h, o) == OnDemandSubsessionDeinit(h, o)

H264FileSubsessionInit(h, o) ==
  Set(Set(FileSubsessionInit(h, o), o, "delete", "h264_subsession"), o, "dummy_rtp_sink", Null)
H264FileSubsessionDeinit(h, o) == FileSubsessionDeinit(FreeIf(h, o, "aux_sdp_line"), o)
NewH264FileSubsession(h, o) == H264FileSubsessionInit(New(h, o), o)

(* delete() of a subsession closes the next one between the two.             *)
BeginDelete(h, o) ==
  CASE Ref(h, o, "delete") = "h264_subsession" -> H264FileSubsessionDeinit(h, o)
DeleteH264FileSubsession(h, o) == Free(MediumDeinit(h, o), o, "self")

(* The subsessions in the order they are linked in.                          *)
Subsessions(h, o) ==
  LET From[s \in {Null} \cup {m \in h.listed : Ref(h, m, "delete") = "h264_subsession"}] ==
        IF s = Null THEN << >> ELSE <<s>> \o From[Ref(h, s, "next")]
  IN  From[Ref(h, o, "head")]

ServerMediaSessionInit(h, o) ==
  Set(Set(Set(Set(Set(Make(MediumInit(h, o), o, {"stream_name", "info", "description", "misc"}),
      o, "reference_count", 0), o, "delete_when_unreferenced", FALSE),
      o, "head", Null), o, "tail", Null), o, "delete", "server_media_session")

(* The first is closed, and before it is gone the second, and so on.         *)
DeleteAllSubsessions(h, o) ==
  LET chain == Subsessions(h, o)
      Begun[i \in 0 .. Len(chain)] ==
        IF i = 0 THEN h ELSE CloseBy(BeginDelete, Begun[i - 1], chain[i])
      Ended[i \in 0 .. Len(chain)] ==
        IF i = 0 THEN Begun[Len(chain)]
        ELSE DeleteH264FileSubsession(Ended[i - 1], chain[Len(chain) + 1 - i])
  IN  Set(Set(Ended[Len(chain)], o, "head", Null), o, "tail", Null)

ServerMediaSessionDeinit(h, o) ==
  MediumDeinit(FreeIf(FreeIf(FreeIf(FreeIf(DeleteAllSubsessions(h, o),
    o, "stream_name"), o, "info"), o, "description"), o, "misc"), o)
NewServerMediaSession(h, o) == ServerMediaSessionInit(New(h, o), o)
DeleteServerMediaSession(h, o) == Free(ServerMediaSessionDeinit(h, o), o, "self")

AddSubsession(h, o, s) ==
  IF Ref(h, s, "parent_session") # Null THEN h
  ELSE LET linked == IF Ref(h, o, "tail") = Null THEN Set(h, o, "head", s)
                                                 ELSE Set(h, Ref(h, o, "tail"), "next", s)
       IN  Set(Set(linked, o, "tail", s), s, "parent_session", o)

------------------------------------------------------------------------------
(* delete(): that of the class the object was made as.  Every class sets its *)
(* own after that of the class it extends.                                   *)
DeleteMedium(h, o) ==
  LET class == Ref(h, o, "delete")
  IN  CASE class = "h264_framer"          -> DeleteH264VideoStreamFramer(h, o)
        [] class = "h264_rtp_sink"        -> DeleteH264VideoRtpSink(h, o)
        [] class = "rtcp_instance"        -> DeleteRtcpInstance(h, o)
        [] class = "server_media_session" -> DeleteServerMediaSession(h, o)

CloseMedium(h, o) == CloseBy(DeleteMedium, h, o)
===============================================================================
