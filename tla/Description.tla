------------------------------ MODULE Description ------------------------------
(***************************************************************************)
(* The objects behind a description and a stream, from their making to     *)
(* their end, and the H.264 parameters that are described: a media session *)
(* with its subsessions, the source and sink that a DESCRIBE makes and     *)
(* closes again (on_demand_server_media_subsession.c), and those of a      *)
(* stream, whose parameter sets the framer keeps                           *)
(* (h264or5_video_stream_framer.c) and the sink writes into the line       *)
(* "a=fmtp" (h264_video_rtp_sink.c).                                       *)
(*                                                                         *)
(* A program calls these in the order the library does: the RTCP instance  *)
(* is closed before the sink, the sink before its socket and source.  A    *)
(* sink asks for one unit each time it is started.  Describing a file      *)
(* never starts its sink, so the line it takes over is empty.              *)
(*                                                                         *)
(* What the framer knows of a parameter set is the copy that the parser    *)
(* saved of it, which need not be what the encoder wrote (see SavedUnit).  *)
(***************************************************************************)
EXTENDS Authentication, SpsAnalysis, Base64

CONSTANTS
  NumTracks,  \* subsessions of the session
  SpsSets,    \* [unit, num_units_in_tick, time_scale, profile], as an encoder writes them
  PpsSets,    \* [unit]
  OwnSets,    \* [sps, pps], what a program may make a sink with
  MaxMade     \* bound: how often the session and the stream are made

Units == Seq(0 .. 255) \ {<< >>}    \* a unit has at least its header

ASSUME DescriptionAssumption ==
  /\ NumTracks \in Nat /\ MaxMade \in Nat
  /\ SpsSets \subseteq [unit : Units, num_units_in_tick : Nat, time_scale : Nat, profile : Seq(0 .. 255)]
  /\ PpsSets \subseteq [unit : Units]
  /\ OwnSets \subseteq [sps : SpsSets, pps : PpsSets]

VARIABLES
  heap,      \* see module MediaClasses
  held,      \* the objects the program has pointers to and has not released
  sps, pps,  \* last_seen_sps, last_seen_pps: the set, its unit as it was saved
  rate,      \* frame_rate of the framer, as a fraction
  given,     \* the sets the sink was made with
  reading,   \* the sink has asked for a unit
  fmtp,      \* what the sink answered when it was last asked for its line
  clock,     \* history: the first set with a clock, or not saved whole, since the
             \* framer was made
  made       \* how often something was made

vars == <<heap, held, sps, pps, rate, given, reading, fmtp, clock, made>>

Session == <<"session", 0>>
Subsession(t) == <<"subsession", t>>
Groupsock(s) == <<"groupsock", s>>
File(s) == <<"file", s>>
Framer(s) == <<"framer", s>>
Parser(s) == <<"parser", s>>
Sink(s) == <<"sink", s>>
Fragmenter(s) == <<"fragmenter", s>>
Rtcp(s) == <<"rtcp", s>>
Dummy == 0
Stream == 1

NoSet == [unit |-> << >>]
NoLine == << >>
NotAsked == [line |-> NoLine, sps |-> NoSet, pps |-> NoSet]
Holds(o) == o \in held

Init ==
  /\ heap = EmptyHeap /\ held = {} /\ made = 0
  /\ sps = NoSet /\ pps = NoSet /\ rate = NoRate /\ clock = NoSet
  /\ given = NoSet /\ reading = FALSE /\ fmtp = NotAsked

Unchanged == UNCHANGED <<sps, pps, rate, given, reading, fmtp, clock>>

------------------------------------------------------------------------------
(* Sessions and descriptions *)

NewSubsessions(h) ==
  LET Added[t \in 0 .. NumTracks] ==
        IF t = 0 THEN h
        ELSE AddSubsession(NewH264FileSubsession(Added[t - 1], Subsession(t)), Session, Subsession(t))
  IN  Added[NumTracks]

(* Bound: a program that lost a descriptor over it does not try again.       *)
CreateServer ==
  /\ heap = EmptyHeap
  /\ heap' \in CreateNewServer(heap)
  /\ UNCHANGED <<held, made>> /\ Unchanged

(* The session is not in use any more, whoever had it last.  Bound: a        *)
(* program holds a session or a stream, not both.                            *)
CreateSession ==
  /\ Lives(heap, Server, "self") /\ ~Lives(heap, Session, "self") /\ held = {} /\ made < MaxMade
  /\ heap' = NewSubsessions(NewServerMediaSession(heap, Session))
  /\ held' = held \cup {Session} /\ made' = made + 1 /\ Unchanged

CloseSession ==
  /\ Holds(Session)
  /\ heap' = CloseMedium(heap, Session) /\ held' = held \ {Session}
  /\ UNCHANGED made /\ Unchanged

(* From here on the session is the server's.                                 *)
AddSession ==
  /\ Holds(Session)
  /\ heap' = AddServerMediaSession(heap, Session) /\ held' = held \ {Session}
  /\ UNCHANGED made /\ Unchanged

CreateNewStreamSource(h, s) ==
  NewH264VideoStreamFramer(NewByteStreamFileSource(h, File(s)), Framer(s), File(s), Parser(s))
CreateGroupsock(h, s) == Make(h, Groupsock(s), {"self"})
CreateNewRtpSink(h, s, sets) == NewH264VideoRtpSink(h, Sink(s), Groupsock(s), sets)

(* The sink is noted as the one to ask for the line, and neither started nor *)
(* asked.  It is noted for good, longer than it lives.                       *)
GetAuxSdpLine(h, o) ==
  IF Lives(h, o, "aux_sdp_line") \/ Ref(h, o, "dummy_rtp_sink") # Null THEN h
  ELSE Set(h, o, "dummy_rtp_sink", Sink(Dummy))

(* The lines of a sink that was never started: its formats, and no "a=fmtp". *)
SetSdpLinesFromRtpSink(h, o) ==
  Make(FreeIf(GetAuxSdpLine(h, o), o, "sdp_lines"), o, {"sdp_lines", "track_id", "ip_address_str"})

(* The lines are made once, from a source and a sink that are then closed.   *)
SdpLines(h, o) ==
  IF Lives(h, o, "sdp_lines") THEN h
  ELSE LET dummies   == CreateNewRtpSink(CreateGroupsock(CreateNewStreamSource(h, Dummy), Dummy), Dummy, {})
           described == CloseMedium(SetSdpLinesFromRtpSink(dummies, o), Sink(Dummy))
       IN  CloseMedium(Free(described, Groupsock(Dummy), "self"), Framer(Dummy))

(* The lines of all tracks, the text they are put in, which goes once it is  *)
(* sent, and the server's address, which stays.                              *)
GenerateSdpDescription(h, o) ==
  LET chain == Subsessions(h, o)
      Described[i \in 0 .. Len(chain)] == IF i = 0 THEN h ELSE SdpLines(Described[i - 1], chain[i])
  IN  Make(Described[Len(chain)], o, {"ip_address_str"})

------------------------------------------------------------------------------
(* A stream *)

CreateStream ==
  /\ Lives(heap, Server, "self") /\ held = {}
  /\ made < MaxMade /\ made' = made + 1
  /\ held' = held \cup {Framer(Stream), Groupsock(Stream), Sink(Stream)}
  /\ \E own \in OwnSets \cup {NoSet} :
       /\ given' = own
       /\ heap' = CreateNewRtpSink(CreateGroupsock(CreateNewStreamSource(heap, Stream), Stream), Stream,
                                   IF own = NoSet THEN {} ELSE {"sps", "pps"})
  /\ sps' = NoSet /\ pps' = NoSet /\ rate' = NoRate /\ clock' = NoSet
  /\ reading' = FALSE /\ fmtp' = NotAsked

CreateRtcp ==
  /\ Holds(Sink(Stream)) /\ ~Holds(Rtcp(Stream))
  /\ heap' = NewRtcpInstance(heap, Rtcp(Stream), Groupsock(Stream), Sink(Stream))
  /\ held' = held \cup {Rtcp(Stream)}
  /\ UNCHANGED made /\ Unchanged

(* The first request for data travels down to the file.                      *)
Play ==
  /\ Holds(Sink(Stream)) /\ Ref(heap, Sink(Stream), "source") = Null
  /\ heap' = ByteStreamFileSourceRead(
               StartPlaying(heap, Sink(Stream), Framer(Stream), Fragmenter(Stream)), File(Stream))
  /\ reading' = TRUE
  /\ UNCHANGED <<held, sps, pps, rate, given, fmtp, clock, made>>

(* A unit as parse() saves it, in windows of four bytes of which the last     *)
(* reach into the start code behind it: a window that ends in a byte above 1 *)
(* is saved, of any other three zeros and the first byte.  The reader's      *)
(* buffer is taken to have room.                                             *)
SavedUnit(unit) ==
  LET ahead == unit \o <<0, 0, 0, 1>>
      From[i \in 1 .. Len(unit) + 1] ==
        IF i > Len(unit) THEN << >>
        ELSE IF ahead[i + 3] > 1 THEN SubSeq(ahead, i, i + 3) \o From[i + 4]
        ELSE <<0, 0, 0, ahead[i]>> \o From[i + 1]
  IN  From[1]
Saved == [s \in SpsSets \cup PpsSets |-> [s EXCEPT !.unit = SavedUnit(@)]]
Whole(s) == Saved[s].unit = s.unit

HasClock(s) == s.num_units_in_tick > 0 /\ s.time_scale > 0

Timing == [s \in SpsSets |-> AnalyzeSeqParameterSetData(Saved[s].unit)]

(* A unit arrives: its copy is kept, and the packet that carries it is the   *)
(* only one of this start.                                                   *)
SeeSps(s) ==
  /\ reading
  /\ heap' = SaveCopyOfSps(Touch(heap, Parser(Stream), "self"), Framer(Stream))
  /\ sps' = Saved[s] /\ rate' = ParsedFrameRate(rate, Timing[s])
  /\ clock' = IF clock = NoSet /\ (HasClock(s) \/ ~Whole(s)) THEN s ELSE clock
  /\ reading' = FALSE
  /\ UNCHANGED <<held, pps, given, fmtp, made>>

SeePps(s) ==
  /\ reading
  /\ heap' = SaveCopyOfPps(Touch(heap, Parser(Stream), "self"), Framer(Stream))
  /\ pps' = Saved[s] /\ reading' = FALSE
  /\ UNCHANGED <<held, sps, rate, given, fmtp, clock, made>>

SeeOther ==
  /\ reading /\ reading' = FALSE
  /\ UNCHANGED <<heap, held, sps, pps, rate, given, fmtp, clock, made>>

(* The sets the line is written from: the sink's own, or those its source    *)
(* has seen, once a fragmenter leads to the source.                          *)
VpsSpsPps(h) ==
  IF given # NoSet THEN [sps |-> given.sps.unit, pps |-> given.pps.unit]
  ELSE IF Ref(h, Sink(Stream), "our_fragmenter") = Null \/
          Ref(h, Fragmenter(Stream), "input_source") = Null
       THEN [sps |-> << >>, pps |-> << >>]
       ELSE [sps |-> sps.unit, pps |-> pps.unit]

(* Mutant: the profile is taken to begin with the header of the unit. *)
FmtpLineFromHeader(sets) ==
  IF sets.sps = << >> \/ sets.pps = << >> THEN NoLine
  ELSE [profile_level_id |-> SubSeq(sets.sps, 1, 3),
        sprop |-> Base64Encode(sets.sps) \o <<Comma>> \o Base64Encode(sets.pps)]

FmtpLine(sets) ==
  LET sps_web == RemoveEmulationBytes(Len(sets.sps), sets.sps)
  IN  IF sets.sps = << >> \/ sets.pps = << >> \/ Len(sps_web) < 4 THEN NoLine
      ELSE [profile_level_id |-> SubSeq(sps_web, 2, 4),
            sprop |-> Base64Encode(sets.sps) \o <<Comma>> \o Base64Encode(sets.pps)]

AuxSdpLine ==
  LET line == FmtpLine(VpsSpsPps(heap))
  IN  /\ Holds(Sink(Stream))
      /\ fmtp' = [line |-> line, sps |-> IF given = NoSet THEN sps ELSE given.sps,
                                 pps |-> IF given = NoSet THEN pps ELSE given.pps]
      /\ heap' = IF line = NoLine THEN heap
                 ELSE Make(FreeIf(heap, Sink(Stream), "fmtp_sdp_line"), Sink(Stream), {"fmtp_sdp_line"})
      /\ UNCHANGED <<held, sps, pps, rate, given, reading, clock, made>>

Stop ==
  /\ Holds(Sink(Stream))
  /\ heap' = StopPlaying(heap, Sink(Stream)) /\ reading' = FALSE
  /\ UNCHANGED <<held, sps, pps, rate, given, fmtp, clock, made>>

CloseRtcp ==
  /\ Holds(Rtcp(Stream))
  /\ heap' = CloseMedium(heap, Rtcp(Stream)) /\ held' = held \ {Rtcp(Stream)}
  /\ UNCHANGED made /\ Unchanged

CloseSink ==
  /\ Holds(Sink(Stream)) /\ ~Holds(Rtcp(Stream))
  /\ heap' = CloseMedium(heap, Sink(Stream)) /\ held' = held \ {Sink(Stream)} /\ reading' = FALSE
  /\ given' = NoSet /\ fmtp' = NotAsked
  /\ UNCHANGED <<sps, pps, rate, clock, made>>

DeleteGroupsock ==
  /\ Holds(Groupsock(Stream)) /\ ~Holds(Sink(Stream))
  /\ heap' = Free(heap, Groupsock(Stream), "self") /\ held' = held \ {Groupsock(Stream)}
  /\ UNCHANGED made /\ Unchanged

CloseStreamSource ==
  /\ Holds(Framer(Stream)) /\ ~Holds(Sink(Stream))
  /\ heap' = CloseMedium(heap, Framer(Stream)) /\ held' = held \ {Framer(Stream)}
  /\ sps' = NoSet /\ pps' = NoSet /\ rate' = NoRate /\ clock' = NoSet
  /\ UNCHANGED <<given, reading, fmtp, made>>

SessionNext == CreateServer \/ CreateSession \/ CloseSession \/ AddSession

StreamNext ==
  \/ CreateStream \/ CreateRtcp \/ Play \/ AuxSdpLine \/ Stop
  \/ \E s \in SpsSets : SeeSps(s)
  \/ \E s \in PpsSets : SeePps(s)
  \/ SeeOther
  \/ CloseRtcp \/ CloseSink \/ DeleteGroupsock \/ CloseStreamSource

------------------------------------------------------------------------------
(* What the readers of bits are expected to make of the sets: the clock that  *)
(* the encoder wrote, of a set that was saved whole; of any copy, its        *)
(* profile and level.                                                        *)
ClocksRead ==
  \A s \in SpsSets : Whole(s) =>
    Timing[s] = [num_units_in_tick |-> s.num_units_in_tick, time_scale |-> s.time_scale]
ProfilesRead ==
  /\ \A s \in SpsSets \cup PpsSets : SavedUnit(s.unit) \in Units
  /\ \A s \in SpsSets : \A unit \in {s.unit, SavedUnit(s.unit)} :
       LET web == RemoveEmulationBytes(Len(unit), unit)
       IN  Len(web) >= 4 /\ SubSeq(web, 2, 4) = s.profile

(* The frame rate of a stream is that of the clock an encoder wrote into the *)
(* first parameter set that has one, whatever else the set holds and however *)
(* its bytes were escaped; until then it is 25.  Nothing is said from the    *)
(* moment on that a set arrives whose copy is not whole: the rate is then    *)
(* read from whatever place the zeros of SavedUnit push the clock to         *)
(* (h264or5_video_stream_framer.c:824, 902-910).                             *)
TimingAsWritten ==
  Holds(Framer(Stream)) /\ (clock = NoSet \/ Whole(clock)) =>
    rate = IF clock = NoSet THEN NoRate ELSE <<clock.time_scale, 2 * clock.num_units_in_tick>>

(* The line "a=fmtp" is there as soon as both parameter sets are known, a    *)
(* reader gets from it the sets the sink was made with or the copies that    *)
(* the framer saved last, byte for byte, and the profile and level are the   *)
(* encoder's.  A copy that is not whole reaches the reader as it is, with    *)
(* the zeros of line 824 in it.                                              *)
ParameterSetsDescribed ==
  IF fmtp.sps = NoSet \/ fmtp.pps = NoSet THEN fmtp.line = NoLine
  ELSE /\ fmtp.line # NoLine
       /\ ParseSPropParameterSets(fmtp.line.sprop) = <<fmtp.sps.unit, fmtp.pps.unit>>
       /\ fmtp.line.profile_level_id = fmtp.sps.profile
===============================================================================
