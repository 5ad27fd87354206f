------------------------------- MODULE VideoSink -------------------------------
(***************************************************************************)
(* From the file to the packets: the framer of module H264Parser delivers  *)
(* its units into the buffer of the fragmenter of module Fragmenter, and   *)
(* do_special_frame_handling() of livemedia/h264or5_video_rtp_sink.c gives *)
(* each packet its marker bit.                                             *)
(*                                                                         *)
(* The sink asks for a frame whenever it likes; a frame makes a packet of  *)
(* its own.  (In this code it asks once for each start: the function that  *)
(* would go on, multi_framed_rtp_sink.c:668, has no body.  Module RtpSink  *)
(* has the packets themselves.)                                            *)
(***************************************************************************)
EXTENDS H264Parser, Fragmenter

ASSUME BuffersAssumption == InputBufferMax = MaxSize

VARIABLE packets  \* history: unit, marker bit and fragment of each packet

sink_vars == <<vars, fragmenter_vars, packets>>

SinkInit == Init /\ FragmenterInit /\ packets = << >>

------------------------------------------------------------------------------
(* Mutant: the end of the unit is not asked about. *)
MarksAlways == picture_end_marker \/ (units' # units /\ units'[Len(units')].marker)

(* do_special_frame_handling(): the marker bit is set, and the framer's mark  *)
(* taken, if the frame completed a unit while the mark was up.               *)
Marks ==
  /\ last_fragment_completed_nal_unit'
  /\ picture_end_marker \/ (units' # units /\ units'[Len(units')].marker)

Packet(marker) ==
  packets' = Append(packets,
    [unit |-> Len(units'), marker |-> marker, fragment |-> fragments'[Len(fragments')],
     whole |-> Len(fragments') = 1 /\ num_valid_data_bytes' = 1])

------------------------------------------------------------------------------
(* The sink asks; nothing of a unit is left, and the framer is asked. *)
AskFramer == AskForUnit /\ GetNextFrame /\ UNCHANGED packets

(* parse() goes on, or stops without a unit. *)
ParseOn ==
  /\ \/ AskForMore
     \/ SkipToFirstStartCode
     \/ SaveBytes
     \/ InterruptedAtUnitEnd
     \/ SaveTrailing
     \/ to = << >> /\ EndUnit(FALSE)
  /\ UNCHANGED <<fragmenter_vars, packets>>

(* A unit is delivered, and the first packet of it or all of it goes out. *)
DeliverUnit ==
  /\ to # << >>
  /\ AfterGettingFrame(Len(to), num_truncated_bytes)
  /\ \E taken \in BOOLEAN :
       /\ EndUnit(taken)
       /\ taken = Marks
       /\ Packet(taken)

(* The next fragment of it goes out.  Were it one that completes its unit,    *)
(* the mark would be taken with it.                                          *)
SendFragment ==
  /\ phase = "idle"
  /\ NextFragment
  /\ UNCHANGED <<stream_vars, place_vars, words, have_seen_eof, have_seen_first_start_code,
                 first_byte_vars, output_vars, last_seen_sps, last_seen_pps, picture_count,
                 presentation_time, next_presentation_time, phase, units, stops>>
  /\ Packet(Marks)
  /\ picture_end_marker' = (picture_end_marker /\ ~Marks)

ReadAnswers ==
  \/ /\ \/ \E k \in 1 .. MaxRead : BytesArrive(k)
        \/ FirstClosure
     /\ UNCHANGED <<fragmenter_vars, packets>>
  \/ SecondClosure /\ HandleClosure /\ UNCHANGED packets

(* stop_playing() *)
Stop == DoStopGettingFrames /\ StopGettingFrames /\ UNCHANGED packets

SinkNext == AskFramer \/ ParseOn \/ DeliverUnit \/ SendFragment \/ ReadAnswers \/ Stop

SinkSpec == SinkInit /\ [][SinkNext]_sink_vars

(* parse() runs to its end once called, and the event loop calls a pending    *)
(* file read back.  Nothing is assumed of the sink's asking.                 *)
FairSpec ==
  SinkSpec /\ WF_sink_vars(ParseOn \/ DeliverUnit) /\ WF_sink_vars(ReadAnswers)

------------------------------------------------------------------------------
(* The fragmenter waits for a unit just while the framer is at one. *)
SinkTypeOK ==
  /\ TypeOK /\ FragmenterTypeOK
  /\ is_currently_awaiting_data <=> phase \in {"parsing", "waiting", "stalled"}

(* Unit k ends a picture, or is the first after a start or a stop, which is   *)
(* marked as if one had ended.                                               *)
EndsPicture(k) == EndsAccessUnit(TypeOf(units[k]), NextUnitOf(units[k]))
FirstOfPlay(k) == k = 1 \/ units[k - 1].stops # units[k].stops

(* From the file to the marker bits: a packet has one just if it is a whole   *)
(* unit and a picture ended with that unit, or with one since the last packet *)
(* that had it.  So no end of a picture is marked twice, and none is lost,    *)
(* but one that falls on a fragmented unit is marked late, on the next unit   *)
(* that fits a packet.                                                       *)
EachEndMarkedOnce ==
  /\ SinkTypeOK
  /\ \A p \in 1 .. Len(packets) :
       packets[p].marker <=>
         /\ packets[p].whole
         /\ \E k \in 1 .. packets[p].unit :
              /\ EndsPicture(k) \/ FirstOfPlay(k)
              /\ \A j \in k .. packets[p].unit : j > k => units[j].stops = units[k].stops
              /\ \A q \in 1 .. p - 1 : packets[q].unit >= k => ~packets[q].marker

(* What the comments say of the end of a unit (h264or5_video_rtp_sink.c:262,  *)
(* "add the E bit if this is the last fragment", and 604-606: the marker bit  *)
(* is set if "the most recently delivered fragment was the end of (or the     *)
(* only fragment of) an NAL unit" that was the last of its picture): the      *)
(* last packet of a fragmented unit has the E bit, and the marker bit where   *)
(* the unit ends a picture.  The code never takes a fragment for the last one *)
(* (line 279 adds the offset to the size where it should subtract it).        *)
UnitEndMarked ==
  Len(packets) > 0 /\ num_valid_data_bytes = 1 /\ Fragmented =>
    LET last == packets[Len(packets)] IN
    /\ last.fragment[2] = Header("E", unit)
    /\ EndsPicture(last.unit) => last.marker
==============================================================================
