------------------------------ MODULE RtpSession ------------------------------
(***************************************************************************)
(* An RTP sink and the RTCP instance that reports on it (livemedia/rtcp.c  *)
(* and rtcp_from_spec.c), as one stream of the server holds them.          *)
(*                                                                         *)
(* The instance sends reports on demand, when a client starts to play, and *)
(* on a timer.  A report says at which RTP time the wall clock stands,     *)
(* which the receivers match with the packets, and how much was sent.      *)
(* The two share the time stamp base of the sink and nothing else.         *)
(*                                                                         *)
(* Reports that arrive, goodbyes and the reaping of members have no body.  *)
(* The interval of rtcp_interval() is any number of seconds: the average   *)
(* packet size it depends on comes from a function that returns nothing.   *)
(***************************************************************************)
EXTENDS RtpSink

CONSTANTS
  RtcpPreferred, RtcpMax, RtcpBuffer, \* sizes given to the packet buffer
  CnameLength,  \* bytes in the name of the host
  MaxInterval,  \* bound: the longest interval
  DelayUnit,    \* how long a delay of one second lasts (10^6 in the code: it
                \* counts microseconds, times 1000, for a timer of milliseconds)
  MaxReports    \* bound: how many reports are sent

ASSUME RtcpAssumption ==
  /\ {RtcpPreferred, RtcpMax, RtcpBuffer, CnameLength} \subseteq Nat /\ RtcpMax > 0
  /\ {MaxInterval, DelayUnit, MaxReports} \subseteq Nat

VARIABLES
  rtcp,    \* the RTCP instance
  reports  \* history: the reports that went out

vars == <<sink_vars, rtcp, reports>>

Init ==
  /\ SinkInit
  /\ rtcp = [exists |-> FALSE, prev_report_time |-> 0, expires |-> 0,
             out_buf |-> NewBuffer(RtcpPreferred, RtcpMax, RtcpBuffer)]
  /\ reports = << >>

------------------------------------------------------------------------------
RtcpHeader(type, length) == <<"rtcp", type, length>>
SR == 200
SDES == 202
Ntp(t) == <<"ntp", t, 0>>
Count(n) == <<"count", n, 0>>

(* add_sr(): the prefix counts the source id and five words of sender info;  *)
(* there are no report blocks, for the instance has no source.               *)
AddSr(b, s, t) ==
  Enqueue(Enqueue(b, <<RtcpHeader(SR, 1 + 5), Ssrc>>),
          <<Ntp(t), Ntp(0), Timestamp(RtpTimestamp(s, t)),
            Count(s.packet_count), Count(s.octet_count)>>)

(* add_sdes(): one item, behind it zero bytes up to the next word and at     *)
(* least one.  The bytes of the item are zero too: its text is moved behind  *)
(* the structure (rtcp.c:1179).                                              *)
AddSdes(b) ==
  LET total_size     == 2 + Least(CnameLength, 255)
      num4_byte_words == (4 + total_size + 1 + 3) \div 4
      padding        == 4 - (total_size % 4)
  IN  Enqueue(Enqueue(b, <<RtcpHeader(SDES, num4_byte_words), Ssrc>>),
              [i \in 1 .. (total_size + padding) \div 4 |-> Blank])

(* A report fits into the buffer, as 296 bytes, with the longest item, do    *)
(* into the 1438 of the code: seven words, and what add_sdes() adds.         *)
ASSUME ReportFits ==
  RtcpBuffer > 0 /\ 7 + 2 + ((2 + Least(CnameLength, 255)) \div 4 + 1) <= RtcpMax

(* Mutant: a report is added while a time stamp is preset. *)
MayReportAlways(s) == TRUE

(* add_report(): not while the time stamp of the next packet is preset.      *)
MayReport(s) == ~s.preset

(* The instance after send_report(), at the time now. *)
SendReport(r) ==
  IF MayReport(sink)
    THEN LET built == AddSdes(AddSr(r.out_buf, sink, now))
         IN  /\ rtcp' = [r EXCEPT !.out_buf = ResetOffset(built)]
             /\ reports' = Append(reports,
                  [words |-> Packet(built), time |-> now, after |-> Len(packets)])
             /\ sink' = Converted(sink, now)
    ELSE rtcp' = r /\ UNCHANGED <<reports, sink>>

(* schedule(): the timer of the instance, for t seconds from now.            *)
Scheduled(r, t) == [r EXCEPT !.expires = now + DelayUnit * t]

(* The constructor ends with on_expire(), which finds that the first         *)
(* interval, counted from now, is not over.                                  *)
CreateRtcp ==
  /\ ~rtcp.exists
  /\ \E t \in 1 .. MaxInterval :
       rtcp' = Scheduled([rtcp EXCEPT !.exists = TRUE, !.prev_report_time = now], t)
  /\ UNCHANGED <<sink_vars, reports>>

(* The report on the start of playing. *)
ReportNow ==
  /\ rtcp.exists
  /\ Len(reports) < MaxReports
  /\ SendReport(rtcp)
  /\ UNCHANGED <<source_vars, now, starts, announced, packets>>

(* on_expire(): the interval is drawn anew, so the time may not have come.   *)
OnExpire ==
  /\ rtcp.exists /\ rtcp.expires <= now
  /\ Len(reports) < MaxReports
  /\ \E t, next \in 1 .. MaxInterval :
       IF rtcp.prev_report_time + t <= now
         THEN SendReport(Scheduled([rtcp EXCEPT !.prev_report_time = now], next))
         ELSE /\ rtcp' = Scheduled(rtcp, rtcp.prev_report_time + t - now)
              /\ UNCHANGED <<sink, reports>>
  /\ UNCHANGED <<source_vars, now, starts, announced, packets>>

Next ==
  \/ SinkNext /\ UNCHANGED <<rtcp, reports>>
  \/ CreateRtcp
  \/ ReportNow
  \/ OnExpire

Spec == Init /\ [][Next]_vars

------------------------------------------------------------------------------
(* The packet buffers are within their bounds, nothing overflows, and the    *)
(* buffer of the reports is empty between two of them (media_sink.c,         *)
(* multi_framed_rtp_sink.c).                                                 *)
TypeOK ==
  /\ sink.seq_no \in 0 .. SeqMod - 1 /\ sink.timestamp_base \in 0 .. TimestampMod - 1
  /\ \A b \in {sink.buf, rtcp.out_buf} : Cur(b) \in 0 .. b.limit
  /\ ~sink.overflowed
  /\ rtcp.out_buf.cur_offset = 0 /\ rtcp.out_buf.packet_start = 0

(* Every packet is a header with the next number, a time stamp and the       *)
(* source id, then one whole frame and nothing else, whatever was stopped or *)
(* reported before (build_and_send_packet(), stop_playing()).                *)
PacketsWellFormed ==
  /\ TypeOK
  /\ \A i \in DOMAIN packets :
       LET words == packets[i].words
           n     == Len(words) - RtpHeaderSize
       IN  /\ words[1][1] = "header" /\ words[1][2] = (SeqMod - 2 + i) % SeqMod
           /\ words[2][1] = "timestamp" /\ words[3] = Ssrc
           /\ n \in 1 .. MaxOutput
           /\ SubSeq(words, 4, Len(words)) = [k \in 1 .. n |-> FrameWord(k, n)]

(* The packet after a PLAY carries the number and the time stamp that        *)
(* start_stream() asked for, whatever time the frame has and whichever       *)
(* reports came in between ("to ensure that that timestamp gets used",       *)
(* rtcp.c:749).                                                              *)
PresetIsUsed ==
  \A i \in DOMAIN packets : \A p \in packets[i].due :
    /\ packets[i].words[1][2] = p.seq
    /\ packets[i].words[2] = Timestamp(p.timestamp)

(* A report and the last packet before it lie on one clock: their time       *)
(* stamps are as far apart as their times.  And it counts what was sent.     *)
(* Its parts are as long as they say (add_sr(), add_sdes()).                 *)
ReportsTruthful ==
  \A i \in DOMAIN reports :
    LET words == reports[i].words
        n     == reports[i].after
        sdes  == words[1][3] + 2
        sent[k \in 0 .. n] ==
          IF k = 0 THEN 0 ELSE sent[k - 1] + Len(packets[k].words) - RtpHeaderSize
    IN  /\ words[1][2] = SR /\ words[sdes][2] = SDES
        /\ sdes + words[sdes][3] = Len(words)
        /\ words[6] = Count(n) /\ words[7] = Count(sent[n])
        /\ n > 0 =>
             words[5] = Timestamp((packets[n].words[2][2] + Ticks(reports[i].time)
                                     - Ticks(packets[n].time)) % TimestampMod)
===============================================================================
