------------------------------- MODULE PlayRange ------------------------------
(***************************************************************************)
(* DESCRIBE and PLAY of a session, as far as time goes (livemedia/         *)
(* rtsp_server.c, rtsp_common.c, on_demand_server_media_subsession.c): the *)
(* scale and the range a client asks for, the seeks they become, and the   *)
(* answer.  Times are seconds, and the subsessions make a source for each  *)
(* client.                                                                 *)
(*                                                                         *)
(* A seek is a request to a track and what the server remembers of it: the *)
(* implementations of seek_stream_source and set_stream_source_duration    *)
(* move no source.  Where a track is being played the server cannot tell:  *)
(* the presentation times of a sink are asked of stubs that return nothing *)
(* (rtp_sink.c:292-306), through a caller that returns nothing either      *)
(* (server_media_session.c:829-836).  A PLAY that resumes reads through    *)
(* whatever pointers the stubs leave, and the process dies or goes on with *)
(* any time.                                                               *)
(***************************************************************************)
EXTENDS ServerMediaSession

CONSTANTS Ranges, Scales, MaxTracks, MaxTime \* MaxTracks, MaxTime: bounds, the latter of the times read

NotAsked == [kind |-> "none"]

ASSUME RangeAssumption ==
  /\ Scales \subseteq Int \ {0}
  /\ MaxTracks \in Nat /\ MaxTime \in Nat
  /\ \A r \in Ranges : r.kind = "npt" => r.start[2] \in Nat /\ r.end[2] \in Nat

VARIABLES
  session,    \* the subsessions, in the order of their tracks
  lines,      \* the range lines of the tracks, kept from the first DESCRIBE
  sdp,        \* the last description
  set_up,     \* the tracks of the client's SETUPs (it has stream states)
  start_npt,  \* where the server believes that a track was started
  told,       \* the duration that a track was asked to play
  answer      \* the answer to a PLAY, until it is sent

play_vars == <<session, lines, sdp, set_up, start_npt, told, answer>>

Tracks == DOMAIN session
NoAnswer == [kind |-> "no_answer"]
Answered == [kind |-> "answered"]
Died == [kind |-> "died"]

----
(* The headers.  A time is <<form, seconds>>, its form one of "none", "secs", *)
(* "hms" (hours:minutes:seconds) and "now".                                  *)
HourOf(t) == t \div 3600

Parsed(ok, now, start, end) ==
  [ok |-> ok, abs |-> FALSE, now |-> now, start |-> start, end |-> end]

(* The formats are tried one after the other, each on the whole text: a      *)
(* start in hours hides an end in seconds, and an end in hours behind no     *)
(* start is read as a start whose hour has the sign.                         *)
ParseNpt(start, end) ==
  LET from == start[1]  to == end[1]  s == start[2]  e == end[2]
  IN  CASE from = "hms"  -> Parsed(TRUE, FALSE, s, IF to = "hms" THEN e ELSE 0)
        [] from = "secs" -> Parsed(TRUE, FALSE, s, IF to \in {"hms", "secs"} THEN e ELSE 0)
        [] from = "none" /\ to = "hms"  ->
             Parsed(TRUE, FALSE, (e % 3600) - 3600 * HourOf(e), 0)
        [] from = "none" /\ to = "secs" -> Parsed(TRUE, TRUE, 0, e)
        [] from = "now"  ->
             Parsed(TRUE, TRUE, 0, IF to = "hms" THEN HourOf(e) ELSE IF to = "secs" THEN e ELSE 0)
        [] OTHER         -> Parsed(FALSE, FALSE, 0, 0)

(* parse_range_param().                                                      *)
ParseRangeParam(range) ==
  CASE range.kind = "npt"   -> ParseNpt(range.start, range.end)
    [] range.kind = "clock" -> [Parsed(TRUE, FALSE, 0, 0) EXCEPT !.abs = TRUE]
    [] range.kind = "smtpe" -> Parsed(TRUE, FALSE, 0, 0)
    [] OTHER                -> Parsed(FALSE, FALSE, 0, 0)

(* parse_range_header(): a request without the header, and one with a header *)
(* that makes no sense.                                                      *)
ParseRangeHeader(range) ==
  IF range = NotAsked THEN Parsed(FALSE, FALSE, 0, 0) ELSE ParseRangeParam(range)

(* parse_scale_header(): 0 stands for no header.                             *)
ParseScaleHeader(scale) == IF scale = 0 THEN 1 ELSE scale

----
(* handle_cmd_play().  The range is brought into the stream, whose length is *)
(* 0 when nobody knows it, and put the right way around for the scale.       *)
Clipped(t, duration) == IF t < 0 THEN 0 ELSE IF t > duration THEN duration ELSE t

(* With the ends put right for playing forward only.                        *)
SaneRangeForward(p, duration, scale) ==
  LET s == Clipped(p.start, duration)
      e == Clipped(p.end, duration)
      around == s > e /\ e > 0
  IN  [p EXCEPT !.start = IF around THEN e ELSE s, !.end = IF around THEN s ELSE e]

SaneRange(p, duration, scale) ==
  LET s == Clipped(p.start, duration)
      e == Clipped(p.end, duration)
      around == (scale > 0 /\ s > e /\ e > 0) \/ (scale < 0 /\ s < e)
  IN  [p EXCEPT !.start = IF around THEN e ELSE s, !.end = IF around THEN s ELSE e]

(* A length of 0 means "until the end of the media".                         *)
StreamDuration(p, duration) ==
  IF p.end > 0 /\ p.end < duration THEN Distance(p.start, p.end) ELSE 0

(* What get_current_npt() of a track may come to. *)
CurrentNpts == -MaxTime .. MaxTime

(* seek_stream_relative() of the tracks in which.                            *)
Sought(which, p, duration) ==
  /\ start_npt' = [t \in Tracks |-> IF t \in which THEN p.start ELSE start_npt[t]]
  /\ told' = [t \in Tracks |-> IF t \in which THEN StreamDuration(p, duration) ELSE told[t]]

(* null_seek_stream() of the tracks in which, npt being their current NPTs.   *)
SoughtNowhere(which, p, npt) ==
  /\ start_npt' = [t \in Tracks |-> IF t \in which THEN npt[t] ELSE start_npt[t]]
  /\ told' = [t \in Tracks |->
                IF t \in which THEN IF p.end < npt[t] THEN 0 ELSE p.end - npt[t] ELSE told[t]]

(* The tracks a PLAY is for: all of them, or the one that is named.  A track *)
(* alone is sought only when it is the only one of the session.              *)
SeeksTracks(which) == which = 0 \/ Cardinality(Tracks) = 1

Play(which, scale_header, range) ==
  LET scale == IF which = 0 THEN TestScaleFactor(session, ParseScaleHeader(scale_header))
               ELSE SubTestScale(session[which], ParseScaleHeader(scale_header))
      saw == ParseRangeHeader(range)
      known == IF which = 0 THEN SessionDuration(session) ELSE session[which].duration
      duration == IF known < 0 THEN -known ELSE known
      p == IF saw.ok /\ ~saw.abs THEN SaneRange(saw, duration, scale) ELSE saw
      resumes == ~saw.ok \/ saw.now
      sought == IF SeeksTracks(which) THEN set_up ELSE {}
      asked == IF which = 0 THEN Tracks ELSE {which}
      Answer(kind, start) ==
        [kind |-> kind, which |-> which, scale |-> scale, duration |-> duration,
         start |-> start, end |-> p.end, open |-> p.end = 0 /\ scale >= 0]
  IN  /\ answer \in {NoAnswer, Answered}
      /\ set_up # {}
      /\ UNCHANGED <<session, lines, sdp, set_up>>
      /\ \/ /\ saw.abs
            /\ UNCHANGED <<start_npt, told>>
            /\ answer' = [kind |-> "clock", scale |-> scale, which |-> which]
         \/ /\ ~saw.abs /\ ~resumes
            /\ Sought(sought, p, duration)
            /\ answer' = Answer("sought", p.start)
         \/ /\ ~saw.abs /\ resumes
            /\ \E npt \in [sought -> CurrentNpts], largest \in CurrentNpts :
                 /\ SoughtNowhere(sought, p, npt)
                 /\ answer' = Answer("resumed", Max({0, largest}))
         \/ /\ ~saw.abs /\ resumes /\ asked \cap set_up # {}
            /\ UNCHANGED <<start_npt, told>>
            /\ answer' = Died

----
(* main() adds the subsessions before the server listens.                    *)
Add(sub) ==
  /\ lines = << >> /\ set_up = {}
  /\ Len(session) < MaxTracks /\ MayAdd(session, sub)
  /\ session' = AddSubsession(session, sub)
  /\ start_npt' = Append(start_npt, 0)
  /\ told' = Append(told, 0)
  /\ UNCHANGED <<lines, sdp, set_up, answer>>

DescribeTracks ==
  /\ session # << >> /\ answer # Died
  /\ lines' = IF lines = << >> THEN [t \in Tracks |-> RangeSdpLine(session, session[t])]
              ELSE lines
  /\ sdp' = GenerateSdpDescription(session, lines')
  /\ UNCHANGED <<session, set_up, start_npt, told, answer>>

SetUp(t) ==
  /\ sdp # NoSdp /\ answer = NoAnswer
  /\ set_up' = set_up \cup {t}
  /\ UNCHANGED <<session, lines, sdp, start_npt, told, answer>>

(* The answer goes out before the next request is looked at.                 *)
SendAnswer ==
  /\ answer \notin {NoAnswer, Answered, Died}
  /\ answer' = Answered
  /\ UNCHANGED <<session, lines, sdp, set_up, start_npt, told>>

PlayInit ==
  /\ session = << >> /\ lines = << >> /\ sdp = NoSdp /\ set_up = {}
  /\ start_npt = << >> /\ told = << >>
  /\ answer = NoAnswer

PlayNext ==
  \/ \E sub \in Subsessions : Add(sub)
  \/ DescribeTracks \/ SendAnswer
  \/ \E t \in Tracks : SetUp(t)
  \/ \E which \in {0} \cup Tracks, scale \in {0} \cup Scales, range \in Ranges \cup {NotAsked} :
       Play(which, scale, range)

PlaySpec == PlayInit /\ [][PlayNext]_play_vars

----
(* The answer to a PLAY that seeks gives the part of the stream that the     *)
(* tracks were asked to play: it lies in the stream, its ends are the way    *)
(* around the scale needs, every track that was sought is taken to begin at  *)
(* its start, and asked to stop at its end unless that is the end of the     *)
(* stream (rtsp_server.c:3031-3136).  Of the answer to a PLAY that resumes   *)
(* nothing is said: its start is read from nowhere.                          *)
PlaysWhatItSays ==
  answer.kind = "sought" =>
    /\ answer.start \in 0 .. answer.duration /\ answer.end \in 0 .. answer.duration
    /\ answer.scale > 0 => answer.open \/ answer.start <= answer.end
    /\ answer.scale < 0 => answer.end <= answer.start
    /\ SeeksTracks(answer.which) =>
         \A t \in set_up :
           /\ start_npt[t] = answer.start
           /\ \/ told[t] = 0 /\ answer.end \in {0, answer.duration}
              \/ told[t] = Distance(answer.start, answer.end)

(* What is said of the session as a whole holds for each of its tracks: the  *)
(* speed a PLAY answers is one at which all of them play, and a client finds *)
(* the length of each track in the description, once                         *)
(* (server_media_session.c:404-516, 1069-1115).                              *)
SpeaksForAllTracks ==
  /\ answer \notin {NoAnswer, Answered, Died} /\ answer.which = 0 =>
       \A t \in Tracks : answer.scale \in session[t].scales
  /\ sdp # NoSdp =>
       \A t \in Tracks :
         LET own == IF session[t].absolute THEN <<"clock">> ELSE NptLine(session[t].duration)
         IN  \/ sdp.session = own /\ sdp.tracks[t] = NoLine
             \/ sdp.session = NoLine /\ sdp.tracks[t] = own
===============================================================================
