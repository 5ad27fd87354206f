-------------------------- MODULE ServerMediaSession --------------------------
(***************************************************************************)
(* The server media session of livemedia/server_media_session.c: its       *)
(* subsessions in the order they were added, what they agree on, and the   *)
(* description a client gets of them.  Operators on a sequence of          *)
(* subsessions; a subsession is a record of what its class answers:        *)
(*   scales    the speeds it can play at                                   *)
(*   duration  in seconds, 0 when it does not know                         *)
(*   absolute  it is sought by clock time                                  *)
(* and a session is a sequence of them.                                    *)
(***************************************************************************)
EXTENDS Integers, SequencesExt, FiniteSetsExt

CONSTANT Subsessions
ASSUME SubsessionsAssumption ==
  \A s \in Subsessions :
    s.duration \in Nat /\ 1 \in s.scales /\ s.scales \subseteq Int /\ IsFiniteSet(s.scales)

Distance(m, n) == IF m < n THEN n - m ELSE m - n

(* Track numbers are given in the order of adding; a subsession belongs to   *)
(* one session.                                                              *)
MayAdd(session, sub) == ~Contains(session, sub)
AddSubsession(session, sub) == Append(session, sub)

(* What a class without a test of its own answers, and what one that plays   *)
(* at some speeds does: the nearest of them.                                 *)
DefaultTestScale(scale) == 1
SubTestScale(sub, scale) ==
  IF sub.scales = {1} THEN DefaultTestScale(scale)
  ELSE CHOOSE s \in sub.scales :
         \A o \in sub.scales : Distance(s, scale) <= Distance(o, scale)

(* The scale with nobody trying again.                                       *)
TestScaleFactorOnce(session, scale) ==
  LET got == [i \in DOMAIN session |-> SubTestScale(session[i], scale)]
      near == Min({Distance(got[i], 1) : i \in DOMAIN got})
  IN  IF session = << >> THEN 1
      ELSE got[Min({i \in DOMAIN got : Distance(got[i], 1) = near})]

(* All subsessions try the scale; when they end up apart, the first of those *)
(* nearest to 1 is tried by all, and when one of them refuses it, all are    *)
(* set to 1.                                                                 *)
TestScaleFactor(session, scale) ==
  LET got == [i \in DOMAIN session |-> SubTestScale(session[i], scale)]
      near == Min({Distance(got[i], 1) : i \in DOMAIN got})
      best == got[Min({i \in DOMAIN got : Distance(got[i], 1) = near})]
  IN  IF session = << >> THEN 1
      ELSE IF \A i \in DOMAIN got : got[i] = got[1] THEN got[1]
      ELSE IF \A i \in DOMAIN session : SubTestScale(session[i], best) = best THEN best
      ELSE 1

(* Negative when the tracks have no range in common.                         *)
SessionDuration(session) ==
  LET durations == {session[i].duration : i \in DOMAIN session}
  IN  IF \E i \in DOMAIN session : session[i].absolute THEN -1
      ELSE IF session = << >> THEN 0
      ELSE IF Cardinality(durations) > 1 THEN -Max(durations)
      ELSE Max(durations)

(* A line of the description about the range: << >> (none), <<"clock">>,     *)
(* <<"npt">> (open) or <<"npt", end>>.                                       *)
NoLine == << >>
NptLine(duration) == IF duration = 0 THEN <<"npt">> ELSE <<"npt", duration>>

RangeSdpLine(session, sub) ==
  IF sub.absolute THEN <<"clock">>
  ELSE IF SessionDuration(session) >= 0 THEN NoLine
  ELSE NptLine(sub.duration)

SessionRangeLine(session) ==
  IF SessionDuration(session) >= 0 THEN NptLine(SessionDuration(session)) ELSE NoLine

(* generate_sdp_description(): the lines the tracks have kept since they     *)
(* were first asked.  A session nobody can describe has no description.      *)
NoSdp == [session |-> NoLine, tracks |-> << >>]
GenerateSdpDescription(session, lines) ==
  IF session = << >> THEN NoSdp
  ELSE [session |-> SessionRangeLine(session), tracks |-> lines]
===============================================================================
