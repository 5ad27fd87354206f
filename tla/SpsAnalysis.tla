------------------------------ MODULE SpsAnalysis ------------------------------
(***************************************************************************)
(* What the framer learns from the first sequence parameter sets of an     *)
(* H.264 stream (livemedia/h264or5_video_stream_framer.c): the units of    *)
(* the stream's clock, from which it takes the frame rate.                 *)
(*                                                                         *)
(* The parse is a chain of readers (module BitVector).  Hypothetical       *)
(* reference decoder parameters have no parser: their bits are taken for   *)
(* the flags behind them, which no longer touch the clock.                 *)
(***************************************************************************)
EXTENDS BitVector

SpsMaxSize == 1000

(* Copies the bytes of a unit without the 3 of every 0 0 3, while two more   *)
(* would fit: into a buffer of the unit's own size all but the last one.     *)
RemoveEmulationBytes(max, from) ==
  LET Skips(i) == i + 2 <= Len(from) /\ from[i] = 0 /\ from[i + 1] = 0 /\ from[i + 2] = 3
      Take[i \in 1 .. Len(from) + 3, to \in Seq(0 .. 255)] ==
        IF i > Len(from) \/ Len(to) + 1 >= max THEN to
        ELSE IF Skips(i) THEN Take[i + 3, to \o <<0, 0>>]
        ELSE Take[i + 1, Append(to, from[i])]
  IN  Take[1, << >>]

Flag(p) == GetBits(p, 1)
Ue(p) == GetExpGolomb(p)
Times(n, Op(_), p) == FoldLeft(LAMBDA q, i : Op(q), p, [i \in 1 .. n |-> i])

(* A flag, and what follows it when it is set. *)
Optional(p, Op(_)) == IF Flag(p).v = 1 THEN Op(Flag(p)) ELSE Flag(p)

(* A list of factors: each is a difference to the one before; after a factor *)
(* of zero no more are written.                                              *)
ScalingList(p, size) ==
  LET Step(s, i) ==
        IF s.next = 0 THEN s
        ELSE LET delta == GetExpGolombSigned(s.p)
                 next  == (s.last + delta.v + 256) % 256
             IN  [p |-> delta, next |-> next, last |-> IF next = 0 THEN s.last ELSE next]
  IN  FoldLeft(Step, [p |-> p, last |-> 8, next |-> 8], [i \in 1 .. size |-> i]).p

ScalingMatrix(p, chroma) ==
  FoldLeft(LAMBDA q, size : Optional(q, LAMBDA o : ScalingList(o, size)), p,
           [i \in 1 .. (IF chroma = 3 THEN 12 ELSE 8) |-> IF i <= 6 THEN 16 ELSE 64])

HighProfiles == {100, 110, 122, 244, 44, 83, 86, 118, 128}

(* chroma_format_idc to the scaling matrix. *)
HighProfileFields(p) ==
  LET chroma == Ue(p)
      plane  == IF chroma.v = 3 THEN Flag(chroma) ELSE chroma
  IN  Optional(SkipBits(Times(2, Ue, plane), 1), LAMBDA o : ScalingMatrix(o, chroma.v))

PictureOrderCount(p) ==
  LET type   == Ue(p)
      offset == Times(3, Ue, SkipBits(type, 1))
  IN  CASE type.v = 0 -> Ue(type)
        [] type.v = 1 -> Times(offset.v, GetExpGolombSigned, offset)
        [] OTHER      -> type

NoTiming == [num_units_in_tick |-> 0, time_scale |-> 0]

(* Video usability information, up to the clock.                             *)
AnalyzeVuiParameters(p) ==
  LET AspectRatio(o) == IF GetBits(o, 8).v = 255 THEN SkipBits(o, 40) ELSE SkipBits(o, 8)
      Signal(o)      == Optional(SkipBits(o, 4), LAMBDA c : SkipBits(c, 24))
      overscan       == Optional(Optional(p, AspectRatio), LAMBDA o : SkipBits(o, 1))
      chroma_loc     == Optional(Optional(overscan, Signal), LAMBDA o : Times(2, Ue, o))
      timing         == Flag(chroma_loc)
      units          == GetBits(timing, 32)
  IN  IF timing.v = 0 THEN NoTiming
      ELSE [num_units_in_tick |-> units.v, time_scale |-> GetBits(units, 32).v]

(* Picture sizes, cropping, usability information.                           *)
AnalyzePictureFields(p) ==
  LET frame_mbs_only == Flag(Times(2, Ue, Flag(Ue(p))))
      direct_8x8     == SkipBits(frame_mbs_only, IF frame_mbs_only.v = 0 THEN 2 ELSE 1)
      vui            == Flag(Optional(direct_8x8, LAMBDA o : Times(4, Ue, o)))
  IN  IF vui.v = 1 THEN AnalyzeVuiParameters(vui) ELSE NoTiming

(* Mutant: the unit is parsed with its emulation prevention bytes. *)
AnalyzeAsSent(unit) ==
  LET profile == GetBits(SkipBits(NewBitVector(unit), 8), 8)
      id      == Ue(SkipBits(profile, 16))
      format  == IF profile.v \in HighProfiles THEN HighProfileFields(id) ELSE id
  IN  AnalyzePictureFields(PictureOrderCount(Ue(format)))

AnalyzeSeqParameterSetData(unit) ==
  LET profile == GetBits(SkipBits(NewBitVector(RemoveEmulationBytes(SpsMaxSize, unit)), 8), 8)
      id      == Ue(SkipBits(profile, 16))
      format  == IF profile.v \in HighProfiles THEN HighProfileFields(id) ELSE id
  IN  AnalyzePictureFields(PictureOrderCount(Ue(format)))

(* The rate as a fraction: the first set with a clock decides.               *)
NoRate == <<25, 1>>    \* frame_rate before any was parsed
ParsedFrameRate(rate, timing) ==
  IF rate # NoRate \/ timing.num_units_in_tick = 0 \/ timing.time_scale = 0 THEN rate
  ELSE <<timing.time_scale, 2 * timing.num_units_in_tick>>
===============================================================================
