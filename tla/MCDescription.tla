----------------------------- MODULE MCDescription -----------------------------
(***************************************************************************)
(* Instances of module RtspClients.  The parameter sets are written here   *)
(* the way an H.264 encoder does (ITU-T H.264, 7.3.2.1.1, 7.4.1.1 and      *)
(* annex E), from the values of their fields: the code under test only     *)
(* ever sees the bytes.  A set is saved whole if it fills its windows of   *)
(* four bytes and none of them ends in a 0 or 1: three are, with escapes   *)
(* in one of them; Late and the picture parameter set are not.             *)
(***************************************************************************)
EXTENDS RtspClients

CONSTANTS alice, home, work, d1, d2, s1, s2, c1, c2
Ids == Permutations({s1, s2}) \cup Permutations({c1, c2}) \cup Permutations({d1, d2})

U(v, n) == [i \in 1 .. n |-> (v \div 2 ^ (n - i)) % 2]
UE(v) == LET k == CHOOSE n \in 0 .. 30 : 2 ^ n <= v + 1 /\ v + 1 < 2 ^ (n + 1)
         IN  U(0, k) \o U(v + 1, k + 1)
SE(v) == UE(IF v > 0 THEN 2 * v - 1 ELSE -2 * v)
Each(Code(_), values) == FlattenSeq([i \in DOMAIN values |-> Code(values[i])])
When(flag, bits) == IF flag THEN <<1>> \o bits ELSE <<0>>

(* A stop bit, zeros up to a whole byte, and a 3 before each byte below 4    *)
(* that follows two zeros.                                                   *)
Bytes(bits) ==
  LET stopped == Append(bits, 1)
      padded  == stopped \o U(0, (8 - (Len(stopped) % 8)) % 8)
  IN  [i \in 1 .. Len(padded) \div 8 |-> Number(SubSeq(padded, 8 * i - 7, 8 * i))]
Escaped(bytes) ==
  FoldLeft(LAMBDA to, byte :
             IF Len(to) >= 2 /\ to[Len(to)] = 0 /\ to[Len(to) - 1] = 0 /\ byte <= 3
             THEN to \o <<3, byte>> ELSE Append(to, byte),
           << >>, bytes)

Plain == [profile |-> <<66, 0, 30>>, chroma |-> 1, lists |-> << >>, frames |-> 4, poc |-> UE(2),
          refs |-> 3, interlaced |-> FALSE, crop |-> << >>, vui |-> << >>,
          num_units_in_tick |-> 0, time_scale |-> 0]
U32(v) == U(0, 1) \o U(v, 31)    \* values below 2^31
Clock(s) == When(s.time_scale > 0, U32(s.num_units_in_tick) \o U32(s.time_scale) \o <<1>>)

SpsBits(s) ==
     Each(LAMBDA v : U(v, 8), s.profile) \o UE(0)
  \o (IF s.profile[1] \notin {100, 244} THEN << >>
      ELSE UE(s.chroma) \o (IF s.chroma = 3 THEN <<0>> ELSE << >>) \o UE(0) \o UE(2) \o <<0>>
           \o When(s.lists # << >>, FlattenSeq(s.lists)))
  \o UE(s.frames) \o s.poc \o UE(s.refs) \o <<0>> \o UE(119) \o UE(67)
  \o (IF s.interlaced THEN <<0, 1>> ELSE <<1>>) \o <<1>>
  \o When(s.crop # << >>, Each(UE, s.crop))
  \o When(s.vui # << >> \/ s.time_scale > 0,
          (IF s.vui = << >> THEN <<0, 0, 0, 0>> ELSE s.vui) \o Clock(s) \o <<0, 0, 0, 0>>)

Sps(s) == [unit |-> Escaped(<<103>> \o Bytes(SpsBits(s))), profile |-> s.profile,
           num_units_in_tick |-> s.num_units_in_tick, time_scale |-> s.time_scale]

(* A list that ends after two factors, one with all its factors, and none.   *)
ShortList == When(TRUE, SE(8) \o SE(-16))
FullList(size) == When(TRUE, FlattenSeq([i \in 1 .. size |-> SE((i % 3) - 1)]))
NoList == When(FALSE, << >>)
SomeLists(n) == [i \in 1 .. n |-> IF i = 2 THEN ShortList ELSE IF i = 5 THEN FullList(16)
                                  ELSE IF i = 7 THEN FullList(64) ELSE NoList]

Without == Sps([Plain EXCEPT !.poc = UE(0) \o UE(4), !.crop = <<0, 1, 0, 2>>])
High == Sps([Plain EXCEPT !.profile = <<100, 0, 40>>, !.lists = SomeLists(8), !.frames = 7,
                          !.poc = UE(0) \o UE(4), !.refs = 15, !.crop = <<0, 0, 0, 4>>,
                          !.num_units_in_tick = 768, !.time_scale = 60000,
                          !.vui = When(TRUE, U(255, 8) \o U(40, 16) \o U(33, 16)) \o <<0, 0, 0>>])
Interlaced == Sps([Plain EXCEPT !.profile = <<244, 64, 31>>, !.chroma = 3, !.lists = SomeLists(12),
                                !.frames = 0, !.refs = 0, !.interlaced = TRUE, !.crop = <<0, 1, 0, 2>>,
                                !.poc = UE(1) \o <<0>> \o SE(-2) \o SE(1) \o UE(2) \o SE(3) \o SE(-4),
                                !.num_units_in_tick = 1001, !.time_scale = 65536,
                                !.vui = <<1>> \o U(1, 8) \o <<1, 1>> \o
                                        <<1>> \o U(10, 4) \o <<1>> \o U(65793, 24) \o
                                        <<1>> \o UE(1) \o UE(0)])
Late == Sps([Plain EXCEPT !.num_units_in_tick = 1, !.time_scale = 50])

MCSpsSets == {Without, High, Interlaced, Late}
MCPpsSets == {[unit |-> <<104, 0, 0, 3, 1>>]}
MCOwnSets == [sps : {Late}, pps : MCPpsSets]

(* A set and its copy have the profile behind the header.  The copies of the  *)
(* first three sets are whole; their clocks are for TimingAsWritten to check. *)
ASSUME InstanceAssumption ==
  /\ ProfilesRead
  /\ {s \in SpsSets \cup PpsSets : Whole(s)} = {Without, High, Interlaced}

(* Headers that answer each challenge with a comma behind the last field or   *)
(* without, and ones that name another realm.                                *)
Answer(user, realm, digest, more) ==
  [fields |-> "username" :> user @@ "realm" :> realm @@ "nonce" :> digest @@ "uri" :> "u"
              @@ "response" :> digest,
   more |-> more]
MCHeaders ==
  {NoHeader} \cup {Answer(alice, home, d, more) : d \in Digests, more \in BOOLEAN}
  \cup {Answer(alice, work, d, TRUE) : d \in Digests}

(* The stream; a track of it, written with an escape; a request without a     *)
(* blank.                                                                    *)
P(name, escaped) == [name |-> name, escaped |-> escaped]
R(path) == [path |-> path, cseq |-> TRUE, blank |-> TRUE]
MCRequests ==
  {R(<<P("stream", FALSE)>>), R(<<P("stream", TRUE), P("track1", FALSE)>>),
   [R(<<P("stream", FALSE)>>) EXCEPT !.blank = FALSE]}
===============================================================================
