-------------------------------- MODULE Base64 --------------------------------
(***************************************************************************)
(* Text of bytes (livemedia/base64.c), as it carries the parameter sets in *)
(* a description (h264_video_rtp_source.c takes them out again).  A letter *)
(* is its index in the alphabet; Pad stands for '=' and Comma separates.   *)
(***************************************************************************)
EXTENDS Integers, SequencesExt

Pad == 64
Comma == 65

(* The table: padding reads as zero, and so does what is no letter.          *)
DecodeTable(letter) == IF letter \in 0 .. 63 THEN letter ELSE 0

(* The letters of up to three bytes. *)
EncodeGroup(g) ==
  LET a == g[1]
      b == IF Len(g) > 1 THEN g[2] ELSE 0
      c == IF Len(g) > 2 THEN g[3] ELSE 0
  IN  <<a \div 4, (16 * (a % 4)) + b \div 16,
        IF Len(g) > 1 THEN (4 * (b % 16)) + c \div 64 ELSE Pad,
        IF Len(g) > 2 THEN c % 64 ELSE Pad>>

(* Groups of a size, one behind the other.                                   *)
Joined(groups, size) ==
  [k \in 1 .. size * Len(groups) |-> groups[((k - 1) \div size) + 1][((k - 1) % size) + 1]]

Base64Encode(bytes) ==
  Joined([i \in 1 .. (Len(bytes) + 2) \div 3 |->
            EncodeGroup(SubSeq(bytes, 3 * i - 2, IF 3 * i < Len(bytes) THEN 3 * i ELSE Len(bytes)))], 4)

DecodeGroup(letters) ==
  LET l == [i \in 1 .. 4 |-> DecodeTable(letters[i])]
  IN  <<4 * l[1] + l[2] \div 16, ((16 * l[2]) % 256) + l[3] \div 4, ((64 * l[3]) % 256) + l[4]>>

(* As many zeros are taken off the end as there was padding.                 *)
TrimTrailingZeros(bytes, padding) ==
  LET kept == SelectLastInSeq(bytes, LAMBDA byte : byte # 0)
  IN  SubSeq(bytes, 1, IF Len(bytes) - kept <= padding THEN kept ELSE Len(bytes) - padding)

Base64Decode(letters) ==
  LET groups == Len(letters) \div 4
      text   == SubSeq(letters, 1, 4 * groups)
  IN  TrimTrailingZeros(
        Joined([i \in 1 .. groups |-> DecodeGroup(SubSeq(text, 4 * i - 3, 4 * i))], 3),
        Cardinality({k \in 1 .. Len(text) : text[k] = Pad}))

(* Where the record ends that begins behind i: at a comma, or with the text. *)
RecordEnd(text, i) == Min({j \in i + 1 .. Len(text) + 1 : j > Len(text) \/ text[j] = Comma})

(* As many records as there are commas, and one. *)
ParseSPropParameterSets(text) ==
  LET num_s_prop_records == Cardinality({k \in 1 .. Len(text) : text[k] = Comma}) + 1
      End[i \in 0 .. num_s_prop_records] == IF i = 0 THEN 0 ELSE RecordEnd(text, End[i - 1])
  IN  [i \in 1 .. num_s_prop_records |-> Base64Decode(SubSeq(text, End[i - 1] + 1, End[i] - 1))]
===============================================================================
