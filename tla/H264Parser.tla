------------------------------ MODULE H264Parser ------------------------------
(***************************************************************************)
(* livemedia/h264or5_video_stream_framer.c over mpeg_video_stream_parser.c *)
(* and mpeg_video_stream_framer.c: the NAL units of an H.264 byte stream,  *)
(* cut out by a parser that is interrupted whenever its bytes have not yet *)
(* arrived and then starts again from the place it saved.                  *)
(*                                                                         *)
(* The bytes are read through the stream of module ByteStream, which the   *)
(* two banks of module StreamParser implement: a place in the stream that  *)
(* the parser reads on from, and one that it comes back to.  As the file   *)
(* subsession builds the framer: H.264, no start codes in the output, no   *)
(* access unit delimiters inserted.  The frame rate parsed from a          *)
(* parameter set is left out.                                              *)
(***************************************************************************)
EXTENDS Integers, Sequences, FiniteSetsExt

CONSTANTS
  Inputs,    \* the byte sequences the file may hold
  MaxRead,   \* the most bytes one read of the file supplies
  MaxSize,   \* max_size of the reader's buffer
  MaxStops   \* bound: how often the reader stops

ASSUME BoundsAssumption ==
  /\ \A s \in Inputs : s \in Seq(0 .. 255)
  /\ MaxRead \in Nat \ {0} /\ MaxSize \in Nat \ {0} /\ MaxStops \in Nat

VARIABLES
  input,          \* the file
  received,       \* how many of its bytes have arrived
  saved_place, place, \* saved and current place of the parser in the stream
  have_seen_eof,
  have_seen_first_start_code,
  have_seen_first_byte_of_nal_unit,
  first_byte_of_nal_unit,
  to, saved_to,   \* the bytes in the reader's buffer; how many of them are safe
  num_truncated_bytes, saved_num_truncated_bytes,
  last_seen_sps, last_seen_pps,
  picture_end_marker, picture_count,
  presentation_time, next_presentation_time, \* in frames
  phase,          \* idle, parsing, waiting for a read, stalled, closed
  origin,         \* history: where in the stream the unit being parsed began
  words,          \* history: the places its words were saved from
  units,          \* history: the units handed to the reader
  stops           \* history: how often the reader stopped

stream_vars == <<input, received>>
place_vars == <<saved_place, place, origin>>
first_byte_vars == <<have_seen_first_byte_of_nal_unit, first_byte_of_nal_unit>>
output_vars == <<to, saved_to, num_truncated_bytes, saved_num_truncated_bytes>>
picture_vars == <<last_seen_sps, last_seen_pps, picture_end_marker, picture_count,
                  presentation_time, next_presentation_time>>
vars == <<input, received, saved_place, place, origin, words, have_seen_eof,
          have_seen_first_start_code, have_seen_first_byte_of_nal_unit, first_byte_of_nal_unit,
          to, saved_to, num_truncated_bytes, saved_num_truncated_bytes,
          last_seen_sps, last_seen_pps, picture_end_marker, picture_count,
          presentation_time, next_presentation_time, phase, units, stops>>

Phases == {"idle", "parsing", "waiting", "stalled", "closed"}

Init ==
  /\ input \in Inputs
  /\ received = 0
  /\ saved_place = 0 /\ place = 0 /\ origin = 0 /\ words = << >>
  /\ have_seen_eof = FALSE
  /\ have_seen_first_start_code = FALSE
  /\ have_seen_first_byte_of_nal_unit = FALSE /\ first_byte_of_nal_unit = 0
  /\ to = << >> /\ saved_to = 0
  /\ num_truncated_bytes = 0 /\ saved_num_truncated_bytes = 0
  /\ last_seen_sps = << >> /\ last_seen_pps = << >>
  /\ picture_end_marker = TRUE /\ picture_count = 0
  /\ presentation_time = 0 /\ next_presentation_time = 0
  /\ phase = "idle"
  /\ units = << >> /\ stops = 0

------------------------------------------------------------------------------
(* NAL unit types and start codes. *)

nal_unit_type(byte) == byte % 32
is_sps(type) == type = 7
is_pps(type) == type = 8
is_vcl(type) == type \in 1 .. 5
is_eof(type) == type \in {10, 11}
usually_begin_access_unit(type) == type \in (6 .. 9) \cup (14 .. 18)

Byte(p) == input[p + 1]
Bytes(p, n) == SubSeq(input, p + 1, p + n)

(* What the parser looks for at place p, four bytes being there. *)
LongCode(p) == Bytes(p, 4) = <<0, 0, 0, 1>>
StartCode(p) == LongCode(p) \/ Bytes(p, 3) = <<0, 0, 1>>
CodeLength(p) == IF LongCode(p) THEN 4 ELSE 3

(* Whether the unit before a start code ends its picture, judged by the first *)
(* bytes of the unit at p behind it.                                         *)
NextBeginsPicture(p) ==
  LET next_type == nal_unit_type(Byte(p)) IN
    IF is_vcl(next_type) THEN Byte(p + 1) >= 128 ELSE usually_begin_access_unit(next_type)

EndsAccessUnit(type, p) ==
  is_eof(type) \/ (~usually_begin_access_unit(type) /\ NextBeginsPicture(p))

------------------------------------------------------------------------------
(* Saving and restoring. *)

Available(n) == place + n <= received

SetParseState ==
  /\ saved_place' = place'
  /\ saved_to' = Len(to')
  /\ saved_num_truncated_bytes' = num_truncated_bytes'

RestoreSavedParserState ==
  /\ place' = saved_place
  /\ to' = SubSeq(to, 1, saved_to)
  /\ num_truncated_bytes' = saved_num_truncated_bytes
  /\ UNCHANGED <<saved_place, saved_to, saved_num_truncated_bytes>>

(* save4_bytes(): a word that no longer fits is counted as truncated. *)
Save4Bytes(word) ==
  IF Len(to) + 4 > MaxSize
    THEN num_truncated_bytes' = num_truncated_bytes + 4 /\ UNCHANGED to
    ELSE to' = to \o word /\ UNCHANGED num_truncated_bytes

(* The first byte of a unit, noted once. *)
NoteFirstByte ==
  IF have_seen_first_byte_of_nal_unit
    THEN UNCHANGED first_byte_vars
    ELSE /\ first_byte_of_nal_unit' = Byte(place)
         /\ have_seen_first_byte_of_nal_unit' = TRUE

(* do_get_next_frame(): the reader gives an empty buffer and parse() starts. *)
GetNextFrame ==
  /\ phase = "idle"
  /\ phase' = "parsing"
  /\ to' = << >> /\ saved_to' = 0 /\ words' = << >>
  /\ num_truncated_bytes' = 0 /\ saved_num_truncated_bytes' = 0
  /\ UNCHANGED <<stream_vars, place_vars, have_seen_eof, have_seen_first_start_code,
                 first_byte_vars, picture_vars, units, stops>>

------------------------------------------------------------------------------
(* parse(), running. *)

Scanning == phase = "parsing" /\ have_seen_first_start_code /\ ~have_seen_eof
AtStartCode == Scanning /\ Available(4) /\ StartCode(place)

(* test4_bytes() finds fewer than four bytes: more are requested and parse()  *)
(* is left.                                                                  *)
AskForMore ==
  /\ phase = "parsing"
  /\ ~have_seen_first_start_code \/ ~have_seen_eof
  /\ ~Available(4)
  /\ phase' = "waiting"
  /\ UNCHANGED <<stream_vars, place_vars, words, have_seen_eof, have_seen_first_start_code,
                 first_byte_vars, output_vars, picture_vars, units, stops>>

(* The search for the first start code, which is a long one: a step over one  *)
(* byte, or over the code.                                                   *)
SkipToFirstStartCode ==
  /\ phase = "parsing" /\ ~have_seen_first_start_code
  /\ Available(4)
  /\ place' = IF LongCode(place) THEN place + 4 ELSE place + 1
  /\ origin' = place'
  /\ have_seen_first_start_code' = LongCode(place)
  /\ UNCHANGED <<stream_vars, words, have_seen_eof, first_byte_vars, to, num_truncated_bytes,
                 picture_vars, phase, units, stops>>
  /\ SetParseState

(* Mutant: four bytes are skipped where a start code may begin in them. *)
SaveBytesFourByFour ==
  /\ Scanning /\ Available(4) /\ ~StartCode(place)
  /\ NoteFirstByte
  /\ Save4Bytes(Bytes(place, 4)) /\ place' = place + 4 /\ words' = Append(words, place)
  /\ SetParseState
  /\ UNCHANGED <<stream_vars, origin, have_seen_eof, have_seen_first_start_code,
                 picture_vars, phase, units, stops>>

(* No start code at the current place: all four bytes are saved when no code  *)
(* can begin in them, else one.  That one byte goes out as the word that it  *)
(* is the low byte of, behind three bytes of zero.                           *)
WordAt(p) == IF Byte(p + 3) > 1 THEN Bytes(p, 4) ELSE <<0, 0, 0, Byte(p)>>
StepAt(p) == IF Byte(p + 3) > 1 THEN 4 ELSE 1

SaveBytes ==
  /\ Scanning /\ Available(4) /\ ~StartCode(place)
  /\ NoteFirstByte
  /\ Save4Bytes(WordAt(place))
  /\ place' = place + StepAt(place)
  /\ words' = Append(words, place)
  /\ SetParseState
  /\ UNCHANGED <<stream_vars, origin, have_seen_eof, have_seen_first_start_code,
                 picture_vars, phase, units, stops>>

(* The type of the unit that ends at a start code.  A parse that was          *)
(* interrupted behind the code takes the first byte of the code itself.      *)
FirstByte == IF have_seen_first_byte_of_nal_unit THEN first_byte_of_nal_unit ELSE Byte(place)
NextUnit == place + CodeLength(place)

(* Mutant: the flag of the first byte is not reset for the next unit. *)
FinishUnitKeepingFlag ==
  LET type == nal_unit_type(FirstByte) IN
  /\ UNCHANGED <<have_seen_first_byte_of_nal_unit>>
  /\ first_byte_of_nal_unit' = FirstByte
  /\ last_seen_sps' = IF is_sps(type) THEN to ELSE last_seen_sps
  /\ last_seen_pps' = IF is_pps(type) THEN to ELSE last_seen_pps
  /\ presentation_time' = next_presentation_time

(* The unit is complete: parameter sets are copied, the time is set. *)
FinishUnit ==
  LET type == nal_unit_type(FirstByte) IN
  /\ have_seen_first_byte_of_nal_unit' = FALSE
  /\ first_byte_of_nal_unit' = FirstByte
  /\ last_seen_sps' = IF is_sps(type) THEN to ELSE last_seen_sps
  /\ last_seen_pps' = IF is_pps(type) THEN to ELSE last_seen_pps
  /\ presentation_time' = next_presentation_time

(* Whether the end of the picture can be told without a look at the next unit. *)
TypeDecides(type) == is_eof(type) \/ usually_begin_access_unit(type)

(* test_bytes() finds fewer than three bytes of the next unit and parse() is  *)
(* left, the unit complete but not delivered.                                *)
InterruptedAtUnitEnd ==
  /\ AtStartCode
  /\ ~TypeDecides(nal_unit_type(FirstByte))
  /\ NextUnit + 3 > received
  /\ FinishUnit
  /\ place' = NextUnit
  /\ phase' = "waiting"
  /\ UNCHANGED <<stream_vars, saved_place, origin, words, have_seen_eof, have_seen_first_start_code,
                 output_vars, picture_end_marker, picture_count, next_presentation_time,
                 units, stops>>

(* The unit is handed to the reader.  The marker is raised by the end of a    *)
(* picture; only the reader lowers it again, where it takes the mark for a   *)
(* packet (do_special_frame_handling() of the sink, module VideoSink).  The  *)
(* count starts again with every unit.  A frame of no bytes counts as none:  *)
(* nothing is handed on and nothing requested.                               *)
Deliver(ends, taken) ==
  LET marker == ends \/ picture_end_marker
      count == picture_count + (IF ends THEN 1 ELSE 0)
  IN
  /\ taken => marker /\ to # << >>
  /\ IF to = << >>
       THEN phase' = "stalled" /\ picture_count' = count /\ UNCHANGED units
       ELSE /\ phase' = "idle" /\ picture_count' = 0
            /\ units' = Append(units,
                 [first |-> origin, last |-> place - 1, bytes |-> to, words |-> words,
                  truncated |-> num_truncated_bytes, marker |-> marker, taken |-> taken,
                  pictures |-> count, time |-> presentation_time', sps |-> last_seen_sps',
                  pps |-> last_seen_pps', stops |-> stops])
  /\ picture_end_marker' = (marker /\ ~taken)

(* The unit ends at a start code, and the next one is looked at. *)
EndUnit(taken) ==
  LET type == nal_unit_type(FirstByte) IN
  /\ AtStartCode
  /\ TypeDecides(type) \/ NextUnit + 3 <= received
  /\ FinishUnit
  /\ place' = NextUnit /\ origin' = NextUnit
  /\ UNCHANGED <<stream_vars, have_seen_eof, have_seen_first_start_code, to, words,
                 num_truncated_bytes, next_presentation_time, stops>>
  /\ SetParseState
  /\ Deliver(EndsAccessUnit(type, NextUnit), taken)

(* The end of the file was seen: what is left is saved byte by byte, and the  *)
(* read behind it leaves parse(), which delivers nothing.                    *)
SaveTrailing ==
  LET room == MaxSize - Len(to)
      left == received - place
      saved == IF left <= room THEN left ELSE room
  IN
  /\ phase = "parsing" /\ have_seen_first_start_code /\ have_seen_eof
  /\ IF left > 0 THEN NoteFirstByte ELSE UNCHANGED first_byte_vars
  /\ to' = to \o Bytes(place, saved)
  /\ num_truncated_bytes' = num_truncated_bytes + left - saved
  /\ place' = received
  /\ phase' = "waiting"
  /\ UNCHANGED <<stream_vars, saved_place, origin, words, have_seen_eof, have_seen_first_start_code,
                 saved_to, saved_num_truncated_bytes, picture_vars, units, stops>>

------------------------------------------------------------------------------
(* The source's answers, and the reader's stop. *)

(* A read supplies k bytes and the parse starts again. *)
BytesArrive(k) ==
  /\ phase = "waiting"
  /\ received + k <= Len(input)
  /\ received' = received + k
  /\ RestoreSavedParserState
  /\ phase' = "parsing"
  /\ UNCHANGED <<input, origin, words, have_seen_eof, have_seen_first_start_code, first_byte_vars,
                 picture_vars, units, stops>>

(* Mutant: the first end is not noted. *)
FirstClosureForgotten ==
  /\ phase = "waiting" /\ received = Len(input) /\ ~have_seen_eof
  /\ RestoreSavedParserState
  /\ phase' = "parsing"
  /\ UNCHANGED <<stream_vars, have_seen_eof, origin, words, have_seen_first_start_code,
                 first_byte_vars, picture_vars, units, stops>>

(* The file ends: parse again, for what is left. *)
FirstClosure ==
  /\ phase = "waiting" /\ received = Len(input) /\ ~have_seen_eof
  /\ have_seen_eof' = TRUE
  /\ RestoreSavedParserState
  /\ phase' = "parsing"
  /\ UNCHANGED <<stream_vars, origin, words, have_seen_first_start_code, first_byte_vars,
                 picture_vars, units, stops>>

(* It ends again: the reader is told. *)
SecondClosure ==
  /\ phase = "waiting" /\ received = Len(input) /\ have_seen_eof
  /\ have_seen_eof' = FALSE
  /\ phase' = "closed"
  /\ UNCHANGED <<stream_vars, place_vars, words, have_seen_first_start_code, first_byte_vars,
                 output_vars, picture_vars, units, stops>>

(* do_stop_getting_frames(): reset() and flush_input(), and the source stops. *)
StopGettingFrames ==
  /\ phase \in {"idle", "waiting", "stalled"}
  /\ stops < MaxStops
  /\ stops' = stops + 1
  /\ place' = received /\ saved_place' = received /\ origin' = received
  /\ have_seen_first_start_code' = FALSE
  /\ have_seen_first_byte_of_nal_unit' = FALSE
  /\ picture_end_marker' = TRUE /\ picture_count' = 0
  /\ phase' = "idle"
  /\ UNCHANGED <<stream_vars, words, have_seen_eof, first_byte_of_nal_unit, output_vars,
                 last_seen_sps, last_seen_pps, presentation_time, next_presentation_time, units>>

Parse ==
  \/ AskForMore
  \/ SkipToFirstStartCode
  \/ SaveBytes
  \/ InterruptedAtUnitEnd
  \/ \E taken \in BOOLEAN : EndUnit(taken)
  \/ SaveTrailing

Answer ==
  \/ \E k \in 1 .. MaxRead : BytesArrive(k)
  \/ FirstClosure
  \/ SecondClosure

Next == GetNextFrame \/ Parse \/ Answer \/ StopGettingFrames

Spec == Init /\ [][Next]_vars


------------------------------------------------------------------------------
(* The units of a file, by definition: what lies between two consecutive      *)
(* start codes from the first long one on.  A short code at the end of a long *)
(* one is not a code of its own, and a code needs four bytes to be seen.     *)

CodeAt(p) == StartCode(p) /\ (p > 0 => ~LongCode(p - 1))
Codes ==
  LET places == 0 .. Len(input) - 4 IN
    {p \in places : CodeAt(p) /\ \E q \in places : q <= p /\ LongCode(q)}
Spans ==
  LET codes == Codes
      Behind(p) == Min({q \in codes : q > p})
  IN {[first |-> p + CodeLength(p), last |-> Behind(p) - 1] : 
        p \in {q \in codes : \E r \in codes : r > q}}
SpanOf(unit) == [first |-> unit.first, last |-> unit.last]

TypeOf(span) == nal_unit_type(Byte(span.first))
NextUnitOf(span) == span.last + 1 + CodeLength(span.last + 1)

(* Whether the end of the picture can be told before the file ends. *)
Decidable(span) == TypeDecides(TypeOf(span)) \/ NextUnitOf(span) + 3 <= Len(input)

NoEmptyUnits == \A span \in Spans : span.first <= span.last

------------------------------------------------------------------------------
(* Types. *)
TypeOK ==
  /\ received \in 0 .. Len(input)
  /\ saved_place \in 0 .. received /\ place \in saved_place .. received
  /\ origin \in 0 .. received
  /\ {have_seen_eof, have_seen_first_start_code, have_seen_first_byte_of_nal_unit,
      picture_end_marker} \subseteq BOOLEAN
  /\ first_byte_of_nal_unit \in 0 .. 255
  /\ Len(to) <= MaxSize /\ saved_to \in 0 .. Len(to)
  /\ saved_num_truncated_bytes \in Nat
  /\ num_truncated_bytes \in Nat
  /\ phase \in Phases

(* The words that a unit was saved in follow each other from its first byte    *)
(* to its last.                                                              *)
WordsCover(unit) ==
  LET n == Len(unit.words) IN
  /\ n > 0
  /\ unit.words[1] = unit.first
  /\ \A i \in 1 .. n - 1 : unit.words[i + 1] = unit.words[i] + StepAt(unit.words[i])
  /\ unit.words[n] + StepAt(unit.words[n]) = unit.last + 1

(* The reader's buffer holds those words that fit; the others are counted as  *)
(* truncated.                                                                *)
Kept(n) == IF 4 * n <= MaxSize THEN n ELSE MaxSize \div 4

BytesAreTheWords(unit) ==
  LET n == Len(unit.words) IN
  /\ Len(unit.bytes) = 4 * Kept(n)
  /\ \A i \in 1 .. Kept(n) : \A j \in 1 .. 4 :
       unit.bytes[4 * (i - 1) + j] = WordAt(unit.words[i])[j]
  /\ unit.truncated = 4 * (n - Kept(n))

(* However the file is cut into reads, and wherever the parser is interrupted *)
(* or stopped, every unit handed on is one of the file, none is handed on     *)
(* twice or out of order, and without a stop none is left out.  Its bytes are *)
(* those of the file, each once and in order, but not they alone: one that    *)
(* was saved by itself has three bytes of zero before it, against what the    *)
(* code says of it (h264or5_video_stream_framer.c:823 and 832: "Save the      *)
(* first byte", "forming a complete NAL unit"; 824 calls save4_bytes()).      *)
UnitsInOrder ==
  LET spans == Spans IN
  /\ TypeOK
  /\ \A k \in 1 .. Len(units) :
       LET span == SpanOf(units[k]) IN
       /\ span \in spans
       /\ k > 1 => units[k - 1].last < span.first
       /\ stops = 0 => Cardinality({other \in spans : other.last < span.first}) = k - 1
       /\ WordsCover(units[k]) /\ BytesAreTheWords(units[k])

(* The marker and the picture count tell the ends of pictures, as judged from *)
(* the whole file, also when the parse was interrupted behind the unit and    *)
(* its first byte was forgotten.  The first unit after a start or a stop is   *)
(* marked in any case, and so is one behind a unit whose mark was not taken.  *)
MarksPictures ==
  \A k \in 1 .. Len(units) :
    LET unit == units[k]
        ends == EndsAccessUnit(TypeOf(unit), NextUnitOf(unit))
        fresh == k = 1 \/ units[k - 1].stops # unit.stops
    IN
    /\ unit.marker = (ends \/ fresh \/ (units[k - 1].marker /\ ~units[k - 1].taken))
    /\ unit.pictures = IF ends THEN 1 ELSE 0

(* The copies of the parameter sets are those of the last such unit that the  *)
(* reader was handed, whichever interruptions came in between.               *)
ParameterSetsKept ==
  \A k \in 1 .. Len(units) :
    LET unit == units[k]
        before == IF k = 1 THEN [sps |-> << >>, pps |-> << >>] ELSE units[k - 1]
        type == TypeOf(unit)
    IN
    /\ unit.sps = IF is_sps(type) THEN unit.bytes ELSE before.sps
    /\ unit.pps = IF is_pps(type) THEN unit.bytes ELSE before.pps

(* What a unit is handed on with is right. *)
UnitsLabelled == MarksPictures /\ ParameterSetsKept

StallsOnEmptyUnitOnly == phase = "stalled" => ~NoEmptyUnits

AllHandedOn ==
  phase = "closed" /\ stops = 0 =>
    {SpanOf(units[k]) : k \in 1 .. Len(units)} = {span \in Spans : Decidable(span)}

(* A reader who asks for a frame of a file without empty units is answered,   *)
(* with a unit or with the end of the file; the parser stops asking for bytes *)
(* without a frame only where there is such a unit.  When the reader learns  *)
(* of the end, it has every unit that a start code follows and whose         *)
(* picture's end could be told.                                              *)
AllDelivered ==
  /\ [](AllHandedOn /\ StallsOnEmptyUnitOnly)
  /\ NoEmptyUnits => (phase \in {"parsing", "waiting"} ~> phase \in {"idle", "closed"})
==============================================================================
