------------------------------ MODULE Fragmenter ------------------------------
(***************************************************************************)
(* The H264or5Fragmenter of livemedia/h264or5_video_rtp_sink.c: it stands  *)
(* between the framer, which delivers NAL units, and the RTP sink, which   *)
(* asks for frames that fit a packet.  A unit that is too large goes out   *)
(* in fragments (FU packets), each with two header bytes that overwrite    *)
(* bytes of the buffer sent before.  H.264 only.                           *)
(*                                                                         *)
(* A byte of a unit is modelled by the unit's number and its place in the  *)
(* unit.  Units are numbered 0 and 1 by turns: a stale byte in the buffer  *)
(* is told from one of the present unit.                                   *)
(***************************************************************************)
EXTENDS Integers, Sequences

CONSTANTS
  InputBufferMax,       \* input_buffer_max: the longest unit the buffer takes
  MaxOutputPacketSize   \* max_output_packet_size

ASSUME SizesAssumption ==
  /\ InputBufferMax \in Nat \ {0}
  /\ MaxOutputPacketSize \in Nat /\ MaxOutputPacketSize > 2

VARIABLES
  input_buffer,
  num_valid_data_bytes, \* 1 more than the bytes of the unit in the buffer
  cur_data_offset,      \* where the bytes not sent yet begin
  save_num_truncated_bytes,
  last_fragment_completed_nal_unit,
  is_currently_awaiting_data, \* of the framer: a unit was asked for
  unit, size,           \* history: number and size of the last unit
  fragments             \* history: what was delivered of it

buffer_vars == <<input_buffer, num_valid_data_bytes, cur_data_offset>>
fragmenter_vars ==
  <<input_buffer, num_valid_data_bytes, cur_data_offset, save_num_truncated_bytes,
    last_fragment_completed_nal_unit, is_currently_awaiting_data, unit, size, fragments>>

(* What a cell of the buffer holds: a byte of a unit, or a header byte made   *)
(* from the unit's first one.  A read behind the buffer yields anything.     *)
Data(u, i) == <<"data", u, i>>
Indicator(u) == <<"FU indicator", u, 0>>
Header(kind, u) == <<kind, u, 0>> \* kind: S bit, no bit or E bit set
Unwritten == <<"unwritten", 0, 0>>
Outside == <<"outside", 0, 0>>

BufferIndices == 0 .. InputBufferMax
Cell(buffer, i) == IF i \in BufferIndices THEN buffer[i] ELSE Outside
Cells(buffer, from, n) == [i \in 1 .. n |-> Cell(buffer, from + i - 1)]

FragmenterInit ==
  /\ input_buffer = [i \in BufferIndices |-> Unwritten]
  /\ num_valid_data_bytes = 1 /\ cur_data_offset = 1
  /\ save_num_truncated_bytes = 0
  /\ last_fragment_completed_nal_unit = TRUE
  /\ is_currently_awaiting_data = FALSE
  /\ unit = 0 /\ size = 0
  /\ fragments = << >>

------------------------------------------------------------------------------
(* The offsets behind a delivery; with nothing left they go back to the start. *)
Advance(offset, valid) ==
  IF offset >= valid
    THEN cur_data_offset' = 1 /\ num_valid_data_bytes' = 1
    ELSE cur_data_offset' = offset /\ num_valid_data_bytes' = valid

(* do_get_next_frame() with an empty buffer: a unit is asked for. *)
AskForUnit ==
  /\ ~is_currently_awaiting_data
  /\ num_valid_data_bytes = 1
  /\ is_currently_awaiting_data' = TRUE
  /\ UNCHANGED <<buffer_vars, save_num_truncated_bytes, last_fragment_completed_nal_unit,
                 unit, size, fragments>>

(* The buffer with a unit of n bytes behind its first cell. *)
WithUnit(u, n) ==
  [i \in BufferIndices |-> IF i \in 1 .. n THEN Data(u, i) ELSE input_buffer[i]]

(* Mutant: the first fragment has room for one header byte only. *)
FirstFragmentShort(u, n) ==
  LET buffer == [WithUnit(u, n) EXCEPT ![0] = Indicator(u), ![1] = Header("S", u)] IN
  /\ n > MaxOutputPacketSize
  /\ input_buffer' = buffer
  /\ fragments' = <<Cells(buffer, 0, MaxOutputPacketSize)>>
  /\ Advance(1 + MaxOutputPacketSize, 1 + n)
  /\ last_fragment_completed_nal_unit' = FALSE

(* A unit that is too large: its first fragment, the S bit set. *)
FirstFragment(u, n) ==
  LET buffer == [WithUnit(u, n) EXCEPT ![0] = Indicator(u), ![1] = Header("S", u)] IN
  /\ n > MaxOutputPacketSize
  /\ input_buffer' = buffer
  /\ fragments' = <<Cells(buffer, 0, MaxOutputPacketSize)>>
  /\ Advance(MaxOutputPacketSize, 1 + n)
  /\ last_fragment_completed_nal_unit' = FALSE

(* A unit that fits a packet goes out as it is. *)
WholeUnit(u, n) ==
  /\ n <= MaxOutputPacketSize
  /\ input_buffer' = WithUnit(u, n)
  /\ fragments' = <<Cells(input_buffer', 1, n)>>
  /\ Advance(1 + n, 1 + n)
  /\ last_fragment_completed_nal_unit' = TRUE

(* after_getting_frame1(): the framer delivers a unit of n bytes, the first   *)
(* of which the sink gets at once.                                           *)
AfterGettingFrame(n, truncated) ==
  /\ is_currently_awaiting_data
  /\ is_currently_awaiting_data' = FALSE
  /\ truncated > 0 => n + 4 > InputBufferMax
  /\ unit' = 1 - unit /\ size' = n
  /\ save_num_truncated_bytes' = truncated
  /\ WholeUnit(unit', n) \/ FirstFragment(unit', n)

(* handle_closure(): the framer came to the end of its file. *)
HandleClosure ==
  /\ is_currently_awaiting_data
  /\ is_currently_awaiting_data' = FALSE
  /\ UNCHANGED <<buffer_vars, save_num_truncated_bytes, last_fragment_completed_nal_unit,
                 unit, size, fragments>>

(* Mutant: the S bit stays set. *)
NextFragmentKeepingStart ==
  LET num_bytes_to_send == 2 + (num_valid_data_bytes + cur_data_offset)
      fits == num_bytes_to_send <= MaxOutputPacketSize
      sent == IF fits THEN num_bytes_to_send ELSE MaxOutputPacketSize
      buffer == [input_buffer EXCEPT
                   ![cur_data_offset - 2] = input_buffer[0],
                   ![cur_data_offset - 1] = input_buffer[1]]
  IN
  /\ num_valid_data_bytes > 1
  /\ input_buffer' = buffer
  /\ fragments' = Append(fragments, Cells(buffer, cur_data_offset - 2, sent))
  /\ last_fragment_completed_nal_unit' = fits
  /\ Advance(cur_data_offset + sent - 2, num_valid_data_bytes)
  /\ UNCHANGED <<save_num_truncated_bytes, is_currently_awaiting_data, unit, size>>

(* do_get_next_frame() with a unit partly sent: its next fragment.  The bytes *)
(* to send are reckoned by adding the offset to the valid bytes.             *)
NextFragment ==
  LET num_bytes_to_send == 2 + (num_valid_data_bytes + cur_data_offset)
      fits == num_bytes_to_send <= MaxOutputPacketSize
      sent == IF fits THEN num_bytes_to_send ELSE MaxOutputPacketSize
      buffer == [input_buffer EXCEPT
                   ![cur_data_offset - 2] = input_buffer[0],
                   ![cur_data_offset - 1] = Header(IF fits THEN "E" ELSE "", unit)]
  IN
  /\ num_valid_data_bytes > 1
  /\ input_buffer' = buffer
  /\ fragments' = Append(fragments, Cells(buffer, cur_data_offset - 2, sent))
  /\ last_fragment_completed_nal_unit' = fits
  /\ Advance(cur_data_offset + sent - 2, num_valid_data_bytes)
  /\ UNCHANGED <<save_num_truncated_bytes, is_currently_awaiting_data, unit, size>>

(* do_stop_getting_frames(): reset(), and the framer is stopped.  The bytes   *)
(* stay in the buffer.                                                       *)
DoStopGettingFrames ==
  /\ num_valid_data_bytes' = 1 /\ cur_data_offset' = 1
  /\ save_num_truncated_bytes' = 0
  /\ last_fragment_completed_nal_unit' = TRUE
  /\ is_currently_awaiting_data' = FALSE
  /\ size' = 0 /\ fragments' = << >>
  /\ UNCHANGED <<input_buffer, unit>>

FragmenterNext ==
  \/ AskForUnit
  \/ \E n \in 1 .. InputBufferMax, truncated \in Nat : AfterGettingFrame(n, truncated)
  \/ HandleClosure
  \/ NextFragment
  \/ DoStopGettingFrames

FragmenterSpec == FragmenterInit /\ [][FragmenterNext]_fragmenter_vars

------------------------------------------------------------------------------
(* Types.  Between two calls the buffer is empty or holds bytes not yet sent. *)
FragmenterTypeOK ==
  /\ num_valid_data_bytes \in 1 .. InputBufferMax + 1
  /\ cur_data_offset \in 1 .. num_valid_data_bytes
  /\ cur_data_offset = num_valid_data_bytes => num_valid_data_bytes = 1
  /\ save_num_truncated_bytes \in Nat
  /\ last_fragment_completed_nal_unit \in BOOLEAN
  /\ is_currently_awaiting_data \in BOOLEAN

Fragmented == size > MaxOutputPacketSize

(* The byte of the unit that belongs into cell j of fragment k: two header    *)
(* bytes go before those of each fragment, the unit's own header into them.  *)
ByteAt(k, j) == (k - 1) * (MaxOutputPacketSize - 2) + j - 1

(* The header bytes that are written over the buffer never reach a byte still *)
(* to be sent: the fragments of a unit hold its bytes in order, each once,    *)
(* and there are no more of them than it takes.  The end is another matter,   *)
(* for the size of what is left is reckoned by a sum (line 279): the last     *)
(* fragment is as long as the others, with bytes behind the unit's end that   *)
(* were left in the buffer or lie outside of it, and none has the E bit.      *)
BytesSentInOrder ==
  Fragmented =>
    /\ \A k \in 1 .. Len(fragments) : Len(fragments[k]) = MaxOutputPacketSize
    /\ \A k \in 1 .. Len(fragments) : \A j \in 3 .. MaxOutputPacketSize :
         ByteAt(k, j) <= size => fragments[k][j] = Data(unit, ByteAt(k, j))
    /\ \A k \in 2 .. Len(fragments) : fragments[k][2] = Header("", unit)
    /\ ByteAt(Len(fragments), 3) <= size
    /\ num_valid_data_bytes = 1 <=> ByteAt(Len(fragments), MaxOutputPacketSize) >= size

(* A receiver finds the start of a unit: the first fragment has the S bit, no *)
(* other one has it, and each names the unit it belongs to.                  *)
StartMarkedOnce ==
  Fragmented =>
    \A k \in 1 .. Len(fragments) :
      /\ fragments[k][1] = Indicator(unit)
      /\ fragments[k][2] \in IF k = 1 THEN {Header("S", unit)}
                             ELSE {Header("", unit), Header("E", unit)}

(* The flag by which the sink sets the marker bit is never set for a unit     *)
(* that goes out in fragments, not even with the last of them.               *)
FragmentedNeverCompleted == Fragmented => ~last_fragment_completed_nal_unit
==============================================================================
