----------------------------- MODULE PacketBuffer -----------------------------
(***************************************************************************)
(* The OutPacketBuffer of livemedia/media_sink.c, in which the RTP sinks   *)
(* and the RTCP instances put their packets together.  Operators on a      *)
(* record, used by the modules that hold a buffer.                         *)
(*                                                                         *)
(* The unit is the 32-bit word; cells are counted from 0.  A word is       *)
(* <<what, value, value>>.                                                 *)
(***************************************************************************)
EXTENDS Integers, Sequences

Blank == <<"blank", 0, 0>>

Least(m, n) == IF m < n THEN m ELSE n

(* init(): the room is the least multiple of the packet size that holds      *)
(* bufferSize words.                                                         *)
NewBuffer(preferred, max, bufferSize) ==
  LET limit == ((bufferSize + max - 1) \div max) * max
  IN  [preferred |-> preferred, max |-> max, limit |-> limit,
       packet_start |-> 0, cur_offset |-> 0,
       overflow_data_offset |-> 0, overflow_data_size |-> 0,
       cells |-> [i \in 0 .. limit - 1 |-> Blank]]

Cur(b) == b.packet_start + b.cur_offset
TotalBytesAvailable(b) == b.limit - Cur(b)
Packet(b) == [i \in 1 .. b.cur_offset |-> b.cells[b.packet_start + i - 1]]

IsPreferredSize(b) == b.cur_offset >= b.preferred
WouldOverflow(b, n) == b.cur_offset + n > b.max
HaveOverflowData(b) == b.overflow_data_size > 0

(* memmove() of words into the cells from "at" on. *)
Written(b, at, words) ==
  [b EXCEPT !.cells = [i \in DOMAIN @ |->
     IF i - at \in 0 .. Len(words) - 1 THEN words[i - at + 1] ELSE @[i]]]

Increment(b, n) == [b EXCEPT !.cur_offset = @ + n]
SkipWords(b, n) == Increment(b, Least(n, TotalBytesAvailable(b)))

Enqueue(b, words) ==
  LET n == Least(Len(words), TotalBytesAvailable(b))
  IN  Increment(Written(b, Cur(b), SubSeq(words, 1, n)), n)

(* insert_word(): a word somewhere in the packet, which may grow by it. *)
InsertWord(b, word, position) ==
  IF b.packet_start + position >= b.limit THEN b
  ELSE [Written(b, b.packet_start + position, <<word>>) EXCEPT
          !.cur_offset = IF position + 1 > @ THEN position + 1 ELSE @]

ExtractWord(b, position) == b.cells[b.packet_start + position]

SetOverflowData(b, offset, n) ==
  [b EXCEPT !.overflow_data_offset = offset, !.overflow_data_size = n]

ResetOffset(b) == [b EXCEPT !.cur_offset = 0]
ResetOverflowData(b) == SetOverflowData(b, 0, 0)
ResetPacketStart(b) ==
  [b EXCEPT !.overflow_data_offset =
              IF HaveOverflowData(b) THEN @ + b.packet_start ELSE @,
            !.packet_start = 0]
=============================================================================
