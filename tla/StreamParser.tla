----------------------------- MODULE StreamParser -----------------------------
(***************************************************************************)
(* livemedia/stream_parser.c over livemedia/framed_source.c: the two banks *)
(* that buffer the bytes of an input source for a parser that reads ahead. *)
(*                                                                         *)
(* The parser (parse() of a subclass) runs inside one callback.  When it   *)
(* wants bytes that are not there, ensure_valid_bytes1() asks the source   *)
(* for more and jumps out; when the source answers, the parser starts      *)
(* again from the place it saved.  The bytes are written through a pointer *)
(* taken when the read was requested.                                      *)
(*                                                                         *)
(* A byte is modelled by its place in what the source has supplied.  The   *)
(* bit reads (get_bits, skip_bits), which nothing calls, are left out.     *)
(***************************************************************************)
EXTENDS Integers

CONSTANTS
  BankSize,          \* BANK_SIZE
  MaxInputFrameSize, \* max_frame_size() of the input source, 0 when unknown
  Lookahead,         \* how far past its saved place the parser ever reads
  StreamLength       \* bound: the bytes the source supplies

ASSUME SizesAssumption ==
  /\ BankSize \in Nat \ {0}
  /\ MaxInputFrameSize \in Nat
  /\ Lookahead \in Nat \ {0}
  /\ StreamLength \in Nat

VARIABLES
  bank,                 \* bank[0] and bank[1]: the bytes, by index
  cur_bank_num,
  saved_parser_index,
  cur_parser_index,
  tot_num_valid_bytes,
  have_seen_eof,
  is_currently_awaiting_data, \* of the source: a read is pending
  to_bank, to_index,    \* the pointer "to" where the source will write
  max_size,             \* and how many bytes at most
  received,             \* bytes the source has supplied so far
  block,                \* the bytes the parser last read, by index
  phase                 \* idle, parsing, waiting for a read, aborted

bank_vars == <<bank, cur_bank_num>>
read_vars == <<is_currently_awaiting_data, to_bank, to_index, max_size>>
parser_vars == <<bank, cur_bank_num, saved_parser_index, cur_parser_index, tot_num_valid_bytes,
                 have_seen_eof, is_currently_awaiting_data, to_bank, to_index, max_size,
                 received, block, phase>>

Indices == 0 .. BankSize - 1
Banks == [0 .. 1 -> [Indices -> Nat]]
Phases == {"idle", "parsing", "waiting", "aborted"}

ParserInit ==
  /\ bank = [b \in 0 .. 1 |-> [i \in Indices |-> 0]]
  /\ cur_bank_num = 0
  /\ saved_parser_index = 0
  /\ cur_parser_index = 0
  /\ tot_num_valid_bytes = 0
  /\ have_seen_eof = FALSE
  /\ is_currently_awaiting_data = FALSE
  /\ to_bank = 0 /\ to_index = 0
  /\ max_size = 0
  /\ received = 0
  /\ block = << >>
  /\ phase = "idle"

------------------------------------------------------------------------------
(* The parser, running. *)

(* The reader downstream asks for a frame and parse() starts. *)
StartParsing ==
  /\ phase = "idle"
  /\ phase' = "parsing"
  /\ UNCHANGED <<bank_vars, saved_parser_index, cur_parser_index, tot_num_valid_bytes,
                 have_seen_eof, read_vars, received, block>>

(* The parser wants n bytes and stays within its look-ahead. *)
Wants(n) ==
  /\ phase = "parsing"
  /\ cur_parser_index + n - saved_parser_index <= Lookahead

(* get_bytes() and its kin, the bytes being there. *)
GetBytes(n) ==
  /\ Wants(n)
  /\ cur_parser_index + n <= tot_num_valid_bytes
  /\ block' = [i \in 0 .. n - 1 |-> bank[cur_bank_num][cur_parser_index + i]]
  /\ cur_parser_index' = cur_parser_index + n
  /\ UNCHANGED <<bank_vars, saved_parser_index, tot_num_valid_bytes, have_seen_eof,
                 read_vars, received, phase>>

SaveParserState ==
  /\ phase = "parsing"
  /\ saved_parser_index' = cur_parser_index
  /\ UNCHANGED <<bank_vars, cur_parser_index, tot_num_valid_bytes, have_seen_eof,
                 read_vars, received, block, phase>>

(* parse() has a frame: it saves its place and the frame is handed on. *)
FrameDone ==
  /\ phase = "parsing"
  /\ saved_parser_index' = cur_parser_index
  /\ phase' = "idle"
  /\ UNCHANGED <<bank_vars, cur_parser_index, tot_num_valid_bytes, have_seen_eof,
                 read_vars, received, block>>

(* Mutant: the bytes still needed are not moved. *)
SwapBanksWithoutMove ==
  /\ cur_bank_num' = (cur_bank_num + 1) % 2
  /\ cur_parser_index' = cur_parser_index - saved_parser_index
  /\ saved_parser_index' = 0
  /\ tot_num_valid_bytes' = tot_num_valid_bytes - saved_parser_index
  /\ UNCHANGED bank

(* Mutant: the subtraction that rebases the current place is turned round. *)
SwapBanksReversed ==
  /\ cur_bank_num' = (cur_bank_num + 1) % 2
  /\ cur_parser_index' = saved_parser_index - cur_parser_index
  /\ saved_parser_index' = 0
  /\ tot_num_valid_bytes' = tot_num_valid_bytes - saved_parser_index
  /\ UNCHANGED bank

(* Mutant: the current place is not rebased. *)
SwapBanksWithoutRebase ==
  /\ cur_bank_num' = (cur_bank_num + 1) % 2
  /\ saved_parser_index' = 0
  /\ tot_num_valid_bytes' = tot_num_valid_bytes - saved_parser_index
  /\ UNCHANGED <<bank, cur_parser_index>>

(* ensure_valid_bytes1()'s change of bank: what is still needed of the old   *)
(* bank is moved to the start of the other one.                              *)
SwapBanks ==
  LET other == (cur_bank_num + 1) % 2
      num_bytes_to_save == tot_num_valid_bytes - saved_parser_index
  IN
  /\ bank' = [bank EXCEPT ![other] =
       [i \in Indices |-> IF i < num_bytes_to_save
                            THEN bank[cur_bank_num][saved_parser_index + i]
                            ELSE bank[other][i]]]
  /\ cur_bank_num' = other
  /\ cur_parser_index' = cur_parser_index - saved_parser_index
  /\ saved_parser_index' = 0
  /\ tot_num_valid_bytes' = num_bytes_to_save

(* get_next_frame() on the source, the read that continues the valid bytes. *)
RequestBytes ==
  /\ is_currently_awaiting_data' = TRUE
  /\ to_bank' = cur_bank_num' /\ to_index' = tot_num_valid_bytes'
  /\ max_size' = BankSize - tot_num_valid_bytes'
  /\ phase' = "waiting"

(* The n bytes are not all there: ensure_valid_bytes1().  It aborts when even *)
(* a bank of its own cannot hold what the parser keeps and wants.            *)
EnsureValidBytes(n) ==
  LET needed == IF MaxInputFrameSize > n THEN MaxInputFrameSize ELSE n
  IN
  /\ Wants(n)
  /\ cur_parser_index + n > tot_num_valid_bytes
  /\ IF cur_parser_index + needed > BankSize
       THEN SwapBanks
       ELSE UNCHANGED <<bank_vars, saved_parser_index, cur_parser_index, tot_num_valid_bytes>>
  /\ IF cur_parser_index' + needed > BankSize
       THEN phase' = "aborted" /\ UNCHANGED read_vars
       ELSE RequestBytes
  /\ UNCHANGED <<have_seen_eof, received, block>>

------------------------------------------------------------------------------
(* The source's answers. *)

(* Mutant: the parser goes on without going back to its saved place. *)
ContinueWithoutRestoring ==
  /\ phase' = "parsing"
  /\ UNCHANGED cur_parser_index

(* restore_saved_parser_state() and client_continue_func(): parse again. *)
ContinueParsing ==
  /\ cur_parser_index' = saved_parser_index
  /\ phase' = "parsing"

(* after_getting_bytes1(): the source has written k bytes where it was told.  *)
AfterGettingBytes(k) ==
  /\ is_currently_awaiting_data
  /\ k <= max_size
  /\ received + k <= StreamLength
  /\ bank' = [bank EXCEPT ![to_bank] =
       [i \in Indices |-> IF to_index <= i /\ i < to_index + k
                            THEN received + (i - to_index) ELSE bank[to_bank][i]]]
  /\ received' = received + k
  /\ tot_num_valid_bytes' = tot_num_valid_bytes + k
  /\ is_currently_awaiting_data' = FALSE
  /\ ContinueParsing
  /\ UNCHANGED <<cur_bank_num, saved_parser_index, have_seen_eof, to_bank, to_index, max_size, block>>

(* on_input_closure1(): the first end of the input is parsed as a read of 0   *)
(* bytes, the second is handed to the client.                                *)
OnInputClosure ==
  /\ is_currently_awaiting_data
  /\ is_currently_awaiting_data' = FALSE
  /\ have_seen_eof' = ~have_seen_eof
  /\ IF have_seen_eof
       THEN phase' = "idle" /\ UNCHANGED cur_parser_index
       ELSE ContinueParsing
  /\ UNCHANGED <<bank_vars, saved_parser_index, tot_num_valid_bytes, to_bank, to_index, max_size,
                 received, block>>

(* Mutant: the source is not stopped. *)
StopWithoutStoppingSource ==
  /\ phase \in {"idle", "waiting"}
  /\ saved_parser_index' = 0
  /\ cur_parser_index' = 0
  /\ tot_num_valid_bytes' = 0
  /\ phase' = "idle"
  /\ UNCHANGED <<bank_vars, have_seen_eof, read_vars, received, block>>

(* do_stop_getting_frames() of the framer: flush_input(), then the source's   *)
(* stop_getting_frames().  The end-of-input flag stays as it is.              *)
StopGettingFrames ==
  /\ phase \in {"idle", "waiting"}
  /\ saved_parser_index' = 0
  /\ cur_parser_index' = 0
  /\ tot_num_valid_bytes' = 0
  /\ is_currently_awaiting_data' = FALSE
  /\ phase' = "idle"
  /\ UNCHANGED <<bank_vars, have_seen_eof, to_bank, to_index, max_size, received, block>>

ParserNext ==
  \/ StartParsing
  \/ \E n \in 1 .. Lookahead : GetBytes(n)
  \/ SaveParserState
  \/ FrameDone
  \/ \E n \in 1 .. Lookahead : EnsureValidBytes(n)
  \/ \E k \in 1 .. BankSize : AfterGettingBytes(k)
  \/ OnInputClosure
  \/ StopGettingFrames

ParserSpec == ParserInit /\ [][ParserNext]_parser_vars

------------------------------------------------------------------------------
(* Types. *)
ParserTypeOK ==
  /\ bank \in Banks
  /\ cur_bank_num \in 0 .. 1
  /\ saved_parser_index \in Nat
  /\ cur_parser_index \in Nat
  /\ tot_num_valid_bytes \in Nat
  /\ have_seen_eof \in BOOLEAN
  /\ is_currently_awaiting_data \in BOOLEAN
  /\ to_bank \in 0 .. 1 /\ to_index \in Nat
  /\ max_size \in Nat
  /\ received \in Nat
  /\ phase \in Phases

(* The order the declarations of stream_parser.h promise: the saved place is *)
(* not past the current one, that one not past the valid bytes, those not    *)
(* past the bank, whatever was swapped, restored or flushed.                 *)
IndexOrder ==
  /\ saved_parser_index <= cur_parser_index
  /\ cur_parser_index <= tot_num_valid_bytes
  /\ tot_num_valid_bytes <= BankSize

(* No byte is lost, repeated or out of order: the valid bytes of the current *)
(* bank are the last ones the source has supplied.                           *)
BankHoldsTail ==
  \A i \in 0 .. tot_num_valid_bytes - 1 :
    bank[cur_bank_num][i] = received - tot_num_valid_bytes + i

(* The pointer and the size handed to the source are still good when it      *)
(* answers: the bytes go right behind the valid ones of the current bank and *)
(* fit.  At least one byte is asked for, because an empty read would be      *)
(* taken for the end of the file.  The parser waits exactly while a read is  *)
(* pending.                                                                  *)
ReadLandsBehind ==
  /\ phase = "waiting" <=> is_currently_awaiting_data
  /\ is_currently_awaiting_data =>
    /\ to_bank = cur_bank_num /\ to_index = tot_num_valid_bytes
    /\ max_size = BankSize - tot_num_valid_bytes
    /\ max_size > 0

(* ensure_valid_bytes1() never gives up on a parser whose look-ahead fits a  *)
(* bank.                                                                     *)
NeverAborts ==
  Lookahead <= BankSize /\ MaxInputFrameSize = 0 => phase # "aborted"

(* The two banks behave as one endless stream.                               *)
Place(index) == received - tot_num_valid_bytes + index
Stream == INSTANCE ByteStream WITH
            committed <- Place(saved_parser_index),
            cursor <- Place(cur_parser_index)
ImplementsByteStream == Stream!Spec
==============================================================================
