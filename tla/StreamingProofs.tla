---------------------------- MODULE StreamingProofs ----------------------------
(***************************************************************************)
(* The two ends of a stream.  Where its bytes come in: the two banks of    *)
(* the stream parser behave as one endless stream, for every size of the   *)
(* banks, every look-ahead and every way the source cuts its bytes into    *)
(* reads.  Where its packets go out: the packets of an RTP sink are well   *)
(* formed and use the time stamp that was preset for them, for packet      *)
(* buffers of any size, time stamps and sequence numbers of any width, and *)
(* reports at any time; and the reports are on the clock of the packets    *)
(* and count them.                                                         *)
(***************************************************************************)
EXTENDS StreamParser, RtpSession, WellFoundedInduction, TLAPS

------------------------------------------------------------------------------
(* The stream parser. *)

(* The inductive invariant. *)
ParserIInv ==
  /\ ParserTypeOK
  /\ IndexOrder
  /\ BankHoldsTail
  /\ ReadLandsBehind

LEMMA OtherBank ==
  ASSUME NEW b \in 0 .. 1
  PROVE  (b + 1) % 2 \in 0 .. 1 /\ (b + 1) % 2 # b
<1>1. CASE b = 0
  BY <1>1
<1>2. CASE b = 1
  BY <1>2
<1> QED
  BY <1>1, <1>2

LEMMA InitParserIInv == ParserInit => ParserIInv
<1> SUFFICES ASSUME ParserInit PROVE ParserIInv
  OBVIOUS
<1>1. bank \in Banks
  BY DEF ParserInit, Banks
<1>2. ParserTypeOK
  <2>1. /\ cur_bank_num \in 0 .. 1 /\ saved_parser_index \in Nat /\ cur_parser_index \in Nat
        /\ tot_num_valid_bytes \in Nat /\ to_bank \in 0 .. 1 /\ to_index \in Nat
        /\ max_size \in Nat /\ received \in Nat
    BY DEF ParserInit
  <2>2. have_seen_eof \in BOOLEAN /\ is_currently_awaiting_data \in BOOLEAN
    BY DEF ParserInit
  <2>3. phase \in Phases
    BY DEF ParserInit, Phases
  <2> QED
    BY <1>1, <2>1, <2>2, <2>3 DEF ParserTypeOK
<1>3. IndexOrder /\ BankHoldsTail /\ ReadLandsBehind
  BY SizesAssumption DEF ParserInit, IndexOrder, BankHoldsTail, ReadLandsBehind
<1> QED
  BY <1>2, <1>3 DEF ParserIInv

(* A change of bank keeps the valid bytes behind the saved place. *)
LEMMA SwapKeepsBytes ==
  ASSUME ParserIInv, SwapBanks, received' = received
  PROVE  /\ bank' \in Banks
         /\ cur_bank_num' \in 0 .. 1
         /\ saved_parser_index' = 0
         /\ cur_parser_index' = cur_parser_index - saved_parser_index
         /\ tot_num_valid_bytes' = tot_num_valid_bytes - saved_parser_index
         /\ IndexOrder'
         /\ BankHoldsTail'
<1> DEFINE other == (cur_bank_num + 1) % 2
           keep == tot_num_valid_bytes - saved_parser_index
<1>1. other \in 0 .. 1
  BY OtherBank DEF ParserIInv, ParserTypeOK
<1>2. keep \in Nat /\ keep <= BankSize /\ tot_num_valid_bytes <= BankSize
  BY SizesAssumption DEF ParserIInv, ParserTypeOK, IndexOrder
<1>3. \A i \in Indices : i < keep =>
        bank[cur_bank_num][saved_parser_index + i] = received - keep + i
  <2> SUFFICES ASSUME NEW i \in Indices, i < keep
               PROVE  bank[cur_bank_num][saved_parser_index + i] = received - keep + i
    OBVIOUS
  <2>1. saved_parser_index + i \in 0 .. tot_num_valid_bytes - 1
    BY <1>2, SizesAssumption DEF ParserIInv, ParserTypeOK, Indices
  <2>2. bank[cur_bank_num][saved_parser_index + i]
          = received - tot_num_valid_bytes + (saved_parser_index + i)
    BY <2>1 DEF ParserIInv, BankHoldsTail
  <2> QED
    BY <2>2, SizesAssumption DEF ParserIInv, ParserTypeOK, Indices
<1>4. /\ cur_bank_num' = other
      /\ saved_parser_index' = 0
      /\ cur_parser_index' = cur_parser_index - saved_parser_index
      /\ tot_num_valid_bytes' = keep
  BY DEF SwapBanks
<1>5. bank' \in Banks
  <2>1. ASSUME NEW i \in Indices
        PROVE  (IF i < keep THEN bank[cur_bank_num][saved_parser_index + i]
                            ELSE bank[other][i]) \in Nat
    <3>1. CASE i < keep
      <4>1. saved_parser_index + i \in Indices
        BY <1>2, <3>1, SizesAssumption DEF ParserIInv, ParserTypeOK, Indices
      <4> QED
        BY <3>1, <4>1 DEF ParserIInv, ParserTypeOK, Banks
    <3>2. CASE ~(i < keep)
      BY <1>1, <3>2 DEF ParserIInv, ParserTypeOK, Banks
    <3> QED
      BY <3>1, <3>2
  <2> QED
    BY <1>1, <2>1 DEF SwapBanks, ParserIInv, ParserTypeOK, Banks
<1>6. BankHoldsTail'
  <2> SUFFICES ASSUME NEW i \in 0 .. keep - 1
               PROVE  bank'[other][i] = received - keep + i
    BY <1>4 DEF BankHoldsTail
  <2>1. i \in Indices /\ i < keep
    BY <1>2, SizesAssumption DEF Indices
  <2>2. bank'[other][i] = bank[cur_bank_num][saved_parser_index + i]
    BY <1>1, <2>1 DEF SwapBanks, ParserIInv, ParserTypeOK, Banks
  <2> QED
    BY <1>3, <2>1, <2>2
<1>7. IndexOrder'
  BY <1>4, SizesAssumption DEF IndexOrder, ParserIInv, ParserTypeOK
<1> QED
  BY <1>1, <1>4, <1>5, <1>6, <1>7

(* The arithmetic of a request: it asks for at least one byte. *)
LEMMA RoomLeft ==
  ASSUME NEW tot \in Nat, NEW cur \in Nat, NEW n \in Nat, NEW needed \in Nat,
         cur + n > tot, needed >= n, ~(cur + needed > BankSize)
  PROVE  BankSize - tot \in Nat /\ BankSize - tot > 0
BY SizesAssumption

LEMMA EnsureIInv ==
  ASSUME ParserIInv, NEW n \in 1 .. Lookahead, EnsureValidBytes(n)
  PROVE  ParserIInv'
<1> DEFINE needed == IF MaxInputFrameSize > n THEN MaxInputFrameSize ELSE n
<1>1. needed \in Nat /\ needed >= n /\ n >= 1
  BY SizesAssumption
<1>2. received' = received /\ have_seen_eof' = have_seen_eof
  BY DEF EnsureValidBytes
<1>3. /\ bank' \in Banks
      /\ cur_bank_num' \in 0 .. 1
      /\ saved_parser_index' \in Nat /\ cur_parser_index' \in Nat /\ tot_num_valid_bytes' \in Nat
      /\ cur_parser_index' + n > tot_num_valid_bytes'
      /\ IndexOrder' /\ BankHoldsTail'
  <2>1. CASE SwapBanks
    BY <1>2, <2>1, SwapKeepsBytes, SizesAssumption DEF EnsureValidBytes, ParserIInv, ParserTypeOK, IndexOrder
  <2>2. CASE UNCHANGED <<bank_vars, saved_parser_index, cur_parser_index, tot_num_valid_bytes>>
    BY <1>2, <2>2 DEF EnsureValidBytes, bank_vars, ParserIInv, ParserTypeOK, IndexOrder, BankHoldsTail
  <2> QED
    BY <2>1, <2>2 DEF EnsureValidBytes
<1>4. CASE phase' = "aborted" /\ UNCHANGED read_vars
  BY <1>2, <1>3, <1>4 DEF EnsureValidBytes, Wants, read_vars, ParserIInv, ParserTypeOK, Phases, ReadLandsBehind
<1>5. CASE ~(cur_parser_index' + needed > BankSize) /\ RequestBytes
  <2>0. n \in Nat
    BY SizesAssumption
  <2>1. /\ tot_num_valid_bytes' \in Nat
        /\ ~(cur_parser_index' + needed > BankSize)
        /\ cur_parser_index' \in Nat
        /\ cur_parser_index' + n > tot_num_valid_bytes'
    BY <1>3, <1>5
  <2>2. BankSize - tot_num_valid_bytes' \in Nat /\ BankSize - tot_num_valid_bytes' > 0
    <3> HIDE DEF needed
    <3> QED
      BY <1>1, <2>0, <2>1, RoomLeft
  <2>3. max_size' \in Nat /\ max_size' > 0
    BY <1>5, <2>2 DEF RequestBytes
  <2>4. /\ is_currently_awaiting_data' = TRUE /\ have_seen_eof' \in BOOLEAN
    BY <1>2, <1>5 DEF RequestBytes, ParserIInv, ParserTypeOK
  <2>5. /\ to_bank' = cur_bank_num' /\ to_index' = tot_num_valid_bytes'
        /\ max_size' = BankSize - tot_num_valid_bytes'
        /\ phase' = "waiting"
    BY <1>5 DEF RequestBytes
  <2>6. received' \in Nat
    BY <1>2 DEF ParserIInv, ParserTypeOK
  <2>7. ParserTypeOK'
    BY <1>3, <2>3, <2>4, <2>5, <2>6 DEF ParserTypeOK, Phases
  <2>8. ReadLandsBehind'
    BY <2>3, <2>4, <2>5 DEF ReadLandsBehind
  <2> QED
    BY <1>3, <2>7, <2>8 DEF ParserIInv
<1> QED
  BY <1>4, <1>5 DEF EnsureValidBytes

LEMMA AfterGettingIInv ==
  ASSUME ParserIInv, NEW k \in 1 .. BankSize, AfterGettingBytes(k)
  PROVE  ParserIInv'
<1> DEFINE tot == tot_num_valid_bytes
<1>1. /\ to_bank = cur_bank_num /\ to_index = tot
      /\ k <= BankSize - tot
      /\ k \in Nat /\ tot \in Nat /\ received \in Nat
      /\ saved_parser_index \in Nat /\ saved_parser_index <= tot
      /\ cur_bank_num \in 0 .. 1
  BY SizesAssumption DEF AfterGettingBytes, ParserIInv, ParserTypeOK, ReadLandsBehind, IndexOrder
<1>2. /\ tot' = tot + k
      /\ received' = received + k
      /\ cur_bank_num' = cur_bank_num
      /\ saved_parser_index' = saved_parser_index
      /\ cur_parser_index' = saved_parser_index
      /\ phase' = "parsing" /\ is_currently_awaiting_data' = FALSE
      /\ UNCHANGED <<have_seen_eof, to_bank, to_index, max_size>>
  BY DEF AfterGettingBytes, ContinueParsing
<1>3. /\ bank' \in Banks
      /\ \A i \in Indices :
           bank'[cur_bank_num][i] = IF tot <= i /\ i < tot + k
                                      THEN received + (i - tot) ELSE bank[cur_bank_num][i]
  <2>1. bank' = [bank EXCEPT ![cur_bank_num] =
                   [i \in Indices |-> IF tot <= i /\ i < tot + k
                      THEN received + (i - tot) ELSE bank[cur_bank_num][i]]]
    BY <1>1 DEF AfterGettingBytes
  <2>2. \A i \in Indices :
          (IF tot <= i /\ i < tot + k
             THEN received + (i - tot) ELSE bank[cur_bank_num][i]) \in Nat
    BY <1>1, SizesAssumption DEF ParserIInv, ParserTypeOK, Banks, Indices
  <2> QED
    BY <1>1, <2>1, <2>2 DEF ParserIInv, ParserTypeOK, Banks
<1>4. BankHoldsTail'
  <2> SUFFICES ASSUME NEW i \in 0 .. tot + k - 1
               PROVE  bank'[cur_bank_num][i] = received + k - (tot + k) + i
    BY <1>1, <1>2 DEF BankHoldsTail
  <2>1. i \in Indices
    BY <1>1, SizesAssumption DEF Indices
  <2>2. CASE i < tot
    BY <1>1, <1>3, <2>1, <2>2 DEF ParserIInv, BankHoldsTail
  <2>3. CASE i >= tot
    BY <1>1, <1>3, <2>1, <2>3
  <2> QED
    BY <1>1, <2>2, <2>3
<1>5. IndexOrder'
  BY <1>1, <1>2, SizesAssumption DEF IndexOrder
<1>6. ParserTypeOK'
  <2>1. /\ tot' \in Nat /\ received' \in Nat /\ cur_bank_num' \in 0 .. 1
        /\ saved_parser_index' \in Nat /\ cur_parser_index' \in Nat
        /\ have_seen_eof' \in BOOLEAN /\ to_bank' \in 0 .. 1 /\ to_index' \in Nat /\ max_size' \in Nat
    BY <1>1, <1>2 DEF ParserIInv, ParserTypeOK
  <2> QED
    BY <1>2, <1>3, <2>1 DEF ParserTypeOK, Phases
<1>7. ReadLandsBehind'
  BY <1>2 DEF ReadLandsBehind
<1> QED
  BY <1>4, <1>5, <1>6, <1>7 DEF ParserIInv

LEMMA NextParserIInv == ParserIInv /\ [ParserNext]_parser_vars => ParserIInv'
<1> SUFFICES ASSUME ParserIInv, [ParserNext]_parser_vars PROVE ParserIInv'
  OBVIOUS
<1> USE DEF ParserIInv, ParserTypeOK, IndexOrder, BankHoldsTail, ReadLandsBehind, Phases,
            bank_vars, read_vars
<1>1. CASE StartParsing \/ SaveParserState \/ FrameDone
  BY <1>1 DEF StartParsing, SaveParserState, FrameDone
<1>2. ASSUME NEW n \in 1 .. Lookahead, GetBytes(n) PROVE ParserIInv'
  BY <1>2, SizesAssumption DEF GetBytes, Wants
<1>3. CASE OnInputClosure
  <2>1. /\ UNCHANGED <<bank, cur_bank_num, saved_parser_index, tot_num_valid_bytes, to_bank, to_index,
                       max_size, received>>
        /\ is_currently_awaiting_data' = FALSE
        /\ have_seen_eof' \in BOOLEAN
        /\ cur_parser_index' \in {saved_parser_index, cur_parser_index}
        /\ phase' \in {"idle", "parsing"}
    BY <1>3 DEF OnInputClosure, ContinueParsing
  <2>2. cur_parser_index' \in Nat
    BY <2>1
  <2>3. ParserTypeOK'
    BY <2>1, <2>2
  <2>4. BankHoldsTail'
    BY <2>1
  <2>5. ReadLandsBehind'
    BY <2>1
  <2>6. IndexOrder'
    <3>1. CASE cur_parser_index' = cur_parser_index
      BY <2>1, <3>1
    <3>2. CASE cur_parser_index' = saved_parser_index
      BY <2>1, <3>2, SizesAssumption
    <3> QED
      BY <2>1, <3>1, <3>2
  <2> QED
    BY <2>3, <2>4, <2>5, <2>6
<1>4. CASE StopGettingFrames
  <2>1. /\ UNCHANGED <<bank, cur_bank_num, have_seen_eof, to_bank, to_index, max_size, received>>
        /\ saved_parser_index' = 0 /\ cur_parser_index' = 0 /\ tot_num_valid_bytes' = 0
        /\ is_currently_awaiting_data' = FALSE
        /\ phase' = "idle"
    BY <1>4 DEF StopGettingFrames
  <2>2. BankHoldsTail'
    BY <2>1
  <2>3. IndexOrder' /\ ReadLandsBehind'
    BY <2>1, SizesAssumption
  <2>4. ParserTypeOK'
    BY <2>1
  <2> QED
    BY <2>2, <2>3, <2>4
<1>5. CASE UNCHANGED parser_vars
  BY <1>5 DEF parser_vars
<1> QED
  BY <1>1, <1>2, <1>3, <1>4, <1>5, EnsureIInv, AfterGettingIInv DEF ParserNext

(* The inductive invariant holds of every behaviour. *)
THEOREM ParserInvariantHolds == ParserSpec => []ParserIInv
<1>1. ParserInit => ParserIInv
  BY InitParserIInv
<1>2. ParserIInv /\ [ParserNext]_parser_vars => ParserIInv'
  BY NextParserIInv
<1> QED
  BY <1>1, <1>2, PTL DEF ParserSpec

(* No count or index of the parser, all unsigned in the code, is ever taken   *)
(* below zero by the subtractions of a bank change or of an answer           *)
(* (stream_parser.c).                                                        *)
THEOREM ParserWellTyped == ParserSpec => []ParserTypeOK
<1>1. ParserIInv => ParserTypeOK
  BY DEF ParserIInv
<1> QED
  BY <1>1, ParserInvariantHolds, PTL

(* Saved place <= current place <= valid bytes <= bank, as the declarations   *)
(* of the parser promise.                                                    *)
THEOREM IndicesOrdered == ParserSpec => []IndexOrder
<1>1. ParserIInv => IndexOrder
  BY DEF ParserIInv
<1> QED
  BY <1>1, ParserInvariantHolds, PTL

(* Changing banks loses, repeats and reorders no byte. *)
THEOREM NothingLost == ParserSpec => []BankHoldsTail
<1>1. ParserIInv => BankHoldsTail
  BY DEF ParserIInv
<1> QED
  BY <1>1, ParserInvariantHolds, PTL

(* A pending read writes right behind the valid bytes, stays within the bank *)
(* and asks for at least one byte.                                           *)
THEOREM ReadsLand == ParserSpec => []ReadLandsBehind
<1>1. ParserIInv => ReadLandsBehind
  BY DEF ParserIInv
<1> QED
  BY <1>1, ParserInvariantHolds, PTL

(* Giving up takes a request that not even an empty bank could hold. *)
LEMMA AbortNeedsRoom ==
  ASSUME ParserIInv, NEW n \in 1 .. Lookahead, EnsureValidBytes(n), phase' = "aborted",
         Lookahead <= BankSize, MaxInputFrameSize = 0
  PROVE  FALSE
<1> DEFINE needed == IF MaxInputFrameSize > n THEN MaxInputFrameSize ELSE n
<1>1. needed = n /\ n \in Nat
  BY SizesAssumption
<1>2. /\ cur_parser_index \in Nat /\ saved_parser_index \in Nat
      /\ cur_parser_index + n - saved_parser_index <= Lookahead
  BY DEF ParserIInv, ParserTypeOK, EnsureValidBytes, Wants
<1>3. cur_parser_index' + n > BankSize
  BY <1>1 DEF EnsureValidBytes, RequestBytes
<1>4. CASE cur_parser_index + n > BankSize
  <2>1. cur_parser_index' = cur_parser_index - saved_parser_index
    BY <1>1, <1>4 DEF EnsureValidBytes, SwapBanks
  <2>2. (cur_parser_index - saved_parser_index) + n > BankSize
    BY <1>3, <2>1
  <2> HIDE DEF needed
  <2> QED
    BY <1>1, <1>2, <2>2, SizesAssumption
<1>5. CASE ~(cur_parser_index + n > BankSize)
  <2>1. cur_parser_index' = cur_parser_index
    BY <1>1, <1>5 DEF EnsureValidBytes
  <2> QED
    BY <1>3, <1>5, <2>1
<1> QED
  BY <1>4, <1>5

(* A parser whose look-ahead fits a bank is never given up on, however its   *)
(* frames lie across the end of a bank.                                      *)
THEOREM AlwaysRoom == ParserSpec => []NeverAborts
<1>1. ParserInit => NeverAborts
  BY DEF ParserInit, NeverAborts
<1>2. ParserIInv /\ NeverAborts /\ [ParserNext]_parser_vars => NeverAborts'
  <2> SUFFICES ASSUME ParserIInv, NeverAborts, [ParserNext]_parser_vars,
                      Lookahead <= BankSize, MaxInputFrameSize = 0
               PROVE  phase' # "aborted"
    BY DEF NeverAborts
  <2>1. phase # "aborted"
    BY DEF NeverAborts
  <2>2. CASE StartParsing \/ SaveParserState \/ FrameDone \/ OnInputClosure \/ StopGettingFrames
    BY <2>1, <2>2 DEF StartParsing, SaveParserState, FrameDone, OnInputClosure, ContinueParsing,
                      StopGettingFrames
  <2>3. ASSUME NEW n \in 1 .. Lookahead, GetBytes(n) PROVE phase' # "aborted"
    BY <2>1, <2>3 DEF GetBytes
  <2>4. ASSUME NEW k \in 1 .. BankSize, AfterGettingBytes(k) PROVE phase' # "aborted"
    BY <2>4 DEF AfterGettingBytes, ContinueParsing
  <2>5. CASE UNCHANGED parser_vars
    BY <2>1, <2>5 DEF parser_vars
  <2> QED
    BY <2>2, <2>3, <2>4, <2>5, AbortNeedsRoom DEF ParserNext
<1> QED
  BY <1>1, <1>2, ParserInvariantHolds, PTL DEF ParserSpec

(* The bytes a read returns are those at the cursor of the abstract stream. *)
LEMMA ReadRefines ==
  ASSUME ParserIInv, NEW n \in 1 .. Lookahead, GetBytes(n)
  PROVE  Stream!Next
<1>1. /\ n \in Nat /\ n >= 1 /\ received \in Nat
      /\ cur_parser_index \in Nat /\ tot_num_valid_bytes \in Nat
      /\ cur_parser_index + n <= tot_num_valid_bytes
  BY SizesAssumption DEF ParserIInv, ParserTypeOK, GetBytes
<1>2. n \in 1 .. received - Place(cur_parser_index)
  BY <1>1 DEF Place
<1>3. /\ cur_parser_index' = cur_parser_index + n
      /\ UNCHANGED <<received, saved_parser_index, tot_num_valid_bytes>>
      /\ block' = [i \in 0 .. n - 1 |-> bank[cur_bank_num][cur_parser_index + i]]
  BY DEF GetBytes
<1>4. \A i \in 0 .. n - 1 :
        bank[cur_bank_num][cur_parser_index + i] = Place(cur_parser_index) + i
  <2> SUFFICES ASSUME NEW i \in 0 .. n - 1
               PROVE  bank[cur_bank_num][cur_parser_index + i] = Place(cur_parser_index) + i
    OBVIOUS
  <2>1. cur_parser_index + i \in 0 .. tot_num_valid_bytes - 1
    BY <1>1
  <2>2. bank[cur_bank_num][cur_parser_index + i]
          = received - tot_num_valid_bytes + (cur_parser_index + i)
    BY <2>1 DEF ParserIInv, BankHoldsTail
  <2> QED
    BY <1>1, <2>2 DEF Place
<1>5. block' = [i \in 0 .. n - 1 |-> Place(cur_parser_index) + i]
  BY <1>3, <1>4
<1>6. received - tot_num_valid_bytes + (cur_parser_index + n)
        = received - tot_num_valid_bytes + cur_parser_index + n
  BY <1>1
<1>7. /\ Place(cur_parser_index)' = Place(cur_parser_index) + n
      /\ UNCHANGED <<received, Place(saved_parser_index)>>
  BY <1>3, <1>6 DEF Place
<1>8. Stream!Read(n)
  BY <1>5, <1>7 DEF Stream!Read
<1> QED
  BY <1>2, <1>8 DEF Stream!Next

(* A request for more bytes is invisible, a change of bank included. *)
LEMMA EnsureRefines ==
  ASSUME ParserIInv, NEW n \in 1 .. Lookahead, EnsureValidBytes(n)
  PROVE  UNCHANGED Stream!vars
<1>1. UNCHANGED <<received, block>>
  BY DEF EnsureValidBytes
<1>2. CASE SwapBanks
  <2>1. /\ saved_parser_index' = 0
        /\ cur_parser_index' = cur_parser_index - saved_parser_index
        /\ tot_num_valid_bytes' = tot_num_valid_bytes - saved_parser_index
    BY <1>2 DEF SwapBanks
  <2>2. /\ received - (tot_num_valid_bytes - saved_parser_index) + 0
             = received - tot_num_valid_bytes + saved_parser_index
        /\ received - (tot_num_valid_bytes - saved_parser_index)
                + (cur_parser_index - saved_parser_index)
             = received - tot_num_valid_bytes + cur_parser_index
    BY DEF ParserIInv, ParserTypeOK
  <2> QED
    BY <1>1, <2>1, <2>2 DEF Stream!vars, Place
<1>3. CASE UNCHANGED <<bank_vars, saved_parser_index, cur_parser_index, tot_num_valid_bytes>>
  BY <1>1, <1>3 DEF Stream!vars, Place
<1> QED
  BY <1>2, <1>3 DEF EnsureValidBytes

(* Bytes arrive at the end of the abstract stream. *)
LEMMA ArriveRefines ==
  ASSUME ParserIInv, NEW k \in 1 .. BankSize, AfterGettingBytes(k)
  PROVE  Stream!Next
<1>1. /\ received \in Nat /\ tot_num_valid_bytes \in Nat /\ saved_parser_index \in Nat
      /\ k \in Nat
  BY SizesAssumption DEF ParserIInv, ParserTypeOK
<1>2. /\ received' = received + k
      /\ tot_num_valid_bytes' = tot_num_valid_bytes + k
      /\ cur_parser_index' = saved_parser_index
      /\ UNCHANGED <<saved_parser_index, block>>
  BY DEF AfterGettingBytes, ContinueParsing
<1>3. /\ received + k - (tot_num_valid_bytes + k) + saved_parser_index
           = received - tot_num_valid_bytes + saved_parser_index
      /\ received + k \in Nat /\ received + k >= received
  BY <1>1
<1>4. received' \in Nat /\ received' >= received
  <2>1. received' = received + k
    BY <1>2
  <2> QED
    BY <1>3, <2>1
<1>5. /\ Place(cur_parser_index)' = Place(saved_parser_index)
      /\ Place(saved_parser_index)' = Place(saved_parser_index)
  <2> DEFINE new == received + k
             valid == tot_num_valid_bytes + k
  <2>1. /\ received' = new /\ tot_num_valid_bytes' = valid
        /\ cur_parser_index' = saved_parser_index /\ saved_parser_index' = saved_parser_index
    BY <1>2
  <2>2. new - valid + saved_parser_index = received - tot_num_valid_bytes + saved_parser_index
    BY <1>1
  <2> HIDE DEF new, valid
  <2> QED
    BY <2>1, <2>2 DEF Place
<1>6. Stream!Arrive
  BY <1>2, <1>4, <1>5 DEF Stream!Arrive
<1> QED
  BY <1>6 DEF Stream!Next

LEMMA StepRefines == ParserIInv /\ [ParserNext]_parser_vars => [Stream!Next]_(Stream!vars)
<1> SUFFICES ASSUME ParserIInv, [ParserNext]_parser_vars PROVE [Stream!Next]_(Stream!vars)
  OBVIOUS
<1>0. received \in Nat /\ tot_num_valid_bytes \in Nat
  BY DEF ParserIInv, ParserTypeOK
<1>1. CASE StartParsing \/ UNCHANGED parser_vars
  BY <1>1 DEF StartParsing, parser_vars, Stream!vars, Place
<1>2. CASE SaveParserState \/ FrameDone
  BY <1>2 DEF SaveParserState, FrameDone, Stream!Next, Stream!Commit, Place
<1>3. CASE OnInputClosure
  <2>1. UNCHANGED <<received, saved_parser_index, tot_num_valid_bytes, block>>
    BY <1>3 DEF OnInputClosure
  <2>2. CASE cur_parser_index' = cur_parser_index
    BY <2>1, <2>2 DEF Stream!vars, Place
  <2>3. CASE cur_parser_index' = saved_parser_index
    <3>1. received \in Nat /\ received >= received
      BY <1>0
    <3>2. Stream!Arrive
      BY <2>1, <2>3, <3>1 DEF Stream!Arrive, Place
    <3> QED
      BY <3>2 DEF Stream!Next
  <2> QED
    BY <1>3, <2>2, <2>3 DEF OnInputClosure, ContinueParsing
<1>4. CASE StopGettingFrames
  <2>1. /\ saved_parser_index' = 0 /\ cur_parser_index' = 0 /\ tot_num_valid_bytes' = 0
        /\ UNCHANGED <<received, block>>
    BY <1>4 DEF StopGettingFrames
  <2>2. received - 0 + 0 = received
    BY <1>0
  <2>3. Stream!Flush
    BY <2>1, <2>2 DEF Stream!Flush, Place
  <2> QED
    BY <2>3 DEF Stream!Next
<1> QED
  BY <1>1, <1>2, <1>3, <1>4, ReadRefines, EnsureRefines, ArriveRefines DEF ParserNext

(* The two banks implement one endless stream: whatever is requested, moved  *)
(* or interrupted, the parser reads each byte of the input in its order.     *)
THEOREM StreamImplemented == ParserSpec => ImplementsByteStream
<1>1. ParserInit => Stream!Init
  BY DEF ParserInit, Stream!Init, Place
<1>2. ParserIInv /\ [ParserNext]_parser_vars => [Stream!Next]_(Stream!vars)
  BY StepRefines
<1> QED
  BY <1>1, <1>2, ParserInvariantHolds, PTL DEF ParserSpec, ImplementsByteStream, Stream!Spec


------------------------------------------------------------------------------
(* Remainders. *)

LEMMA Division ==
  ASSUME NEW a \in Int, NEW m \in Nat \ {0}
  PROVE  /\ a % m \in 0 .. m - 1 /\ a \div m \in Int
         /\ a = m * (a \div m) + (a % m)
OBVIOUS

LEMMA SmallMultiple ==
  ASSUME NEW k \in Int, NEW m \in Nat \ {0}, m * k < m, -m < m * k
  PROVE  k = 0
<1>1. CASE k >= 1
  <2>1. m * k >= m
    BY <1>1
  <2> QED
    BY <2>1
<1>2. CASE k <= -1
  <2>1. m * k <= -m
    BY <1>2
  <2> QED
    BY <2>1
<1> QED
  BY <1>1, <1>2

LEMMA Remainder ==
  ASSUME NEW m \in Nat \ {0}, NEW q \in Int, NEW r \in 0 .. m - 1
  PROVE  (r + m * q) % m = r
<1> DEFINE a == r + m * q
           k == q - (a \div m)
<1>1. a = m * (a \div m) + (a % m) /\ a % m \in 0 .. m - 1 /\ a \div m \in Int
  BY Division
<1>2. k \in Int /\ m * k = (a % m) - r
  BY <1>1
<1>3. m * k < m /\ -m < m * k
  BY <1>1, <1>2
<1> HIDE DEF k
<1>4. k = 0
  BY <1>2, <1>3, SmallMultiple
<1> QED
  BY <1>1, <1>2, <1>4

LEMMA RemainderOfSum ==
  ASSUME NEW m \in Nat \ {0}, NEW a \in Int, NEW b \in Int
  PROVE  ((a % m) + b) % m = (a + b) % m
<1> DEFINE q == a \div m
           c == (a % m) + b
           p == c \div m
           s == c % m
<1>1. a = m * q + (a % m) /\ q \in Int /\ a % m \in Int
  BY Division
<1>2. c \in Int /\ c = a - m * q + b
  BY <1>1
<1> HIDE DEF c
<1>3. c = m * p + s /\ p \in Int /\ s \in 0 .. m - 1
  BY <1>2, Division
<1> HIDE DEF q, p, s
<1>4. m * q + m * p = m * (q + p) /\ q + p \in Int
  BY <1>1, <1>3
<1>5. a + b = s + m * (q + p)
  BY <1>1, <1>2, <1>3, <1>4
<1>6. (s + m * (q + p)) % m = s
  BY <1>3, <1>4, Remainder
<1>7. (a + b) % m = s
  BY <1>5, <1>6
<1> QED
  BY <1>7 DEF c, s

------------------------------------------------------------------------------
(* Packet buffers whose packet begins with the first cell. *)

WordKinds == {"blank", "header", "timestamp", "ssrc", "frame", "rtcp", "ntp", "count"}
Words == WordKinds \X Int \X Int

CellArrays == UNION {[0 .. n - 1 -> Words] : n \in Nat}

Buffers ==
  [preferred : Nat, max : Nat, limit : Nat, packet_start : {0}, cur_offset : Nat,
   overflow_data_offset : Nat, overflow_data_size : {0}, cells : CellArrays]

BufferOK(b) ==
  /\ b \in Buffers
  /\ b.cells \in [0 .. b.limit - 1 -> Words]
  /\ b.cur_offset <= b.limit

SameRoom(b, c) == c.limit = b.limit /\ c.max = b.max

LEMMA WordTypes ==
  /\ Blank \in Words /\ Ssrc \in Words
  /\ \A i, j \in Int : Header(i, j) \in Words /\ Timestamp(i) \in Words
                       /\ FrameWord(i, j) \in Words
BY DEF Words, WordKinds, Blank, Ssrc, Header, Timestamp, FrameWord

LEMMA CellsInBuffers ==
  ASSUME NEW n \in Nat, NEW cells \in [0 .. n - 1 -> Words]
  PROVE  cells \in CellArrays
BY DEF CellArrays

LEMMA NewBufferOK ==
  ASSUME NEW preferred \in Nat, NEW max \in Nat \ {0}, NEW size \in Nat
  PROVE  LET b == NewBuffer(preferred, max, size)
         IN  BufferOK(b) /\ b.max = max /\ b.cur_offset = 0 /\ (size > 0 => b.limit >= max)
<1> DEFINE k == (size + max - 1) \div max
           limit == k * max
           cells == [i \in 0 .. limit - 1 |-> Blank]
           b == NewBuffer(preferred, max, size)
<1>1. /\ k \in Int
      /\ \E r \in 0 .. max - 1 : size + max - 1 = max * k + r
  <2> DEFINE n == size + max - 1
  <2>1. n \in Int
    OBVIOUS
  <2> HIDE DEF n
  <2>2. n \div max \in Int /\ n = max * (n \div max) + (n % max) /\ n % max \in 0 .. max - 1
    BY <2>1, Division
  <2> QED
    BY <2>2 DEF n
<1>2. k >= 0 /\ (size > 0 => k >= 1)
  <2>1. CASE k <= -1
    <3>1. max * k <= -max
      BY <2>1, <1>1
    <3> QED
      BY <3>1, <1>1
  <2>2. CASE k = 0
    BY <2>2, <1>1
  <2> QED
    BY <2>1, <2>2, <1>1
<1> HIDE DEF k
<1>3. limit \in Nat /\ (size > 0 => limit >= max)
  <2>1. k * max >= 0 /\ k * max \in Int
    BY <1>1, <1>2
  <2>2. k >= 1 => k * max >= max
    BY <1>1
  <2> QED
    BY <1>2, <2>1, <2>2
<1>4. b = [preferred |-> preferred, max |-> max, limit |-> limit, packet_start |-> 0,
           cur_offset |-> 0, overflow_data_offset |-> 0, overflow_data_size |-> 0, cells |-> cells]
  BY DEF NewBuffer, k
<1> HIDE DEF limit, b
<1>5. cells \in [0 .. limit - 1 -> Words]
  BY WordTypes
<1>6. cells \in CellArrays
  BY <1>3, <1>5, CellsInBuffers
<1> HIDE DEF cells
<1> QED
  BY <1>3, <1>4, <1>5, <1>6 DEF BufferOK, Buffers, b

(* The buffer w is b with the words in it from "at" on. *)
HoldsWords(w, b, at, words) ==
  /\ BufferOK(w) /\ SameRoom(b, w)
  /\ \A i \in 0 .. b.limit - 1 :
       w.cells[i] = IF i - at \in 0 .. Len(words) - 1 THEN words[i - at + 1] ELSE b.cells[i]

LEMMA WrittenOK ==
  ASSUME NEW b, BufferOK(b), NEW at \in Nat, NEW words \in Seq(Words)
  PROVE  /\ HoldsWords(Written(b, at, words), b, at, words)
         /\ Written(b, at, words).cur_offset = b.cur_offset
<1> DEFINE cells == [i \in DOMAIN b.cells |->
                       IF i - at \in 0 .. Len(words) - 1 THEN words[i - at + 1] ELSE b.cells[i]]
<1>1. b \in Buffers /\ DOMAIN b.cells = 0 .. b.limit - 1 /\ b.limit \in Nat
      /\ b.cells \in [0 .. b.limit - 1 -> Words] /\ b.cur_offset <= b.limit
  BY DEF BufferOK, Buffers
<1>2. Written(b, at, words) = [b EXCEPT !.cells = cells]
  BY DEF Written
<1>3. cells \in [0 .. b.limit - 1 -> Words]
  <2> SUFFICES ASSUME NEW i \in 0 .. b.limit - 1
               PROVE  (IF i - at \in 0 .. Len(words) - 1 THEN words[i - at + 1] ELSE b.cells[i]) \in Words
    BY <1>1
  <2>1. CASE i - at \in 0 .. Len(words) - 1
    <3>1. i - at + 1 \in 1 .. Len(words)
      BY <2>1, <1>1
    <3> QED
      BY <2>1, <3>1
  <2>2. CASE i - at \notin 0 .. Len(words) - 1
    BY <2>2, <1>1
  <2> QED
    BY <2>1, <2>2
<1>4. cells \in CellArrays
  BY <1>1, <1>3, CellsInBuffers
<1>5. \A i \in 0 .. b.limit - 1 :
        cells[i] = IF i - at \in 0 .. Len(words) - 1 THEN words[i - at + 1] ELSE b.cells[i]
  BY <1>1
<1> HIDE DEF cells
<1>6. /\ [b EXCEPT !.cells = cells] \in Buffers
      /\ [b EXCEPT !.cells = cells].cells = cells
      /\ SameRoom(b, [b EXCEPT !.cells = cells])
      /\ [b EXCEPT !.cells = cells].cur_offset = b.cur_offset
  BY <1>1, <1>4 DEF Buffers, SameRoom
<1>7. [b EXCEPT !.cells = cells].limit = b.limit
  BY <1>6 DEF SameRoom
<1>8. BufferOK([b EXCEPT !.cells = cells])
  BY <1>1, <1>3, <1>6, <1>7 DEF BufferOK
<1> QED
  BY <1>2, <1>5, <1>6, <1>8 DEF HoldsWords

LEMMA IncrementOK ==
  ASSUME NEW b, BufferOK(b), NEW n \in Nat, b.cur_offset + n <= b.limit
  PROVE  /\ BufferOK(Increment(b, n)) /\ SameRoom(b, Increment(b, n))
         /\ Increment(b, n).cur_offset = b.cur_offset + n
         /\ Increment(b, n).cells = b.cells
<1>1. b \in Buffers /\ b.cells \in [0 .. b.limit - 1 -> Words]
  BY DEF BufferOK
<1>2. Increment(b, n) = [b EXCEPT !.cur_offset = b.cur_offset + n]
  BY DEF Increment
<1>3. /\ Increment(b, n) \in Buffers /\ SameRoom(b, Increment(b, n))
      /\ Increment(b, n).cur_offset = b.cur_offset + n
      /\ Increment(b, n).cells = b.cells
  BY <1>1, <1>2 DEF Buffers, SameRoom
<1> QED
  BY <1>1, <1>3 DEF BufferOK, SameRoom

LEMMA EnqueueOK ==
  ASSUME NEW b, BufferOK(b), NEW words \in Seq(Words)
  PROVE  /\ BufferOK(Enqueue(b, words)) /\ SameRoom(b, Enqueue(b, words))
         /\ b.cur_offset + Len(words) <= b.limit =>
              /\ Enqueue(b, words).cur_offset = b.cur_offset + Len(words)
              /\ HoldsWords(Enqueue(b, words), b, b.cur_offset, words)
<1> DEFINE n == Least(Len(words), TotalBytesAvailable(b))
           part == SubSeq(words, 1, n)
           w == Written(b, Cur(b), part)
           e == Enqueue(b, words)
<1>1. b.limit \in Nat /\ b.cur_offset \in 0 .. b.limit /\ b.packet_start = 0 /\ Len(words) \in Nat
  BY DEF BufferOK, Buffers
<1>2. Cur(b) = b.cur_offset /\ TotalBytesAvailable(b) = b.limit - b.cur_offset
  BY <1>1 DEF Cur, TotalBytesAvailable
<1>3. n \in 0 .. Len(words) /\ b.cur_offset + n <= b.limit
      /\ (b.cur_offset + Len(words) <= b.limit => n = Len(words))
  BY <1>1, <1>2 DEF Least
<1>4. e = Increment(w, n)
  BY DEF Enqueue
<1> HIDE DEF n
<1>5. part \in Seq(Words) /\ (n = Len(words) => part = words)
  BY <1>3
<1>6. w = Written(b, b.cur_offset, part)
  BY <1>2
<1> HIDE DEF part, w, e
<1>7. HoldsWords(w, b, b.cur_offset, part) /\ w.cur_offset = b.cur_offset
  BY <1>1, <1>5, <1>6, WrittenOK
<1>8. BufferOK(w) /\ SameRoom(b, w)
  BY <1>7 DEF HoldsWords
<1>9. BufferOK(e) /\ SameRoom(w, e) /\ e.cur_offset = b.cur_offset + n /\ e.cells = w.cells
  BY <1>1, <1>3, <1>4, <1>7, <1>8, IncrementOK DEF SameRoom
<1>10. SameRoom(b, e) /\ HoldsWords(e, b, b.cur_offset, part)
  BY <1>7, <1>8, <1>9 DEF HoldsWords, SameRoom
<1> QED
  BY <1>3, <1>5, <1>9, <1>10 DEF e

LEMMA EnqueueWordOK ==
  ASSUME NEW b, BufferOK(b), NEW word \in Words, b.cur_offset < b.limit
  PROVE  /\ BufferOK(Enqueue(b, <<word>>)) /\ SameRoom(b, Enqueue(b, <<word>>))
         /\ Enqueue(b, <<word>>).cur_offset = b.cur_offset + 1
         /\ \A i \in 0 .. b.limit - 1 :
              Enqueue(b, <<word>>).cells[i] = IF i = b.cur_offset THEN word ELSE b.cells[i]
<1> DEFINE one == <<word>>
           e == Enqueue(b, one)
<1>1. b.limit \in Nat /\ b.cur_offset \in Nat
  BY DEF BufferOK, Buffers
<1>2. one \in Seq(Words) /\ Len(one) = 1 /\ one[1] = word
  OBVIOUS
<1> HIDE DEF one
<1>3. BufferOK(e) /\ SameRoom(b, e)
  BY <1>2, EnqueueOK
<1>4. b.cur_offset + Len(one) <= b.limit
  BY <1>1, <1>2
<1>5. e.cur_offset = b.cur_offset + Len(one) /\ HoldsWords(e, b, b.cur_offset, one)
  BY <1>2, <1>4, EnqueueOK
<1>6. e.cur_offset = b.cur_offset + 1
  BY <1>2, <1>5
<1> HIDE DEF e
<1>7. ASSUME NEW i \in 0 .. b.limit - 1
      PROVE  e.cells[i] = IF i = b.cur_offset THEN word ELSE b.cells[i]
  <2>1. e.cells[i] = IF i - b.cur_offset \in 0 .. Len(one) - 1 THEN one[i - b.cur_offset + 1] ELSE b.cells[i]
    BY <1>5 DEF HoldsWords
  <2> QED
    BY <1>1, <1>2, <2>1
<1> QED
  BY <1>3, <1>6, <1>7 DEF e, one

(* The word that InsertWord() replaces is within the packet. *)
LEMMA InsertWordOK ==
  ASSUME NEW b, BufferOK(b), NEW word \in Words, NEW position \in Nat, position < b.cur_offset
  PROVE  /\ BufferOK(InsertWord(b, word, position)) /\ SameRoom(b, InsertWord(b, word, position))
         /\ InsertWord(b, word, position).cur_offset = b.cur_offset
         /\ \A i \in 0 .. b.limit - 1 :
              InsertWord(b, word, position).cells[i] = IF i = position THEN word ELSE b.cells[i]
<1> DEFINE one == <<word>>
           w == Written(b, position, one)
           e == InsertWord(b, word, position)
<1>1. b.limit \in Nat /\ b.cur_offset \in 0 .. b.limit /\ b.packet_start = 0
  BY DEF BufferOK, Buffers
<1>2. one \in Seq(Words) /\ Len(one) = 1 /\ one[1] = word
  OBVIOUS
<1>3. ~(b.packet_start + position >= b.limit) /\ b.packet_start + position = position
  BY <1>1
<1>4. e = [w EXCEPT !.cur_offset = IF position + 1 > w.cur_offset THEN position + 1 ELSE w.cur_offset]
  BY <1>3 DEF InsertWord
<1> HIDE DEF e
<1>5. HoldsWords(w, b, position, one) /\ w.cur_offset = b.cur_offset
  <2> HIDE DEF one
  <2> QED
    BY <1>2, WrittenOK
<1> HIDE DEF one, w
<1>6. e = [w EXCEPT !.cur_offset = w.cur_offset]
  BY <1>1, <1>4, <1>5
<1>7. w \in Buffers
  BY <1>5 DEF HoldsWords, BufferOK
<1>8. e = w
  BY <1>6, <1>7 DEF Buffers
<1>9. \A i \in 0 .. b.limit - 1 : w.cells[i] = IF i = position THEN word ELSE b.cells[i]
  <2> SUFFICES ASSUME NEW i \in 0 .. b.limit - 1
               PROVE  w.cells[i] = IF i = position THEN word ELSE b.cells[i]
    OBVIOUS
  <2>1. w.cells[i] = IF i - position \in 0 .. Len(one) - 1 THEN one[i - position + 1] ELSE b.cells[i]
    BY <1>5 DEF HoldsWords
  <2> QED
    BY <1>1, <1>2, <2>1
<1>10. BufferOK(w) /\ SameRoom(b, w)
  BY <1>5 DEF HoldsWords
<1> QED
  BY <1>5, <1>8, <1>9, <1>10 DEF e

LEMMA ResetOK ==
  ASSUME NEW b, BufferOK(b)
  PROVE  /\ BufferOK(ResetOffset(b)) /\ SameRoom(b, ResetOffset(b)) /\ ResetOffset(b).cur_offset = 0
         /\ ResetPacketStart(b) = b
         /\ BufferOK(ResetOverflowData(b)) /\ SameRoom(b, ResetOverflowData(b))
         /\ ResetOverflowData(b).cur_offset = b.cur_offset
<1>1. b \in Buffers /\ b.limit \in Nat
      /\ b.cells \in [0 .. b.limit - 1 -> Words] /\ b.cur_offset <= b.limit
  BY DEF BufferOK, Buffers
<1>2. b.packet_start = 0 /\ b.overflow_data_size = 0
  BY <1>1 DEF Buffers
<1>3. ResetPacketStart(b) = b
  <2>1. ResetPacketStart(b) = [b EXCEPT !.overflow_data_offset = b.overflow_data_offset,
                                        !.packet_start = b.packet_start]
    BY <1>2 DEF ResetPacketStart, HaveOverflowData
  <2> QED
    BY <1>1, <2>1 DEF Buffers
<1>4. LET c == [b EXCEPT !.cur_offset = 0]
      IN  c \in Buffers /\ c.cells = b.cells /\ SameRoom(b, c) /\ c.cur_offset = 0
  BY <1>1 DEF Buffers, SameRoom
<1>5. LET c == [b EXCEPT !.overflow_data_offset = 0, !.overflow_data_size = 0]
      IN  c \in Buffers /\ c.cells = b.cells /\ SameRoom(b, c) /\ c.cur_offset = b.cur_offset
  BY <1>1 DEF Buffers, SameRoom
<1>6. BufferOK(ResetOffset(b)) /\ SameRoom(b, ResetOffset(b)) /\ ResetOffset(b).cur_offset = 0
  BY <1>1, <1>4 DEF BufferOK, SameRoom, ResetOffset
<1>7. /\ BufferOK(ResetOverflowData(b)) /\ SameRoom(b, ResetOverflowData(b))
      /\ ResetOverflowData(b).cur_offset = b.cur_offset
  BY <1>1, <1>5 DEF BufferOK, SameRoom, ResetOverflowData, SetOverflowData
<1> QED
  BY <1>3, <1>6, <1>7

------------------------------------------------------------------------------
(* The sink. *)

Sinks ==
  [seq_no : 0 .. SeqMod - 1, timestamp_base : 0 .. TimestampMod - 1, buf : Buffers,
   source : {"none", "fragmenter"}, our_fragmenter : BOOLEAN, input : BOOLEAN, to : Nat,
   is_first_packet : BOOLEAN, timestamp_position : Nat, num_frames_used_so_far : Nat,
   overflowed : {FALSE}, timer : BOOLEAN, packet_count : Nat, octet_count : Int, preset : BOOLEAN]

SinkOK(s) ==
  /\ s \in Sinks
  /\ BufferOK(s.buf) /\ s.buf.max = MaxSize /\ MaxSize <= s.buf.limit

(* The packet of the sink has its header and waits for a frame. *)
HeaderBuilt(s) ==
  /\ s.buf.cur_offset = RtpHeaderSize /\ s.to = RtpHeaderSize /\ s.timestamp_position = 1
  /\ s.buf.cells[0] = Header(s.seq_no, 0) /\ s.buf.cells[2] = Ssrc

(* What the next packet is to carry. *)
SamePlan(s, t) ==
  /\ t.seq_no = s.seq_no /\ t.timestamp_base = s.timestamp_base /\ t.preset = s.preset

LEMMA ConstantTypes ==
  /\ MaxSize \in Nat \ {0} /\ PreferredSize \in Nat /\ BufferSize \in Nat \ {0}
  /\ Frequency \in Nat /\ StartTime \in Nat /\ 3 < MaxSize
  /\ TimestampMod \in Nat \ {0} /\ SeqMod \in Nat \ {0}
BY SinkAssumption DEF RtpHeaderSize

LEMMA BuildHeaderOK ==
  ASSUME NEW s, SinkOK(s), s.buf.cur_offset = 0
  PROVE  LET t == PackFrame(BuildHeader(s))
         IN  SinkOK(t) /\ HeaderBuilt(t) /\ SamePlan(s, t) /\ t.source = s.source
<1> DEFINE hdr == Enqueue(s.buf, <<Header(s.seq_no, 0)>>)
           skipped == SkipWords(hdr, 1)
           b == Enqueue(skipped, <<Ssrc>>)
           t == PackFrame(BuildHeader(s))
<1>1. s \in Sinks /\ BufferOK(s.buf) /\ s.buf.max = MaxSize /\ MaxSize <= s.buf.limit
  BY DEF SinkOK
<1>2. s.buf.limit \in Nat /\ 3 < s.buf.limit
  BY <1>1, ConstantTypes DEF BufferOK, Buffers
<1>3. Header(s.seq_no, 0) \in Words /\ Ssrc \in Words
  <2>1. s.seq_no \in Int
    BY <1>1, ConstantTypes DEF Sinks
  <2> QED
    BY <2>1, WordTypes
<1>4. /\ BufferOK(hdr) /\ SameRoom(s.buf, hdr) /\ hdr.cur_offset = 1
      /\ hdr.cells[0] = Header(s.seq_no, 0)
  <2>1. s.buf.cur_offset < s.buf.limit
    BY <1>2
  <2> QED
    BY <1>1, <1>2, <1>3, <2>1, EnqueueWordOK
<1>5. t = [s EXCEPT !.timer = FALSE, !.timestamp_position = hdr.cur_offset, !.buf = b,
                    !.num_frames_used_so_far = 0, !.to = Cur(b)]
  BY <1>1 DEF BuildHeader, PackFrame, Sinks
<1>6. hdr.limit = s.buf.limit /\ hdr.max = s.buf.max /\ hdr.packet_start = 0
  BY <1>4 DEF SameRoom, BufferOK, Buffers
<1> HIDE DEF hdr, t
<1>7. skipped = Increment(hdr, 1)
  BY <1>2, <1>4, <1>6 DEF SkipWords, Least, TotalBytesAvailable, Cur
<1>8. BufferOK(skipped) /\ SameRoom(hdr, skipped) /\ skipped.cur_offset = 2 /\ skipped.cells = hdr.cells
  BY <1>2, <1>4, <1>6, <1>7, IncrementOK
<1>9. skipped.limit = s.buf.limit /\ skipped.max = s.buf.max
  BY <1>6, <1>8 DEF SameRoom
<1> HIDE DEF skipped
<1>10. /\ BufferOK(b) /\ SameRoom(skipped, b) /\ b.cur_offset = 3
       /\ b.cells[0] = Header(s.seq_no, 0) /\ b.cells[2] = Ssrc
  <2>1. skipped.cur_offset < skipped.limit
    BY <1>2, <1>8, <1>9
  <2>2. /\ BufferOK(b) /\ SameRoom(skipped, b) /\ b.cur_offset = skipped.cur_offset + 1
        /\ \A i \in 0 .. skipped.limit - 1 : b.cells[i] = IF i = skipped.cur_offset THEN Ssrc ELSE skipped.cells[i]
    BY <1>3, <1>8, <2>1, EnqueueWordOK
  <2> QED
    BY <1>2, <1>4, <1>8, <1>9, <2>2
<1>11. b.limit = s.buf.limit /\ b.max = s.buf.max /\ b \in Buffers /\ Cur(b) = 3
  BY <1>9, <1>10 DEF SameRoom, BufferOK, Buffers, Cur
<1> HIDE DEF b
<1>12. t = [s EXCEPT !.timer = FALSE, !.timestamp_position = 1, !.buf = b,
                     !.num_frames_used_so_far = 0, !.to = 3]
  BY <1>4, <1>5, <1>11
<1>13. t \in Sinks
  BY <1>1, <1>11, <1>12 DEF Sinks
<1>14. /\ t.buf = b /\ t.to = 3 /\ t.timestamp_position = 1
       /\ t.seq_no = s.seq_no /\ t.source = s.source
       /\ SamePlan(s, t)
  BY <1>1, <1>12 DEF Sinks, SamePlan
<1>15. SinkOK(t)
  BY <1>1, <1>10, <1>11, <1>13, <1>14 DEF SinkOK
<1>16. HeaderBuilt(t)
  BY <1>10, <1>14 DEF HeaderBuilt, RtpHeaderSize
<1> QED
  BY <1>14, <1>15, <1>16 DEF t

------------------------------------------------------------------------------
(* Time stamps. *)

LEMMA TicksType ==
  ASSUME NEW t \in Nat
  PROVE  Ticks(t) \in Int
<1> DEFINE f == Frequency * t
<1>1. f \in Int
  BY ConstantTypes
<1>2. Ticks(t) = f + Rounded(f)
  BY DEF Ticks
<1> HIDE DEF f
<1>3. Rounded(f) \in Int
  BY <1>1 DEF Rounded
<1> QED
  BY <1>1, <1>2, <1>3

LEMMA TimestampType ==
  ASSUME NEW s, SinkOK(s), NEW t \in Nat
  PROVE  BaseFor(s, t) \in 0 .. TimestampMod - 1 /\ RtpTimestamp(s, t) \in 0 .. TimestampMod - 1
<1> DEFINE k == Ticks(t)
           d == s.timestamp_base - k
           e == BaseFor(s, t) + k
<1>1. s.timestamp_base \in 0 .. TimestampMod - 1
  BY DEF SinkOK, Sinks
<1>2. k \in Int
  BY TicksType
<1>3. BaseFor(s, t) = IF s.preset THEN d % TimestampMod ELSE s.timestamp_base
  BY DEF BaseFor
<1>4. RtpTimestamp(s, t) = e % TimestampMod
  BY DEF RtpTimestamp
<1> HIDE DEF k
<1>5. d \in Int
  BY <1>1, <1>2, ConstantTypes
<1> HIDE DEF d
<1>6. BaseFor(s, t) \in 0 .. TimestampMod - 1
  <2>1. d % TimestampMod \in 0 .. TimestampMod - 1
    BY <1>5, ConstantTypes, Division
  <2> QED
    BY <1>1, <1>3, <2>1
<1>7. e \in Int
  BY <1>2, <1>6, ConstantTypes
<1> HIDE DEF e
<1>8. e % TimestampMod \in 0 .. TimestampMod - 1
  BY <1>7, ConstantTypes, Division
<1> QED
  BY <1>4, <1>6, <1>8

(* A preset time stamp is the one that the next packet gets, at any time. *)
LEMMA PresetTimestamp ==
  ASSUME NEW s, SinkOK(s), s.preset, NEW t \in Nat
  PROVE  RtpTimestamp(s, t) = s.timestamp_base
<1> DEFINE x == s.timestamp_base
           k == Ticks(t)
           d == x - k
<1>1. x \in 0 .. TimestampMod - 1 /\ TimestampMod \in Nat \ {0}
  BY ConstantTypes DEF SinkOK, Sinks
<1>2. k \in Int
  BY TicksType
<1>3. RtpTimestamp(s, t) = ((d % TimestampMod) + k) % TimestampMod
  BY DEF RtpTimestamp, BaseFor
<1> HIDE DEF k, x
<1>4. d \in Int /\ d + k = x
  BY <1>1, <1>2
<1> HIDE DEF d
<1>5. ((d % TimestampMod) + k) % TimestampMod = x % TimestampMod
  BY <1>1, <1>2, <1>4, RemainderOfSum
<1>6. x % TimestampMod = x
  <2>1. x + TimestampMod * 0 = x
    BY <1>1
  <2>2. (x + TimestampMod * 0) % TimestampMod = x
    BY <1>1, Remainder
  <2> QED
    BY <2>1, <2>2
<1> QED
  BY <1>3, <1>5, <1>6 DEF x

LEMMA ConvertedOK ==
  ASSUME NEW s, SinkOK(s), NEW t \in Nat
  PROVE  /\ SinkOK(Converted(s, t)) /\ Converted(s, t).preset = FALSE
         /\ Converted(s, t).buf = s.buf /\ Converted(s, t).seq_no = s.seq_no
         /\ Converted(s, t).source = s.source /\ Converted(s, t).to = s.to
         /\ Converted(s, t).timestamp_position = s.timestamp_position
<1> DEFINE base == BaseFor(s, t)
           c == [s EXCEPT !.timestamp_base = base, !.preset = FALSE]
<1>1. base \in 0 .. TimestampMod - 1
  BY TimestampType
<1>2. Converted(s, t) = c
  BY DEF Converted
<1>3. s \in Sinks
  BY DEF SinkOK
<1> HIDE DEF base
<1>4. /\ c \in Sinks /\ c.preset = FALSE /\ c.buf = s.buf /\ c.seq_no = s.seq_no
      /\ c.source = s.source /\ c.to = s.to /\ c.timestamp_position = s.timestamp_position
  BY <1>1, <1>3 DEF Sinks
<1> HIDE DEF c
<1> QED
  BY <1>2, <1>4 DEF SinkOK

LEMMA PresetOK ==
  ASSUME NEW s, SinkOK(s), NEW t \in Nat
  PROVE  /\ SinkOK(Preset(s, t)) /\ Preset(s, t).preset = TRUE
         /\ Preset(s, t).timestamp_base = RtpTimestamp(s, t)
         /\ Preset(s, t).buf = s.buf /\ Preset(s, t).seq_no = s.seq_no
         /\ Preset(s, t).source = s.source /\ Preset(s, t).to = s.to
         /\ Preset(s, t).timestamp_position = s.timestamp_position
<1> DEFINE base == RtpTimestamp(s, t)
           c == [s EXCEPT !.timestamp_base = base, !.preset = TRUE]
<1>1. base \in 0 .. TimestampMod - 1
  BY TimestampType
<1>2. Preset(s, t) = c
  BY DEF Preset
<1>3. s \in Sinks
  BY DEF SinkOK
<1>4. base = RtpTimestamp(s, t)
  OBVIOUS
<1> HIDE DEF base
<1>5. /\ c \in Sinks /\ c.preset = TRUE /\ c.buf = s.buf /\ c.seq_no = s.seq_no
      /\ c.timestamp_base = base
      /\ c.source = s.source /\ c.to = s.to /\ c.timestamp_position = s.timestamp_position
  BY <1>1, <1>3 DEF Sinks
<1> HIDE DEF c
<1> QED
  BY <1>2, <1>4, <1>5 DEF SinkOK

(* Replacing the buffer of a sink. *)
LEMMA WithBuffer ==
  ASSUME NEW s, SinkOK(s), NEW b, BufferOK(b), SameRoom(s.buf, b)
  PROVE  LET t == [s EXCEPT !.buf = b]
         IN  SinkOK(t) /\ t.buf = b /\ t.seq_no = s.seq_no /\ SamePlan(s, t) /\ t.source = s.source
<1> DEFINE t == [s EXCEPT !.buf = b]
<1>1. s \in Sinks /\ b \in Buffers /\ b.max = MaxSize /\ MaxSize <= b.limit
  BY DEF SinkOK, BufferOK, SameRoom
<1>2. t \in Sinks /\ t.buf = b /\ t.seq_no = s.seq_no /\ SamePlan(s, t) /\ t.source = s.source
  BY <1>1 DEF Sinks, SamePlan
<1> HIDE DEF t
<1>3. SinkOK(t)
  BY <1>1, <1>2 DEF SinkOK
<1> QED
  BY <1>2, <1>3 DEF t

------------------------------------------------------------------------------
(* A frame behind the header. *)

LEMMA SamePlanTimestamp ==
  ASSUME NEW r, NEW s, SamePlan(r, s), NEW t
  PROVE  RtpTimestamp(s, t) = RtpTimestamp(r, t)
BY DEF SamePlan, RtpTimestamp, BaseFor

GoodPacket(words, seq, stamp, n) ==
  /\ words \in Seq(Words) /\ Len(words) = 3 + n
  /\ words[1][1] = "header" /\ words[1][2] = seq
  /\ words[2] = Timestamp(stamp) /\ words[3] = Ssrc
  /\ \A k \in 1 .. n : words[3 + k] = FrameWord(k, n)

LEMMA FrameWritten ==
  ASSUME NEW s, SinkOK(s), HeaderBuilt(s), NEW n \in 1 .. MaxOutput
  PROVE  LET frame == Written(s.buf, s.to, [i \in 1 .. n |-> FrameWord(i, n)])
             b     == Increment(frame, n)
         IN  /\ ~WouldOverflow(frame, n)
             /\ BufferOK(b) /\ SameRoom(s.buf, b) /\ b.cur_offset = 3 + n
             /\ b.cells[0] = Header(s.seq_no, 0) /\ b.cells[2] = Ssrc
             /\ \A k \in 1 .. n : b.cells[2 + k] = FrameWord(k, n)
<1> DEFINE words == [i \in 1 .. n |-> FrameWord(i, n)]
           frame == Written(s.buf, s.to, words)
           b     == Increment(frame, n)
<1>1. /\ BufferOK(s.buf) /\ s.buf.max = MaxSize /\ MaxSize <= s.buf.limit
      /\ s.buf.cur_offset = 3 /\ s.to = 3
      /\ s.buf.cells[0] = Header(s.seq_no, 0) /\ s.buf.cells[2] = Ssrc
  BY DEF SinkOK, HeaderBuilt, RtpHeaderSize
<1>2. s.buf.limit \in Nat /\ MaxSize \in Nat /\ n \in Nat /\ 3 + n <= MaxSize
  BY <1>1, ConstantTypes DEF BufferOK, Buffers, MaxOutput, RtpHeaderSize
<1>3. words \in Seq(Words) /\ Len(words) = n /\ \A i \in 1 .. n : words[i] = FrameWord(i, n)
  <2>1. \A i \in 1 .. n : FrameWord(i, n) \in Words
    BY <1>2, WordTypes
  <2>2. words \in [1 .. n -> Words]
    BY <2>1
  <2> QED
    BY <1>2, <2>2
<1> HIDE DEF words
<1>4. HoldsWords(frame, s.buf, 3, words) /\ frame.cur_offset = 3
  BY <1>1, <1>3, WrittenOK
<1> HIDE DEF frame
<1>5. BufferOK(frame) /\ frame.limit = s.buf.limit /\ frame.max = MaxSize
  BY <1>1, <1>4 DEF HoldsWords, SameRoom
<1>6. ~WouldOverflow(frame, n)
  BY <1>2, <1>4, <1>5 DEF WouldOverflow
<1>7. BufferOK(b) /\ SameRoom(frame, b) /\ b.cur_offset = 3 + n /\ b.cells = frame.cells
  <2>1. frame.cur_offset + n <= frame.limit
    BY <1>1, <1>2, <1>4, <1>5
  <2> QED
    BY <1>2, <1>4, <1>5, <2>1, IncrementOK
<1>8. SameRoom(s.buf, b)
  BY <1>1, <1>5, <1>7 DEF SameRoom
<1>9. ASSUME NEW i \in 0 .. s.buf.limit - 1
      PROVE  frame.cells[i] = IF i - 3 \in 0 .. n - 1 THEN words[i - 3 + 1] ELSE s.buf.cells[i]
  BY <1>3, <1>4 DEF HoldsWords
<1>10. frame.cells[0] = Header(s.seq_no, 0) /\ frame.cells[2] = Ssrc
  BY <1>1, <1>2, <1>9
<1>11. ASSUME NEW k \in 1 .. n
       PROVE  frame.cells[2 + k] = FrameWord(k, n)
  <2>1. 2 + k \in 0 .. s.buf.limit - 1 /\ (2 + k) - 3 \in 0 .. n - 1 /\ (2 + k) - 3 + 1 = k
    BY <1>1, <1>2
  <2>2. frame.cells[2 + k] = words[k]
    BY <1>9, <2>1
  <2> QED
    BY <1>3, <2>2
<1> HIDE DEF b
<1> QED
  BY <1>6, <1>7, <1>8, <1>10, <1>11 DEF b, frame, words

(* The packet is complete but for the time stamp and the marker. *)
FrameBuilt(b, seq, n) ==
  /\ b.cur_offset = 3 + n
  /\ b.cells[0] = Header(seq, 0) /\ b.cells[2] = Ssrc
  /\ \A k \in 1 .. n : b.cells[2 + k] = FrameWord(k, n)

(* The sink s has become d, with the packet ready to go out. *)
Finished(s, d, seq, stamp, n) ==
  /\ SinkOK(d) /\ d.seq_no = s.seq_no /\ d.source = s.source
  /\ GoodPacket(Packet(d.buf), seq, stamp, n)

(* The marker and the time stamp go into the header and nowhere else. *)
LEMMA SpecialHandlingOK ==
  ASSUME NEW s, SinkOK(s), s.timestamp_position = 1, NEW n \in Nat \ {0},
         NEW seq \in Int, FrameBuilt(s.buf, seq, n), NEW t \in Nat, NEW completed, NEW marker
  PROVE  Finished(s, SpecialHandling(s, t, completed, marker).sink, seq, RtpTimestamp(s, t), n)
<1> DEFINE mark == completed /\ s.input /\ marker
           stamp == RtpTimestamp(s, t)
           word == ExtractWord(s.buf, 0)
           second == Header(word[2], 1)
           inserted == InsertWord(s.buf, second, 0)
           marked == IF mark THEN inserted ELSE s.buf
           b == InsertWord(marked, Timestamp(stamp), 1)
           c == Converted(s, t)
           d == [c EXCEPT !.buf = b]
<1>0. /\ s.buf.cur_offset = 3 + n
      /\ s.buf.cells[0] = Header(seq, 0) /\ s.buf.cells[2] = Ssrc
      /\ \A k \in 1 .. n : s.buf.cells[2 + k] = FrameWord(k, n)
  BY DEF FrameBuilt
<1>1. SpecialHandling(s, t, completed, marker).sink = d
  <2>1. s.timestamp_position = 1
    OBVIOUS
  <2> QED
    BY <2>1 DEF SpecialHandling
<1>2. BufferOK(s.buf) /\ s.buf.limit \in Nat /\ s.buf.packet_start = 0 /\ 3 + n <= s.buf.limit
  BY <1>0 DEF SinkOK, BufferOK, Buffers
<1>3. second = Header(seq, 1) /\ second \in Words /\ second[1] = "header" /\ second[2] = seq
  <2>1. word = Header(seq, 0)
    BY <1>0, <1>2 DEF ExtractWord
  <2>2. second = Header(seq, 1)
    BY <2>1 DEF Header
  <2> QED
    BY <2>2, WordTypes DEF Header
<1>4. Timestamp(stamp) \in Words
  <2>1. stamp \in 0 .. TimestampMod - 1
    BY TimestampType
  <2>2. stamp \in Int
    BY <2>1, ConstantTypes
  <2> HIDE DEF stamp
  <2> QED
    BY <2>2, WordTypes
<1> HIDE DEF word, second, stamp
<1>5. /\ BufferOK(marked) /\ SameRoom(s.buf, marked) /\ marked.cur_offset = 3 + n
      /\ marked.cells[0][1] = "header" /\ marked.cells[0][2] = seq
      /\ \A i \in 1 .. s.buf.limit - 1 : marked.cells[i] = s.buf.cells[i]
  <2>1. CASE mark
    <3>1. /\ BufferOK(inserted) /\ SameRoom(s.buf, inserted) /\ inserted.cur_offset = 3 + n
          /\ \A i \in 0 .. s.buf.limit - 1 : inserted.cells[i] = IF i = 0 THEN second ELSE s.buf.cells[i]
      BY <1>0, <1>2, <1>3, InsertWordOK
    <3> HIDE DEF inserted
    <3>2. inserted.cells[0] = second /\ \A i \in 1 .. s.buf.limit - 1 : inserted.cells[i] = s.buf.cells[i]
      BY <1>2, <3>1
    <3> QED
      BY <1>3, <2>1, <3>1, <3>2
  <2>2. CASE ~mark
    <3>1. marked = s.buf
      BY <2>2
    <3>2. s.buf.cells[0][1] = "header" /\ s.buf.cells[0][2] = seq
      BY <1>0 DEF Header
    <3> QED
      BY <1>0, <1>2, <3>1, <3>2 DEF SameRoom
  <2> QED
    BY <2>1, <2>2
<1> HIDE DEF marked
<1>6. marked.limit = s.buf.limit /\ 1 < marked.cur_offset
  BY <1>5 DEF SameRoom
<1>7. /\ BufferOK(b) /\ SameRoom(marked, b) /\ b.cur_offset = 3 + n
      /\ \A i \in 0 .. s.buf.limit - 1 : b.cells[i] = IF i = 1 THEN Timestamp(stamp) ELSE marked.cells[i]
  BY <1>4, <1>5, <1>6, InsertWordOK
<1> HIDE DEF b
<1>8. SameRoom(s.buf, b)
  BY <1>5, <1>7 DEF SameRoom
<1>9. /\ b.cells[0][1] = "header" /\ b.cells[0][2] = seq /\ b.cells[1] = Timestamp(stamp)
      /\ b.cells[2] = Ssrc
      /\ \A k \in 1 .. n : b.cells[2 + k] = FrameWord(k, n)
  <2>1. 0 \in 0 .. s.buf.limit - 1 /\ 1 \in 0 .. s.buf.limit - 1 /\ 2 \in 1 .. s.buf.limit - 1
    BY <1>2
  <2>2. b.cells[0] = marked.cells[0] /\ b.cells[1] = Timestamp(stamp) /\ b.cells[2] = s.buf.cells[2]
    <3>1. b.cells[0] = marked.cells[0] /\ b.cells[2] = marked.cells[2] /\ b.cells[1] = Timestamp(stamp)
      BY <1>7, <2>1
    <3> QED
      BY <1>0, <1>5, <2>1, <3>1
  <2>3. ASSUME NEW k \in 1 .. n
        PROVE  b.cells[2 + k] = FrameWord(k, n)
    <3>1. 2 + k \in 0 .. s.buf.limit - 1 /\ 2 + k \in 1 .. s.buf.limit - 1 /\ 2 + k # 1
      BY <1>2
    <3>2. b.cells[2 + k] = marked.cells[2 + k]
      BY <1>7, <3>1
    <3>3. marked.cells[2 + k] = s.buf.cells[2 + k]
      BY <1>5, <3>1
    <3>4. s.buf.cells[2 + k] = FrameWord(k, n)
      BY <1>0
    <3> QED
      BY <3>2, <3>3, <3>4
  <2> QED
    BY <1>0, <1>5, <2>2, <2>3
<1>10. /\ SinkOK(c) /\ c.preset = FALSE /\ c.buf = s.buf /\ c.seq_no = s.seq_no /\ c.source = s.source
  BY ConvertedOK
<1> HIDE DEF c
<1>11. SinkOK(d) /\ d.buf = b /\ d.seq_no = c.seq_no /\ SamePlan(c, d) /\ d.source = c.source
  BY <1>7, <1>8, <1>10, WithBuffer
<1> HIDE DEF d
<1>12. GoodPacket(Packet(b), seq, stamp, n)
  <2> DEFINE words == Packet(b)
  <2>1. b.packet_start = 0 /\ b.cells \in [0 .. b.limit - 1 -> Words] /\ b.limit \in Nat /\ 3 + n <= b.limit
    BY <1>7 DEF BufferOK, Buffers
  <2>8. words = [i \in 1 .. 3 + n |-> b.cells[b.packet_start + i - 1]]
    BY <1>7 DEF Packet
  <2> HIDE DEF words
  <2>2. ASSUME NEW i \in 1 .. 3 + n
        PROVE  words[i] = b.cells[i - 1]
    <3>1. b.packet_start + i - 1 = i - 1
      BY <2>1
    <3> QED
      BY <2>8, <3>1
  <2>3. words \in [1 .. 3 + n -> Words]
    <3>1. \A i \in 1 .. 3 + n : b.packet_start + i - 1 \in 0 .. b.limit - 1
      BY <2>1
    <3> QED
      BY <2>1, <2>8, <3>1
  <2>4. words[1] = b.cells[0] /\ words[2] = b.cells[1] /\ words[3] = b.cells[2]
    BY <2>2
  <2>5. ASSUME NEW k \in 1 .. n
        PROVE  words[3 + k] = b.cells[2 + k]
    <3>1. 3 + k \in 1 .. 3 + n /\ (3 + k) - 1 = 2 + k
      OBVIOUS
    <3> QED
      BY <2>2, <3>1
  <2>6. words \in Seq(Words) /\ Len(words) = 3 + n
    <3>1. 3 + n \in Nat
      OBVIOUS
    <3> QED
      BY <2>3, <3>1
  <2>7. GoodPacket(words, seq, stamp, n)
    <3>1. \A k \in 1 .. n : words[3 + k] = FrameWord(k, n)
      BY <1>9, <2>5
    <3>2. words[1][1] = "header" /\ words[1][2] = seq /\ words[2] = Timestamp(stamp) /\ words[3] = Ssrc
      BY <1>9, <2>4
    <3> QED
      BY <2>6, <3>1, <3>2 DEF GoodPacket
  <2> QED
    BY <2>7 DEF words
<1>13. Finished(s, d, seq, stamp, n)
  BY <1>10, <1>11, <1>12 DEF Finished
<1> QED
  BY <1>1, <1>13 DEF stamp

LEMMA SentOK ==
  ASSUME NEW s, SinkOK(s)
  PROVE  LET t == SentPacket(s)
         IN  /\ SinkOK(t) /\ t.seq_no = (s.seq_no + 1) % SeqMod /\ t.buf.cur_offset = 0
             /\ t.source = s.source /\ t.preset = s.preset
<1> DEFINE b == ResetOffset(ResetPacketStart(s.buf))
           seq == (s.seq_no + 1) % SeqMod
           octets == s.octet_count + s.buf.cur_offset - RtpHeaderSize
           t == SentPacket(s)
<1>1. s \in Sinks /\ BufferOK(s.buf) /\ s.buf.cur_offset \in Nat /\ s.buf.max = MaxSize
      /\ MaxSize <= s.buf.limit
  BY DEF SinkOK, BufferOK, Buffers
<1>2. BufferOK(b) /\ SameRoom(s.buf, b) /\ b.cur_offset = 0
  BY <1>1, ResetOK
<1>3. seq \in 0 .. SeqMod - 1
  <2>1. s.seq_no + 1 \in Int
    BY <1>1, ConstantTypes DEF Sinks
  <2> QED
    BY <2>1, ConstantTypes, Division
<1>4. octets \in Int
  BY <1>1 DEF Sinks, RtpHeaderSize
<1>5. t = [s EXCEPT !.packet_count = s.packet_count + 1, !.octet_count = octets, !.seq_no = seq,
                    !.buf = b, !.num_frames_used_so_far = 0, !.timer = TRUE]
  BY DEF SentPacket
<1>6. b \in Buffers /\ b.max = MaxSize /\ MaxSize <= b.limit
  BY <1>1, <1>2 DEF BufferOK, SameRoom
<1> HIDE DEF b, seq, octets, t
<1>7. t \in Sinks /\ t.buf = b /\ t.seq_no = seq /\ t.source = s.source /\ t.preset = s.preset
  <2>1. s.packet_count + 1 \in Nat
    BY <1>1 DEF Sinks
  <2> DEFINE count == s.packet_count + 1
  <2>2. count \in Nat
    BY <2>1
  <2>3. t = [s EXCEPT !.packet_count = count, !.octet_count = octets, !.seq_no = seq,
                      !.buf = b, !.num_frames_used_so_far = 0, !.timer = TRUE]
    BY <1>5
  <2> HIDE DEF count
  <2>4. t \in Sinks
    BY <1>1, <1>3, <1>4, <1>6, <2>2, <2>3 DEF Sinks
  <2>5. t.buf = b /\ t.seq_no = seq /\ t.source = s.source /\ t.preset = s.preset
    BY <1>1, <2>3 DEF Sinks
  <2> QED
    BY <2>4, <2>5
<1>8. SinkOK(t)
  BY <1>2, <1>6, <1>7 DEF SinkOK
<1> QED
  BY <1>2, <1>7, <1>8 DEF t, seq

(* The sink has become r by sending these words. *)
PacketSent(s, r, words, stamp, n) ==
  /\ SinkOK(r) /\ r.seq_no = (s.seq_no + 1) % SeqMod
  /\ r.buf.cur_offset = 0 /\ r.source = s.source
  /\ GoodPacket(words, s.seq_no, stamp, n)

HoldsFrame(s, n) == s.buf.cur_offset = 3 + n

LEMMA SentFrame ==
  ASSUME NEW s, SinkOK(s), HeaderBuilt(s), NEW n \in 1 .. MaxOutput, NEW t \in Nat,
         NEW completed, NEW marker
  PROVE  LET frame == Written(s.buf, s.to, [i \in 1 .. n |-> FrameWord(i, n)])
             used  == [s EXCEPT !.buf = Increment(frame, n), !.num_frames_used_so_far = @ + 1]
             done  == SpecialHandling(used, t, completed, marker)
         IN  /\ ~WouldOverflow(frame, n)
             /\ PacketSent(s, SentPacket(done.sink), Packet(done.sink.buf), RtpTimestamp(s, t), n)
             /\ HoldsFrame(done.sink, n)
<1> DEFINE frame == Written(s.buf, s.to, [i \in 1 .. n |-> FrameWord(i, n)])
           b     == Increment(frame, n)
           used  == [s EXCEPT !.buf = b, !.num_frames_used_so_far = s.num_frames_used_so_far + 1]
           done  == SpecialHandling(used, t, completed, marker)
           r     == SentPacket(done.sink)
<1>1. /\ ~WouldOverflow(frame, n)
      /\ BufferOK(b) /\ SameRoom(s.buf, b) /\ b.cur_offset = 3 + n
      /\ b.cells[0] = Header(s.seq_no, 0) /\ b.cells[2] = Ssrc
      /\ \A k \in 1 .. n : b.cells[2 + k] = FrameWord(k, n)
  BY FrameWritten
<1>2. s \in Sinks /\ s.timestamp_position = 1 /\ s.buf.max = MaxSize /\ MaxSize <= s.buf.limit
  BY DEF SinkOK, HeaderBuilt
<1>9. s.seq_no \in Int /\ n \in Nat \ {0} /\ s.num_frames_used_so_far + 1 \in Nat
  <2>1. s.seq_no \in 0 .. SeqMod - 1 /\ s.num_frames_used_so_far \in Nat
    BY <1>2 DEF Sinks
  <2> QED
    BY <2>1, ConstantTypes DEF MaxOutput, RtpHeaderSize
<1>3. b \in Buffers /\ b.max = MaxSize /\ MaxSize <= b.limit
  BY <1>1, <1>2 DEF BufferOK, SameRoom
<1> HIDE DEF b
<1>4. /\ used \in Sinks /\ used.buf = b /\ used.seq_no = s.seq_no /\ used.source = s.source
      /\ used.timestamp_position = 1 /\ SamePlan(s, used)
  <2> DEFINE frames == s.num_frames_used_so_far + 1
  <2>1. frames \in Nat
    BY <1>9
  <2>2. used = [s EXCEPT !.buf = b, !.num_frames_used_so_far = frames]
    OBVIOUS
  <2> HIDE DEF frames, used
  <2>3. used \in Sinks
    BY <1>2, <1>3, <2>1, <2>2 DEF Sinks
  <2>4. used.buf = b /\ used.seq_no = s.seq_no /\ used.source = s.source
        /\ used.timestamp_position = 1
    BY <1>2, <2>2 DEF Sinks
  <2>5. used.timestamp_base = s.timestamp_base /\ used.preset = s.preset
    BY <1>2, <2>2 DEF Sinks
  <2> QED
    BY <2>3, <2>4, <2>5 DEF SamePlan
<1> HIDE DEF used
<1>5. SinkOK(used)
  BY <1>1, <1>3, <1>4 DEF SinkOK
<1>6. RtpTimestamp(used, t) = RtpTimestamp(s, t)
  BY <1>4, SamePlanTimestamp
<1>7. /\ SinkOK(done.sink) /\ done.sink.seq_no = used.seq_no /\ done.sink.source = used.source
      /\ GoodPacket(Packet(done.sink.buf), s.seq_no, RtpTimestamp(used, t), n)
  <2>1. FrameBuilt(used.buf, s.seq_no, n) /\ used.timestamp_position = 1
    BY <1>1, <1>4 DEF FrameBuilt
  <2>2. Finished(used, done.sink, s.seq_no, RtpTimestamp(used, t), n)
    BY <1>5, <1>9, <2>1, SpecialHandlingOK
  <2> QED
    BY <2>2 DEF Finished
<1> HIDE DEF done
<1>10. done.sink.buf.cur_offset = 3 + n
  <2> DEFINE c == done.sink.buf
  <2>1. c.cur_offset \in Nat
    BY <1>7 DEF SinkOK, BufferOK, Buffers
  <2>2. Len(Packet(c)) = 3 + n
    BY <1>7 DEF GoodPacket
  <2> HIDE DEF c
  <2>3. Len(Packet(c)) = c.cur_offset
    BY <2>1 DEF Packet
  <2> QED
    BY <2>2, <2>3 DEF c
<1>8. /\ SinkOK(r) /\ r.seq_no = (done.sink.seq_no + 1) % SeqMod
      /\ r.buf.cur_offset = 0 /\ r.source = done.sink.source
  BY <1>7, SentOK
<1> HIDE DEF r, frame
<1> QED
  <2>1. PacketSent(s, r, Packet(done.sink.buf), RtpTimestamp(s, t), n)
    BY <1>4, <1>6, <1>7, <1>8 DEF PacketSent
  <2> QED
    BY <1>1, <1>10, <2>1 DEF HoldsFrame, r, done, used, b, frame

------------------------------------------------------------------------------
(* Reports. *)

(* The words of the item with the name of the host. *)
ItemSize == (2 + Least(CnameLength, 255)) \div 4 + 1

LEMMA ItemFits ==
  /\ ItemSize \in Nat /\ 9 + ItemSize <= RtcpMax
  /\ LET total_size == 2 + Least(CnameLength, 255)
     IN  /\ (4 + total_size + 1 + 3) \div 4 = ItemSize + 1
         /\ (total_size + (4 - (total_size % 4))) \div 4 = ItemSize
<1> DEFINE total_size == 2 + Least(CnameLength, 255)
<1>1. total_size \in Nat /\ ItemSize = total_size \div 4 + 1
  BY RtcpAssumption DEF Least, ItemSize
<1>2. 9 + ItemSize <= RtcpMax
  <2>1. 7 + 2 + ItemSize <= RtcpMax
    BY ReportFits DEF ItemSize
  <2> QED
    BY <1>1, <2>1, RtcpAssumption
<1> HIDE DEF total_size
<1>3. (4 + total_size + 1 + 3) \div 4 = total_size \div 4 + 2
  BY <1>1
<1>4. (total_size + (4 - (total_size % 4))) \div 4 = total_size \div 4 + 1
  BY <1>1
<1>5. ItemSize \in Nat
  BY <1>1
<1> QED
  BY <1>1, <1>2, <1>3, <1>4, <1>5 DEF total_size

LEMMA EnqueueFits ==
  ASSUME NEW b, BufferOK(b), NEW words \in Seq(Words), b.cur_offset + Len(words) <= b.limit
  PROVE  LET e == Enqueue(b, words)
         IN  /\ BufferOK(e) /\ e.limit = b.limit /\ e.cur_offset = b.cur_offset + Len(words)
             /\ \A i \in 0 .. b.cur_offset - 1 : e.cells[i] = b.cells[i]
             /\ \A k \in 1 .. Len(words) : e.cells[b.cur_offset + k - 1] = words[k]
<1> DEFINE e == Enqueue(b, words)
           at == b.cur_offset
<1>1. b.limit \in Nat /\ Len(words) \in Nat /\ at \in Nat /\ at + Len(words) <= b.limit
  BY DEF BufferOK, Buffers
<1>2. BufferOK(e) /\ SameRoom(b, e) /\ e.cur_offset = at + Len(words)
      /\ HoldsWords(e, b, at, words)
  BY EnqueueOK
<1> HIDE DEF e, at
<1>3. \A i \in 0 .. b.limit - 1 :
        e.cells[i] = IF i - at \in 0 .. Len(words) - 1 THEN words[i - at + 1] ELSE b.cells[i]
  BY <1>2 DEF HoldsWords
<1>4. ASSUME NEW i \in 0 .. at - 1 PROVE e.cells[i] = b.cells[i]
  <2>1. i \in 0 .. b.limit - 1 /\ i - at \notin 0 .. Len(words) - 1
    BY <1>1
  <2> QED
    BY <1>3, <2>1
<1>5. ASSUME NEW k \in 1 .. Len(words) PROVE e.cells[at + k - 1] = words[k]
  <2> DEFINE i == at + k - 1
  <2>1. i \in 0 .. b.limit - 1 /\ i - at \in 0 .. Len(words) - 1 /\ i - at + 1 = k
    BY <1>1
  <2> HIDE DEF i
  <2>2. e.cells[i] = words[k]
    BY <1>3, <2>1
  <2> QED
    BY <2>2 DEF i
<1> QED
  BY <1>2, <1>4, <1>5 DEF SameRoom, e, at

(* What a report says of the sink s at the time t. *)
GoodReport(words, s, t) ==
  /\ words \in Seq(Words) /\ Len(words) = 9 + ItemSize
  /\ words[1] = RtcpHeader(SR, 6) /\ words[5] = Timestamp(RtpTimestamp(s, t))
  /\ words[6] = Count(s.packet_count) /\ words[7] = Count(s.octet_count)
  /\ words[8] = RtcpHeader(SDES, ItemSize + 1)

LEMMA ReportBuilt ==
  ASSUME NEW b, BufferOK(b), b.cur_offset = 0, b.limit >= RtcpMax, NEW s, SinkOK(s), NEW t \in Nat
  PROVE  LET w == AddSdes(AddSr(b, s, t))
         IN  /\ BufferOK(ResetOffset(w)) /\ ResetOffset(w).cur_offset = 0
             /\ ResetOffset(w).limit >= RtcpMax
             /\ GoodReport(Packet(w), s, t)
<1> DEFINE stamp == RtpTimestamp(s, t)
           head == <<RtcpHeader(SR, 1 + 5), Ssrc>>
           info == <<Ntp(t), Ntp(0), Timestamp(stamp), Count(s.packet_count), Count(s.octet_count)>>
           top == <<RtcpHeader(SDES, ItemSize + 1), Ssrc>>
           blanks == [i \in 1 .. ItemSize |-> Blank]
           b1 == Enqueue(b, head)
           b2 == Enqueue(b1, info)
           b3 == Enqueue(b2, top)
           w == Enqueue(b3, blanks)
           words == Packet(w)
<1>1. stamp \in Int /\ s.packet_count \in Int /\ s.octet_count \in Int
  <2>1. stamp \in 0 .. TimestampMod - 1
    BY TimestampType
  <2> HIDE DEF stamp
  <2> QED
    BY <2>1, ConstantTypes DEF SinkOK, Sinks
<1>2. ItemSize \in Nat /\ 9 + ItemSize <= b.limit /\ b.limit \in Nat
  <2>1. b.limit \in Nat
    BY DEF BufferOK, Buffers
  <2> QED
    BY <2>1, ItemFits, RtcpAssumption
<1>3. 1 + 5 = 6
  OBVIOUS
<1>4. AddSdes(AddSr(b, s, t)) = w
  <2>1. AddSr(b, s, t) = b2
    BY <1>3 DEF AddSr
  <2> HIDE DEF b2
  <2>2. AddSdes(b2) = w
    BY ItemFits DEF AddSdes
  <2> QED
    BY <2>1, <2>2
<1> HIDE DEF stamp
<1>5. /\ head \in Seq(Words) /\ Len(head) = 2 /\ head[1] = RtcpHeader(SR, 6)
      /\ info \in Seq(Words) /\ Len(info) = 5 /\ info[3] = Timestamp(stamp)
      /\ info[4] = Count(s.packet_count) /\ info[5] = Count(s.octet_count)
      /\ top \in Seq(Words) /\ Len(top) = 2 /\ top[1] = RtcpHeader(SDES, ItemSize + 1)
  <2>1. RtcpHeader(SR, 1 + 5) \in Words /\ RtcpHeader(SDES, ItemSize + 1) \in Words
        /\ Ssrc \in Words /\ Ntp(t) \in Words /\ Ntp(0) \in Words /\ Timestamp(stamp) \in Words
        /\ Count(s.packet_count) \in Words /\ Count(s.octet_count) \in Words
    BY <1>1, <1>2 DEF Words, WordKinds, RtcpHeader, Ssrc, SR, SDES, Ntp, Timestamp, Count
  <2> QED
    BY <1>3, <2>1
<1>6. blanks \in Seq(Words) /\ Len(blanks) = ItemSize
  <2>1. Blank \in Words
    BY WordTypes
  <2>2. blanks \in [1 .. ItemSize -> Words]
    BY <2>1
  <2> QED
    BY <1>2, <2>2
<1> HIDE DEF head, info, top, blanks
<1>7. /\ BufferOK(b1) /\ b1.limit = b.limit /\ b1.cur_offset = 2
      /\ b1.cells[0] = RtcpHeader(SR, 6)
  <2>1. b.cur_offset + Len(head) <= b.limit /\ head \in Seq(Words)
    BY <1>2, <1>5
  <2>2. /\ BufferOK(b1) /\ b1.limit = b.limit /\ b1.cur_offset = b.cur_offset + Len(head)
        /\ \A k \in 1 .. Len(head) : b1.cells[b.cur_offset + k - 1] = head[k]
    BY <2>1, EnqueueFits
  <2> HIDE DEF b1
  <2>3. b.cur_offset + 1 - 1 = 0 /\ 1 \in 1 .. Len(head) /\ b.cur_offset + Len(head) = 2
    BY <1>5
  <2>4. b1.cells[b.cur_offset + 1 - 1] = head[1]
    BY <2>2, <2>3
  <2> QED
    BY <1>5, <2>2, <2>3, <2>4
<1> HIDE DEF b1
<1>8. /\ BufferOK(b2) /\ b2.limit = b.limit /\ b2.cur_offset = 7
      /\ b2.cells[0] = RtcpHeader(SR, 6) /\ b2.cells[4] = Timestamp(stamp)
      /\ b2.cells[5] = Count(s.packet_count) /\ b2.cells[6] = Count(s.octet_count)
  <2>1. b1.cur_offset + Len(info) <= b1.limit /\ BufferOK(b1) /\ info \in Seq(Words)
    BY <1>2, <1>5, <1>7
  <2> DEFINE at == b1.cur_offset
  <2>2. /\ BufferOK(b2) /\ b2.limit = b1.limit /\ b2.cur_offset = at + Len(info)
        /\ \A i \in 0 .. at - 1 : b2.cells[i] = b1.cells[i]
        /\ \A k \in 1 .. Len(info) : b2.cells[at + k - 1] = info[k]
    BY <2>1, EnqueueFits
  <2> HIDE DEF b2
  <2>3. 0 \in 0 .. at - 1 /\ at + Len(info) = 7 /\ {3, 4, 5} \subseteq 1 .. Len(info)
        /\ at + 3 - 1 = 4 /\ at + 4 - 1 = 5 /\ at + 5 - 1 = 6
    BY <1>5, <1>7
  <2>4. b2.cells[0] = b1.cells[0]
        /\ b2.cells[at + 3 - 1] = info[3] /\ b2.cells[at + 4 - 1] = info[4] /\ b2.cells[at + 5 - 1] = info[5]
    BY <2>2, <2>3
  <2> QED
    BY <1>5, <1>7, <2>2, <2>3, <2>4
<1> HIDE DEF b2
<1>9. /\ BufferOK(b3) /\ b3.limit = b.limit /\ b3.cur_offset = 9
      /\ \A i \in 0 .. 6 : b3.cells[i] = b2.cells[i]
      /\ b3.cells[7] = RtcpHeader(SDES, ItemSize + 1)
  <2>1. b2.cur_offset + Len(top) <= b2.limit /\ BufferOK(b2) /\ top \in Seq(Words)
    BY <1>2, <1>5, <1>8
  <2> DEFINE at == b2.cur_offset
  <2>2. /\ BufferOK(b3) /\ b3.limit = b2.limit /\ b3.cur_offset = at + Len(top)
        /\ \A i \in 0 .. at - 1 : b3.cells[i] = b2.cells[i]
        /\ \A k \in 1 .. Len(top) : b3.cells[at + k - 1] = top[k]
    BY <2>1, EnqueueFits
  <2> HIDE DEF b3
  <2>3. at + Len(top) = 9 /\ 1 \in 1 .. Len(top) /\ at + 1 - 1 = 7 /\ at - 1 = 6
    BY <1>5, <1>8
  <2>4. b3.cells[at + 1 - 1] = top[1]
    BY <2>2, <2>3
  <2> QED
    BY <1>5, <1>8, <2>2, <2>3, <2>4
<1> HIDE DEF b3
<1>10. /\ BufferOK(w) /\ w.limit = b.limit /\ w.cur_offset = 9 + ItemSize
       /\ \A i \in 0 .. 8 : w.cells[i] = b3.cells[i]
  <2>1. b3.cur_offset + Len(blanks) <= b3.limit /\ BufferOK(b3) /\ blanks \in Seq(Words)
    BY <1>2, <1>6, <1>9
  <2>2. /\ BufferOK(w) /\ w.limit = b3.limit /\ w.cur_offset = b3.cur_offset + Len(blanks)
        /\ \A i \in 0 .. b3.cur_offset - 1 : w.cells[i] = b3.cells[i]
    BY <2>1, EnqueueFits
  <2> HIDE DEF w
  <2>3. b3.cur_offset - 1 = 8
    BY <1>9
  <2> QED
    BY <1>6, <1>9, <2>2, <2>3
<1> HIDE DEF w
<1>11. /\ w.cells[0] = RtcpHeader(SR, 6) /\ w.cells[4] = Timestamp(stamp)
       /\ w.cells[5] = Count(s.packet_count) /\ w.cells[6] = Count(s.octet_count)
       /\ w.cells[7] = RtcpHeader(SDES, ItemSize + 1)
  <2>1. {0, 4, 5, 6} \subseteq 0 .. 6 /\ {0, 4, 5, 6, 7} \subseteq 0 .. 8
    OBVIOUS
  <2> QED
    BY <1>8, <1>9, <1>10, <2>1
<1>12. /\ words \in Seq(Words) /\ Len(words) = 9 + ItemSize
       /\ \A i \in 1 .. 9 + ItemSize : words[i] = w.cells[i - 1]
  <2> DEFINE n == 9 + ItemSize
  <2>1. n \in Nat /\ n <= b.limit /\ w.cells \in [0 .. b.limit - 1 -> Words] /\ w.packet_start = 0
        /\ w.cur_offset = n
    BY <1>2, <1>10 DEF BufferOK, Buffers
  <2> HIDE DEF n
  <2>2. words = [i \in 1 .. n |-> w.cells[0 + i - 1]]
    BY <2>1 DEF Packet
  <2>3. \A i \in 1 .. n : 0 + i - 1 = i - 1 /\ i - 1 \in 0 .. b.limit - 1
    BY <2>1, <1>2
  <2> HIDE DEF words
  <2>4. words \in [1 .. n -> Words]
    BY <2>1, <2>2, <2>3
  <2>5. Len(words) = n /\ words \in Seq(Words)
    BY <2>1, <2>2, <2>4
  <2> QED
    BY <2>2, <2>3, <2>5 DEF n
<1> HIDE DEF words
<1>13. /\ words[1] = RtcpHeader(SR, 6) /\ words[5] = Timestamp(stamp)
       /\ words[6] = Count(s.packet_count) /\ words[7] = Count(s.octet_count)
       /\ words[8] = RtcpHeader(SDES, ItemSize + 1)
  <2>1. {1, 5, 6, 7, 8} \subseteq 1 .. 9 + ItemSize
        /\ 1 - 1 = 0 /\ 5 - 1 = 4 /\ 6 - 1 = 5 /\ 7 - 1 = 6 /\ 8 - 1 = 7
    BY <1>2
  <2>2. words[1] = w.cells[1 - 1] /\ words[5] = w.cells[5 - 1] /\ words[6] = w.cells[6 - 1]
        /\ words[7] = w.cells[7 - 1] /\ words[8] = w.cells[8 - 1]
    BY <1>12, <2>1
  <2> QED
    BY <1>11, <2>1, <2>2
<1>14. GoodReport(words, s, t)
  BY <1>12, <1>13 DEF GoodReport, stamp
<1>15. BufferOK(ResetOffset(w)) /\ SameRoom(w, ResetOffset(w)) /\ ResetOffset(w).cur_offset = 0
  BY <1>10, ResetOK
<1>16. ResetOffset(w).limit >= RtcpMax
  BY <1>10, <1>15 DEF SameRoom
<1> QED
  BY <1>4, <1>14, <1>15, <1>16 DEF words

------------------------------------------------------------------------------
(* The invariant.  The two properties are not inductive: that a packet is   *)
(* whole needs the header that waits in the buffer while the source is      *)
(* asked, and that the buffer is empty when the sink is not playing; that   *)
(* the preset time stamp is used needs that nothing touches the base or the *)
(* number between the announcement and the packet.                          *)

Announcements == [seq : Int, timestamp : Int]
Sent == [words : Seq(Words), time : Nat, due : SUBSET Announcements]
Instances == [exists : BOOLEAN, prev_report_time : Int, expires : Int, out_buf : Buffers]

SinkInv ==
  /\ SinkOK(sink) /\ now \in Nat /\ awaiting \in BOOLEAN
  /\ sink.source = "none" => sink.buf.cur_offset = 0 /\ ~awaiting
  /\ awaiting => HeaderBuilt(sink)

AnnouncedInv ==
  /\ announced \subseteq Announcements
  /\ \A p \in announced :
       sink.preset /\ p.seq = sink.seq_no /\ p.timestamp = sink.timestamp_base

RtcpInv ==
  /\ rtcp \in Instances
  /\ BufferOK(rtcp.out_buf) /\ rtcp.out_buf.cur_offset = 0 /\ rtcp.out_buf.limit >= RtcpMax

(* The i-th packet has the i-th number, and the time stamp it was due to have. *)
NumberOf(i) == (SeqMod - 2 + i) % SeqMod
PacketOK(p, i) ==
  \E n \in 1 .. MaxOutput, stamp \in Int :
    /\ GoodPacket(p.words, NumberOf(i), stamp, n)
    /\ \A a \in p.due : a.seq = NumberOf(i) /\ a.timestamp = stamp

PacketsInv ==
  /\ packets \in Seq(Sent)
  /\ sink.seq_no = NumberOf(Len(packets) + 1)
  /\ \A i \in 1 .. Len(packets) : PacketOK(packets[i], i)

IInv == SinkInv /\ AnnouncedInv /\ RtcpInv /\ PacketsInv

LEMMA NextNumber ==
  ASSUME NEW i \in Nat
  PROVE  (NumberOf(i) + 1) % SeqMod = NumberOf(i + 1)
<1> DEFINE a == SeqMod - 2 + i
           one == 1
<1>1. a \in Int /\ one \in Int /\ SeqMod \in Nat \ {0} /\ NumberOf(i) = a % SeqMod
      /\ NumberOf(i + 1) = (a + one) % SeqMod
  <2>1. SeqMod - 2 + (i + 1) = a + one /\ a \in Int
    BY ConstantTypes
  <2> QED
    BY <2>1, ConstantTypes DEF NumberOf
<1>2. one = 1
  OBVIOUS
<1> HIDE DEF a, one
<1>3. ((a % SeqMod) + one) % SeqMod = (a + one) % SeqMod
  BY <1>1, RemainderOfSum
<1> QED
  BY <1>1, <1>2, <1>3

LEMMA InitIInv == Init => IInv
<1> SUFFICES ASSUME Init PROVE IInv
  OBVIOUS
<1> DEFINE b == NewBuffer(PreferredSize, MaxSize, BufferSize)
           c == NewBuffer(RtcpPreferred, RtcpMax, RtcpBuffer)
<1>1. /\ sink.seq_no = SeqMod - 1 /\ sink.timestamp_base = TimestampMod - 1 /\ sink.buf = b
      /\ sink \in [seq_no : {SeqMod - 1}, timestamp_base : {TimestampMod - 1}, buf : {b},
               source : {"none"}, our_fragmenter : {FALSE}, input : {FALSE}, to : {0},
               is_first_packet : {TRUE}, timestamp_position : {0},
               num_frames_used_so_far : {0}, overflowed : {FALSE}, timer : {FALSE},
               packet_count : {0}, octet_count : {0}, preset : {FALSE}]
      /\ sink.source = "none"
  BY DEF Init, SinkInit
<1>2. awaiting = FALSE /\ now = StartTime /\ announced = {} /\ packets = << >>
      /\ rtcp = [exists |-> FALSE, prev_report_time |-> 0, expires |-> 0, out_buf |-> c]
  BY DEF Init, SinkInit
<1>3. BufferOK(b) /\ b.max = MaxSize /\ b.cur_offset = 0 /\ MaxSize <= b.limit
  <2>1. BufferSize > 0 /\ BufferSize \in Nat
    BY ConstantTypes
  <2>2. b.limit >= MaxSize /\ BufferOK(b) /\ b.max = MaxSize /\ b.cur_offset = 0
    BY <2>1, ConstantTypes, NewBufferOK
  <2> HIDE DEF b
  <2> QED
    BY <2>2, ConstantTypes DEF BufferOK, Buffers
<1>4. BufferOK(c) /\ c.cur_offset = 0 /\ c.limit >= RtcpMax
  <2>1. RtcpPreferred \in Nat /\ RtcpMax \in Nat \ {0} /\ RtcpBuffer \in Nat /\ RtcpBuffer > 0
    BY RtcpAssumption, ReportFits
  <2>2. /\ BufferOK(c) /\ c.max = RtcpMax /\ c.cur_offset = 0
        /\ RtcpBuffer > 0 => c.limit >= RtcpMax
    BY <2>1, NewBufferOK
  <2> QED
    BY <2>1, <2>2
<1> HIDE DEF b, c
<1>5. b \in Buffers /\ c \in Buffers
  BY <1>3, <1>4 DEF BufferOK
<1>6. SinkInv
  <2>1. sink \in Sinks
    <3>1. SeqMod - 1 \in 0 .. SeqMod - 1 /\ TimestampMod - 1 \in 0 .. TimestampMod - 1
      BY ConstantTypes
    <3> QED
      <4>1. sink = [seq_no |-> SeqMod - 1, timestamp_base |-> TimestampMod - 1, buf |-> b,
                    source |-> "none", our_fragmenter |-> FALSE, input |-> FALSE, to |-> 0,
                    is_first_packet |-> TRUE, timestamp_position |-> 0,
                    num_frames_used_so_far |-> 0, overflowed |-> FALSE, timer |-> FALSE,
                    packet_count |-> 0, octet_count |-> 0, preset |-> FALSE]
        BY <1>1
      <4> DEFINE number == SeqMod - 1
                 base == TimestampMod - 1
      <4>2. number \in 0 .. SeqMod - 1 /\ base \in 0 .. TimestampMod - 1
        BY <3>1
      <4> HIDE DEF number, base
      <4>3. [seq_no |-> number, timestamp_base |-> base, buf |-> b,
             source |-> "none", our_fragmenter |-> FALSE, input |-> FALSE, to |-> 0,
             is_first_packet |-> TRUE, timestamp_position |-> 0,
             num_frames_used_so_far |-> 0, overflowed |-> FALSE, timer |-> FALSE,
             packet_count |-> 0, octet_count |-> 0, preset |-> FALSE] \in Sinks
        BY <1>5, <4>2 DEF Sinks
      <4> QED
        BY <4>1, <4>3 DEF number, base
  <2>2. SinkOK(sink)
    BY <1>1, <1>3, <2>1 DEF SinkOK
  <2> QED
    BY <1>1, <1>2, <1>3, <2>2, ConstantTypes DEF SinkInv
<1>7. AnnouncedInv
  BY <1>2 DEF AnnouncedInv
<1>8. RtcpInv
  BY <1>2, <1>4, <1>5 DEF RtcpInv, Instances
<1>9. PacketsInv
  <2>1. Len(packets) = 0 /\ packets \in Seq(Sent)
    BY <1>2
  <2>2. (SeqMod - 1 + SeqMod * 0) % SeqMod = SeqMod - 1
    <3>1. SeqMod - 1 \in 0 .. SeqMod - 1
      BY ConstantTypes
    <3> QED
      BY <3>1, ConstantTypes, Remainder
  <2>3. SeqMod - 2 + (0 + 1) = SeqMod - 1 + SeqMod * 0
    BY ConstantTypes
  <2> QED
    BY <1>1, <2>1, <2>2, <2>3 DEF PacketsInv, NumberOf
<1> QED
  BY <1>6, <1>7, <1>8, <1>9 DEF IInv

------------------------------------------------------------------------------
(* The steps of the sink. *)

LEMMA StartPlayingIInv == ASSUME IInv, StartPlaying, UNCHANGED <<rtcp, reports>> PROVE IInv'
<1> DEFINE s == [sink EXCEPT !.our_fragmenter = TRUE, !.input = TRUE, !.source = "fragmenter",
                             !.is_first_packet = TRUE]
           t == PackFrame(BuildHeader(s))
<1>1. SinkInv /\ AnnouncedInv /\ RtcpInv /\ PacketsInv
  BY DEF IInv
<1>2. sink' = t /\ awaiting' = TRUE /\ now' = now /\ announced' = announced /\ packets' = packets
      /\ rtcp' = rtcp /\ sink.source = "none"
  BY DEF StartPlaying
<1>3. SinkOK(sink) /\ sink \in Sinks /\ sink.buf.cur_offset = 0
  BY <1>1, <1>2 DEF SinkInv, SinkOK
<1>4. s \in Sinks /\ s.buf = sink.buf /\ s.seq_no = sink.seq_no /\ SamePlan(sink, s)
      /\ s.source = "fragmenter"
  BY <1>3 DEF Sinks, SamePlan
<1> HIDE DEF s
<1>5. SinkOK(s) /\ s.buf.cur_offset = 0
  BY <1>3, <1>4 DEF SinkOK
<1>6. SinkOK(t) /\ HeaderBuilt(t) /\ SamePlan(s, t) /\ t.source = "fragmenter"
  BY <1>4, <1>5, BuildHeaderOK
<1> HIDE DEF t
<1>7. SinkInv'
  BY <1>1, <1>2, <1>6 DEF SinkInv
<1>8. AnnouncedInv' /\ PacketsInv'
  BY <1>1, <1>2, <1>4, <1>6 DEF AnnouncedInv, PacketsInv, SamePlan
<1>9. RtcpInv'
  BY <1>1, <1>2 DEF RtcpInv
<1> QED
  BY <1>7, <1>8, <1>9 DEF IInv

LEMMA StopPlayingIInv == ASSUME IInv, StopPlaying, UNCHANGED <<rtcp, reports>> PROVE IInv'
<1> DEFINE b == ResetOverflowData(ResetOffset(ResetPacketStart(sink.buf)))
           t == [sink EXCEPT !.buf = b, !.timer = FALSE, !.source = "none"]
<1>1. SinkInv /\ AnnouncedInv /\ RtcpInv /\ PacketsInv
  BY DEF IInv
<1>2. sink' = t /\ awaiting' = FALSE /\ now' = now /\ announced' = announced /\ packets' = packets
      /\ rtcp' = rtcp
  BY DEF StopPlaying, Stopped
<1>3. SinkOK(sink) /\ sink \in Sinks /\ BufferOK(sink.buf) /\ sink.buf.max = MaxSize
      /\ MaxSize <= sink.buf.limit
  BY <1>1, <1>2 DEF SinkInv, SinkOK
<1>4. BufferOK(b) /\ b.max = MaxSize /\ MaxSize <= b.limit /\ b.cur_offset = 0
  <2>1. ResetPacketStart(sink.buf) = sink.buf
    BY <1>3, ResetOK
  <2>2. BufferOK(ResetOffset(sink.buf)) /\ SameRoom(sink.buf, ResetOffset(sink.buf))
        /\ ResetOffset(sink.buf).cur_offset = 0
    BY <1>3, ResetOK
  <2> DEFINE c == ResetOffset(sink.buf)
  <2>3. b = ResetOverflowData(c)
    BY <2>1
  <2> HIDE DEF c, b
  <2>4. BufferOK(c) /\ c.max = MaxSize /\ MaxSize <= c.limit /\ c.cur_offset = 0
    BY <1>3, <2>2 DEF SameRoom, c
  <2>5. BufferOK(b) /\ SameRoom(c, b) /\ b.cur_offset = c.cur_offset
    BY <2>3, <2>4, ResetOK
  <2> QED
    BY <2>4, <2>5 DEF SameRoom
<1>5. b \in Buffers
  BY <1>4 DEF BufferOK
<1> HIDE DEF b
<1>6. t \in Sinks /\ t.buf = b /\ t.source = "none" /\ SamePlan(sink, t)
  BY <1>3, <1>5 DEF Sinks, SamePlan
<1> HIDE DEF t
<1>7. SinkOK(t)
  BY <1>4, <1>6 DEF SinkOK
<1>8. SinkInv'
  BY <1>1, <1>2, <1>4, <1>6, <1>7 DEF SinkInv
<1>9. AnnouncedInv' /\ PacketsInv'
  BY <1>1, <1>2, <1>6 DEF AnnouncedInv, PacketsInv, SamePlan
<1>10. RtcpInv'
  BY <1>1, <1>2 DEF RtcpInv
<1> QED
  BY <1>8, <1>9, <1>10 DEF IInv

(* The steps that change nothing but the timer of the sink, its flags or the time. *)
LEMMA QuietIInv ==
  ASSUME IInv, SinkOK(sink'), SamePlan(sink, sink'), sink'.buf = sink.buf, sink'.to = sink.to,
         sink'.timestamp_position = sink.timestamp_position, sink'.source = sink.source,
         awaiting' \in BOOLEAN, awaiting' => awaiting, now' \in Nat,
         UNCHANGED <<announced, packets, rtcp>>
  PROVE  IInv'
<1>1. SinkInv /\ AnnouncedInv /\ RtcpInv /\ PacketsInv
  BY DEF IInv
<1>2. SinkInv'
  BY <1>1 DEF SinkInv, HeaderBuilt, SamePlan
<1>3. AnnouncedInv' /\ PacketsInv'
  BY <1>1 DEF AnnouncedInv, PacketsInv, SamePlan
<1>4. RtcpInv'
  BY <1>1 DEF RtcpInv
<1> QED
  BY <1>2, <1>3, <1>4 DEF IInv

LEMMA SourceClosesIInv == ASSUME IInv, SourceCloses, UNCHANGED <<rtcp, reports>> PROVE IInv'
<1>1. SinkOK(sink) /\ now \in Nat
  BY DEF IInv, SinkInv
<1>2. sink' = sink /\ awaiting' = FALSE /\ UNCHANGED <<now, announced, packets, rtcp>>
  BY DEF SourceCloses
<1>3. SamePlan(sink, sink')
  BY <1>2 DEF SamePlan
<1> QED
  BY <1>1, <1>2, <1>3, QuietIInv

LEMMA TickIInv == ASSUME IInv, Tick, UNCHANGED <<rtcp, reports>> PROVE IInv'
<1>1. SinkOK(sink) /\ now + 1 \in Nat /\ awaiting \in BOOLEAN
  BY DEF IInv, SinkInv
<1>2. sink' = sink /\ awaiting' = awaiting /\ now' = now + 1 /\ UNCHANGED <<announced, packets, rtcp>>
  BY DEF Tick, source_vars
<1>3. SamePlan(sink, sink')
  BY <1>2 DEF SamePlan
<1> QED
  BY <1>1, <1>2, <1>3, QuietIInv

LEMMA SendNextIInv == ASSUME IInv, SendNext, UNCHANGED <<rtcp, reports>> PROVE IInv'
<1> DEFINE t == [sink EXCEPT !.timer = FALSE]
<1>1. SinkOK(sink) /\ now \in Nat /\ awaiting \in BOOLEAN /\ sink \in Sinks
  BY DEF IInv, SinkInv, SinkOK
<1>2. sink' = t /\ awaiting' = awaiting /\ UNCHANGED <<now, announced, packets, rtcp>>
  BY DEF SendNext, source_vars
<1>3. t \in Sinks /\ t.buf = sink.buf /\ t.to = sink.to /\ t.source = sink.source
      /\ t.timestamp_position = sink.timestamp_position
  BY <1>1 DEF Sinks
<1>4. SamePlan(sink, t)
  BY <1>1 DEF Sinks, SamePlan
<1> HIDE DEF t
<1>5. SinkOK(t)
  BY <1>1, <1>3 DEF SinkOK
<1> QED
  BY <1>1, <1>2, <1>3, <1>4, <1>5, QuietIInv

LEMMA AnnounceIInv == ASSUME IInv, Announce, UNCHANGED <<rtcp, reports>> PROVE IInv'
<1> DEFINE stamp == RtpTimestamp(sink, now)
           p == [seq |-> sink.seq_no, timestamp |-> stamp]
           t == Preset(sink, now)
<1>1. SinkInv /\ AnnouncedInv /\ RtcpInv /\ PacketsInv
  BY DEF IInv
<1>2. sink' = t /\ awaiting' = awaiting /\ now' = now /\ announced' = {p}
      /\ packets' = packets /\ rtcp' = rtcp
  BY DEF Announce, source_vars
<1>3. SinkOK(sink) /\ now \in Nat
  BY <1>1 DEF SinkInv
<1>4. /\ SinkOK(t) /\ t.preset = TRUE /\ t.timestamp_base = stamp
      /\ t.buf = sink.buf /\ t.seq_no = sink.seq_no
      /\ t.source = sink.source /\ t.to = sink.to /\ t.timestamp_position = sink.timestamp_position
  BY <1>3, PresetOK
<1>5. stamp \in Int /\ sink.seq_no \in Int
  <2>1. stamp \in 0 .. TimestampMod - 1 /\ sink.seq_no \in 0 .. SeqMod - 1
    BY <1>3, TimestampType DEF SinkOK, Sinks
  <2> HIDE DEF stamp
  <2> QED
    BY <2>1, ConstantTypes
<1> HIDE DEF stamp, t
<1>6. p \in Announcements /\ p.seq = t.seq_no /\ p.timestamp = t.timestamp_base
  BY <1>4, <1>5 DEF Announcements
<1> HIDE DEF p
<1>7. SinkInv'
  BY <1>1, <1>2, <1>4 DEF SinkInv, HeaderBuilt
<1>8. AnnouncedInv'
  BY <1>2, <1>4, <1>6 DEF AnnouncedInv
<1>9. PacketsInv'
  BY <1>1, <1>2, <1>4 DEF PacketsInv
<1>10. RtcpInv'
  BY <1>1, <1>2 DEF RtcpInv
<1> QED
  BY <1>7, <1>8, <1>9, <1>10 DEF IInv

(* The packet goes out with the number and the time stamp it is due to have. *)
LEMMA DeliverIInv == ASSUME IInv, Deliver, UNCHANGED <<rtcp, reports>> PROVE IInv'
<1>1. SinkInv /\ AnnouncedInv /\ RtcpInv /\ PacketsInv
  BY DEF IInv
<1>2. awaiting /\ awaiting' = FALSE /\ now' = now /\ rtcp' = rtcp
  BY DEF Deliver
<1>3. PICK n \in {1, MaxOutput}, t \in StartTime .. now, completed, ends \in BOOLEAN :
        AfterGettingFrame(n, t, completed, ends)
  BY DEF Deliver
<1>4. SinkOK(sink) /\ HeaderBuilt(sink) /\ n \in 1 .. MaxOutput /\ t \in Nat /\ now \in Nat
  <2>1. SinkOK(sink) /\ HeaderBuilt(sink) /\ now \in Nat
    BY <1>1, <1>2 DEF SinkInv
  <2> QED
    BY <2>1, ConstantTypes DEF MaxOutput, RtpHeaderSize
<1> DEFINE frame == Written(sink.buf, sink.to, [i \in 1 .. n |-> FrameWord(i, n)])
           used  == [sink EXCEPT !.buf = Increment(frame, n), !.num_frames_used_so_far = @ + 1]
           done  == SpecialHandling(used, t, completed, picture_end_marker \/ ends)
           r     == SentPacket(done.sink)
           stamp == RtpTimestamp(sink, t)
           words == Packet(done.sink.buf)
           p     == [words |-> words, time |-> t, due |-> announced]
<1>5. /\ ~WouldOverflow(frame, n)
      /\ SinkOK(r) /\ r.seq_no = (sink.seq_no + 1) % SeqMod
      /\ r.buf.cur_offset = 0 /\ r.source = sink.source
      /\ GoodPacket(words, sink.seq_no, stamp, n)
  <2>1. ~WouldOverflow(frame, n) /\ PacketSent(sink, r, words, stamp, n)
    BY <1>4, SentFrame
  <2> QED
    BY <2>1 DEF PacketSent
<1>6. sink' = r /\ packets' = Append(packets, p) /\ announced' = {}
  BY <1>3, <1>5 DEF AfterGettingFrame
<1>7. stamp \in Int
  <2>1. stamp \in 0 .. TimestampMod - 1
    BY <1>4, TimestampType
  <2> HIDE DEF stamp
  <2> QED
    BY <2>1, ConstantTypes
<1>8. \A a \in announced : a.seq = sink.seq_no /\ a.timestamp = stamp
  <2> SUFFICES ASSUME NEW a \in announced PROVE a.seq = sink.seq_no /\ a.timestamp = stamp
    OBVIOUS
  <2>1. sink.preset /\ a.seq = sink.seq_no /\ a.timestamp = sink.timestamp_base
    BY <1>1 DEF AnnouncedInv
  <2> QED
    BY <1>4, <2>1, PresetTimestamp
<1> HIDE DEF r, words, stamp
<1>9. p \in Sent /\ p.words = words /\ p.due = announced
  BY <1>1, <1>4, <1>5 DEF Sent, GoodPacket, AnnouncedInv
<1> HIDE DEF p
<1>10. SinkInv'
  BY <1>1, <1>2, <1>5, <1>6 DEF SinkInv
<1>11. AnnouncedInv'
  BY <1>6 DEF AnnouncedInv
<1>12. PacketsInv'
  <2> DEFINE l == Len(packets)
  <2>1. packets \in Seq(Sent) /\ sink.seq_no = NumberOf(l + 1) /\ l \in Nat
        /\ \A i \in 1 .. l : PacketOK(packets[i], i)
    BY <1>1 DEF PacketsInv
  <2>2. packets' \in Seq(Sent) /\ Len(packets') = l + 1 /\ packets'[l + 1] = p
        /\ \A i \in 1 .. l : packets'[i] = packets[i]
    BY <1>6, <1>9, <2>1
  <2> HIDE DEF l
  <2>3. sink'.seq_no = NumberOf((l + 1) + 1)
    <3>1. (NumberOf(l + 1) + 1) % SeqMod = NumberOf((l + 1) + 1)
      BY <2>1, NextNumber
    <3> QED
      BY <1>5, <1>6, <2>1, <3>1
  <2>4. PacketOK(p, l + 1)
    BY <1>4, <1>5, <1>7, <1>8, <1>9, <2>1 DEF PacketOK
  <2>5. \A i \in 1 .. l + 1 : PacketOK(packets'[i], i)
    <3> SUFFICES ASSUME NEW i \in 1 .. l + 1 PROVE PacketOK(packets'[i], i)
      OBVIOUS
    <3>1. i \in 1 .. l \/ i = l + 1
      BY <2>1
    <3> QED
      BY <2>1, <2>2, <2>4, <3>1
  <2> QED
    BY <2>2, <2>3, <2>5 DEF PacketsInv
<1>13. RtcpInv'
  BY <1>1, <1>2 DEF RtcpInv
<1> QED
  BY <1>10, <1>11, <1>12, <1>13 DEF IInv

------------------------------------------------------------------------------
(* The steps of the RTCP instance. *)

LEMMA SendReportIInv ==
  ASSUME IInv, NEW r, r \in Instances, r.out_buf = rtcp.out_buf, SendReport(r),
         UNCHANGED <<awaiting, now, announced, packets>>
  PROVE  IInv'
<1> DEFINE b == ResetOffset(AddSdes(AddSr(r.out_buf, sink, now)))
           c == Converted(sink, now)
           q == [r EXCEPT !.out_buf = b]
<1>1. SinkInv /\ AnnouncedInv /\ RtcpInv /\ PacketsInv
  BY DEF IInv
<1>2. SinkOK(sink) /\ now \in Nat /\ BufferOK(r.out_buf) /\ r.out_buf.cur_offset = 0
      /\ r.out_buf.limit >= RtcpMax
  BY <1>1 DEF SinkInv, RtcpInv
<1>3. CASE MayReport(sink)
  <2>1. rtcp' = q /\ sink' = c
    BY <1>3 DEF SendReport
  <2>2. BufferOK(b) /\ b.cur_offset = 0 /\ b.limit >= RtcpMax
    BY <1>2, ReportBuilt
  <2>3. /\ SinkOK(c) /\ c.preset = FALSE
        /\ c.buf = sink.buf /\ c.seq_no = sink.seq_no
        /\ c.source = sink.source /\ c.to = sink.to
        /\ c.timestamp_position = sink.timestamp_position
    BY <1>2, ConvertedOK
  <2> HIDE DEF b, c
  <2>4. b \in Buffers
    BY <2>2 DEF BufferOK
  <2>5. q \in Instances /\ q.out_buf = b
    BY <2>4 DEF Instances
  <2> HIDE DEF q
  <2>6. announced = {}
    BY <1>1, <1>3 DEF AnnouncedInv, MayReport
  <2>7. SinkInv'
    BY <1>1, <2>1, <2>3 DEF SinkInv, HeaderBuilt
  <2>8. AnnouncedInv'
    BY <2>6 DEF AnnouncedInv
  <2>9. RtcpInv'
    BY <2>1, <2>2, <2>5 DEF RtcpInv
  <2>10. PacketsInv'
    BY <1>1, <2>1, <2>3 DEF PacketsInv
  <2> QED
    BY <2>7, <2>8, <2>9, <2>10 DEF IInv
<1>4. CASE ~MayReport(sink)
  <2>1. rtcp' = r /\ sink' = sink
    BY <1>4 DEF SendReport
  <2>2. SinkInv' /\ AnnouncedInv' /\ PacketsInv'
    BY <1>1, <2>1 DEF SinkInv, AnnouncedInv, PacketsInv
  <2>3. RtcpInv'
    BY <1>2, <2>1 DEF RtcpInv
  <2> QED
    BY <2>2, <2>3 DEF IInv
<1> QED
  BY <1>3, <1>4

LEMMA ScheduledOK ==
  ASSUME NEW r \in Instances, NEW t \in Int, NEW n \in Int, now \in Nat, NEW e \in BOOLEAN
  PROVE  /\ Scheduled(r, t) \in Instances /\ Scheduled(r, t).out_buf = r.out_buf
         /\ [r EXCEPT !.exists = e, !.prev_report_time = n] \in Instances
         /\ [r EXCEPT !.exists = e, !.prev_report_time = n].out_buf = r.out_buf
         /\ [r EXCEPT !.prev_report_time = n] \in Instances
         /\ [r EXCEPT !.prev_report_time = n].out_buf = r.out_buf
<1> DEFINE x == now + DelayUnit * t
<1>1. x \in Int
  BY RtcpAssumption
<1> HIDE DEF x
<1>2. Scheduled(r, t) = [r EXCEPT !.expires = x]
  BY DEF Scheduled, x
<1>3. Scheduled(r, t) \in Instances /\ Scheduled(r, t).out_buf = r.out_buf
  BY <1>1, <1>2 DEF Instances
<1>4. /\ [r EXCEPT !.exists = e, !.prev_report_time = n] \in Instances
      /\ [r EXCEPT !.exists = e, !.prev_report_time = n].out_buf = r.out_buf
  BY DEF Instances
<1>5. /\ [r EXCEPT !.prev_report_time = n] \in Instances
      /\ [r EXCEPT !.prev_report_time = n].out_buf = r.out_buf
  BY DEF Instances
<1> QED
  BY <1>3, <1>4, <1>5

(* A step of the instance that leaves its buffer and the sink alone. *)
LEMMA RescheduledIInv ==
  ASSUME IInv, rtcp' \in Instances, rtcp'.out_buf = rtcp.out_buf,
         UNCHANGED <<sink, awaiting, now, announced, packets>>
  PROVE  IInv'
<1>1. SinkInv' /\ AnnouncedInv' /\ PacketsInv'
  BY DEF IInv, SinkInv, AnnouncedInv, PacketsInv
<1>2. RtcpInv'
  BY DEF IInv, RtcpInv
<1> QED
  BY <1>1, <1>2 DEF IInv

LEMMA CreateRtcpIInv == ASSUME IInv, CreateRtcp PROVE IInv'
<1>1. rtcp \in Instances /\ now \in Nat
  BY DEF IInv, SinkInv, RtcpInv
<1> DEFINE r == [rtcp EXCEPT !.exists = TRUE, !.prev_report_time = now]
<1>2. PICK t \in 1 .. MaxInterval : rtcp' = Scheduled(r, t)
  BY DEF CreateRtcp
<1>3. UNCHANGED <<sink, awaiting, now, announced, packets>>
  BY DEF CreateRtcp, sink_vars, source_vars
<1>4. now \in Int /\ t \in Int /\ TRUE \in BOOLEAN
  BY <1>1, RtcpAssumption
<1>5. r \in Instances /\ r.out_buf = rtcp.out_buf
  BY <1>1, <1>4, ScheduledOK
<1> HIDE DEF r
<1>6. rtcp' \in Instances /\ rtcp'.out_buf = rtcp.out_buf
  BY <1>1, <1>2, <1>4, <1>5, ScheduledOK
<1> QED
  BY <1>3, <1>6, RescheduledIInv

LEMMA ReportNowIInv == ASSUME IInv, ReportNow PROVE IInv'
<1>1. rtcp \in Instances
  BY DEF IInv, RtcpInv
<1>2. SendReport(rtcp) /\ UNCHANGED <<awaiting, now, announced, packets>>
  BY DEF ReportNow, source_vars
<1> QED
  BY <1>1, <1>2, SendReportIInv

LEMMA OnExpireIInv == ASSUME IInv, OnExpire PROVE IInv'
<1>1. rtcp \in Instances /\ now \in Nat /\ rtcp.prev_report_time \in Int
  BY DEF IInv, SinkInv, RtcpInv, Instances
<1>2. UNCHANGED <<awaiting, now, announced, packets>>
  BY DEF OnExpire, source_vars
<1> DEFINE r == [rtcp EXCEPT !.prev_report_time = now]
<1>3. PICK t, next \in 1 .. MaxInterval :
        IF rtcp.prev_report_time + t <= now
          THEN SendReport(Scheduled(r, next))
          ELSE /\ rtcp' = Scheduled(rtcp, rtcp.prev_report_time + t - now)
               /\ UNCHANGED <<sink, reports>>
  BY DEF OnExpire
<1>4. now \in Int /\ t \in Int /\ next \in Int
  BY <1>1, RtcpAssumption
<1>5. CASE rtcp.prev_report_time + t <= now
  <2>1. r \in Instances /\ r.out_buf = rtcp.out_buf
    BY <1>1, <1>4, ScheduledOK
  <2>2. SendReport(Scheduled(r, next))
    BY <1>3, <1>5
  <2> HIDE DEF r
  <2>3. Scheduled(r, next) \in Instances /\ Scheduled(r, next).out_buf = rtcp.out_buf
    BY <1>1, <1>4, <2>1, ScheduledOK
  <2> QED
    BY <1>2, <2>2, <2>3, SendReportIInv
<1>6. CASE ~(rtcp.prev_report_time + t <= now)
  <2> DEFINE rest == rtcp.prev_report_time + t - now
  <2>1. rest \in Int
    BY <1>1, <1>4
  <2>2. rtcp' = Scheduled(rtcp, rest) /\ UNCHANGED sink
    BY <1>3, <1>6
  <2> HIDE DEF rest
  <2>3. rtcp' \in Instances /\ rtcp'.out_buf = rtcp.out_buf
    BY <1>1, <1>4, <2>1, <2>2, ScheduledOK
  <2> QED
    BY <1>2, <2>2, <2>3, RescheduledIInv
<1> QED
  BY <1>5, <1>6

LEMMA UnchangedIInv == ASSUME IInv, UNCHANGED vars PROVE IInv'
<1>1. UNCHANGED <<sink, awaiting, now, announced, packets, rtcp>>
  BY DEF vars, sink_vars, source_vars
<1>2. rtcp' \in Instances /\ rtcp'.out_buf = rtcp.out_buf
  BY <1>1 DEF IInv, RtcpInv
<1> QED
  BY <1>1, <1>2, RescheduledIInv

(* Every step of the sink and of the instance keeps the invariant. *)
THEOREM InvariantHolds == Spec => []IInv
<1>1. Init => IInv
  BY InitIInv
<1>2. IInv /\ [Next]_vars => IInv'
  <2> SUFFICES ASSUME IInv, [Next]_vars PROVE IInv'
    OBVIOUS
  <2>1. CASE SinkNext /\ UNCHANGED <<rtcp, reports>>
    BY <2>1, StartPlayingIInv, StopPlayingIInv, DeliverIInv, SourceClosesIInv, SendNextIInv,
       AnnounceIInv, TickIInv DEF SinkNext
  <2>2. CASE CreateRtcp
    BY <2>2, CreateRtcpIInv
  <2>3. CASE ReportNow
    BY <2>3, ReportNowIInv
  <2>4. CASE OnExpire
    BY <2>4, OnExpireIInv
  <2>5. CASE UNCHANGED vars
    BY <2>5, UnchangedIInv
  <2> QED
    BY <2>1, <2>2, <2>3, <2>4, <2>5 DEF Next
<1> QED
  BY <1>1, <1>2, PTL DEF Spec

------------------------------------------------------------------------------
LEMMA WellFormed ==
  ASSUME IInv
  PROVE  PacketsWellFormed
<1>1. SinkInv /\ RtcpInv /\ PacketsInv
  BY DEF IInv
<1>2. TypeOK
  <2>1. SinkOK(sink) /\ sink \in Sinks /\ BufferOK(sink.buf) /\ BufferOK(rtcp.out_buf)
        /\ rtcp.out_buf.cur_offset = 0
    BY <1>1 DEF SinkInv, SinkOK, RtcpInv
  <2>2. ASSUME NEW b, BufferOK(b)
        PROVE  Cur(b) \in 0 .. b.limit /\ b.packet_start = 0
    BY <2>2 DEF BufferOK, Buffers, Cur
  <2>3. sink.seq_no \in 0 .. SeqMod - 1 /\ sink.timestamp_base \in 0 .. TimestampMod - 1
        /\ ~sink.overflowed
    BY <2>1 DEF Sinks
  <2> QED
    BY <2>1, <2>2, <2>3 DEF TypeOK
<1>3. ASSUME NEW i \in DOMAIN packets
      PROVE  LET words == packets[i].words
                 n     == Len(words) - RtpHeaderSize
             IN  /\ words[1][1] = "header" /\ words[1][2] = (SeqMod - 2 + i) % SeqMod
                 /\ words[2][1] = "timestamp" /\ words[3] = Ssrc
                 /\ n \in 1 .. MaxOutput
                 /\ SubSeq(words, 4, Len(words)) = [k \in 1 .. n |-> FrameWord(k, n)]
  <2> DEFINE words == packets[i].words
  <2>1. i \in 1 .. Len(packets) /\ PacketOK(packets[i], i)
    BY <1>1 DEF PacketsInv
  <2>2. PICK n \in 1 .. MaxOutput, stamp \in Int : GoodPacket(words, NumberOf(i), stamp, n)
    BY <2>1 DEF PacketOK
  <2> HIDE DEF words
  <2>3. n \in Nat /\ MaxOutput \in Int
    BY ConstantTypes DEF MaxOutput, RtpHeaderSize
  <2>4. /\ words \in Seq(Words) /\ Len(words) = 3 + n
        /\ words[1][1] = "header" /\ words[1][2] = NumberOf(i)
        /\ words[2] = Timestamp(stamp) /\ words[3] = Ssrc
        /\ \A k \in 1 .. n : words[3 + k] = FrameWord(k, n)
    BY <2>2 DEF GoodPacket
  <2>5. Len(words) - RtpHeaderSize = n
    BY <2>3, <2>4 DEF RtpHeaderSize
  <2>6. SubSeq(words, 4, Len(words)) = [k \in 1 .. n |-> FrameWord(k, n)]
    <3>1. SubSeq(words, 4, 3 + n) = [k \in 1 .. ((3 + n) - 4 + 1) |-> words[4 + k - 1]]
      BY <2>3, <2>4
    <3>2. (3 + n) - 4 + 1 = n
      BY <2>3
    <3>3. \A k \in 1 .. n : words[4 + k - 1] = FrameWord(k, n)
      <4> SUFFICES ASSUME NEW k \in 1 .. n PROVE words[4 + k - 1] = FrameWord(k, n)
        OBVIOUS
      <4>1. 4 + k - 1 = 3 + k
        OBVIOUS
      <4> QED
        BY <2>4, <4>1
    <3> QED
      BY <2>4, <3>1, <3>2, <3>3
  <2>7. words[2][1] = "timestamp"
    BY <2>4 DEF Timestamp
  <2> QED
    BY <2>4, <2>5, <2>6, <2>7 DEF words, NumberOf
<1> QED
  BY <1>2, <1>3 DEF PacketsWellFormed

(* The packet buffers stay within their bounds, and every packet is a whole *)
(* header and one whole frame with the next number, for buffers and numbers *)
(* of any size (multi_framed_rtp_sink.c).                                   *)
THEOREM EveryPacketWellFormed == Spec => []PacketsWellFormed
<1>1. IInv => PacketsWellFormed
  BY WellFormed
<1> QED
  BY <1>1, InvariantHolds, PTL

(* The number and the time stamp that start_stream() asked for are used by  *)
(* the next packet, for clocks, frequencies and widths of any kind          *)
(* (preset_next_time_stamp(), convert_to_rtp_timestamp(), add_report()).    *)
THEOREM EveryPresetUsed == Spec => []PresetIsUsed
<1>1. IInv => PresetIsUsed
  <2> SUFFICES ASSUME PacketsInv, NEW i \in DOMAIN packets, NEW p \in packets[i].due
               PROVE  /\ packets[i].words[1][2] = p.seq
                      /\ packets[i].words[2] = Timestamp(p.timestamp)
    BY DEF IInv, PresetIsUsed
  <2>1. PacketOK(packets[i], i)
    BY DEF PacketsInv
  <2> QED
    BY <2>1 DEF PacketOK, GoodPacket
<1> QED
  BY <1>1, InvariantHolds, PTL

------------------------------------------------------------------------------
(* What was sent up to the n-th packet.  The recursive function that adds it *)
(* up exists, for the history holds one in every state, and there is no      *)
(* other: two would differ at a smallest place.                              *)

Below == {p \in Nat \X Nat : p[1] < p[2]}

LEMMA SmallestNumber ==
  ASSUME NEW T, T \subseteq Nat, T # {}
  PROVE  \E x \in T : \A y \in T : x <= y
<1>1. IsWellFoundedOn(Below, Nat)
  BY NatLessThanWellFounded DEF OpToRel, Below
<1>2. PICK x \in T : \A y \in T : ~ (<<y, x>> \in Below)
  BY <1>1, WFMin
<1>3. ASSUME NEW y \in T PROVE x <= y
  <2>1. x \in Nat /\ y \in Nat
    OBVIOUS
  <2>2. <<y, x>> \in Nat \X Nat /\ <<y, x>>[1] = y /\ <<y, x>>[2] = x
    BY <2>1
  <2>3. y < x => <<y, x>> \in Below
    BY <2>2 DEF Below
  <2> QED
    BY <1>2, <2>1, <2>3
<1> QED
  BY <1>3

Sums(f, ps, n) == f = [k \in 0 .. n |-> IF k = 0 THEN 0 ELSE f[k - 1] + Len(ps[k].words) - RtpHeaderSize]

LEMMA SumsSteps ==
  ASSUME NEW n \in Nat, NEW ps, NEW f, Sums(f, ps, n)
  PROVE  f[0] = 0 /\ \A k \in 1 .. n : f[k] = f[k - 1] + Len(ps[k].words) - RtpHeaderSize
<1>1. ASSUME NEW k \in 0 .. n
      PROVE  f[k] = IF k = 0 THEN 0 ELSE f[k - 1] + Len(ps[k].words) - RtpHeaderSize
  <2> DEFINE F(j) == IF j = 0 THEN 0 ELSE f[j - 1] + Len(ps[j].words) - RtpHeaderSize
             g == [j \in 0 .. n |-> F(j)]
  <2>1. f = g
    BY DEF Sums
  <2>2. g[k] = F(k)
    OBVIOUS
  <2> HIDE DEF g
  <2> QED
    BY <2>1, <2>2
<1>2. 0 \in 0 .. n /\ \A k \in 1 .. n : k \in 0 .. n /\ k # 0
  OBVIOUS
<1> QED
  BY <1>1, <1>2

LEMMA OneSum ==
  ASSUME NEW n \in Nat, NEW ps, NEW f, Sums(f, ps, n), NEW g, Sums(g, ps, n)
  PROVE  f[n] = g[n]
<1> DEFINE T == {k \in 0 .. n : f[k] # g[k]}
<1> SUFFICES ASSUME T # {} PROVE FALSE
  OBVIOUS
<1>1. PICK x \in T : \A y \in T : x <= y
  <2>1. T \subseteq Nat
    OBVIOUS
  <2> HIDE DEF T
  <2> QED
    BY <2>1, SmallestNumber
<1>2. f[0] = g[0]
  BY SumsSteps
<1>3. x \in 1 .. n /\ x - 1 \in 0 .. n /\ x - 1 \notin T
  BY <1>1, <1>2
<1>4. f[x - 1] = g[x - 1]
  BY <1>3
<1>5. f[x] = f[x - 1] + Len(ps[x].words) - RtpHeaderSize
      /\ g[x] = g[x - 1] + Len(ps[x].words) - RtpHeaderSize
  BY <1>3, SumsSteps
<1> QED
  BY <1>1, <1>4, <1>5

(* The first n packets have that many words behind their headers. *)
Total(ps, n, octets) == \E f : Sums(f, ps, n) /\ f[n] = octets

LEMMA TotalOfNone == Total(<< >>, 0, 0)
<1> DEFINE f == [k \in 0 .. 0 |-> 0]
           g == [k \in 0 .. 0 |->
                   IF k = 0 THEN 0 ELSE f[k - 1] + Len((<< >>)[k].words) - RtpHeaderSize]
<1>1. \A k \in 0 .. 0 : k = 0
  OBVIOUS
<1>2. f = g
  BY <1>1
<1>3. Sums(f, << >>, 0)
  BY <1>2 DEF Sums
<1>4. f[0] = 0
  OBVIOUS
<1> HIDE DEF f
<1> QED
  BY <1>3, <1>4 DEF Total

(* The first packets stay what they are when one more goes out. *)
LEMMA TotalKept ==
  ASSUME NEW ps \in Seq(Sent), NEW p \in Sent, NEW n \in 0 .. Len(ps), NEW octets,
         Total(ps, n, octets)
  PROVE  Total(Append(ps, p), n, octets)
<1>1. PICK f : Sums(f, ps, n) /\ f[n] = octets
  BY DEF Total
<1> DEFINE qs == Append(ps, p)
           F(k) == IF k = 0 THEN 0 ELSE f[k - 1] + Len(ps[k].words) - RtpHeaderSize
           G(k) == IF k = 0 THEN 0 ELSE f[k - 1] + Len(qs[k].words) - RtpHeaderSize
<1>2. ASSUME NEW k \in 0 .. n PROVE F(k) = G(k)
  <2>1. CASE k = 0
    BY <2>1
  <2>2. CASE k # 0
    <3>1. k \in 1 .. Len(ps)
      BY <2>2
    <3>2. qs[k] = ps[k]
      BY <3>1
    <3> QED
      BY <3>2
  <2> QED
    BY <2>1, <2>2
<1>3. f = [k \in 0 .. n |-> F(k)]
  BY <1>1 DEF Sums
<1>4. f = [k \in 0 .. n |-> G(k)]
  <2> HIDE DEF F, G
  <2> QED
    BY <1>2, <1>3
<1>5. Sums(f, qs, n)
  BY <1>4 DEF Sums
<1> HIDE DEF qs
<1>6. Total(qs, n, octets)
  BY <1>1, <1>5 DEF Total
<1> QED
  BY <1>6 DEF qs

LEMMA TotalOfOneMore ==
  ASSUME NEW ps \in Seq(Sent), NEW p \in Sent, NEW octets, Total(ps, Len(ps), octets)
  PROVE  Total(Append(ps, p), Len(ps) + 1, octets + Len(p.words) - RtpHeaderSize)
<1> DEFINE n == Len(ps)
           qs == Append(ps, p)
           sum == octets + Len(p.words) - RtpHeaderSize
<1>1. n \in Nat /\ n \in 0 .. Len(ps)
  OBVIOUS
<1>2. PICK f : Sums(f, qs, n) /\ f[n] = octets
  BY <1>1, TotalKept DEF Total
<1>3. qs[n + 1] = p
  OBVIOUS
<1> DEFINE g == [k \in 0 .. n + 1 |-> IF k = n + 1 THEN sum ELSE f[k]]
           G(k) == IF k = 0 THEN 0 ELSE g[k - 1] + Len(qs[k].words) - RtpHeaderSize
<1>4. \A k \in 0 .. n : g[k] = f[k]
  BY <1>1
<1>5. g[n + 1] = sum
  BY <1>1
<1>6. f[0] = 0 /\ \A k \in 1 .. n : f[k] = f[k - 1] + Len(qs[k].words) - RtpHeaderSize
  <2> HIDE DEF n, qs
  <2> QED
    BY <1>1, <1>2, SumsSteps
<1>7. DOMAIN g = 0 .. n + 1 /\ g = [k \in 0 .. n + 1 |-> g[k]]
  OBVIOUS
<1> HIDE DEF g, qs, n
<1>8. ASSUME NEW k \in 0 .. n + 1 PROVE g[k] = G(k)
  <2>1. CASE k = 0
    BY <1>1, <1>4, <1>6, <2>1
  <2>2. CASE k \in 1 .. n
    <3>1. k - 1 \in 0 .. n /\ k \in 0 .. n /\ k # 0
      BY <1>1, <2>2
    <3>2. g[k - 1] = f[k - 1] /\ g[k] = f[k]
      BY <1>4, <3>1
    <3> QED
      BY <1>6, <2>2, <3>1, <3>2
  <2>3. CASE k = n + 1
    <3>1. k - 1 = n /\ k # 0 /\ n \in 0 .. n
      BY <1>1, <2>3
    <3>2. g[k - 1] = octets
      BY <1>2, <1>4, <3>1
    <3> QED
      BY <1>3, <1>5, <2>3, <3>1, <3>2
  <2> QED
    BY <1>1, <2>1, <2>2, <2>3
<1>9. g = [k \in 0 .. n + 1 |-> G(k)]
  <2> HIDE DEF G
  <2> QED
    BY <1>7, <1>8
<1>10. Sums(g, qs, n + 1)
  BY <1>9 DEF Sums
<1> HIDE DEF sum
<1>11. Total(qs, n + 1, sum)
  BY <1>5, <1>10 DEF Total
<1> QED
  BY <1>11 DEF n, qs, sum

------------------------------------------------------------------------------
(* The reports.  What they say is not inductive: that the counters of the    *)
(* sink agree with what went out, and that the last packet lies on its clock *)
(* unless a time stamp is preset, is needed for the next report; each report *)
(* then keeps what was true of the sink when it was sent.                    *)

OnClock(p, base) == p.words[2] = Timestamp((base + Ticks(p.time)) % TimestampMod)

CountsAndClock(s, ps) ==
  /\ s.packet_count = Len(ps) /\ Total(ps, Len(ps), s.octet_count)
  /\ ~s.preset /\ Len(ps) > 0 => OnClock(ps[Len(ps)], s.timestamp_base)

(* The report q goes back to the sink s. *)
Reported(q, s, ps) ==
  /\ GoodReport(q.words, s, q.time) /\ ~s.preset /\ s.timestamp_base \in Int
  /\ s.packet_count = q.after /\ Total(ps, q.after, s.octet_count)
  /\ q.after > 0 => OnClock(ps[q.after], s.timestamp_base)
ReportOK(q, ps) == q.after \in 0 .. Len(ps) /\ \E s \in Sinks : Reported(q, s, ps)

Reports == [words : Seq(Words), time : Nat, after : Nat]

ReportsInv ==
  /\ CountsAndClock(sink, packets)
  /\ reports \in Seq(Reports)
  /\ \A i \in 1 .. Len(reports) : ReportOK(reports[i], packets)

(* A step that sends nothing: what is counted and the clock stay. *)
SameAccount(s, t) ==
  /\ t.packet_count = s.packet_count /\ t.octet_count = s.octet_count
  /\ t.preset = s.preset /\ t.timestamp_base = s.timestamp_base

LEMMA ReportsInvQuiet ==
  ASSUME ReportsInv, SameAccount(sink, sink') \/ (sink'.packet_count = sink.packet_count
                       /\ sink'.octet_count = sink.octet_count /\ sink'.preset),
         UNCHANGED <<packets, reports>>
  PROVE  ReportsInv'
<1>1. CountsAndClock(sink, packets)
  BY DEF ReportsInv
<1>2. CountsAndClock(sink', packets)
  BY <1>1 DEF CountsAndClock, SameAccount
<1> QED
  BY <1>2 DEF ReportsInv

LEMMA AccountKept ==
  ASSUME IInv, \/ StartPlaying \/ StopPlaying \/ SendNext \/ SourceCloses \/ Tick
  PROVE  SameAccount(sink, sink') /\ UNCHANGED packets
<1>1. sink \in Sinks
  BY DEF IInv, SinkInv, SinkOK
<1>2. CASE StartPlaying
  BY <1>1, <1>2 DEF StartPlaying, PackFrame, BuildHeader, Sinks, SameAccount
<1>3. CASE StopPlaying
  BY <1>1, <1>3 DEF StopPlaying, Stopped, Sinks, SameAccount
<1>4. CASE SendNext
  BY <1>1, <1>4 DEF SendNext, Sinks, SameAccount
<1>5. CASE SourceCloses \/ Tick
  BY <1>5 DEF SourceCloses, Tick, SameAccount
<1> QED
  BY <1>2, <1>3, <1>4, <1>5

LEMMA AnnounceReportsInv ==
  ASSUME IInv, ReportsInv, Announce, UNCHANGED reports PROVE ReportsInv'
<1>1. sink \in Sinks /\ sink' = Preset(sink, now) /\ packets' = packets
  BY DEF IInv, SinkInv, SinkOK, Announce
<1>2. sink'.packet_count = sink.packet_count /\ sink'.octet_count = sink.octet_count /\ sink'.preset
  BY <1>1 DEF Preset, Sinks
<1> QED
  BY <1>1, <1>2, ReportsInvQuiet

(* A report that was sent stays true when one more packet goes out. *)
LEMMA ReportKept ==
  ASSUME NEW ps \in Seq(Sent), NEW p \in Sent, NEW q \in Reports, ReportOK(q, ps)
  PROVE  ReportOK(q, Append(ps, p))
<1>1. q.after \in 0 .. Len(ps) /\ Len(ps) \in Nat
  BY DEF ReportOK
<1>2. PICK s \in Sinks : Reported(q, s, ps)
  BY DEF ReportOK
<1>3. q.after \in 0 .. Len(Append(ps, p))
  BY <1>1
<1>4. Total(Append(ps, p), q.after, s.octet_count)
  <2>1. Total(ps, q.after, s.octet_count)
    BY <1>2 DEF Reported
  <2> QED
    BY <1>1, <2>1, TotalKept
<1>5. q.after > 0 => Append(ps, p)[q.after] = ps[q.after]
  BY <1>1
<1>6. Reported(q, s, Append(ps, p))
  BY <1>2, <1>4, <1>5 DEF Reported
<1> QED
  BY <1>3, <1>6 DEF ReportOK

(* The counters and the base of the sink after a packet. *)
AccountAfter(s, d, t, r) ==
  /\ r.packet_count = s.packet_count + 1
  /\ r.octet_count = s.octet_count + d.buf.cur_offset - RtpHeaderSize
  /\ r.timestamp_base = BaseFor(s, t)

LEMMA SentAccount ==
  ASSUME NEW s, SinkOK(s), NEW n \in 1 .. MaxOutput, NEW t \in Nat, NEW completed, NEW marker
  PROVE  LET frame == Written(s.buf, s.to, [i \in 1 .. n |-> FrameWord(i, n)])
             used  == [s EXCEPT !.buf = Increment(frame, n), !.num_frames_used_so_far = @ + 1]
             done  == SpecialHandling(used, t, completed, marker)
         IN  AccountAfter(s, done.sink, t, SentPacket(done.sink))
<1> DEFINE b == Increment(Written(s.buf, s.to, [i \in 1 .. n |-> FrameWord(i, n)]), n)
           frames == s.num_frames_used_so_far + 1
           used == [s EXCEPT !.buf = b, !.num_frames_used_so_far = frames]
           d    == SpecialHandling(used, t, completed, marker).sink
           r    == SentPacket(d)
           base == BaseFor(used, t)
           mark == completed /\ used.input /\ marker
           word == ExtractWord(used.buf, 0)
           marked == IF mark THEN InsertWord(used.buf, Header(word[2], 1), 0) ELSE used.buf
           c == InsertWord(marked, Timestamp(RtpTimestamp(used, t)), used.timestamp_position)
<1>1. s \in Sinks
  BY DEF SinkOK
<1>2. d = [used EXCEPT !.timestamp_base = base, !.preset = FALSE, !.buf = c]
  BY DEF SpecialHandling, Converted
<1> HIDE DEF b, frames
<1>3. base = BaseFor(s, t)
  BY <1>1 DEF BaseFor, Sinks
<1> HIDE DEF base, c, d
<1>4. /\ d.packet_count = s.packet_count /\ d.octet_count = s.octet_count
      /\ d.timestamp_base = base
      /\ DOMAIN d = DOMAIN s
  BY <1>1, <1>2 DEF Sinks
<1> DEFINE octets == d.octet_count + d.buf.cur_offset - RtpHeaderSize
           count == d.packet_count + 1
           seq == (d.seq_no + 1) % SeqMod
           e == ResetOffset(ResetPacketStart(d.buf))
<1>5. r = [d EXCEPT !.packet_count = count, !.octet_count = octets, !.seq_no = seq, !.buf = e,
                    !.num_frames_used_so_far = 0, !.timer = TRUE]
  BY DEF SentPacket
<1> HIDE DEF octets, count, seq, e, r, used
<1>6. DOMAIN s = {"seq_no", "timestamp_base", "buf", "source", "our_fragmenter", "input", "to",
                  "is_first_packet", "timestamp_position", "num_frames_used_so_far",
                  "overflowed", "timer", "packet_count", "octet_count", "preset"}
  BY <1>1 DEF Sinks
<1>7. r.packet_count = count /\ r.octet_count = octets /\ r.timestamp_base = d.timestamp_base
  BY <1>4, <1>5, <1>6
<1> QED
  BY <1>3, <1>4, <1>7 DEF AccountAfter, octets, count, r, d, used, b, frames

(* The next packet is counted, and lies on the clock of the sink.            *)
LEMMA DeliverReportsInv ==
  ASSUME IInv, IInv', ReportsInv, Deliver, UNCHANGED reports PROVE ReportsInv'
<1>1. SinkInv /\ PacketsInv /\ SinkInv' /\ PacketsInv' /\ awaiting
  BY DEF IInv, Deliver
<1>2. PICK n \in {1, MaxOutput}, t \in StartTime .. now, completed, ends \in BOOLEAN :
        AfterGettingFrame(n, t, completed, ends)
  BY DEF Deliver
<1>3. SinkOK(sink) /\ HeaderBuilt(sink) /\ n \in 1 .. MaxOutput /\ t \in Nat /\ n \in Nat
  <2>1. SinkOK(sink) /\ HeaderBuilt(sink) /\ now \in Nat
    BY <1>1 DEF SinkInv
  <2> QED
    BY <2>1, ConstantTypes DEF MaxOutput, RtpHeaderSize
<1> DEFINE frame  == Written(sink.buf, sink.to, [i \in 1 .. n |-> FrameWord(i, n)])
           used   == [sink EXCEPT !.buf = Increment(frame, n), !.num_frames_used_so_far = @ + 1]
           done   == SpecialHandling(used, t, completed, picture_end_marker \/ ends)
           d      == done.sink
           r      == SentPacket(d)
           stamp  == RtpTimestamp(sink, t)
           words  == Packet(d.buf)
           p      == [words |-> words, time |-> t, due |-> announced]
<1>4. /\ ~WouldOverflow(frame, n) /\ PacketSent(sink, r, words, stamp, n)
      /\ d.buf.cur_offset = 3 + n
  <2>1. ~WouldOverflow(frame, n) /\ PacketSent(sink, r, words, stamp, n)
    BY <1>3, SentFrame
  <2>2. HoldsFrame(done.sink, n)
    BY <1>3, SentFrame
  <2> QED
    BY <2>1, <2>2 DEF HoldsFrame
<1>5. sink' = r /\ packets' = Append(packets, p)
  BY <1>2, <1>4 DEF AfterGettingFrame
<1>7. /\ r.packet_count = sink.packet_count + 1
      /\ r.octet_count = sink.octet_count + d.buf.cur_offset - RtpHeaderSize
      /\ r.timestamp_base = BaseFor(sink, t)
  <2>1. SinkOK(sink) /\ n \in 1 .. MaxOutput /\ t \in Nat
    BY <1>3
  <2>2. AccountAfter(sink, done.sink, t, SentPacket(done.sink))
    BY <2>1, SentAccount
  <2> QED
    BY <2>2 DEF AccountAfter
<1>8. Len(words) = 3 + n /\ words[2] = Timestamp(stamp)
  BY <1>4 DEF PacketSent, GoodPacket
<1>9. stamp = (BaseFor(sink, t) + Ticks(t)) % TimestampMod
  BY DEF RtpTimestamp
<1>10. p.words = words /\ p.time = t
  OBVIOUS
<1> HIDE DEF frame, used, done, d, r, stamp, words, p
<1>11. OnClock(p, sink'.timestamp_base)
  BY <1>5, <1>7, <1>8, <1>9, <1>10 DEF OnClock
<1> DEFINE l == Len(packets)
<1>12. packets \in Seq(Sent) /\ packets' \in Seq(Sent) /\ l \in Nat
       /\ packets' = Append(packets, p)
  BY <1>1, <1>5 DEF PacketsInv
<1>13. p \in Sent /\ Len(packets') = l + 1 /\ packets'[l + 1] = p
  <2>1. Len(packets') = l + 1 /\ packets'[l + 1] = p
    BY <1>12
  <2>2. l + 1 \in 1 .. Len(packets')
    BY <1>12, <2>1
  <2> HIDE DEF l
  <2> QED
    BY <1>12, <2>1, <2>2
<1>14. sink.packet_count = l /\ Total(packets, l, sink.octet_count)
       /\ reports \in Seq(Reports) /\ \A i \in 1 .. Len(reports) : ReportOK(reports[i], packets)
  BY DEF ReportsInv, CountsAndClock
<1>15. Total(packets', l + 1, sink'.octet_count)
  <2>1. Total(packets', l + 1, sink.octet_count + Len(p.words) - RtpHeaderSize)
    BY <1>12, <1>13, <1>14, TotalOfOneMore
  <2>2. Len(p.words) = d.buf.cur_offset
    BY <1>4, <1>8, <1>10
  <2> QED
    BY <1>5, <1>7, <2>1, <2>2
<1>16. CountsAndClock(sink', packets')
  BY <1>5, <1>7, <1>11, <1>13, <1>14, <1>15 DEF CountsAndClock
<1>17. \A i \in 1 .. Len(reports) : ReportOK(reports[i], packets')
  <2> SUFFICES ASSUME NEW i \in 1 .. Len(reports) PROVE ReportOK(reports[i], packets')
    OBVIOUS
  <2>1. reports[i] \in Reports /\ ReportOK(reports[i], packets)
    BY <1>14
  <2> QED
    BY <1>12, <1>13, <2>1, ReportKept
<1> QED
  BY <1>14, <1>16, <1>17 DEF ReportsInv

(* A report says what is true of the sink, whose base it leaves alone: no    *)
(* time stamp is preset.                                                     *)
LEMMA SendReportReportsInv ==
  ASSUME IInv, ReportsInv, NEW r \in Instances, r.out_buf = rtcp.out_buf, SendReport(r),
         UNCHANGED packets
  PROVE  ReportsInv'
<1>1. CASE ~MayReport(sink)
  BY <1>1, ReportsInvQuiet DEF SendReport, SameAccount
<1>2. CASE MayReport(sink)
  <2> DEFINE w == AddSdes(AddSr(r.out_buf, sink, now))
             words == Packet(w)
             q == [words |-> words, time |-> now, after |-> Len(packets)]
  <2>1. reports' = Append(reports, q) /\ sink' = Converted(sink, now) /\ packets' = packets
    BY <1>2 DEF SendReport
  <2>2. /\ SinkOK(sink) /\ sink \in Sinks /\ now \in Nat /\ packets \in Seq(Sent)
        /\ BufferOK(r.out_buf) /\ r.out_buf.cur_offset = 0 /\ r.out_buf.limit >= RtcpMax
    BY DEF IInv, SinkInv, SinkOK, RtcpInv, PacketsInv
  <2>3. GoodReport(words, sink, now)
    BY <2>2, ReportBuilt
  <2> HIDE DEF words
  <2>4. q \in Reports /\ q.words = words /\ q.time = now /\ q.after = Len(packets)
    BY <2>2, <2>3 DEF Reports, GoodReport
  <2> HIDE DEF q
  <2>5. SameAccount(sink, sink')
    BY <1>2, <2>1, <2>2 DEF Converted, BaseFor, MayReport, Sinks, SameAccount
  <2>6. CountsAndClock(sink, packets) /\ reports \in Seq(Reports)
        /\ \A i \in 1 .. Len(reports) : ReportOK(reports[i], packets)
    BY DEF ReportsInv
  <2>7. CountsAndClock(sink', packets)
    BY <2>5, <2>6 DEF CountsAndClock, SameAccount
  <2>8. ReportOK(q, packets)
    <3>1. sink.timestamp_base \in Int
      BY <2>2, ConstantTypes DEF Sinks
    <3>2. Reported(q, sink, packets)
      BY <1>2, <2>3, <2>4, <2>6, <3>1 DEF Reported, CountsAndClock, MayReport
    <3>3. q.after \in 0 .. Len(packets)
      BY <2>2, <2>4
    <3> QED
      BY <2>2, <3>2, <3>3 DEF ReportOK
  <2> DEFINE l == Len(reports)
  <2>9. l \in Nat /\ reports' \in Seq(Reports) /\ Len(reports') = l + 1 /\ reports'[l + 1] = q
        /\ \A i \in 1 .. l : reports'[i] = reports[i]
    BY <2>1, <2>4, <2>6
  <2> HIDE DEF l
  <2>10. \A i \in 1 .. l + 1 : ReportOK(reports'[i], packets)
    <3> SUFFICES ASSUME NEW i \in 1 .. l + 1 PROVE ReportOK(reports'[i], packets)
      OBVIOUS
    <3>1. i \in 1 .. l \/ i = l + 1
      BY <2>9
    <3> QED
      BY <2>6, <2>8, <2>9, <3>1 DEF l
  <2> QED
    BY <2>1, <2>7, <2>9, <2>10 DEF ReportsInv
<1> QED
  BY <1>1, <1>2

LEMMA InitReportsInv == Init => ReportsInv
<1> SUFFICES ASSUME Init PROVE ReportsInv
  OBVIOUS
<1>1. sink.packet_count = 0 /\ sink.octet_count = 0 /\ packets = << >> /\ reports = << >>
  BY DEF Init, SinkInit
<1>2. Len(packets) = 0 /\ Total(packets, 0, 0)
  BY <1>1, TotalOfNone
<1>3. CountsAndClock(sink, packets)
  BY <1>1, <1>2 DEF CountsAndClock
<1>4. reports \in Seq(Reports) /\ Len(reports) = 0
  BY <1>1
<1> QED
  BY <1>3, <1>4 DEF ReportsInv

LEMMA OnExpireReportsInv ==
  ASSUME IInv, ReportsInv, OnExpire PROVE ReportsInv'
<1>1. rtcp \in Instances /\ now \in Nat
  BY DEF IInv, SinkInv, RtcpInv
<1>2. packets' = packets
  BY DEF OnExpire
<1> DEFINE r == [rtcp EXCEPT !.prev_report_time = now]
<1>3. PICK t, next \in 1 .. MaxInterval :
        IF rtcp.prev_report_time + t <= now
          THEN SendReport(Scheduled(r, next))
          ELSE UNCHANGED <<sink, reports>>
  BY DEF OnExpire
<1>4. CASE rtcp.prev_report_time + t <= now
  <2>1. now \in Int /\ next \in Int
    BY <1>1, RtcpAssumption
  <2>2. r \in Instances /\ r.out_buf = rtcp.out_buf
    BY <1>1, <2>1, ScheduledOK
  <2>3. SendReport(Scheduled(r, next))
    BY <1>3, <1>4
  <2> HIDE DEF r
  <2>4. Scheduled(r, next) \in Instances /\ Scheduled(r, next).out_buf = rtcp.out_buf
    BY <1>1, <2>1, <2>2, ScheduledOK
  <2> QED
    BY <1>2, <2>3, <2>4, SendReportReportsInv
<1>5. CASE ~(rtcp.prev_report_time + t <= now)
  <2>1. UNCHANGED <<sink, reports>>
    BY <1>3, <1>5
  <2> QED
    BY <1>2, <2>1, ReportsInvQuiet DEF SameAccount
<1> QED
  BY <1>4, <1>5

LEMMA NextReportsInv == IInv /\ IInv' /\ ReportsInv /\ [Next]_vars => ReportsInv'
<1> SUFFICES ASSUME IInv, IInv', ReportsInv, [Next]_vars PROVE ReportsInv'
  OBVIOUS
<1>1. CASE SinkNext /\ UNCHANGED <<rtcp, reports>>
  <2>1. CASE StartPlaying \/ StopPlaying \/ SendNext \/ SourceCloses \/ Tick
    BY <1>1, <2>1, AccountKept, ReportsInvQuiet
  <2>2. CASE Deliver
    BY <1>1, <2>2, DeliverReportsInv
  <2>3. CASE Announce
    BY <1>1, <2>3, AnnounceReportsInv
  <2> QED
    BY <1>1, <2>1, <2>2, <2>3 DEF SinkNext
<1>2. CASE CreateRtcp
  <2>1. UNCHANGED <<sink, packets, reports>>
    BY <1>2 DEF CreateRtcp, sink_vars
  <2> QED
    BY <2>1, ReportsInvQuiet DEF SameAccount
<1>3. CASE ReportNow
  <2>1. SendReport(rtcp) /\ UNCHANGED packets /\ rtcp \in Instances
    BY <1>3 DEF ReportNow, IInv, RtcpInv
  <2> QED
    BY <2>1, SendReportReportsInv
<1>4. CASE OnExpire
  BY <1>4, OnExpireReportsInv
<1>5. CASE UNCHANGED vars
  BY <1>5, ReportsInvQuiet DEF vars, sink_vars, SameAccount
<1> QED
  BY <1>1, <1>2, <1>3, <1>4, <1>5 DEF Next

(* The report and the last packet before it were stamped from one base. *)
LEMMA OneClock ==
  ASSUME NEW base \in Int, NEW p, p.time \in Nat, OnClock(p, base), NEW t \in Nat
  PROVE  (base + Ticks(t)) % TimestampMod
           = (p.words[2][2] + Ticks(t) - Ticks(p.time)) % TimestampMod
<1> DEFINE k == Ticks(p.time)
           l == Ticks(t)
           a == base + k
           d == l - k
           x == a % TimestampMod
<1>1. k \in Int /\ l \in Int
  BY TicksType
<1>2. p.words[2][2] = x
  BY DEF OnClock, Timestamp
<1> HIDE DEF k, l
<1>3. a \in Int /\ d \in Int /\ TimestampMod \in Nat \ {0} /\ a + d = base + l
  BY <1>1, ConstantTypes
<1>4. x \in Int
  <2> HIDE DEF a
  <2> QED
    BY <1>3, Division
<1> HIDE DEF a
<1>5. (x + d) % TimestampMod = (a + d) % TimestampMod
  <2> HIDE DEF d
  <2> QED
    BY <1>3, RemainderOfSum
<1> HIDE DEF x
<1>6. x + l - k = x + d
  BY <1>1, <1>4
<1> QED
  BY <1>2, <1>3, <1>5, <1>6 DEF k, l

LEMMA TruthfulFromInv == IInv /\ ReportsInv => ReportsTruthful
<1> SUFFICES ASSUME IInv, ReportsInv, NEW i \in DOMAIN reports
             PROVE  LET words == reports[i].words
                        n     == reports[i].after
                        sdes  == words[1][3] + 2
                        sent[k \in 0 .. n] ==
                          IF k = 0 THEN 0 ELSE sent[k - 1] + Len(packets[k].words) - RtpHeaderSize
                    IN  /\ words[1][2] = SR /\ words[sdes][2] = SDES
                        /\ sdes + words[sdes][3] = Len(words)
                        /\ words[6] = Count(n) /\ words[7] = Count(sent[n])
                        /\ n > 0 =>
                             words[5] = Timestamp((packets[n].words[2][2] + Ticks(reports[i].time)
                                                     - Ticks(packets[n].time)) % TimestampMod)
  BY DEF ReportsTruthful
<1> DEFINE q     == reports[i]
           words == q.words
           n     == q.after
           sent  == CHOOSE sent : Sums(sent, packets, n)
<1>1. q \in Reports /\ ReportOK(q, packets)
  BY DEF ReportsInv
<1>2. PICK s \in Sinks : Reported(q, s, packets)
  BY <1>1 DEF ReportOK
<1>3. n \in Nat /\ n \in 0 .. Len(packets) /\ q.time \in Nat
  BY <1>1 DEF ReportOK, Reports
<1>4. /\ words \in Seq(Words) /\ Len(words) = 9 + ItemSize /\ ItemSize \in Nat
      /\ words[1] = RtcpHeader(SR, 6) /\ words[5] = Timestamp(RtpTimestamp(s, q.time))
      /\ words[6] = Count(s.packet_count) /\ words[7] = Count(s.octet_count)
      /\ words[8] = RtcpHeader(SDES, ItemSize + 1)
  BY <1>2, ItemFits DEF Reported, GoodReport
<1>5. s.packet_count = n /\ ~s.preset /\ s.timestamp_base \in Int
      /\ (n > 0 => OnClock(packets[n], s.timestamp_base))
  BY <1>2 DEF Reported
<1>6. s.octet_count = sent[n]
  <2>1. PICK f : Sums(f, packets, n) /\ f[n] = s.octet_count
    BY <1>2 DEF Reported, Total
  <2>2. Sums(sent, packets, n)
    BY <2>1
  <2> HIDE DEF sent, n
  <2> QED
    BY <1>3, <2>1, <2>2, OneSum
<1>7. n > 0 =>
        words[5] = Timestamp((packets[n].words[2][2] + Ticks(q.time) - Ticks(packets[n].time))
                               % TimestampMod)
  <2> SUFFICES ASSUME n > 0
               PROVE  words[5] = Timestamp((packets[n].words[2][2] + Ticks(q.time)
                                              - Ticks(packets[n].time)) % TimestampMod)
    OBVIOUS
  <2> DEFINE p == packets[n]
  <2>1. packets \in Seq(Sent) /\ n \in 1 .. Len(packets)
    BY <1>3 DEF IInv, PacketsInv
  <2>2. p.time \in Nat
    <3> DEFINE k == n
    <3>1. k \in 1 .. Len(packets) /\ p = packets[k]
      BY <2>1
    <3> HIDE DEF k, p
    <3>2. p \in Sent
      BY <2>1, <3>1
    <3> QED
      BY <3>2 DEF Sent
  <2>3. RtpTimestamp(s, q.time) = (s.timestamp_base + Ticks(q.time)) % TimestampMod
    BY <1>5 DEF RtpTimestamp, BaseFor
  <2>4. OnClock(p, s.timestamp_base)
    BY <1>5
  <2> HIDE DEF p
  <2>5. (s.timestamp_base + Ticks(q.time)) % TimestampMod
          = (p.words[2][2] + Ticks(q.time) - Ticks(p.time)) % TimestampMod
    BY <1>3, <1>5, <2>2, <2>4, OneClock
  <2> QED
    BY <1>4, <2>3, <2>5 DEF p
<1>8. words[1][2] = SR /\ words[1][3] + 2 = 8 /\ words[8][2] = SDES
      /\ 8 + words[8][3] = Len(words)
  BY <1>4 DEF RtcpHeader
<1> HIDE DEF words, n, q
<1>9. words[6] = Count(n) /\ words[7] = Count(sent[n])
  BY <1>4, <1>5, <1>6
<1> QED
  BY <1>7, <1>8, <1>9 DEF Sums, words, n, q

(* A report and the last packet before it lie on one clock, the report       *)
(* counts the packets and the words that went out, and its parts are as long *)
(* as they say, for clocks of any width and frequency, names of any length   *)
(* and whatever time stamps are preset in between (add_report(), add_sr(),   *)
(* add_sdes(), convert_to_rtp_timestamp()).                                  *)
THEOREM EveryReportTruthful == Spec => []ReportsTruthful
<1>1. Init => ReportsInv
  BY InitReportsInv
<1>2. IInv /\ IInv' /\ ReportsInv /\ [Next]_vars => ReportsInv'
  BY NextReportsInv
<1>3. IInv /\ ReportsInv => ReportsTruthful
  BY TruthfulFromInv
<1> QED
  BY <1>1, <1>2, <1>3, InvariantHolds, PTL DEF Spec
===============================================================================
