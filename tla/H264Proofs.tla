------------------------------ MODULE H264Proofs ------------------------------
(***************************************************************************)
(* The parser hands on the units of the byte stream, in order, none twice  *)
(* and none left out, labels each as the whole file says, and has handed   *)
(* on all of them when the reader is told of the end: for files of any     *)
(* bytes and length, reads and buffers of any size, and stops at any time. *)
(* The fragmenter, which the units go to next, cuts them into fragments    *)
(* that carry their bytes in order and mark their start once, for every    *)
(* size of its buffer and of the packets.                                  *)
(***************************************************************************)
EXTENDS VideoSink, FiniteSetTheorems, SequenceTheorems, WellFoundedInduction, TLAPS

------------------------------------------------------------------------------
(* Start codes, byte by byte. *)

LongAt(p) == Byte(p) = 0 /\ Byte(p + 1) = 0 /\ Byte(p + 2) = 0 /\ Byte(p + 3) = 1
ShortAt(p) == Byte(p) = 0 /\ Byte(p + 1) = 0 /\ Byte(p + 2) = 1

InputType == input \in Seq(0 .. 255)

LEMMA SubBytes ==
  ASSUME InputType, NEW p \in Nat, NEW n \in Nat, p + n <= Len(input)
  PROVE  /\ SubSeq(input, p + 1, p + n) \in Seq(0 .. 255)
         /\ Len(SubSeq(input, p + 1, p + n)) = n
         /\ \A i \in 1 .. n : SubSeq(input, p + 1, p + n)[i] = input[p + i]
<1> DEFINE a == p + 1
           b == p + n
           s == SubSeq(input, a, b)
<1>1. a \in Int /\ b \in Int /\ Len(input) \in Nat /\ input \in Seq(0 .. 255)
  BY DEF InputType
<1>2. \A i \in a .. b : input[i] \in 0 .. 255
  <2> SUFFICES ASSUME NEW i \in a .. b PROVE input[i] \in 0 .. 255
    OBVIOUS
  <2>1. i \in Int /\ p + 1 <= i /\ i <= p + n
    BY <1>1
  <2>2. i \in 1 .. Len(input)
    BY <1>1, <2>1
  <2> HIDE DEF a, b
  <2> QED
    BY <2>2, ElementOfSeq DEF InputType
<1> HIDE DEF a, b
<1>3. /\ s \in Seq(0 .. 255)
      /\ Len(s) = IF a <= b THEN b - a + 1 ELSE 0
      /\ \A i \in 1 .. b - a + 1 : s[i] = input[a + i - 1]
  BY <1>1, <1>2, SubSeqProperties
<1>4. b - a + 1 = n /\ (n = 0 \/ a <= b) /\ \A i \in 1 .. n : a + i - 1 = p + i
  BY DEF a, b
<1>5. Len(s) = n
  BY <1>3, <1>4 DEF a, b
<1> QED
  BY <1>3, <1>4, <1>5 DEF a, b

LEMMA LongCodeBytes ==
  ASSUME InputType, NEW p \in Nat, p + 4 <= Len(input)
  PROVE  LongCode(p) <=> LongAt(p)
<1> DEFINE s == SubSeq(input, p + 1, p + 4)
           t == <<0, 0, 0, 1>>
<1>1. Len(s) = 4 /\ s \in Seq(0 .. 255) /\ \A i \in 1 .. 4 : s[i] = input[p + i]
  BY SubBytes
<1>2. t \in Seq(0 .. 255) /\ Len(t) = 4 /\ t[1] = 0 /\ t[2] = 0 /\ t[3] = 0 /\ t[4] = 1
  OBVIOUS
<1> HIDE DEF s, t
<1>3. s = t <=> \A i \in 1 .. 4 : s[i] = t[i]
  BY <1>1, <1>2, SeqEqual
<1>4. (\A i \in 1 .. 4 : s[i] = t[i]) <=> s[1] = 0 /\ s[2] = 0 /\ s[3] = 0 /\ s[4] = 1
  BY <1>2
<1>5. s[1] = input[p + 1] /\ s[2] = input[p + 2] /\ s[3] = input[p + 3] /\ s[4] = input[p + 4]
  BY <1>1
<1>6. (p + 1) + 1 = p + 2 /\ (p + 2) + 1 = p + 3 /\ (p + 3) + 1 = p + 4
  OBVIOUS
<1> QED
  BY <1>3, <1>4, <1>5, <1>6 DEF LongCode, Bytes, LongAt, Byte, s, t

LEMMA StartCodeBytes ==
  ASSUME InputType, NEW p \in Nat, p + 4 <= Len(input)
  PROVE  StartCode(p) <=> LongAt(p) \/ ShortAt(p)
<1> DEFINE s == SubSeq(input, p + 1, p + 3)
           t == <<0, 0, 1>>
<1>0. p + 3 <= Len(input) /\ 3 \in Nat
  BY DEF InputType
<1>1. Len(s) = 3 /\ s \in Seq(0 .. 255) /\ \A i \in 1 .. 3 : s[i] = input[p + i]
  BY <1>0, SubBytes
<1>2. t \in Seq(0 .. 255) /\ Len(t) = 3 /\ t[1] = 0 /\ t[2] = 0 /\ t[3] = 1
  OBVIOUS
<1> HIDE DEF s, t
<1>3. s = t <=> \A i \in 1 .. 3 : s[i] = t[i]
  BY <1>1, <1>2, SeqEqual
<1>4. (\A i \in 1 .. 3 : s[i] = t[i]) <=> s[1] = 0 /\ s[2] = 0 /\ s[3] = 1
  BY <1>2
<1>5. s[1] = input[p + 1] /\ s[2] = input[p + 2] /\ s[3] = input[p + 3]
  BY <1>1
<1>6. (p + 1) + 1 = p + 2 /\ (p + 2) + 1 = p + 3
  OBVIOUS
<1>7. s = t <=> ShortAt(p)
  BY <1>3, <1>4, <1>5, <1>6 DEF ShortAt, Byte
<1> QED
  BY <1>7, LongCodeBytes DEF StartCode, Bytes, s, t

LEMMA CodeType ==
  ASSUME InputType, NEW p \in Codes
  PROVE  /\ p \in Nat /\ p + 4 <= Len(input)
         /\ LongCode(p) <=> LongAt(p)
         /\ LongAt(p) \/ ShortAt(p)
         /\ p > 0 => ~LongAt(p - 1)
<1>1. p \in Nat /\ p + 4 <= Len(input) /\ CodeAt(p)
  BY DEF Codes, InputType
<1>2. p > 0 => p - 1 \in Nat /\ (p - 1) + 4 <= Len(input)
  BY <1>1 DEF InputType
<1> QED
  BY <1>1, <1>2, LongCodeBytes, StartCodeBytes DEF CodeAt

(* Codes do not overlap. *)
LEMMA CodesApart ==
  ASSUME InputType, NEW p \in Codes, NEW q \in Codes, p < q
  PROVE  p + CodeLength(p) <= q
<1>1. p \in Nat /\ q \in Nat /\ (LongAt(p) \/ ShortAt(p)) /\ (LongAt(q) \/ ShortAt(q))
      /\ ~LongAt(q - 1)
  BY CodeType
<1>2. CodeLength(p) = IF LongAt(p) THEN 4 ELSE 3
  BY CodeType DEF CodeLength
<1>3. CASE q = p + 1
  <2>1. q + 1 = p + 2 /\ q + 2 = p + 3 /\ q - 1 = p
    BY <1>1, <1>3
  <2> QED
    BY <1>1, <1>3, <2>1 DEF LongAt, ShortAt
<1>4. CASE q = p + 2
  <2>1. q + 1 = p + 3
    BY <1>1, <1>4
  <2> QED
    BY <1>1, <1>4, <2>1 DEF LongAt, ShortAt
<1>5. CASE q = p + 3
  BY <1>1, <1>2, <1>5 DEF LongAt, ShortAt
<1> QED
  BY <1>1, <1>2, <1>3, <1>4, <1>5

------------------------------------------------------------------------------
(* The invariant. *)

UnitType ==
  [first : Nat, last : Int, bytes : Seq(0 .. 255), words : Seq(Nat), truncated : Nat,
   marker : BOOLEAN, taken : BOOLEAN,
   pictures : Nat, time : Nat, sps : Seq(0 .. 255), pps : Seq(0 .. 255), stops : Nat]

Types ==
  /\ InputType /\ TypeOK
  /\ to \in Seq(0 .. 255) /\ last_seen_sps \in Seq(0 .. 255) /\ last_seen_pps \in Seq(0 .. 255)
  /\ picture_count \in Nat /\ presentation_time \in Nat /\ next_presentation_time \in Nat
  /\ stops \in Nat /\ units \in Seq(UnitType) /\ words \in Seq(Nat)

Starts == {p + CodeLength(p) : p \in Codes}
NoCode(a, b) == \A q \in Codes : ~(a <= q /\ q < b)

(* A unit is read from behind a code, and no code has been read over.        *)
PlacesInv ==
  /\ phase \in {"idle", "parsing", "stalled"} => place = saved_place
  /\ phase \in {"idle", "stalled"} => saved_place = origin
  /\ ~have_seen_first_start_code => place = origin /\ saved_place = origin
  /\ have_seen_first_start_code =>
       origin \in Starts /\ origin <= saved_place /\ NoCode(origin, saved_place)

(* The buffer is empty as long as nothing of the unit was read, and after     *)
(* that only if no word fits it.                                             *)
BufferInv ==
  /\ phase = "parsing" => Len(to) = saved_to
  /\ phase \in {"parsing", "waiting"} =>
       /\ saved_place = origin => saved_to = 0
       /\ MaxSize >= 4 /\ origin < saved_place => saved_to > 0
  /\ MaxSize < 4 =>
       /\ units = << >>
       /\ phase # "closed" /\ ~have_seen_eof => to = << >>

Before(x) == {span \in Spans : span.last < x}
Begun(x) == {span \in Spans : span.first < x}

(* The units of the file that begin before the place are those handed on.     *)
OrderInv ==
  /\ \A k \in 1 .. Len(units) :
       /\ SpanOf(units[k]) \in Spans /\ units[k].last < origin
       /\ k > 1 => units[k - 1].last < units[k].first
       /\ stops = 0 => Cardinality(Before(units[k].first)) = k - 1
  /\ stops = 0 =>
       IF have_seen_first_start_code
         THEN phase # "stalled" => Cardinality(Begun(origin)) = Len(units)
         ELSE units = << >> /\ \A q \in 0 .. Len(input) - 4 : q < origin => ~LongCode(q)

(* The first byte is noted until the unit is complete.  It is only forgotten  *)
(* before that where the type does not tell the end of the picture.          *)
FirstByteInv ==
  /\ ~have_seen_first_start_code => ~have_seen_first_byte_of_nal_unit
  /\ have_seen_first_start_code /\ ~have_seen_eof /\ phase # "closed" =>
       IF have_seen_first_byte_of_nal_unit
         THEN first_byte_of_nal_unit = Byte(origin) /\ origin < saved_place
         ELSE \/ saved_place = origin
              \/ /\ saved_place + 4 <= received /\ StartCode(saved_place)
                 /\ ~TypeDecides(nal_unit_type(Byte(origin)))

Fresh == units = << >> \/ units[Len(units)].stops # stops
Untaken == units # << >> /\ units[Len(units)].marker /\ ~units[Len(units)].taken
LastSps == IF units = << >> THEN << >> ELSE units[Len(units)].sps
LastPps == IF units = << >> THEN << >> ELSE units[Len(units)].pps

(* What the reader takes with each unit is as it was after the one before.    *)
LabelsInv ==
  /\ \A k \in 1 .. Len(units) : units[k].stops <= stops
  /\ phase # "stalled" => picture_count = 0 /\ (picture_end_marker <=> Fresh \/ Untaken)
  /\ last_seen_sps = LastSps /\ last_seen_pps = LastPps
  /\ MarksPictures /\ ParameterSetsKept

IInv == Types /\ PlacesInv /\ BufferInv /\ OrderInv /\ FirstByteInv /\ LabelsInv

------------------------------------------------------------------------------
(* What lies where in the file. *)

LEMMA StartCodeAt ==
  ASSUME InputType, NEW p \in Nat, p + 4 <= Len(input)
  PROVE  /\ StartCode(p) <=> LongAt(p) \/ ShortAt(p)
         /\ LongCode(p) <=> LongAt(p)
         /\ CodeLength(p) = IF LongAt(p) THEN 4 ELSE 3
BY LongCodeBytes, StartCodeBytes DEF CodeLength

(* A code may begin where the last byte before it is a one. *)
LEMMA LongCodeIsCode ==
  ASSUME InputType, NEW p \in Nat, p + 4 <= Len(input), LongCode(p)
  PROVE  p \in Codes /\ CodeLength(p) = 4
<1>1. LongAt(p) /\ StartCode(p) /\ CodeLength(p) = 4
  BY StartCodeAt
<1>2. ASSUME p > 0 PROVE ~LongCode(p - 1)
  <2>1. p - 1 \in Nat /\ (p - 1) + 4 <= Len(input) /\ (p - 1) + 3 = p + 2
    BY <1>2 DEF InputType
  <2>2. ~LongAt(p - 1)
    BY <1>1, <2>1 DEF LongAt
  <2> QED
    BY <2>1, <2>2, StartCodeAt
<1>3. p \in 0 .. Len(input) - 4 /\ p <= p
  BY DEF InputType
<1> QED
  BY <1>1, <1>2, <1>3 DEF Codes, CodeAt

LEMMA StartType ==
  ASSUME InputType, NEW o \in Starts
  PROVE  \E p \in Codes : /\ o = p + CodeLength(p) /\ CodeLength(p) \in {3, 4}
                          /\ o \in Nat /\ p < o /\ o <= Len(input) /\ o - 1 \in Nat /\ Byte(o - 1) = 1
                          /\ \E q \in 0 .. Len(input) - 4 : q <= p /\ LongCode(q)
<1>1. PICK p \in Codes : o = p + CodeLength(p)
  BY DEF Starts
<1>2. p \in Nat /\ p + 4 <= Len(input) /\ Len(input) \in Nat /\ (LongAt(p) \/ ShortAt(p))
  BY CodeType DEF InputType
<1>3. CodeLength(p) = IF LongAt(p) THEN 4 ELSE 3
  BY <1>2, StartCodeAt
<1>4. o \in Nat /\ p < o /\ o <= Len(input) /\ o - 1 \in Nat /\ CodeLength(p) \in {3, 4}
  BY <1>1, <1>2, <1>3
<1>5. Byte(o - 1) = 1
  <2>1. CASE LongAt(p)
    <3>1. o - 1 = p + 3
      BY <1>1, <1>2, <1>3, <2>1
    <3> QED
      BY <2>1, <3>1 DEF LongAt
  <2>2. CASE ~LongAt(p)
    <3>1. o - 1 = p + 2 /\ ShortAt(p)
      BY <1>1, <1>2, <1>3, <2>2
    <3> QED
      BY <3>1 DEF ShortAt
  <2> QED
    BY <2>1, <2>2
<1>6. \E q \in 0 .. Len(input) - 4 : q <= p /\ LongCode(q)
  BY DEF Codes
<1> QED
  BY <1>1, <1>4, <1>5, <1>6

(* The first start code behind a place right behind a code is one of the     *)
(* file's: it is not the end of a long one.                                  *)
LEMMA NextCodeIsCode ==
  ASSUME InputType, NEW o \in Starts, NEW p \in Nat, o <= p, NoCode(o, p),
         p + 4 <= Len(input), StartCode(p)
  PROVE  p \in Codes
<1>1. PICK d \in Codes : /\ o = d + CodeLength(d)
                         /\ o \in Nat /\ d < o /\ o - 1 \in Nat /\ Byte(o - 1) = 1
                         /\ \E q \in 0 .. Len(input) - 4 : q <= d /\ LongCode(q)
  BY StartType
<1>2. d \in Nat /\ Len(input) \in Nat
  BY CodeType DEF InputType
<1>3. ~LongCode(p - 1)
  <2> SUFFICES ASSUME LongCode(p - 1) PROVE FALSE
    OBVIOUS
  <2>1. p - 1 \in Nat /\ (p - 1) + 4 <= Len(input)
    BY <1>1, <1>2
  <2>2. LongAt(p - 1) /\ p - 1 \in Codes
    BY <2>1, StartCodeAt, LongCodeIsCode
  <2>3. p - 1 < o
    BY <2>1, <2>2, <1>1 DEF NoCode
  <2>4. p - 1 = o - 1
    BY <1>1, <2>1, <2>3
  <2> QED
    BY <1>1, <2>2, <2>4 DEF LongAt
<1>4. CodeAt(p) /\ p \in 0 .. Len(input) - 4
  BY <1>2, <1>3 DEF CodeAt
<1>5. \E q \in 0 .. Len(input) - 4 : q <= p /\ LongCode(q)
  BY <1>1, <1>2
<1> QED
  BY <1>4, <1>5 DEF Codes

(* The step that SaveBytes takes reads over no code. *)
LEMMA StepOver ==
  ASSUME InputType, NEW o \in Nat, NEW p \in Nat, NoCode(o, p), p + 4 <= Len(input), ~StartCode(p)
  PROVE  /\ NoCode(o, p + 1)
         /\ Byte(p + 3) > 1 => NoCode(o, p + 4)
<1>1. p \notin Codes
  BY CodeType, StartCodeAt
<1>2. \A q \in Codes : q \in Nat /\ (LongAt(q) \/ ShortAt(q))
  BY CodeType
<1>3. NoCode(o, p + 1)
  BY <1>1, <1>2 DEF NoCode
<1>4. ASSUME Byte(p + 3) > 1, NEW q \in Codes, p <= q, q < p + 4 PROVE FALSE
  <2>1. q = p + 1 \/ q = p + 2 \/ q = p + 3
    BY <1>1, <1>2, <1>4
  <2>2. q + 2 = p + 3 \/ q + 1 = p + 3 \/ q = p + 3
    BY <2>1
  <2>3. Byte(p + 3) \in {0, 1}
    BY <1>2, <2>2 DEF LongAt, ShortAt
  <2> QED
    BY <1>4, <2>3
<1>5. ASSUME Byte(p + 3) > 1 PROVE NoCode(o, p + 4)
  <2> SUFFICES ASSUME NEW q \in Codes, o <= q, q < p + 4 PROVE FALSE
    BY DEF NoCode
  <2>1. q < p
    BY <1>2, <1>4, <1>5
  <2> QED
    BY <2>1 DEF NoCode
<1> QED
  BY <1>3, <1>5

------------------------------------------------------------------------------
(* The units of the file. *)

(* The code q is the first behind the code p. *)
Follows(q, p) == p \in Codes /\ q \in Codes /\ p < q /\ NoCode(p + 1, q)

Span(p, q) == [first |-> p + CodeLength(p), last |-> q - 1]

LEMMA CodesFinite ==
  ASSUME InputType
  PROVE  IsFiniteSet(Codes) /\ Codes \subseteq Nat
<1>1. Codes \in SUBSET (0 .. Len(input) - 4) /\ 0 \in Int /\ Len(input) - 4 \in Int
  BY DEF Codes, InputType
<1>2. IsFiniteSet(0 .. Len(input) - 4)
  BY <1>1, FS_Interval
<1>3. IsFiniteSet(Codes)
  BY <1>1, <1>2, FS_Subset
<1> QED
  BY <1>1, <1>3

LEMMA SmallestCode ==
  ASSUME InputType, NEW S, S \subseteq Codes, S # {}
  PROVE  Min(S) \in S /\ \A y \in S : Min(S) <= y
<1> DEFINE Below == {p \in Nat \X Nat : p[1] < p[2]}
<1>1. IsWellFoundedOn(Below, Nat) /\ S \subseteq Nat
  BY NatLessThanWellFounded, CodesFinite DEF OpToRel
<1>2. PICK x \in S : \A y \in S : ~ (<<y, x>> \in Below)
  BY <1>1, WFMin
<1>3. \A y \in S : x <= y
  <2> SUFFICES ASSUME NEW y \in S, y < x PROVE FALSE
    <3>1. \A y \in S : y \in Nat /\ x \in Nat
      BY <1>1
    <3> HIDE DEF Below
    <3> QED
      BY <3>1
  <2>1. <<y, x>> \in Nat \X Nat /\ <<y, x>>[1] = y /\ <<y, x>>[2] = x
    BY <1>1
  <2>2. <<y, x>> \in Below
    BY <2>1
  <2> QED
    BY <1>2, <2>2
<1> QED
  BY <1>3 DEF Min

LEMMA SpansAre ==
  ASSUME InputType, NEW span
  PROVE  span \in Spans <=> \E p, q \in Codes : Follows(q, p) /\ span = Span(p, q)
<1> DEFINE Later(p) == {q \in Codes : q > p}
<1>1. Spans = {[first |-> p + CodeLength(p), last |-> Min(Later(p)) - 1] :
                 p \in {q \in Codes : \E r \in Codes : r > q}}
  BY DEF Spans
<1>2. ASSUME NEW p \in Codes, NEW r \in Codes, r > p
      PROVE  Follows(Min(Later(p)), p) /\ Min(Later(p)) \in Codes
  <2> DEFINE m == Min(Later(p))
  <2>1. Later(p) \subseteq Codes /\ Later(p) # {}
    BY <1>2
  <2>2. m \in Later(p) /\ \A y \in Later(p) : m <= y
    BY <2>1, SmallestCode
  <2>3. m \in Codes /\ p < m
    BY <2>2
  <2> HIDE DEF m
  <2>4. NoCode(p + 1, m)
    <3> SUFFICES ASSUME NEW q \in Codes, p + 1 <= q, q < m PROVE FALSE
      BY DEF NoCode
    <3>1. p \in Nat /\ q \in Nat /\ m \in Nat
      BY <2>3, CodesFinite
    <3>2. q \in Later(p)
      BY <3>1
    <3> QED
      BY <2>2, <3>1, <3>2
  <2> QED
    BY <2>3, <2>4 DEF Follows, m
<1>3. ASSUME NEW p \in Codes, NEW q \in Codes, Follows(q, p) PROVE q = Min(Later(p)) /\ q > p
  <2>1. q > p /\ NoCode(p + 1, q)
    BY <1>3, CodesFinite DEF Follows
  <2>2. Follows(Min(Later(p)), p) /\ Min(Later(p)) \in Codes
    BY <1>2, <2>1
  <2> DEFINE m == Min(Later(p))
  <2> HIDE DEF m
  <2>3. m \in Codes /\ p < m /\ NoCode(p + 1, m)
    BY <2>2 DEF Follows, m
  <2>4. p \in Nat /\ q \in Nat /\ m \in Nat
    BY <2>3, CodesFinite
  <2> QED
    BY <2>1, <2>3, <2>4 DEF NoCode, m
<1> HIDE DEF Later
<1>4. ASSUME span \in Spans PROVE \E p, q \in Codes : Follows(q, p) /\ span = Span(p, q)
  <2>1. PICK p \in Codes : (\E r \in Codes : r > p)
                           /\ span = [first |-> p + CodeLength(p), last |-> Min(Later(p)) - 1]
    BY <1>1, <1>4
  <2> QED
    BY <1>2, <2>1 DEF Span
<1>5. ASSUME NEW p \in Codes, NEW q \in Codes, Follows(q, p), span = Span(p, q) PROVE span \in Spans
  <2>1. q = Min(Later(p)) /\ q > p
    BY <1>3, <1>5
  <2>2. span = [first |-> p + CodeLength(p), last |-> Min(Later(p)) - 1]
    BY <1>5, <2>1 DEF Span
  <2> QED
    BY <1>1, <2>1, <2>2
<1> QED
  BY <1>4, <1>5

LEMMA SpansFinite ==
  ASSUME InputType
  PROVE  IsFiniteSet(Spans)
<1> DEFINE Later(p) == {q \in Codes : q > p}
           Of(p) == [first |-> p + CodeLength(p), last |-> Min(Later(p)) - 1]
           S == {q \in Codes : \E r \in Codes : r > q}
<1>1. Spans = {Of(p) : p \in S}
  BY DEF Spans
<1>2. IsFiniteSet(S)
  BY CodesFinite, FS_Subset
<1> HIDE DEF Of, S
<1> DEFINE f == [p \in S |-> Of(p)]
<1>3. f \in Surjection(S, Spans)
  BY <1>1 DEF Surjection
<1> HIDE DEF f
<1> QED
  BY <1>2, <1>3, FS_Surjection DEF ExistsSurjection

(* Where a unit is read from and the code that ends it: the unit is one of    *)
(* the file's, and comes next behind those that begin before it.             *)
LEMMA UnitEnds ==
  ASSUME InputType, NEW o \in Starts, NEW p \in Codes, o <= p, NoCode(o, p)
  PROVE  LET span == [first |-> o, last |-> p - 1]
         IN  /\ span \in Spans
             /\ span \notin Begun(o)
             /\ Begun(p + CodeLength(p)) = Begun(o) \cup {span}
             /\ o < p => Before(o) = Begun(o)
<1> DEFINE span == [first |-> o, last |-> p - 1]
           e == p + CodeLength(p)
<1>1. PICK d \in Codes : o = d + CodeLength(d) /\ d < o /\ CodeLength(d) \in {3, 4}
  BY StartType
<1>2. Codes \subseteq Nat
  BY CodesFinite
<1>3. Follows(p, d)
  <2>1. d < p
    BY <1>1, <1>2
  <2>2. NoCode(d + 1, p)
    <3> SUFFICES ASSUME NEW q \in Codes, d + 1 <= q, q < p PROVE FALSE
      BY DEF NoCode
    <3>1. d < q
      BY <1>2
    <3>2. o <= q
      BY <1>1, <3>1, CodesApart
    <3> QED
      BY <3>2 DEF NoCode
  <2> QED
    BY <2>1, <2>2 DEF Follows
<1>4. span = Span(d, p) /\ span \in Spans
  <2>1. span = Span(d, p)
    BY <1>1 DEF Span
  <2> QED
    BY <1>3, <2>1, SpansAre
<1>5. span \notin Begun(o)
  BY <1>1, <1>2 DEF Begun
<1>6. \A q \in Codes : CodeLength(q) \in {3, 4}
  BY DEF CodeLength
(* A unit of the file, against the one that ends. *)
<1>7. ASSUME NEW s \in Spans
      PROVE  /\ s.first < e <=> s.first < o \/ s = span
             /\ o < p => (s.last < o <=> s.first < o)
  <2>1. PICK a \in Codes, b \in Codes : Follows(b, a) /\ s = Span(a, b)
    BY <1>7, SpansAre
  <2>2. s.first = a + CodeLength(a) /\ s.last = b - 1 /\ a < b /\ NoCode(a + 1, b)
    BY <2>1 DEF Span, Follows
  <2>3. a \in Nat /\ b \in Nat /\ d \in Nat /\ p \in Nat /\ CodeLength(a) \in {3, 4} /\ CodeLength(p) \in {3, 4}
    BY <1>2, <1>6
  <2>4. CASE a < d
    <3>1. a + CodeLength(a) <= d /\ b <= d
      BY <2>2, <2>3, <2>4, CodesApart DEF NoCode
    <3> QED
      BY <1>1, <2>2, <2>3, <3>1
  <2>5. CASE a = d
    <3>1. b = p
      BY <1>3, <2>2, <2>3, <2>5 DEF Follows, NoCode
    <3>2. s = span
      BY <1>4, <2>1, <2>5, <3>1
    <3> QED
      BY <1>1, <2>2, <2>3, <2>5, <3>1, <3>2
  <2>6. CASE a > d
    <3>1. p <= a
      BY <1>3, <2>3, <2>6 DEF Follows, NoCode
    <3>2. e <= s.first
      <4>1. CASE a = p
        BY <2>2, <2>3, <4>1
      <4>2. CASE p < a
        <5>1. e <= a
          BY <4>2, CodesApart
        <5> QED
          BY <2>2, <2>3, <5>1
      <4> QED
        BY <2>3, <3>1, <4>1, <4>2
    <3>3. s # span /\ ~(s.first < o)
      <4>1. span.first = o
        OBVIOUS
      <4> QED
        BY <1>1, <2>2, <2>3, <3>1, <3>2, <4>1
    <3>4. o < p => ~(s.last < o)
      BY <1>1, <2>2, <2>3, <3>1
    <3> QED
      BY <1>1, <2>2, <2>3, <3>2, <3>3, <3>4
  <2> QED
    BY <2>3, <2>4, <2>5, <2>6
<1> HIDE DEF span, e
<1>8. Begun(e) = Begun(o) \cup {span}
  BY <1>4, <1>7 DEF Begun
<1>9. o < p => Before(o) = Begun(o)
  BY <1>7 DEF Begun, Before
<1> QED
  BY <1>4, <1>5, <1>8, <1>9 DEF span, e

(* Behind the first long code, no unit has begun. *)
LEMMA NoneBegun ==
  ASSUME InputType, NEW p \in Nat, p + 4 <= Len(input), LongCode(p),
         \A q \in 0 .. Len(input) - 4 : q < p => ~LongCode(q)
  PROVE  Begun(p + 4) = {}
<1> SUFFICES ASSUME NEW s \in Spans, s.first < p + 4 PROVE FALSE
  BY DEF Begun
<1>1. p \in Codes /\ CodeLength(p) = 4
  BY LongCodeIsCode
<1>2. PICK a \in Codes, b \in Codes : s = Span(a, b)
  BY SpansAre
<1>3. s.first = a + CodeLength(a) /\ CodeLength(a) \in {3, 4} /\ a \in Nat
  BY <1>2, CodesFinite DEF Span, CodeLength
<1>4. PICK q \in 0 .. Len(input) - 4 : q <= a /\ LongCode(q)
  BY DEF Codes
<1>5. p <= a
  BY <1>3, <1>4
<1>6. CASE a = p
  BY <1>1, <1>3, <1>6
<1>7. CASE p < a
  <2>1. p + 4 <= a
    BY <1>1, <1>7, CodesApart
  <2> QED
    BY <1>3, <2>1
<1> QED
  BY <1>3, <1>5, <1>6, <1>7

------------------------------------------------------------------------------
(* Steps that hand nothing on. *)

LEMMA SameInput ==
  ASSUME input' = input
  PROVE  Codes' = Codes /\ Spans' = Spans /\ Starts' = Starts /\ (InputType' <=> InputType)
<1>1. \A p : LongCode(p)' = LongCode(p) /\ StartCode(p)' = StartCode(p)
             /\ CodeLength(p)' = CodeLength(p) /\ CodeAt(p)' = CodeAt(p)
  BY DEF LongCode, StartCode, CodeLength, CodeAt, Bytes
<1>2. Codes' = Codes
  BY <1>1 DEF Codes
<1>3. Spans' = Spans
  BY <1>1, <1>2 DEF Spans
<1>4. Starts' = Starts
  BY <1>1, <1>2 DEF Starts
<1> QED
  BY <1>2, <1>3, <1>4 DEF InputType

LEMMA UnitsKept ==
  ASSUME input' = input, units' = units
  PROVE  /\ MarksPictures => MarksPictures'
         /\ ParameterSetsKept => ParameterSetsKept'
<1>1. \A p : Byte(p)' = Byte(p) /\ LongCode(p)' = LongCode(p) /\ CodeLength(p)' = CodeLength(p)
  BY DEF Byte, LongCode, CodeLength, Bytes
<1>2. \A span : TypeOf(span)' = TypeOf(span) /\ NextUnitOf(span)' = NextUnitOf(span)
  BY <1>1 DEF TypeOf, NextUnitOf
<1>3. \A type, p : EndsAccessUnit(type, p)' = EndsAccessUnit(type, p)
  BY <1>1 DEF EndsAccessUnit, NextBeginsPicture
<1> QED
  BY <1>2, <1>3 DEF MarksPictures, ParameterSetsKept

LEMMA NothingHandedOn ==
  ASSUME IInv, input' = input,
         UNCHANGED <<units, stops, origin, have_seen_first_start_code, last_seen_sps, last_seen_pps,
                     picture_end_marker, picture_count>>,
         phase = "stalled" => phase' = "stalled"
  PROVE  OrderInv' /\ LabelsInv'
<1>1. Codes' = Codes /\ Spans' = Spans
  BY SameInput
<1>2. OrderInv /\ LabelsInv
  BY DEF IInv
<1>3. \A q : LongCode(q)' = LongCode(q)
  BY DEF LongCode, Bytes
<1>4. OrderInv'
  BY <1>1, <1>2, <1>3 DEF OrderInv, SpanOf, Before, Begun
<1>5. Fresh' = Fresh /\ Untaken' = Untaken /\ LastSps' = LastSps /\ LastPps' = LastPps
  BY DEF Fresh, Untaken, LastSps, LastPps
<1>6. LabelsInv'
  BY <1>2, <1>5, UnitsKept DEF LabelsInv
<1> QED
  BY <1>4, <1>6

LEMMA InitIInv == Init => IInv
<1> SUFFICES ASSUME Init PROVE IInv
  OBVIOUS
<1>1. InputType
  BY BoundsAssumption DEF Init, InputType
<1>2. Types
  <2>1. {have_seen_eof, have_seen_first_start_code, have_seen_first_byte_of_nal_unit,
         picture_end_marker} \subseteq BOOLEAN
    BY Zenon DEF Init
  <2>2. TypeOK
    <3>1. Len(input) \in Nat /\ Len(to) = 0 /\ MaxSize \in Nat
      BY <1>1, BoundsAssumption DEF Init, InputType
    <3> QED
      BY <2>1, <3>1 DEF Init, TypeOK, Phases
  <2>3. << >> \in Seq(0 .. 255) /\ << >> \in Seq(UnitType) /\ << >> \in Seq(Nat)
    OBVIOUS
  <2> QED
    BY <1>1, <2>2, <2>3 DEF Init, Types
<1>3. PlacesInv /\ BufferInv /\ FirstByteInv
  BY DEF Init, PlacesInv, BufferInv, FirstByteInv
<1>4. OrderInv /\ LabelsInv
  BY DEF Init, OrderInv, LabelsInv, Fresh, Untaken, LastSps, LastPps, MarksPictures, ParameterSetsKept
<1> QED
  BY <1>2, <1>3, <1>4 DEF IInv

(* The parts of the invariant, as the steps use them. *)
LEMMA Unfolded ==
  ASSUME IInv
  PROVE  /\ InputType /\ Len(input) \in Nat
         /\ received \in Nat /\ received <= Len(input)
         /\ place \in Nat /\ saved_place \in Nat /\ origin \in Nat
         /\ saved_place <= place /\ place <= received /\ origin <= received
         /\ to \in Seq(0 .. 255) /\ Len(to) \in Nat /\ Len(to) <= MaxSize
         /\ saved_to \in Nat /\ saved_to <= Len(to)
         /\ num_truncated_bytes \in Nat /\ saved_num_truncated_bytes \in Nat
         /\ MaxSize \in Nat \ {0} /\ MaxRead \in Nat \ {0} /\ MaxStops \in Nat
         /\ have_seen_eof \in BOOLEAN /\ have_seen_first_start_code \in BOOLEAN
         /\ have_seen_first_byte_of_nal_unit \in BOOLEAN /\ picture_end_marker \in BOOLEAN
<1>1. Types
  BY DEF IInv
<1>2. /\ have_seen_eof \in BOOLEAN /\ have_seen_first_start_code \in BOOLEAN
      /\ have_seen_first_byte_of_nal_unit \in BOOLEAN /\ picture_end_marker \in BOOLEAN
  BY <1>1 DEF Types, TypeOK
<1> QED
  BY <1>1, <1>2, BoundsAssumption DEF Types, TypeOK, InputType

FlagsTyped ==
  {have_seen_eof, have_seen_first_start_code, have_seen_first_byte_of_nal_unit,
   picture_end_marker} \subseteq BOOLEAN

LEMMA GetNextFrameKeeps ==
  ASSUME IInv, GetNextFrame
  PROVE  IInv'
<1> USE DEF stream_vars, place_vars, first_byte_vars, picture_vars
<1>1. input' = input /\ phase = "idle" /\ phase' = "parsing"
  BY DEF GetNextFrame
<1>2. Types'
  BY <1>1, SameInput, Unfolded DEF IInv, Types, TypeOK, Phases, GetNextFrame
<1>3. PlacesInv'
  BY <1>1, SameInput DEF IInv, PlacesInv, GetNextFrame, NoCode
<1>4. BufferInv'
  <2>1. saved_place = origin /\ origin \in Nat
    BY <1>1, Unfolded DEF IInv, PlacesInv
  <2> QED
    BY <1>1, <2>1 DEF IInv, BufferInv, GetNextFrame
<1>5. FirstByteInv'
  BY <1>1 DEF IInv, FirstByteInv, GetNextFrame, StartCode, LongCode, Bytes, Byte
<1>6. OrderInv' /\ LabelsInv'
  BY <1>1, NothingHandedOn DEF GetNextFrame
<1> QED
  BY <1>2, <1>3, <1>4, <1>5, <1>6 DEF IInv

LEMMA AskForMoreKeeps ==
  ASSUME IInv, AskForMore
  PROVE  IInv'
<1> USE DEF stream_vars, place_vars, first_byte_vars, picture_vars, output_vars
<1>1. input' = input /\ phase = "parsing" /\ phase' = "waiting"
  BY DEF AskForMore
<1>2. Types'
  BY <1>1, SameInput DEF IInv, Types, TypeOK, Phases, AskForMore
<1>3. PlacesInv'
  BY <1>1, SameInput DEF IInv, PlacesInv, AskForMore, NoCode
<1>4. BufferInv'
  BY <1>1 DEF IInv, BufferInv, AskForMore
<1>5. FirstByteInv'
  BY <1>1 DEF IInv, FirstByteInv, AskForMore, StartCode, LongCode, Bytes, Byte
<1>6. OrderInv' /\ LabelsInv'
  BY <1>1, NothingHandedOn DEF AskForMore
<1> QED
  BY <1>2, <1>3, <1>4, <1>5, <1>6 DEF IInv

LEMMA SecondClosureKeeps ==
  ASSUME IInv, SecondClosure
  PROVE  IInv'
<1> USE DEF stream_vars, place_vars, first_byte_vars, picture_vars, output_vars
<1>1. input' = input /\ phase = "waiting" /\ phase' = "closed"
  BY DEF SecondClosure
<1>2. Types'
  BY <1>1, SameInput DEF IInv, Types, TypeOK, Phases, SecondClosure
<1>3. PlacesInv'
  BY <1>1, SameInput DEF IInv, PlacesInv, SecondClosure, NoCode
<1>4. BufferInv'
  BY <1>1 DEF IInv, BufferInv, SecondClosure
<1>5. FirstByteInv'
  BY <1>1 DEF IInv, FirstByteInv, SecondClosure
<1>6. OrderInv' /\ LabelsInv'
  BY <1>1, NothingHandedOn DEF SecondClosure
<1> QED
  BY <1>2, <1>3, <1>4, <1>5, <1>6 DEF IInv

LEMMA RestoredBuffer ==
  ASSUME IInv, RestoreSavedParserState
  PROVE  to' \in Seq(0 .. 255) /\ Len(to') = saved_to
<1>1. to' = SubSeq(to, 1, saved_to)
  BY DEF RestoreSavedParserState
<1>2. to \in Seq(0 .. 255) /\ saved_to \in Nat /\ saved_to <= Len(to) /\ Len(to) \in Nat
  BY Unfolded
<1>3. \A i \in 1 .. saved_to : to[i] \in 0 .. 255
  <2> SUFFICES ASSUME NEW i \in 1 .. saved_to PROVE to[i] \in 0 .. 255
    OBVIOUS
  <2>1. i \in 1 .. Len(to)
    BY <1>2
  <2> QED
    BY <1>2, <2>1, ElementOfSeq
<1>4. SubSeq(to, 1, saved_to) \in Seq(0 .. 255)
      /\ Len(SubSeq(to, 1, saved_to)) = IF 1 <= saved_to THEN saved_to - 1 + 1 ELSE 0
  BY <1>2, <1>3, SubSeqProperties
<1> QED
  BY <1>1, <1>2, <1>4

(* A read is answered: with bytes, or with the first end of the file. *)
LEMMA AnswerKeeps ==
  ASSUME IInv, phase = "waiting", RestoreSavedParserState, phase' = "parsing", input' = input,
         received' \in received .. Len(input), have_seen_eof' \in BOOLEAN,
         have_seen_eof => have_seen_eof',
         UNCHANGED <<origin, words, have_seen_first_start_code, first_byte_vars, picture_vars, units, stops>>
  PROVE  IInv'
<1> USE DEF first_byte_vars, picture_vars, RestoreSavedParserState
<1>1. to' \in Seq(0 .. 255) /\ Len(to') = saved_to /\ saved_to \in Nat
      /\ (saved_to = 0 => to' = << >>) /\ place' = saved_place
  BY RestoredBuffer, Unfolded
<1>2. Types'
  <2>1. InputType' /\ TypeOK'
    BY <1>1, SameInput, Unfolded DEF IInv, Types, TypeOK, Phases
  <2> QED
    BY <1>1, <2>1 DEF IInv, Types
<1>3. PlacesInv'
  BY SameInput DEF IInv, PlacesInv, NoCode
<1>4. BufferInv'
  <2>1. MaxSize < 4 /\ ~have_seen_eof' => to' = << >>
    <3>1. MaxSize < 4 /\ ~have_seen_eof => to = << >>
      BY DEF IInv, BufferInv
    <3> QED
      BY <1>1, <3>1, Unfolded
  <2> QED
    BY <1>1, <2>1 DEF IInv, BufferInv
<1>5. FirstByteInv'
  <2>1. received <= received'
    BY Unfolded
  <2>2. FirstByteInv /\ (saved_place + 4 <= received => saved_place + 4 <= received')
    BY <2>1, Unfolded DEF IInv
  <2> QED
    BY <2>2 DEF FirstByteInv, StartCode, LongCode, Bytes, Byte
<1>6. OrderInv' /\ LabelsInv'
  BY NothingHandedOn
<1> QED
  BY <1>2, <1>3, <1>4, <1>5, <1>6 DEF IInv

------------------------------------------------------------------------------
(* Steps of the scan. *)

LEMMA ByteType ==
  ASSUME InputType, NEW p \in Nat, p < Len(input)
  PROVE  Byte(p) \in 0 .. 255
<1>1. p + 1 \in 1 .. Len(input)
  BY DEF InputType
<1> QED
  BY <1>1, ElementOfSeq DEF InputType, Byte

LEMMA BytesType ==
  ASSUME InputType, NEW p \in Nat, NEW n \in Nat, p + n <= Len(input)
  PROVE  Bytes(p, n) \in Seq(0 .. 255) /\ Len(Bytes(p, n)) = n
BY SubBytes DEF Bytes

LEMMA HandedOn ==
  ASSUME IInv, NEW k \in 1 .. Len(units)
  PROVE  /\ units[k] \in UnitType /\ units[k].first \in Nat /\ units[k].last \in Int
         /\ units[k].stops \in Nat
<1>1. units \in Seq(UnitType)
  BY DEF IInv, Types
<1>2. units[k] \in UnitType
  BY <1>1, ElementOfSeq
<1> QED
  BY <1>2 DEF UnitType

LEMMA SkipKeeps ==
  ASSUME IInv, SkipToFirstStartCode
  PROVE  IInv'
<1> USE DEF stream_vars, first_byte_vars, picture_vars
<1>1. /\ input' = input /\ phase = "parsing" /\ phase' = "parsing"
      /\ ~have_seen_first_start_code /\ place + 4 <= received
      /\ place' = (IF LongCode(place) THEN place + 4 ELSE place + 1)
      /\ origin' = place' /\ saved_place' = place' /\ to' = to /\ saved_to' = Len(to)
      /\ have_seen_first_start_code' = LongCode(place)
      /\ num_truncated_bytes' = num_truncated_bytes /\ saved_num_truncated_bytes' = num_truncated_bytes
  BY DEF SkipToFirstStartCode, SetParseState, Available
<1>2. /\ InputType /\ place \in Nat /\ place = origin /\ saved_place = origin
      /\ place + 4 <= Len(input) /\ place < place' /\ place' \in Nat /\ place' <= received
  <2>1. /\ InputType /\ place \in Nat /\ received \in Nat /\ received <= Len(input) /\ Len(input) \in Nat
    BY Unfolded
  <2>2. place = origin /\ saved_place = origin
    BY <1>1 DEF IInv, PlacesInv
  <2>3. place' = place + 4 \/ place' = place + 1
    BY <1>1
  <2>4. place + 4 <= received
    BY <1>1
  <2> QED
    BY <2>1, <2>2, <2>3, <2>4
<1>3. LongCode(place) \in BOOLEAN
  BY DEF LongCode
<1>4. Types'
  BY <1>1, <1>2, <1>3, SameInput, Unfolded DEF IInv, Types, TypeOK, SkipToFirstStartCode
<1>5. PlacesInv'
  <2>1. ASSUME LongCode(place) PROVE place' \in Starts
    BY <1>1, <1>2, <2>1, LongCodeIsCode DEF Starts
  <2> QED
    BY <1>1, <1>2, <2>1, SameInput, CodesFinite DEF PlacesInv, NoCode
<1>6. BufferInv'
  <2>1. Len(to) = 0
    BY <1>1, <1>2 DEF IInv, BufferInv
  <2> QED
    BY <1>1, <1>2, <2>1 DEF IInv, BufferInv, SkipToFirstStartCode
<1>7. FirstByteInv'
  BY <1>1 DEF IInv, FirstByteInv, SkipToFirstStartCode
<1>8. OrderInv'
  <2>1. OrderInv /\ units' = units /\ stops' = stops /\ phase # "stalled"
    BY <1>1 DEF IInv, SkipToFirstStartCode
  <2>2. ASSUME NEW k \in 1 .. Len(units)
        PROVE  /\ SpanOf(units[k])' \in Spans' /\ units'[k].last < origin'
               /\ (k > 1 => units'[k - 1].last < units'[k].first)
               /\ (stops' = 0 => Cardinality(Before(units[k].first)') = k - 1)
    <3>1. units[k].last \in Int
      BY HandedOn
    <3>2. units[k].last < origin'
      BY <1>1, <1>2, <2>1, <3>1 DEF OrderInv
    <3>3. Spans' = Spans
      BY <1>1, SameInput
    <3>4. Before(units[k].first)' = Before(units[k].first) /\ SpanOf(units[k])' = SpanOf(units[k])
      BY <2>1, <3>3 DEF Before, SpanOf
    <3>5. /\ SpanOf(units[k]) \in Spans /\ (k > 1 => units[k - 1].last < units[k].first)
          /\ (stops = 0 => Cardinality(Before(units[k].first)) = k - 1)
      BY <2>1 DEF OrderInv
    <3> QED
      BY <2>1, <3>2, <3>3, <3>4, <3>5
  <2>3. ASSUME stops = 0
        PROVE  IF LongCode(place)
                 THEN Cardinality(Begun(origin')) = Len(units)
                 ELSE units = << >> /\ \A q \in 0 .. Len(input) - 4 : q < origin' => ~LongCode(q)
    <3>1. units = << >> /\ \A q \in 0 .. Len(input) - 4 : q < place => ~LongCode(q)
      BY <1>1, <1>2, <2>1, <2>3 DEF OrderInv
    <3>2. CASE LongCode(place)
      <4>1. Begun(place + 4) = {} /\ origin' = place + 4
        BY <1>1, <1>2, <3>1, <3>2, NoneBegun
      <4> QED
        BY <3>1, <3>2, <4>1, FS_EmptySet
    <3>3. CASE ~LongCode(place)
      <4>1. origin' = place + 1
        BY <1>1, <3>3
      <4> QED
        BY <1>2, <3>1, <3>3, <4>1
    <3> QED
      BY <3>2, <3>3
  <2>4. \A q : LongCode(q)' = LongCode(q)
    BY <1>1 DEF LongCode, Bytes
  <2>5. Begun(origin)' = Begun(origin')
    BY <1>1, SameInput DEF Begun
  <2> QED
    BY <1>1, <2>1, <2>2, <2>3, <2>4, <2>5 DEF OrderInv
<1>9. LabelsInv'
  <2>1. Fresh' = Fresh /\ Untaken' = Untaken /\ LastSps' = LastSps /\ LastPps' = LastPps
    BY DEF SkipToFirstStartCode, Fresh, Untaken, LastSps, LastPps
  <2> QED
    BY <1>1, <2>1, UnitsKept DEF IInv, LabelsInv, SkipToFirstStartCode
<1> QED
  BY <1>4, <1>5, <1>6, <1>7, <1>8, <1>9 DEF IInv

LEMMA WordSaved ==
  ASSUME IInv, NEW word \in Seq(0 .. 255), Len(word) = 4, Save4Bytes(word)
  PROVE  /\ to' \in Seq(0 .. 255) /\ num_truncated_bytes' \in Nat
         /\ Len(to') = IF Len(to) + 4 > MaxSize THEN Len(to) ELSE Len(to) + 4
         /\ Len(to) + 4 > MaxSize => to' = to
<1>1. to \in Seq(0 .. 255) /\ Len(to) \in Nat /\ num_truncated_bytes \in Nat
  BY Unfolded
<1> DEFINE longer == to \o word
<1>2. longer \in Seq(0 .. 255) /\ Len(longer) = Len(to) + 4
  <2>1. longer \in Seq(0 .. 255) /\ Len(longer) = Len(to) + Len(word)
    BY <1>1, ConcatProperties
  <2> HIDE DEF longer
  <2> QED
    BY <2>1
<1>3. IF Len(to) + 4 > MaxSize THEN num_truncated_bytes' = num_truncated_bytes + 4 /\ to' = to
      ELSE to' = longer /\ num_truncated_bytes' = num_truncated_bytes
  BY DEF Save4Bytes
<1> HIDE DEF longer
<1> QED
  BY <1>1, <1>2, <1>3

LEMMA SaveBytesKeeps ==
  ASSUME IInv, SaveBytes
  PROVE  IInv'
<1> USE DEF stream_vars, first_byte_vars, picture_vars
<1> DEFINE word == IF Byte(place + 3) > 1 THEN Bytes(place, 4) ELSE <<0, 0, 0, Byte(place)>>
<1>1. /\ input' = input /\ phase = "parsing" /\ phase' = phase /\ origin' = origin
      /\ have_seen_first_start_code /\ have_seen_first_start_code' = have_seen_first_start_code
      /\ ~have_seen_eof /\ place + 4 <= received /\ ~StartCode(place)
      /\ Save4Bytes(word) /\ place' = (IF Byte(place + 3) > 1 THEN place + 4 ELSE place + 1)
      /\ saved_place' = place' /\ saved_to' = Len(to')
      /\ saved_num_truncated_bytes' = num_truncated_bytes' /\ words' = Append(words, place)
  BY DEF SaveBytes, Scanning, SetParseState, Available, WordAt, StepAt
<1>2. /\ InputType /\ place \in Nat /\ origin \in Nat /\ received \in Nat /\ Len(input) \in Nat
      /\ place = saved_place /\ origin <= place /\ NoCode(origin, place) /\ origin \in Starts
      /\ place + 4 <= Len(input) /\ place' \in Nat /\ place < place' /\ place' <= received
  <2>1. /\ InputType /\ place \in Nat /\ origin \in Nat /\ received \in Nat /\ Len(input) \in Nat
        /\ received <= Len(input)
    BY Unfolded
  <2>2. place = saved_place /\ origin <= saved_place /\ NoCode(origin, saved_place) /\ origin \in Starts
    BY <1>1 DEF IInv, PlacesInv
  <2>3. (place' = place + 4 \/ place' = place + 1) /\ place + 4 <= received
    BY <1>1
  <2> HIDE DEF word
  <2> QED
    BY <2>1, <2>2, <2>3
<1>21. Byte(place) \in 0 .. 255
  <2>1. place < Len(input)
    BY <1>2
  <2> QED
    BY <1>2, <2>1, ByteType
<1>3. word \in Seq(0 .. 255) /\ Len(word) = 4
  <2>1. Bytes(place, 4) \in Seq(0 .. 255) /\ Len(Bytes(place, 4)) = 4
    BY <1>2, BytesType
  <2>2. <<0, 0, 0, Byte(place)>> \in Seq(0 .. 255) /\ Len(<<0, 0, 0, Byte(place)>>) = 4
    BY <1>21
  <2>3. word = Bytes(place, 4) \/ word = <<0, 0, 0, Byte(place)>>
    OBVIOUS
  <2> HIDE DEF word
  <2> QED
    BY <2>1, <2>2, <2>3
<1> HIDE DEF word
<1>4. /\ to' \in Seq(0 .. 255) /\ num_truncated_bytes' \in Nat
      /\ Len(to') = (IF Len(to) + 4 > MaxSize THEN Len(to) ELSE Len(to) + 4)
      /\ Len(to) + 4 > MaxSize => to' = to
  BY <1>1, <1>3, WordSaved
<1>5. have_seen_first_byte_of_nal_unit' = TRUE
      /\ first_byte_of_nal_unit' = (IF have_seen_first_byte_of_nal_unit THEN first_byte_of_nal_unit
                                    ELSE Byte(place))
  BY DEF SaveBytes, NoteFirstByte, IInv, Types, TypeOK
<1>6. Types'
  <2>2. first_byte_of_nal_unit' \in 0 .. 255
    BY <1>5, <1>21 DEF IInv, Types, TypeOK
  <2>3. TypeOK'
    <3>1. Len(to') <= MaxSize /\ Len(to') \in Nat /\ saved_to' \in 0 .. Len(to')
      BY <1>1, <1>4, Unfolded
    <3> QED
      BY <1>1, <1>2, <1>4, <1>5, <2>2, <3>1, Unfolded, SMTT(60) DEF IInv, Types, TypeOK, SaveBytes
  <2>4. words' \in Seq(Nat)
    BY <1>1, <1>2 DEF IInv, Types
  <2> QED
    BY <1>1, <1>4, <2>3, <2>4, SameInput DEF IInv, Types, SaveBytes
<1>7. PlacesInv'
  <2>1. NoCode(origin, place')
    BY <1>1, <1>2, StepOver
  <2> QED
    BY <1>1, <1>2, <2>1, SameInput DEF PlacesInv, NoCode
<1>8. BufferInv'
  <2>1. Len(to) = saved_to /\ (saved_place = origin => saved_to = 0)
        /\ (MaxSize >= 4 /\ origin < saved_place => saved_to > 0)
        /\ (MaxSize < 4 => units = << >> /\ to = << >>)
    BY <1>1 DEF IInv, BufferInv
  <2>2. Len(to) \in Nat /\ MaxSize \in Nat
    BY Unfolded
  <2>3. MaxSize >= 4 => Len(to') > 0
    BY <1>2, <1>4, <2>1, <2>2
  <2>4. MaxSize < 4 => to' = << >> /\ units' = << >>
    BY <1>4, <2>1, <2>2 DEF SaveBytes
  <2> QED
    BY <1>1, <1>2, <2>3, <2>4 DEF BufferInv
<1>9. FirstByteInv'
  <2>1. IF have_seen_first_byte_of_nal_unit
          THEN first_byte_of_nal_unit = Byte(origin) /\ origin < saved_place
          ELSE saved_place = origin
    BY <1>1, <1>2 DEF IInv, FirstByteInv
  <2>2. Byte(origin)' = Byte(origin)
    BY <1>1 DEF Byte
  <2>3. first_byte_of_nal_unit' = Byte(origin) /\ origin < place'
    BY <1>2, <1>5, <2>1
  <2> QED
    BY <1>1, <1>5, <2>2, <2>3 DEF FirstByteInv
<1>10. OrderInv' /\ LabelsInv'
  BY <1>1, NothingHandedOn DEF SaveBytes
<1> QED
  BY <1>6, <1>7, <1>8, <1>9, <1>10 DEF IInv

LEMMA SaveTrailingKeeps ==
  ASSUME IInv, SaveTrailing
  PROVE  IInv'
<1> USE DEF stream_vars, first_byte_vars, picture_vars
<1> DEFINE room == MaxSize - Len(to)
           left == received - place
           saved == IF left <= room THEN left ELSE room
<1>1. /\ input' = input /\ phase = "parsing" /\ phase' = "waiting" /\ origin' = origin
      /\ have_seen_first_start_code /\ have_seen_first_start_code' = have_seen_first_start_code
      /\ have_seen_eof /\ have_seen_eof' = have_seen_eof /\ received' = received
      /\ to' = to \o Bytes(place, saved) /\ place' = received
      /\ num_truncated_bytes' = num_truncated_bytes + left - saved
      /\ saved_place' = saved_place /\ saved_to' = saved_to
      /\ saved_num_truncated_bytes' = saved_num_truncated_bytes
  BY DEF SaveTrailing
<1>2. left \in Nat /\ room \in Nat /\ saved \in Nat /\ saved <= left /\ saved <= room
      /\ place + saved <= Len(input) /\ place \in Nat /\ InputType
  BY Unfolded
<1>3. Bytes(place, saved) \in Seq(0 .. 255) /\ Len(Bytes(place, saved)) = saved
  <2> HIDE DEF saved
  <2> QED
    BY <1>2, SubBytes DEF Bytes
<1>4. to' \in Seq(0 .. 255) /\ Len(to') = Len(to) + saved
  <2>1. to \in Seq(0 .. 255)
    BY Unfolded
  <2> HIDE DEF saved
  <2> QED
    BY <1>1, <1>3, <2>1, ConcatProperties
<1>5. num_truncated_bytes' \in Nat /\ Len(to') <= MaxSize /\ saved_to' \in 0 .. Len(to')
  <2>1. /\ Len(to) \in Nat /\ MaxSize \in Nat /\ num_truncated_bytes \in Nat
        /\ saved_to \in Nat /\ saved_to <= Len(to)
    BY Unfolded
  <2>2. room = MaxSize - Len(to)
    OBVIOUS
  <2> HIDE DEF saved, left, room
  <2> QED
    BY <1>1, <1>2, <1>4, <2>1, <2>2
<1>6. have_seen_first_byte_of_nal_unit' \in BOOLEAN /\ first_byte_of_nal_unit' \in 0 .. 255
  <2>1. ASSUME left > 0 PROVE Byte(place) \in 0 .. 255
    <3>1. place < Len(input)
      BY <2>1, Unfolded
    <3> QED
      BY <1>2, <3>1, ByteType
  <2> QED
    BY <2>1 DEF SaveTrailing, NoteFirstByte, IInv, Types, TypeOK
<1> HIDE DEF left, room, saved
<1>7. Types'
  <2>1. TypeOK'
    BY <1>1, <1>5, <1>6, Unfolded DEF IInv, Types, TypeOK, Phases, SaveTrailing
  <2> QED
    BY <1>1, <1>4, <2>1, SameInput DEF IInv, Types, SaveTrailing
<1>8. PlacesInv'
  BY <1>1, SameInput DEF IInv, PlacesInv, NoCode
<1>9. BufferInv'
  BY <1>1 DEF IInv, BufferInv, SaveTrailing
<1>10. FirstByteInv'
  BY <1>1 DEF FirstByteInv
<1>11. OrderInv' /\ LabelsInv'
  BY <1>1, NothingHandedOn DEF SaveTrailing
<1> QED
  BY <1>7, <1>8, <1>9, <1>10, <1>11 DEF IInv

LEMMA StopKeeps ==
  ASSUME IInv, StopGettingFrames
  PROVE  IInv'
<1> USE DEF stream_vars, output_vars
<1>1. /\ input' = input /\ received' = received /\ phase # "closed" /\ phase' = "idle"
      /\ place' = received /\ saved_place' = received /\ origin' = received /\ stops' = stops + 1
      /\ ~have_seen_first_start_code' /\ ~have_seen_first_byte_of_nal_unit'
      /\ have_seen_first_start_code' = FALSE /\ have_seen_first_byte_of_nal_unit' = FALSE
      /\ picture_end_marker' = TRUE /\ picture_count' = 0 /\ units' = units
      /\ to' = to /\ saved_to' = saved_to /\ have_seen_eof' = have_seen_eof
  BY DEF StopGettingFrames
<1>2. received \in Nat /\ origin \in Nat /\ origin <= received /\ stops \in Nat
  BY Unfolded DEF IInv, Types
<1>3. Types'
  <2>1. FlagsTyped'
    <3>1. /\ have_seen_eof' \in BOOLEAN /\ have_seen_first_start_code' \in BOOLEAN
          /\ have_seen_first_byte_of_nal_unit' \in BOOLEAN /\ picture_end_marker' \in BOOLEAN
      BY <1>1, Unfolded
    <3> QED
      BY <3>1 DEF FlagsTyped
  <2>2. /\ received' \in 0 .. Len(input') /\ saved_place' \in 0 .. received'
        /\ place' \in saved_place' .. received' /\ origin' \in 0 .. received'
        /\ Len(to') <= MaxSize /\ saved_to' \in 0 .. Len(to')
    BY <1>1, <1>2, Unfolded
  <2>3. TypeOK'
    BY <1>1, <2>1, <2>2, Unfolded DEF IInv, Types, TypeOK, Phases, StopGettingFrames, FlagsTyped
  <2>4. stops' \in Nat /\ picture_count' \in Nat
    BY <1>1, <1>2
  <2> QED
    BY <1>1, <2>3, <2>4, SameInput DEF IInv, Types, StopGettingFrames
<1>4. PlacesInv'
  BY <1>1 DEF PlacesInv
<1>5. BufferInv'
  BY <1>1 DEF IInv, BufferInv
<1>6. FirstByteInv'
  BY <1>1 DEF FirstByteInv
<1>7. OrderInv'
  <2>1. OrderInv /\ stops' # 0
    BY <1>1, <1>2 DEF IInv
  <2>2. ASSUME NEW k \in 1 .. Len(units)
        PROVE  /\ SpanOf(units[k])' \in Spans' /\ units'[k].last < origin'
               /\ (k > 1 => units'[k - 1].last < units'[k].first)
    <3>1. units[k].last \in Int /\ units[k].last < origin
      BY <2>1, HandedOn DEF OrderInv
    <3>2. SpanOf(units[k])' = SpanOf(units[k]) /\ Spans' = Spans
      BY <1>1, SameInput DEF SpanOf
    <3>3. SpanOf(units[k]) \in Spans /\ (k > 1 => units[k - 1].last < units[k].first)
      BY <2>1 DEF OrderInv
    <3> QED
      BY <1>1, <1>2, <3>1, <3>2, <3>3
  <2> QED
    BY <1>1, <2>1, <2>2 DEF OrderInv
<1>8. LabelsInv'
  <2>1. LabelsInv
    BY DEF IInv
  <2>2. ASSUME NEW k \in 1 .. Len(units) PROVE units[k].stops <= stops' /\ units[k].stops # stops'
    <3>1. units[k].stops \in Nat /\ units[k].stops <= stops
      BY <2>1, HandedOn DEF LabelsInv
    <3> QED
      BY <1>1, <1>2, <3>1
  <2>3. units = << >> \/ Len(units) \in 1 .. Len(units)
    <3>1. units \in Seq(UnitType)
      BY DEF IInv, Types
    <3> QED
      BY <3>1
  <2>4. Fresh'
    BY <1>1, <2>2, <2>3 DEF Fresh
  <2>5. LastSps' = LastSps /\ LastPps' = LastPps /\ last_seen_sps' = last_seen_sps
        /\ last_seen_pps' = last_seen_pps
    BY <1>1 DEF LastSps, LastPps, StopGettingFrames
  <2> QED
    BY <1>1, <2>1, <2>2, <2>4, <2>5, UnitsKept DEF LabelsInv
<1> QED
  BY <1>3, <1>4, <1>5, <1>6, <1>7, <1>8 DEF IInv

------------------------------------------------------------------------------
(* The end of a unit. *)

(* What is known at a start code.  An empty unit, and one whose first byte is *)
(* forgotten, are taken for type 0, the first byte of the code.              *)
AtCode(type) ==
  /\ InputType /\ place \in Nat /\ Len(input) \in Nat /\ received \in Nat
  /\ place = saved_place /\ place + 4 <= received /\ received <= Len(input)
  /\ NextUnit \in Nat /\ place < NextUnit /\ NextUnit <= received
  /\ origin \in Starts /\ origin \in Nat /\ origin <= place /\ NoCode(origin, place)
  /\ place \in Codes /\ FirstByte \in 0 .. 255 /\ type = nal_unit_type(FirstByte)
  /\ have_seen_first_start_code /\ ~have_seen_eof /\ phase = "parsing"
  /\ IF have_seen_first_byte_of_nal_unit
       THEN type = nal_unit_type(Byte(origin)) /\ origin < place
       ELSE type = 0 /\ (origin < place => ~TypeDecides(nal_unit_type(Byte(origin))))

LEMMA AtCodeHolds ==
  ASSUME IInv, AtStartCode
  PROVE  AtCode(nal_unit_type(FirstByte))
<1>1. /\ have_seen_first_start_code /\ ~have_seen_eof /\ phase = "parsing"
      /\ place + 4 <= received /\ StartCode(place)
  BY DEF AtStartCode, Scanning, Available
<1>2. /\ InputType /\ place \in Nat /\ Len(input) \in Nat /\ received \in Nat /\ origin \in Nat
      /\ received <= Len(input)
  BY Unfolded
<1>3. place = saved_place /\ origin \in Starts /\ origin <= place /\ NoCode(origin, place)
  BY <1>1 DEF IInv, PlacesInv
<1>4. place + 4 <= Len(input) /\ place < Len(input)
  BY <1>1, <1>2
<1>5. place \in Codes
  BY <1>1, <1>2, <1>3, <1>4, NextCodeIsCode
<1>6. CodeLength(place) \in {3, 4}
  BY DEF CodeLength
<1>7. NextUnit \in Nat /\ place < NextUnit /\ NextUnit <= received
  BY <1>1, <1>2, <1>6 DEF NextUnit
<1>8. Byte(place) = 0
  BY <1>1, <1>2, <1>4, StartCodeAt DEF LongAt, ShortAt
<1>9. first_byte_of_nal_unit \in 0 .. 255
  BY DEF IInv, Types, TypeOK
<1>10. FirstByte \in 0 .. 255
  BY <1>8, <1>9 DEF FirstByte
<1>11. IF have_seen_first_byte_of_nal_unit
         THEN first_byte_of_nal_unit = Byte(origin) /\ origin < place
         ELSE origin < place => ~TypeDecides(nal_unit_type(Byte(origin)))
  BY <1>1, <1>2, <1>3 DEF IInv, FirstByteInv
<1>12. ~have_seen_first_byte_of_nal_unit => nal_unit_type(FirstByte) = 0
  BY <1>8 DEF FirstByte, nal_unit_type
<1>13. have_seen_first_byte_of_nal_unit => nal_unit_type(FirstByte) = nal_unit_type(Byte(origin))
  BY <1>11 DEF FirstByte
<1> QED
  BY <1>1, <1>2, <1>3, <1>5, <1>7, <1>10, <1>11, <1>12, <1>13 DEF AtCode

(* What the type of the unit decides, type 0 decides alike. *)
LEMMA TypeTold ==
  ASSUME NEW type, AtCode(type), origin < place
  PROVE  LET T == nal_unit_type(Byte(origin))
         IN  /\ EndsAccessUnit(type, NextUnit) <=> EndsAccessUnit(T, NextUnit)
             /\ is_sps(type) <=> is_sps(T)
             /\ is_pps(type) <=> is_pps(T)
<1> DEFINE T == nal_unit_type(Byte(origin))
<1>1. CASE have_seen_first_byte_of_nal_unit
  BY <1>1 DEF AtCode
<1>2. CASE ~have_seen_first_byte_of_nal_unit
  <2>1. type = 0 /\ ~TypeDecides(T)
    BY <1>2 DEF AtCode
  <2> HIDE DEF T
  <2>2. ~is_eof(T) /\ ~usually_begin_access_unit(T)
    BY <2>1 DEF TypeDecides
  <2>3. ~is_eof(type) /\ ~usually_begin_access_unit(type) /\ ~is_sps(type) /\ ~is_pps(type)
    BY <2>1 DEF is_eof, usually_begin_access_unit, is_sps, is_pps
  <2>4. ~is_sps(T) /\ ~is_pps(T)
    BY <2>2 DEF usually_begin_access_unit, is_sps, is_pps
  <2> QED
    BY <2>2, <2>3, <2>4 DEF EndsAccessUnit, T
<1> QED
  BY <1>1, <1>2

LEMMA InterruptedKeeps ==
  ASSUME IInv, InterruptedAtUnitEnd
  PROVE  IInv'
<1> USE DEF stream_vars, output_vars
<1> DEFINE type == nal_unit_type(FirstByte)
<1>1. AtCode(type)
  BY AtCodeHolds DEF InterruptedAtUnitEnd
<1>2. ~TypeDecides(type)
  BY DEF InterruptedAtUnitEnd
<1>3. ~is_sps(type) /\ ~is_pps(type)
  BY <1>2 DEF TypeDecides, usually_begin_access_unit, is_sps, is_pps
<1>4. /\ input' = input /\ received' = received /\ phase' = "waiting" /\ origin' = origin
      /\ place' = NextUnit /\ saved_place' = saved_place /\ have_seen_eof' = have_seen_eof
      /\ have_seen_first_start_code' = have_seen_first_start_code
      /\ have_seen_first_byte_of_nal_unit' = FALSE /\ first_byte_of_nal_unit' = FirstByte
      /\ last_seen_sps' = last_seen_sps /\ last_seen_pps' = last_seen_pps
      /\ presentation_time' = next_presentation_time
      /\ next_presentation_time' = next_presentation_time
  BY <1>3 DEF InterruptedAtUnitEnd, FinishUnit
<1>5. Types'
  <2>1. /\ place' \in Nat /\ saved_place' <= place' /\ place' <= received'
        /\ first_byte_of_nal_unit' \in 0 .. 255
    BY <1>1, <1>4 DEF AtCode
  <2>2. FlagsTyped'
    <3>1. /\ have_seen_eof' \in BOOLEAN /\ have_seen_first_start_code' \in BOOLEAN
          /\ have_seen_first_byte_of_nal_unit' \in BOOLEAN /\ picture_end_marker' \in BOOLEAN
      BY <1>4, Unfolded DEF InterruptedAtUnitEnd
    <3> QED
      BY <3>1 DEF FlagsTyped
  <2>3. TypeOK'
    BY <1>4, <2>1, <2>2, Unfolded DEF IInv, Types, TypeOK, Phases, InterruptedAtUnitEnd, FlagsTyped
  <2> QED
    BY <1>4, <2>3, SameInput DEF IInv, Types, InterruptedAtUnitEnd
<1>6. PlacesInv'
  BY <1>1, <1>4, SameInput DEF IInv, PlacesInv, NoCode, AtCode
<1>7. BufferInv'
  BY <1>1, <1>4 DEF IInv, BufferInv, InterruptedAtUnitEnd, AtCode
<1>8. FirstByteInv'
  <2>1. saved_place = origin \/ ~TypeDecides(nal_unit_type(Byte(origin)))
    <3>1. CASE have_seen_first_byte_of_nal_unit
      BY <1>1, <1>2, <3>1 DEF AtCode
    <3>2. CASE ~have_seen_first_byte_of_nal_unit
      BY <1>1, <3>2 DEF AtCode
    <3> QED
      BY <3>1, <3>2
  <2>2. saved_place + 4 <= received /\ StartCode(saved_place)
    BY <1>1 DEF AtCode, InterruptedAtUnitEnd, AtStartCode
  <2>3. Byte(origin)' = Byte(origin) /\ StartCode(saved_place)' = StartCode(saved_place)
    BY <1>4 DEF Byte, StartCode, LongCode, Bytes
  <2> QED
    BY <1>1, <1>4, <2>1, <2>2, <2>3 DEF FirstByteInv, AtCode
<1>9. OrderInv' /\ LabelsInv'
  BY <1>1, <1>4, NothingHandedOn DEF InterruptedAtUnitEnd, AtCode
<1> QED
  BY <1>5, <1>6, <1>7, <1>8, <1>9 DEF IInv

------------------------------------------------------------------------------
(* A unit is complete. *)

(* What the step at the end of a unit does, whether the unit is handed on. *)
Ended(type, taken) ==
  /\ UNCHANGED <<input, received, have_seen_eof, have_seen_first_start_code, to, words,
                 num_truncated_bytes, next_presentation_time, stops>>
  /\ place' = NextUnit /\ origin' = NextUnit /\ saved_place' = NextUnit
  /\ saved_to' = Len(to) /\ saved_num_truncated_bytes' = num_truncated_bytes
  /\ have_seen_first_byte_of_nal_unit' = FALSE /\ first_byte_of_nal_unit' = FirstByte
  /\ last_seen_sps' = (IF is_sps(type) THEN to ELSE last_seen_sps)
  /\ last_seen_pps' = (IF is_pps(type) THEN to ELSE last_seen_pps)
  /\ presentation_time' = next_presentation_time
  /\ Deliver(EndsAccessUnit(type, NextUnit), taken)

(* The unit that is handed on. *)
Handed(type, taken) ==
  [first |-> origin, last |-> place - 1, bytes |-> to, words |-> words,
   truncated |-> num_truncated_bytes,
   marker |-> EndsAccessUnit(type, NextUnit) \/ picture_end_marker, taken |-> taken,
   pictures |-> picture_count + (IF EndsAccessUnit(type, NextUnit) THEN 1 ELSE 0),
   time |-> presentation_time', sps |-> last_seen_sps', pps |-> last_seen_pps', stops |-> stops]

LEMMA EndedHolds ==
  ASSUME NEW taken \in BOOLEAN, IInv, EndUnit(taken)
  PROVE  AtCode(nal_unit_type(FirstByte)) /\ Ended(nal_unit_type(FirstByte), taken)
<1>1. AtStartCode
  BY DEF EndUnit
<1>2. AtCode(nal_unit_type(FirstByte))
  BY <1>1, AtCodeHolds
<1>3. Ended(nal_unit_type(FirstByte), taken)
  BY DEF EndUnit, Ended, FinishUnit, SetParseState, stream_vars
<1> QED
  BY <1>2, <1>3

(* A frame of no bytes: nothing was read, or no word fits the buffer. *)
LEMMA EmptyKeeps ==
  ASSUME IInv, NEW type, AtCode(type), to = << >>
  PROVE  (is_sps(type) => last_seen_sps = to) /\ (is_pps(type) => last_seen_pps = to)
<1>1. Len(to) = 0 /\ saved_to = 0 /\ MaxSize \in Nat
  BY Unfolded
<1>2. CASE MaxSize < 4
  <2>1. units = << >>
    BY <1>2 DEF IInv, BufferInv
  <2> QED
    BY <2>1 DEF IInv, LabelsInv, LastSps, LastPps
<1>3. CASE MaxSize >= 4
  <2>1. ~(origin < place)
    BY <1>1, <1>3 DEF IInv, BufferInv, AtCode
  <2>2. type = 0
    BY <2>1 DEF AtCode
  <2> QED
    BY <2>2 DEF is_sps, is_pps
<1> QED
  BY <1>1, <1>2, <1>3

(* A frame with bytes in it was read from some place before the code. *)
LEMMA FilledFromFile ==
  ASSUME IInv, NEW type, AtCode(type), to # << >>
  PROVE  origin < place /\ MaxSize >= 4 /\ picture_count = 0
<1>1. Len(to) > 0 /\ MaxSize \in Nat /\ Len(to) = saved_to
  <2>1. to \in Seq(0 .. 255)
    BY Unfolded
  <2>2. Len(to) # 0 /\ Len(to) \in Nat
    BY <2>1
  <2> QED
    BY <2>2, Unfolded DEF IInv, BufferInv, AtCode
<1>2. saved_place # origin
  BY <1>1 DEF IInv, BufferInv, AtCode
<1>3. ~(MaxSize < 4)
  BY DEF IInv, BufferInv, AtCode
<1>4. picture_count = 0
  BY DEF IInv, LabelsInv, AtCode
<1> QED
  BY <1>1, <1>2, <1>3, <1>4 DEF AtCode

LEMMA HandedType ==
  ASSUME NEW type, NEW taken \in BOOLEAN, IInv, AtCode(type), Ended(type, taken)
  PROVE  /\ last_seen_sps' \in Seq(0 .. 255) /\ last_seen_pps' \in Seq(0 .. 255)
         /\ presentation_time' \in Nat
         /\ Handed(type, taken) \in UnitType
<1>1. /\ to \in Seq(0 .. 255) /\ num_truncated_bytes \in Nat /\ picture_end_marker \in BOOLEAN
      /\ last_seen_sps \in Seq(0 .. 255) /\ last_seen_pps \in Seq(0 .. 255)
      /\ picture_count \in Nat /\ next_presentation_time \in Nat /\ stops \in Nat
      /\ origin \in Nat /\ place - 1 \in Int /\ words \in Seq(Nat)
  BY Unfolded DEF IInv, Types
<1>2. last_seen_sps' \in Seq(0 .. 255) /\ last_seen_pps' \in Seq(0 .. 255) /\ presentation_time' \in Nat
  BY <1>1 DEF Ended
<1>3. (EndsAccessUnit(type, NextUnit) \/ picture_end_marker) \in BOOLEAN
  BY DEF EndsAccessUnit
<1>4. picture_count + (IF EndsAccessUnit(type, NextUnit) THEN 1 ELSE 0) \in Nat
  BY <1>1
<1>5. Handed(type, taken) \in UnitType
  BY <1>1, <1>2, <1>3, <1>4 DEF Handed, UnitType
<1> QED
  BY <1>2, <1>5

LEMMA EndedTypes ==
  ASSUME NEW type, NEW taken \in BOOLEAN, IInv, AtCode(type), Ended(type, taken)
  PROVE  Types' /\ PlacesInv' /\ BufferInv' /\ FirstByteInv'
<1>1. /\ input' = input /\ received' = received /\ stops' = stops /\ to' = to
      /\ words' = words
      /\ have_seen_eof' = have_seen_eof /\ have_seen_first_start_code' = have_seen_first_start_code
      /\ num_truncated_bytes' = num_truncated_bytes
      /\ next_presentation_time' = next_presentation_time
      /\ place' = NextUnit /\ origin' = NextUnit /\ saved_place' = NextUnit
      /\ saved_to' = Len(to) /\ saved_num_truncated_bytes' = num_truncated_bytes
      /\ have_seen_first_byte_of_nal_unit' = FALSE /\ first_byte_of_nal_unit' = FirstByte
  BY DEF Ended
<1>2. \/ /\ to = << >> /\ phase' = "stalled" /\ units' = units
         /\ picture_count' = picture_count + (IF EndsAccessUnit(type, NextUnit) THEN 1 ELSE 0)
      \/ /\ to # << >> /\ phase' = "idle" /\ units' = Append(units, Handed(type, taken))
         /\ picture_count' = 0
  BY DEF Ended, Deliver, Handed
<1>21. picture_end_marker' = ((EndsAccessUnit(type, NextUnit) \/ picture_end_marker) /\ ~taken)
  BY DEF Ended, Deliver
<1>3. picture_end_marker' \in BOOLEAN /\ picture_count' \in Nat
  <2>1. picture_count \in Nat
    BY DEF IInv, Types
  <2>2. (EndsAccessUnit(type, NextUnit) \/ picture_end_marker) \in BOOLEAN
    BY DEF EndsAccessUnit
  <2>3. picture_end_marker' \in BOOLEAN
    BY <1>21
  <2>4. picture_count' \in Nat
    BY <1>2, <2>1
  <2> QED
    BY <2>3, <2>4
<1>4. units \in Seq(UnitType) /\ units' \in Seq(UnitType)
  <2>1. units \in Seq(UnitType)
    BY DEF IInv, Types
  <2>2. Handed(type, taken) \in UnitType
    BY HandedType
  <2>3. Append(units, Handed(type, taken)) \in Seq(UnitType)
    BY <2>1, <2>2, AppendProperties
  <2> QED
    BY <1>2, <2>1, <2>3
<1>5. NextUnit \in Nat /\ NextUnit <= received /\ received \in Nat /\ FirstByte \in 0 .. 255
  BY DEF AtCode
<1>6. TypeOK'
  <2>1. FlagsTyped'
    <3>1. /\ have_seen_eof' \in BOOLEAN /\ have_seen_first_start_code' \in BOOLEAN
          /\ have_seen_first_byte_of_nal_unit' \in BOOLEAN
      BY <1>1, Unfolded
    <3> QED
      BY <1>3, <3>1 DEF FlagsTyped
  <2>2. /\ received' \in 0 .. Len(input') /\ saved_place' \in 0 .. received'
        /\ place' \in saved_place' .. received' /\ origin' \in 0 .. received'
        /\ Len(to') <= MaxSize /\ saved_to' \in 0 .. Len(to')
    BY <1>1, <1>5, Unfolded
  <2>3. phase' \in Phases
    BY <1>2 DEF Phases
  <2> QED
    BY <1>1, <1>5, <2>1, <2>2, <2>3, Unfolded DEF TypeOK, FlagsTyped
<1>7. Types'
  <2>1. /\ InputType' /\ to' \in Seq(0 .. 255) /\ next_presentation_time' \in Nat /\ stops' \in Nat
        /\ words' \in Seq(Nat)
    BY <1>1, SameInput DEF IInv, Types
  <2> QED
    BY <1>3, <1>4, <1>6, <2>1, HandedType DEF Types
<1>8. PlacesInv'
  <2>1. NextUnit \in Starts
    BY DEF AtCode, Starts, NextUnit
  <2>2. NoCode(NextUnit, NextUnit)
    BY <1>5, CodesFinite DEF NoCode, AtCode
  <2>3. NoCode(origin, saved_place)'
    BY <1>1, <2>2, SameInput DEF NoCode
  <2> QED
    BY <1>1, <1>5, <2>1, <2>3, SameInput DEF PlacesInv, AtCode
<1>9. BufferInv'
  <2>1. MaxSize < 4 => to = << >> /\ units = << >>
    BY DEF IInv, BufferInv, AtCode
  <2>2. phase' # "parsing" /\ phase' # "waiting"
    BY <1>2
  <2> QED
    BY <1>1, <1>2, <2>1, <2>2 DEF BufferInv
<1>10. FirstByteInv'
  BY <1>1 DEF FirstByteInv
<1> QED
  BY <1>7, <1>8, <1>9, <1>10

(* A stall hands nothing on. *)
LEMMA StallKeeps ==
  ASSUME NEW type, NEW taken \in BOOLEAN, IInv, AtCode(type), Ended(type, taken), to = << >>
  PROVE  OrderInv' /\ LabelsInv'
<1>1. /\ input' = input /\ stops' = stops /\ origin' = NextUnit /\ units' = units
      /\ phase' = "stalled" /\ have_seen_first_start_code' = have_seen_first_start_code
  BY DEF Ended, Deliver
<1>2. origin \in Nat /\ place \in Nat /\ origin < NextUnit /\ NextUnit \in Nat
      /\ have_seen_first_start_code /\ stops \in Nat
  BY DEF AtCode, IInv, Types
<1>3. OrderInv'
  <2>1. OrderInv
    BY DEF IInv
  <2>2. ASSUME NEW k \in 1 .. Len(units)
        PROVE  /\ SpanOf(units[k])' \in Spans' /\ units'[k].last < origin'
               /\ (k > 1 => units'[k - 1].last < units'[k].first)
               /\ (stops' = 0 => Cardinality(Before(units[k].first)') = k - 1)
    <3>1. units[k].last \in Int /\ units[k].last < origin
      BY <2>1, HandedOn DEF OrderInv
    <3>2. Spans' = Spans
      BY <1>1, SameInput
    <3>3. Before(units[k].first)' = Before(units[k].first) /\ SpanOf(units[k])' = SpanOf(units[k])
      BY <1>1, <3>2 DEF Before, SpanOf
    <3>4. /\ SpanOf(units[k]) \in Spans /\ (k > 1 => units[k - 1].last < units[k].first)
          /\ (stops = 0 => Cardinality(Before(units[k].first)) = k - 1)
      BY <2>1 DEF OrderInv
    <3>5. units[k].last < NextUnit
      BY <1>2, <3>1
    <3> QED
      BY <1>1, <3>2, <3>3, <3>4, <3>5
  <2> QED
    BY <1>1, <1>2, <2>2 DEF OrderInv
<1>4. last_seen_sps' = last_seen_sps /\ last_seen_pps' = last_seen_pps
  BY EmptyKeeps DEF Ended
<1>5. LastSps' = LastSps /\ LastPps' = LastPps
  BY <1>1 DEF LastSps, LastPps
<1>6. LabelsInv'
  BY <1>1, <1>4, <1>5, UnitsKept DEF IInv, LabelsInv
<1> QED
  BY <1>3, <1>6

(* The unit handed on is the file's next. *)
LEMMA HandedInOrder ==
  ASSUME NEW type, NEW taken \in BOOLEAN, IInv, AtCode(type), Ended(type, taken), to # << >>
  PROVE  OrderInv'
<1> DEFINE u == Handed(type, taken)
           n == Len(units)
           span == [first |-> origin, last |-> place - 1]
<1>1. /\ input' = input /\ stops' = stops /\ origin' = NextUnit /\ units' = Append(units, u)
      /\ phase' = "idle" /\ have_seen_first_start_code' = have_seen_first_start_code
  BY DEF Ended, Deliver, Handed
<1>2. /\ InputType /\ origin \in Starts /\ place \in Codes /\ NoCode(origin, place)
      /\ origin \in Nat /\ place \in Nat /\ origin < place /\ place < NextUnit /\ NextUnit \in Nat
      /\ have_seen_first_start_code /\ phase = "parsing"
      /\ stops \in Nat /\ n \in Nat /\ units \in Seq(UnitType)
  BY FilledFromFile DEF AtCode, IInv, Types
<1>3. u.first = origin /\ u.last = place - 1 /\ u \in UnitType
  BY HandedType DEF Handed
<1> HIDE DEF u
<1>4. /\ Len(units') = n + 1 /\ units'[n + 1] = u
      /\ \A k \in 1 .. n : units'[k] = units[k]
  BY <1>1, <1>2, <1>3, AppendProperties
<1>5. /\ span \in Spans /\ span \notin Begun(origin)
      /\ Begun(NextUnit) = Begun(origin) \cup {span}
      /\ Before(origin) = Begun(origin)
  BY <1>2, UnitEnds DEF NextUnit
<1>6. ASSUME stops = 0
      PROVE  Cardinality(Before(origin)) = n /\ Cardinality(Begun(NextUnit)) = n + 1
  <2>1. Cardinality(Begun(origin)) = n
    BY <1>2, <1>6 DEF IInv, OrderInv
  <2>2. IsFiniteSet(Begun(origin))
    BY <1>2, SpansFinite, FS_Subset DEF Begun
  <2>3. Cardinality(Begun(origin) \cup {span}) = Cardinality(Begun(origin)) + 1
    <3> HIDE DEF span
    <3> QED
      BY <1>5, <2>2, FS_AddElement
  <2> QED
    BY <1>5, <2>1, <2>3
<1>7. ASSUME NEW k \in 1 .. n + 1
      PROVE  /\ SpanOf(units'[k]) \in Spans /\ units'[k].last < NextUnit
             /\ (k > 1 => units'[k - 1].last < units'[k].first)
             /\ (stops = 0 => Cardinality(Before(units'[k].first)) = k - 1)
  <2>1. CASE k = n + 1
    <3>1. units'[k] = u /\ k - 1 = n /\ SpanOf(u) = span
      BY <1>2, <1>3, <1>4, <2>1 DEF SpanOf
    <3>2. ASSUME k > 1 PROVE units'[k - 1].last < origin
      <4>1. n \in 1 .. n
        BY <1>2, <2>1, <3>2
      <4>2. units'[n] = units[n] /\ units[n].last < origin
        BY <1>4, <4>1 DEF IInv, OrderInv
      <4> QED
        BY <3>1, <4>2
    <3>3. u.last < NextUnit
      BY <1>2, <1>3
    <3> QED
      BY <1>3, <1>5, <1>6, <3>1, <3>2, <3>3
  <2>2. CASE k # n + 1
    <3>1. k \in 1 .. n /\ units'[k] = units[k] /\ (k > 1 => units'[k - 1] = units[k - 1])
      BY <1>2, <1>4, <2>2
    <3>2. /\ SpanOf(units[k]) \in Spans /\ units[k].last < origin /\ units[k].last \in Int
          /\ (k > 1 => units[k - 1].last < units[k].first)
          /\ (stops = 0 => Cardinality(Before(units[k].first)) = k - 1)
      BY <3>1, HandedOn DEF IInv, OrderInv
    <3>3. units[k].last < NextUnit
      BY <1>2, <3>2
    <3> QED
      BY <3>1, <3>2, <3>3
  <2> QED
    BY <2>1, <2>2
<1>8. Spans' = Spans
  BY <1>1, SameInput
<1>9. stops' = 0 => Cardinality(Begun(origin)') = Len(units')
  BY <1>1, <1>4, <1>6, <1>8 DEF Begun
<1>10. \A k \in 1 .. Len(units') :
         /\ SpanOf(units[k])' \in Spans' /\ units'[k].last < origin'
         /\ (k > 1 => units'[k - 1].last < units'[k].first)
         /\ (stops' = 0 => Cardinality(Before(units[k].first)') = k - 1)
  BY <1>1, <1>4, <1>7, <1>8 DEF SpanOf, Before
<1> QED
  BY <1>1, <1>2, <1>9, <1>10 DEF OrderInv

(* What UnitsLabelled says of one unit. *)
MarkedAt(k) ==
  LET u == units[k]
      ends == EndsAccessUnit(TypeOf(u), NextUnitOf(u))
      fresh == k = 1 \/ units[k - 1].stops # u.stops
  IN  /\ u.marker = (ends \/ fresh \/ (units[k - 1].marker /\ ~units[k - 1].taken))
      /\ u.pictures = IF ends THEN 1 ELSE 0

SetsAt(k) ==
  LET u == units[k]
      before == IF k = 1 THEN [sps |-> << >>, pps |-> << >>] ELSE units[k - 1]
      type == TypeOf(u)
  IN  /\ u.sps = IF is_sps(type) THEN u.bytes ELSE before.sps
      /\ u.pps = IF is_pps(type) THEN u.bytes ELSE before.pps

(* And it is labelled as the file says. *)
LEMMA HandedLabelled ==
  ASSUME NEW type, NEW taken \in BOOLEAN, IInv, AtCode(type), Ended(type, taken), to # << >>
  PROVE  LabelsInv'
<1> DEFINE u == Handed(type, taken)
           n == Len(units)
           E == EndsAccessUnit(type, NextUnit)
<1>1. /\ input' = input /\ stops' = stops /\ units' = Append(units, u)
      /\ phase' = "idle" /\ picture_end_marker' = (u.marker /\ ~taken) /\ picture_count' = 0
      /\ last_seen_sps' = (IF is_sps(type) THEN to ELSE last_seen_sps)
      /\ last_seen_pps' = (IF is_pps(type) THEN to ELSE last_seen_pps)
  BY DEF Ended, Deliver, Handed
<1>2. /\ origin < place /\ origin \in Nat /\ place \in Nat /\ n \in Nat /\ units \in Seq(UnitType)
      /\ phase = "parsing" /\ stops \in Nat /\ picture_count = 0
  BY FilledFromFile DEF AtCode, IInv, Types
<1>3. LabelsInv /\ (picture_end_marker <=> Fresh \/ Untaken) /\ last_seen_sps = LastSps /\ last_seen_pps = LastPps
  BY <1>2 DEF IInv, LabelsInv
<1>4. /\ u \in UnitType /\ u.first = origin /\ u.last = place - 1 /\ u.bytes = to /\ u.stops = stops
      /\ u.taken = taken /\ u.marker = (E \/ picture_end_marker) /\ u.pictures = (IF E THEN 1 ELSE 0)
      /\ u.sps = last_seen_sps' /\ u.pps = last_seen_pps'
  BY <1>2, HandedType DEF Handed
<1>5. /\ TypeOf(u) = nal_unit_type(Byte(origin)) /\ NextUnitOf(u) = NextUnit
  <2>1. (place - 1) + 1 = place
    BY <1>2
  <2> HIDE DEF u
  <2> QED
    BY <1>4, <2>1 DEF TypeOf, NextUnitOf, NextUnit
<1>6. /\ E <=> EndsAccessUnit(TypeOf(u), NextUnitOf(u))
      /\ is_sps(type) <=> is_sps(TypeOf(u))
      /\ is_pps(type) <=> is_pps(TypeOf(u))
  <2> HIDE DEF u
  <2> QED
    BY <1>2, <1>5, TypeTold
<1> HIDE DEF u, E
<1>7. /\ Len(units') = n + 1 /\ units'[n + 1] = u
      /\ \A k \in 1 .. n : units'[k] = units[k]
  BY <1>1, <1>2, <1>4, AppendProperties
(* Types and places are told from the input alone. *)
<1>8. ASSUME NEW k \in 1 .. n + 1
      PROVE  /\ TypeOf(units[k])' = TypeOf(units'[k])
             /\ EndsAccessUnit(TypeOf(units[k]), NextUnitOf(units[k]))'
                  = EndsAccessUnit(TypeOf(units'[k]), NextUnitOf(units'[k]))
  BY <1>1 DEF TypeOf, NextUnitOf, EndsAccessUnit, NextBeginsPicture, Byte, CodeLength, LongCode, Bytes
<1>9. ASSUME NEW k \in 1 .. n + 1
      PROVE  MarkedAt(k)' /\ SetsAt(k)' /\ units'[k].stops <= stops'
  <2>1. CASE k = n + 1
    <3>1. units'[k] = u /\ (k = 1 <=> units = << >>) /\ (k # 1 => units'[k - 1] = units[n] /\ n = Len(units))
      <4>1. k # 1 => n \in 1 .. n /\ k - 1 = n
        BY <1>2, <2>1
      <4>2. k = 1 <=> units = << >>
        BY <1>2, <2>1
      <4> QED
        BY <1>7, <2>1, <4>1, <4>2
    <3>2. Fresh <=> k = 1 \/ units'[k - 1].stops # u.stops
      BY <1>4, <3>1 DEF Fresh
    <3>21. k # 1 => (Untaken <=> units'[k - 1].marker /\ ~units'[k - 1].taken)
      BY <3>1 DEF Untaken
    <3>3. u.marker = (\/ EndsAccessUnit(TypeOf(u), NextUnitOf(u))
                      \/ k = 1 \/ units'[k - 1].stops # u.stops
                      \/ (units'[k - 1].marker /\ ~units'[k - 1].taken))
      <4>1. u.marker = (E \/ Fresh \/ Untaken)
        BY <1>3, <1>4
      <4>2. Untaken => k # 1
        BY <3>1 DEF Untaken
      <4>3. Fresh \/ Untaken
              <=> (k = 1 \/ units'[k - 1].stops # u.stops)
                    \/ (units'[k - 1].marker /\ ~units'[k - 1].taken)
        BY <3>2, <3>21, <4>2
      <4> QED
        BY <1>6, <4>1, <4>3
    <3>4. u.pictures = IF EndsAccessUnit(TypeOf(u), NextUnitOf(u)) THEN 1 ELSE 0
      BY <1>4, <1>6
    <3>5. MarkedAt(k)'
      BY <1>8, <3>1, <3>3, <3>4 DEF MarkedAt
    <3>6. /\ LastSps = IF k = 1 THEN << >> ELSE units'[k - 1].sps
          /\ LastPps = IF k = 1 THEN << >> ELSE units'[k - 1].pps
      BY <3>1 DEF LastSps, LastPps
    <3>7. SetsAt(k)'
      BY <1>1, <1>3, <1>4, <1>6, <1>8, <3>1, <3>6 DEF SetsAt
    <3> QED
      BY <1>1, <1>2, <1>4, <3>1, <3>5, <3>7
  <2>2. CASE k # n + 1
    <3>1. k \in 1 .. n /\ units'[k] = units[k] /\ (k > 1 => units'[k - 1] = units[k - 1])
      BY <1>2, <1>7, <2>2
    <3>2. k # 1 => units'[k - 1] = units[k - 1]
      BY <3>1
    <3>3. MarkedAt(k) /\ SetsAt(k) /\ units[k].stops <= stops
      BY <1>3, <3>1 DEF LabelsInv, MarksPictures, ParameterSetsKept, MarkedAt, SetsAt
    <3>4. MarkedAt(k)'
      BY <1>8, <3>1, <3>2, <3>3 DEF MarkedAt
    <3>5. SetsAt(k)'
      BY <1>8, <3>1, <3>2, <3>3 DEF SetsAt
    <3> QED
      BY <1>1, <3>1, <3>3, <3>4, <3>5
  <2> QED
    BY <2>1, <2>2
<1>10. MarksPictures' /\ ParameterSetsKept'
  BY <1>7, <1>9 DEF MarksPictures, ParameterSetsKept, MarkedAt, SetsAt
<1>11. ~Fresh' /\ (Untaken' <=> u.marker /\ ~taken) /\ LastSps' = u.sps /\ LastPps' = u.pps
  <2>1. Len(units') = n + 1 /\ units' # << >> /\ units'[Len(units')] = u
    BY <1>2, <1>7
  <2> QED
    BY <1>1, <1>4, <2>1 DEF Fresh, Untaken, LastSps, LastPps
<1> QED
  BY <1>1, <1>4, <1>7, <1>9, <1>10, <1>11 DEF LabelsInv

LEMMA EndUnitKeeps ==
  ASSUME NEW taken \in BOOLEAN, IInv, EndUnit(taken)
  PROVE  IInv'
<1> DEFINE type == nal_unit_type(FirstByte)
<1>1. AtCode(type) /\ Ended(type, taken)
  BY EndedHolds
<1> HIDE DEF type
<1>2. Types' /\ PlacesInv' /\ BufferInv' /\ FirstByteInv'
  BY <1>1, EndedTypes
<1>3. OrderInv' /\ LabelsInv'
  BY <1>1, StallKeeps, HandedInOrder, HandedLabelled
<1> QED
  BY <1>2, <1>3 DEF IInv

------------------------------------------------------------------------------
(* Every step. *)

LEMMA StutterKeeps ==
  ASSUME IInv, UNCHANGED vars
  PROVE  IInv'
<1> USE DEF vars
<1>1. input' = input
  OBVIOUS
<1>2. Types'
  BY <1>1, SameInput DEF IInv, Types, TypeOK
<1>3. PlacesInv'
  BY <1>1, SameInput DEF IInv, PlacesInv, NoCode
<1>4. BufferInv'
  BY DEF IInv, BufferInv
<1>5. FirstByteInv'
  BY DEF IInv, FirstByteInv, StartCode, LongCode, Bytes, Byte
<1>6. OrderInv' /\ LabelsInv'
  BY <1>1, NothingHandedOn
<1> QED
  BY <1>2, <1>3, <1>4, <1>5, <1>6 DEF IInv

LEMMA NextKeeps == IInv /\ [Next]_vars => IInv'
<1> SUFFICES ASSUME IInv, [Next]_vars PROVE IInv'
  OBVIOUS
<1>1. CASE GetNextFrame
  BY <1>1, GetNextFrameKeeps
<1>2. CASE AskForMore
  BY <1>2, AskForMoreKeeps
<1>3. CASE SkipToFirstStartCode
  BY <1>3, SkipKeeps
<1>4. CASE SaveBytes
  BY <1>4, SaveBytesKeeps
<1>5. CASE InterruptedAtUnitEnd
  BY <1>5, InterruptedKeeps
<1>6. ASSUME NEW taken \in BOOLEAN, EndUnit(taken) PROVE IInv'
  BY <1>6, EndUnitKeeps
<1>7. CASE SaveTrailing
  BY <1>7, SaveTrailingKeeps
<1>8. ASSUME NEW k \in 1 .. MaxRead, BytesArrive(k) PROVE IInv'
  <2>1. received' \in received .. Len(input)
    BY <1>8, Unfolded DEF BytesArrive
  <2>2. have_seen_eof' \in BOOLEAN
    BY <1>8, Unfolded DEF BytesArrive
  <2> QED
    BY <1>8, <2>1, <2>2, AnswerKeeps DEF BytesArrive
<1>9. CASE FirstClosure
  <2>1. received' \in received .. Len(input)
    BY <1>9, Unfolded DEF FirstClosure, stream_vars
  <2> QED
    BY <1>9, <2>1, AnswerKeeps DEF FirstClosure, stream_vars
<1>10. CASE SecondClosure
  BY <1>10, SecondClosureKeeps
<1>11. CASE StopGettingFrames
  BY <1>11, StopKeeps
<1>12. CASE UNCHANGED vars
  BY <1>12, StutterKeeps
<1> QED
  BY <1>1, <1>2, <1>3, <1>4, <1>5, <1>6, <1>7, <1>8, <1>9, <1>10, <1>11, <1>12
     DEF Next, Parse, Answer

(* At all times the parser reads on from behind a code of the file, has read  *)
(* over no other, and the units that begin before its place are the ones that *)
(* it handed on.                                                             *)
THEOREM ParserKeepsItsPlace == Spec => []IInv
<1>1. Spec => Init /\ [][Next]_vars
  BY DEF Spec
<1> QED
  BY <1>1, InitIInv, NextKeeps, PTL

------------------------------------------------------------------------------
(* The bytes of a unit. *)

(* Words saved one behind the other, from a place on. *)
Chain(ws, from, behind) ==
  IF Len(ws) = 0
    THEN behind = from
    ELSE /\ ws[1] = from
         /\ \A i \in 1 .. Len(ws) - 1 : ws[i + 1] = ws[i] + StepAt(ws[i])
         /\ ws[Len(ws)] + StepAt(ws[Len(ws)]) = behind

Holds(ws, bytes) ==
  \A i \in 1 .. Kept(Len(ws)) : \A j \in 1 .. 4 : bytes[4 * (i - 1) + j] = WordAt(ws[i])[j]

HandedWords == \A k \in 1 .. Len(units) : WordsCover(units[k]) /\ BytesAreTheWords(units[k])

(* What is safe in the reader's buffer is the words of the unit so far, those *)
(* that fit; what is counted as truncated is the others.                     *)
WordsInv ==
  /\ phase \in {"parsing", "waiting"} =>
       /\ IF have_seen_first_start_code THEN Chain(words, origin, saved_place) ELSE words = << >>
       /\ saved_to = 4 * Kept(Len(words))
       /\ saved_num_truncated_bytes = 4 * (Len(words) - Kept(Len(words)))
       /\ Holds(words, to)
  /\ phase = "parsing" => num_truncated_bytes = saved_num_truncated_bytes
  /\ HandedWords

LEMMA KeptIs ==
  ASSUME NEW n \in Nat
  PROVE  /\ Kept(n) \in Nat /\ Kept(n) <= n /\ 4 * Kept(n) <= MaxSize
         /\ IF 4 * Kept(n) + 4 > MaxSize
              THEN Kept(n + 1) = Kept(n)
              ELSE Kept(n) = n /\ Kept(n + 1) = n + 1
<1> DEFINE q == MaxSize \div 4
<1>1. MaxSize \in Nat
  BY BoundsAssumption
<1>2. q \in Nat /\ 4 * q <= MaxSize /\ MaxSize < 4 * q + 4
  BY <1>1
<1>3. Kept(n) = (IF 4 * n <= MaxSize THEN n ELSE q)
      /\ Kept(n + 1) = (IF 4 * (n + 1) <= MaxSize THEN n + 1 ELSE q)
  BY DEF Kept
<1> HIDE DEF q
<1> QED
  BY <1>1, <1>2, <1>3

LEMMA NoWordYet == Kept(0) = 0 /\ \A bytes : Holds(<< >>, bytes)
<1>1. Kept(0) = 0
  BY KeptIs
<1> QED
  BY <1>1 DEF Holds

LEMMA SameWords ==
  ASSUME input' = input
  PROVE  /\ \A p : WordAt(p)' = WordAt(p) /\ StepAt(p)' = StepAt(p)
         /\ \A ws, a, b : Chain(ws, a, b)' <=> Chain(ws, a, b)
         /\ \A ws, bytes : Holds(ws, bytes)' <=> Holds(ws, bytes)
         /\ HandedWords /\ units' = units => HandedWords'
<1>1. \A p : WordAt(p)' = WordAt(p) /\ StepAt(p)' = StepAt(p)
  BY DEF WordAt, StepAt, Byte, Bytes
<1>2. \A n : Kept(n)' = Kept(n)
  BY DEF Kept
<1>3. \A ws, a, b : Chain(ws, a, b)' <=> Chain(ws, a, b)
  BY <1>1 DEF Chain
<1>4. \A ws, bytes : Holds(ws, bytes)' <=> Holds(ws, bytes)
  BY <1>1, <1>2 DEF Holds
<1>5. \A u : (WordsCover(u)' <=> WordsCover(u)) /\ (BytesAreTheWords(u)' <=> BytesAreTheWords(u))
  BY <1>1, <1>2 DEF WordsCover, BytesAreTheWords
<1>6. HandedWords /\ units' = units => HandedWords'
  BY <1>5 DEF HandedWords
<1> QED
  BY <1>1, <1>3, <1>4, <1>6

(* As many words as there are safe bytes are held by any buffer that begins   *)
(* with those bytes.                                                         *)
LEMMA HeldBy ==
  ASSUME NEW ws, Len(ws) \in Nat, NEW old, NEW new, Holds(ws, old),
         \A i \in 1 .. 4 * Kept(Len(ws)) : new[i] = old[i]
  PROVE  Holds(ws, new)
<1> SUFFICES ASSUME NEW i \in 1 .. Kept(Len(ws)), NEW j \in 1 .. 4
             PROVE  new[4 * (i - 1) + j] = WordAt(ws[i])[j]
  BY DEF Holds
<1>1. Kept(Len(ws)) \in Nat
  BY KeptIs
<1>2. 4 * (i - 1) + j \in 1 .. 4 * Kept(Len(ws))
  BY <1>1
<1> QED
  BY <1>2 DEF Holds

LEMMA WordsAre ==
  ASSUME IInv, WordsInv
  PROVE  /\ words \in Seq(Nat) /\ Len(words) \in Nat /\ HandedWords
         /\ input' = input /\ units' = units => HandedWords'
BY SameWords DEF IInv, Types, WordsInv

LEMMA SaveBytesWords ==
  ASSUME IInv, WordsInv, SaveBytes
  PROVE  WordsInv'
<1> DEFINE n == Len(words)
           word == WordAt(place)
<1>1. /\ input' = input /\ units' = units /\ phase = "parsing" /\ phase' = phase
      /\ origin' = origin /\ have_seen_first_start_code /\ have_seen_first_start_code'
      /\ Save4Bytes(word) /\ place' = place + StepAt(place)
      /\ saved_place' = place' /\ saved_to' = Len(to') /\ words' = Append(words, place)
      /\ saved_num_truncated_bytes' = num_truncated_bytes' /\ place + 4 <= received
  BY DEF SaveBytes, Scanning, SetParseState, stream_vars, Available
<1>2. /\ place = saved_place /\ Len(to) = saved_to /\ place \in Nat /\ to \in Seq(0 .. 255)
      /\ InputType /\ place + 4 <= Len(input) /\ MaxSize \in Nat
  BY <1>1, Unfolded DEF IInv, PlacesInv, BufferInv
<1>3. /\ words \in Seq(Nat) /\ n \in Nat /\ Chain(words, origin, saved_place)
      /\ saved_to = 4 * Kept(n) /\ num_truncated_bytes = 4 * (n - Kept(n)) /\ Holds(words, to)
  BY <1>1, WordsAre DEF WordsInv
<1>4. word \in Seq(0 .. 255) /\ Len(word) = 4
  <2>1. Bytes(place, 4) \in Seq(0 .. 255) /\ Len(Bytes(place, 4)) = 4
    BY <1>2, BytesType
  <2>2. Byte(place) \in 0 .. 255
    <3>1. place < Len(input)
      BY <1>2, Unfolded
    <3> QED
      BY <1>2, <3>1, ByteType
  <2>3. <<0, 0, 0, Byte(place)>> \in Seq(0 .. 255) /\ Len(<<0, 0, 0, Byte(place)>>) = 4
    BY <2>2
  <2> QED
    BY <2>1, <2>3 DEF WordAt
<1> HIDE DEF word
<1>5. /\ words' \in Seq(Nat) /\ Len(words') = n + 1 /\ words'[n + 1] = place
      /\ \A i \in 1 .. n : words'[i] = words[i]
  BY <1>1, <1>2, <1>3
<1>6. Chain(words', origin, place')
  <2>1. CASE n = 0
    BY <1>1, <1>2, <1>3, <1>5, <2>1 DEF Chain
  <2>2. CASE n > 0
    <3>1. words[1] = origin /\ words[n] + StepAt(words[n]) = place
          /\ \A i \in 1 .. n - 1 : words[i + 1] = words[i] + StepAt(words[i])
      BY <1>2, <1>3, <2>2 DEF Chain
    <3>2. ASSUME NEW i \in 1 .. n PROVE words'[i + 1] = words'[i] + StepAt(words'[i])
      <4>1. CASE i = n
        BY <1>5, <2>2, <3>1, <4>1
      <4>2. CASE i # n
        <5>1. i \in 1 .. n - 1 /\ i + 1 \in 1 .. n
          BY <1>3, <4>2
        <5> QED
          BY <1>5, <3>1, <5>1
      <4> QED
        BY <4>1, <4>2
    <3>3. words'[1] = origin
      <4>1. 1 \in 1 .. n
        BY <1>3, <2>2
      <4> QED
        BY <1>5, <3>1, <4>1
    <3>4. Len(words') - 1 = n
      BY <1>3, <1>5
    <3> QED
      BY <1>1, <1>3, <1>5, <3>2, <3>3, <3>4 DEF Chain
  <2> QED
    BY <1>3, <2>1, <2>2
<1>7. Chain(words, origin, saved_place)'
  <2>1. \A p : StepAt(p)' = StepAt(p)
    BY <1>1, SameWords
  <2> QED
    BY <1>1, <1>6, <2>1 DEF Chain
<1>8. /\ saved_to' = 4 * Kept(n + 1) /\ Holds(words', to')
      /\ saved_num_truncated_bytes' = 4 * (n + 1 - Kept(n + 1))
  <2>0. Kept(n) \in Nat /\ n \in Nat
    BY <1>3, KeptIs
  <2>1. CASE 4 * Kept(n) + 4 > MaxSize
    <3>1. Kept(n + 1) = Kept(n) /\ Kept(n) <= n
      BY <1>3, <2>1, KeptIs
    <3>2. to' = to /\ num_truncated_bytes' = num_truncated_bytes + 4
      BY <1>1, <1>2, <1>3, <2>1 DEF Save4Bytes
    <3>3. Holds(words', to')
      <4> SUFFICES ASSUME NEW i \in 1 .. Kept(n + 1), NEW j \in 1 .. 4
                   PROVE  to'[4 * (i - 1) + j] = WordAt(words'[i])[j]
        BY <1>5 DEF Holds
      <4>1. i \in 1 .. Kept(n) /\ i \in 1 .. n
        BY <1>3, <2>0, <3>1
      <4> QED
        BY <1>3, <1>5, <3>2, <4>1 DEF Holds
    <3> QED
      BY <1>1, <1>2, <1>3, <2>0, <3>1, <3>2, <3>3
  <2>2. CASE ~(4 * Kept(n) + 4 > MaxSize)
    <3>1. Kept(n) = n /\ Kept(n + 1) = n + 1
      BY <1>3, <2>2, KeptIs
    <3>2. to' = to \o word /\ num_truncated_bytes' = num_truncated_bytes
      BY <1>1, <1>2, <1>3, <2>2 DEF Save4Bytes
    <3>3. /\ Len(to) = 4 * n /\ Len(to \o word) = 4 * n + 4
          /\ \A i \in 1 .. 4 * n : (to \o word)[i] = to[i]
          /\ \A j \in 1 .. 4 : (to \o word)[4 * n + j] = word[j]
      <4>1. Len(to) = 4 * n
        BY <1>2, <1>3, <3>1
      <4>2. /\ Len(to \o word) = Len(to) + Len(word)
            /\ \A i \in 1 .. Len(to) + Len(word) :
                 (to \o word)[i] = IF i <= Len(to) THEN to[i] ELSE word[i - Len(to)]
        <5>1. to \in Seq(0 .. 255) /\ word \in Seq(0 .. 255)
          BY <1>2, <1>4
        <5> QED
          BY <5>1, ConcatProperties, Zenon
      <4>3. \A i \in 1 .. 4 * n : (to \o word)[i] = to[i]
        BY <1>3, <1>4, <4>1, <4>2
      <4>4. ASSUME NEW j \in 1 .. 4 PROVE (to \o word)[4 * n + j] = word[j]
        <5>1. /\ 4 * n + j \in 1 .. Len(to) + Len(word) /\ ~(4 * n + j <= Len(to))
              /\ 4 * n + j - Len(to) = j
          BY <1>3, <1>4, <4>1
        <5> DEFINE i == 4 * n + j
        <5> HIDE DEF i
        <5>2. (to \o word)[i] = word[i - Len(to)]
          BY <4>2, <5>1 DEF i
        <5> QED
          BY <5>1, <5>2 DEF i
      <4> QED
        BY <1>4, <4>1, <4>2, <4>3, <4>4
    <3>4. Holds(words', to')
      <4> SUFFICES ASSUME NEW i \in 1 .. n + 1, NEW j \in 1 .. 4
                   PROVE  to'[4 * (i - 1) + j] = WordAt(words'[i])[j]
        BY <1>5, <3>1 DEF Holds
      <4>1. CASE i = n + 1
        <5>1. 4 * (i - 1) + j = 4 * n + j
          BY <1>3, <4>1
        <5> QED
          BY <1>5, <3>2, <3>3, <4>1, <5>1 DEF word
      <4>2. CASE i # n + 1
        <5>1. i \in 1 .. n /\ 4 * (i - 1) + j \in 1 .. 4 * n /\ i \in 1 .. Kept(n)
          BY <1>3, <3>1, <4>2
        <5>2. to[4 * (i - 1) + j] = WordAt(words[i])[j]
          BY <1>3, <5>1 DEF Holds
        <5> QED
          BY <1>5, <3>2, <3>3, <5>1, <5>2
      <4> QED
        BY <4>1, <4>2
    <3>5. saved_to' = 4 * (n + 1) /\ saved_num_truncated_bytes' = num_truncated_bytes
      BY <1>1, <3>2, <3>3
    <3>6. num_truncated_bytes = 0 /\ 4 * (n + 1 - (n + 1)) = 0
      BY <1>3, <3>1
    <3> QED
      BY <3>1, <3>4, <3>5, <3>6
  <2> QED
    BY <2>1, <2>2
<1>9. Holds(words, to)'
  <2>1. \A p : WordAt(p)' = WordAt(p)
    BY <1>1, SameWords
  <2> QED
    BY <1>8, <2>1 DEF Holds, Kept
<1>10. HandedWords'
  BY <1>1, WordsAre
<1>11. /\ saved_to' = 4 * Kept(Len(words'))
       /\ saved_num_truncated_bytes' = 4 * (Len(words') - Kept(Len(words')))
  <2>1. Len(words') = n + 1
    BY <1>5
  <2>2. Kept(Len(words')) = Kept(n + 1)
    BY <2>1
  <2>3. Len(words') - Kept(Len(words')) = n + 1 - Kept(n + 1)
    <3>1. n \in Nat /\ n + 1 \in Nat /\ Kept(n + 1) \in Nat
      <4>1. n \in Nat /\ n + 1 \in Nat
        BY <1>3
      <4> HIDE DEF n
      <4> QED
        BY <4>1, KeptIs
    <3> HIDE DEF n
    <3> QED
      BY <2>1, <2>2, <3>1
  <2> HIDE DEF n
  <2> QED
    BY <1>8, <2>2, <2>3
<1> HIDE DEF n
<1> QED
  BY <1>1, <1>7, <1>9, <1>10, <1>11 DEF WordsInv, Kept

(* A read is answered, and the parse starts again from what is safe. *)
LEMMA RestoredWords ==
  ASSUME IInv, WordsInv, phase = "waiting", RestoreSavedParserState, input' = input,
         UNCHANGED <<origin, words, have_seen_first_start_code, units>>
  PROVE  WordsInv'
<1>1. /\ to' = SubSeq(to, 1, saved_to) /\ num_truncated_bytes' = saved_num_truncated_bytes
      /\ saved_place' = saved_place /\ saved_to' = saved_to
      /\ saved_num_truncated_bytes' = saved_num_truncated_bytes
  BY DEF RestoreSavedParserState
<1>2. to \in Seq(0 .. 255) /\ saved_to \in Nat /\ saved_to <= Len(to) /\ Len(to) \in Nat
  BY Unfolded
<1>3. \A i \in 1 .. saved_to : to'[i] = to[i]
  <2>1. ASSUME NEW i \in 1 .. saved_to PROVE to[i] \in 0 .. 255
    <3>1. i \in 1 .. Len(to)
      BY <1>2
    <3> QED
      BY <1>2, <3>1, ElementOfSeq
  <2>2. \A i \in 1 .. saved_to - 1 + 1 : SubSeq(to, 1, saved_to)[i] = to[1 + i - 1]
    BY <1>2, <2>1, SubSeqProperties
  <2> QED
    BY <1>1, <1>2, <2>2
<1>4. /\ IF have_seen_first_start_code THEN Chain(words, origin, saved_place) ELSE words = << >>
      /\ saved_to = 4 * Kept(Len(words)) /\ Holds(words, to) /\ Len(words) \in Nat
      /\ saved_num_truncated_bytes = 4 * (Len(words) - Kept(Len(words)))
  BY WordsAre DEF WordsInv
<1>5. Holds(words, to')
  BY <1>3, <1>4, HeldBy
<1>6. Holds(words, to)'
  <2>1. \A p : WordAt(p)' = WordAt(p)
    BY SameWords
  <2> QED
    BY <1>5, <2>1 DEF Holds, Kept
<1>7. (IF have_seen_first_start_code THEN Chain(words, origin, saved_place) ELSE words = << >>)'
  <2>1. \A p : StepAt(p)' = StepAt(p)
    BY SameWords
  <2> QED
    BY <1>1, <1>4, <2>1 DEF Chain
<1>8. HandedWords'
  BY WordsAre
<1> QED
  BY <1>1, <1>4, <1>6, <1>7, <1>8 DEF WordsInv, Kept

(* A step that leaves what is safe as it is. *)
LEMMA SafeKept ==
  ASSUME IInv, WordsInv, input' = input,
         UNCHANGED <<saved_place, origin, words, have_seen_first_start_code, saved_to,
                     saved_num_truncated_bytes, units>>,
         phase' \in {"parsing", "waiting"} =>
           /\ phase \in {"parsing", "waiting"}
           /\ \A i \in 1 .. saved_to : to'[i] = to[i],
         phase' = "parsing" => phase = "parsing" /\ num_truncated_bytes' = num_truncated_bytes
  PROVE  WordsInv'
<1>1. HandedWords'
  BY WordsAre
<1>2. ASSUME phase' \in {"parsing", "waiting"}
      PROVE  /\ (IF have_seen_first_start_code THEN Chain(words, origin, saved_place)
                 ELSE words = << >>)'
             /\ Holds(words, to)'
             /\ saved_to' = 4 * Kept(Len(words))
             /\ saved_num_truncated_bytes' = 4 * (Len(words) - Kept(Len(words)))
  <2>1. /\ IF have_seen_first_start_code THEN Chain(words, origin, saved_place) ELSE words = << >>
        /\ saved_to = 4 * Kept(Len(words)) /\ Holds(words, to) /\ Len(words) \in Nat
        /\ saved_num_truncated_bytes = 4 * (Len(words) - Kept(Len(words)))
    BY <1>2, WordsAre DEF WordsInv
  <2>2. Holds(words, to')
    BY <1>2, <2>1, HeldBy
  <2>3. \A p : WordAt(p)' = WordAt(p) /\ StepAt(p)' = StepAt(p)
    BY SameWords
  <2>4. Holds(words, to)'
    BY <2>2, <2>3 DEF Holds, Kept
  <2>5. (IF have_seen_first_start_code THEN Chain(words, origin, saved_place) ELSE words = << >>)'
    BY <2>1, <2>3 DEF Chain
  <2> QED
    BY <2>1, <2>4, <2>5
<1> QED
  BY <1>1, <1>2 DEF WordsInv, Kept

LEMMA StartWords ==
  ASSUME IInv, WordsInv, GetNextFrame \/ SkipToFirstStartCode
  PROVE  WordsInv'
<1> USE DEF stream_vars, place_vars, first_byte_vars
<1>1. /\ input' = input /\ units' = units /\ phase' = "parsing" /\ words' = << >>
      /\ saved_to' = 0 /\ num_truncated_bytes' = 0 /\ saved_num_truncated_bytes' = 0
      /\ have_seen_first_start_code' => saved_place' = origin'
  <2>1. CASE GetNextFrame
    BY <2>1 DEF GetNextFrame, IInv, PlacesInv
  <2>2. CASE SkipToFirstStartCode
    <3>1. /\ phase = "parsing" /\ ~have_seen_first_start_code /\ saved_place = origin
          /\ saved_to' = Len(to) /\ saved_num_truncated_bytes' = num_truncated_bytes
          /\ num_truncated_bytes' = num_truncated_bytes /\ words' = words
          /\ saved_place' = origin' /\ phase' = phase /\ input' = input /\ units' = units
      BY <2>2 DEF SkipToFirstStartCode, SetParseState, IInv, PlacesInv
    <3>2. Len(to) = 0
      BY <3>1 DEF IInv, BufferInv
    <3>3. words = << >> /\ Len(words) = 0 /\ num_truncated_bytes = 4 * (Len(words) - Kept(Len(words)))
      BY <3>1 DEF WordsInv
    <3>4. num_truncated_bytes = 0
      BY <3>3, NoWordYet
    <3> QED
      BY <3>1, <3>2, <3>3, <3>4
  <2> QED
    BY <2>1, <2>2
<1>2. HandedWords'
  BY <1>1, WordsAre
<1>3. Holds(words, to)' /\ Kept(0) = 0 /\ Len(words') = 0
  BY <1>1, NoWordYet DEF Holds, Kept
<1>4. have_seen_first_start_code' => Chain(words, origin, saved_place)'
  BY <1>1, <1>3 DEF Chain
<1> QED
  BY <1>1, <1>2, <1>3, <1>4 DEF WordsInv, Kept

(* A unit is handed on with the words that it was saved in. *)
LEMMA EndUnitWords ==
  ASSUME NEW taken \in BOOLEAN, IInv, WordsInv, EndUnit(taken)
  PROVE  WordsInv'
<1> DEFINE type == nal_unit_type(FirstByte)
<1>1. AtCode(type) /\ Ended(type, taken)
  BY EndedHolds
<1> HIDE DEF type
<1>2. input' = input
  BY <1>1 DEF Ended
<1>3. \/ to = << >> /\ phase' = "stalled" /\ units' = units
      \/ to # << >> /\ phase' = "idle" /\ units' = Append(units, Handed(type, taken))
  BY <1>1 DEF Ended, Deliver, Handed
<1>4. CASE units' = units
  BY <1>2, <1>3, <1>4, WordsAre DEF WordsInv
<1>5. CASE to # << >> /\ units' = Append(units, Handed(type, taken))
  <2> DEFINE u == Handed(type, taken)
             n == Len(words)
  <2>1. /\ u.words = words /\ u.bytes = to /\ u.truncated = num_truncated_bytes
        /\ u.first = origin /\ u.last = place - 1
    BY DEF Handed
  <2>2. /\ have_seen_first_start_code /\ phase = "parsing" /\ place = saved_place
        /\ place \in Nat /\ Len(to) = saved_to
    BY <1>1 DEF AtCode, IInv, BufferInv
  <2>3. /\ Chain(words, origin, place) /\ saved_to = 4 * Kept(n) /\ Holds(words, to)
        /\ num_truncated_bytes = 4 * (n - Kept(n)) /\ n \in Nat
    BY <2>2, WordsAre DEF WordsInv
  <2>4. n > 0
    <3>1. Len(to) # 0
      BY <1>5, Unfolded
    <3>2. n # 0
      BY <2>2, <2>3, <3>1, NoWordYet
    <3> QED
      BY <2>3, <3>2
  <2> HIDE DEF u
  <2>5. WordsCover(u)
    BY <2>1, <2>2, <2>3, <2>4 DEF WordsCover, Chain
  <2>6. BytesAreTheWords(u)
    BY <2>1, <2>2, <2>3 DEF BytesAreTheWords, Holds
  <2>7. \A p : WordAt(p)' = WordAt(p) /\ StepAt(p)' = StepAt(p)
    BY <1>2, SameWords
  <2>8. units \in Seq(UnitType) /\ u \in UnitType
    BY <1>1, HandedType DEF IInv, Types, u
  <2>9. ASSUME NEW k \in 1 .. Len(units')
        PROVE  WordsCover(units[k])' /\ BytesAreTheWords(units[k])'
    <3>1. CASE k = Len(units) + 1
      <4>1. units'[k] = u
        BY <1>5, <2>8, <3>1 DEF u
      <4> QED
        BY <2>5, <2>6, <2>7, <4>1 DEF WordsCover, BytesAreTheWords, Kept
    <3>2. CASE k # Len(units) + 1
      <4>1. k \in 1 .. Len(units) /\ units'[k] = units[k]
        BY <1>5, <2>8, <3>2 DEF u
      <4>2. WordsCover(units[k]) /\ BytesAreTheWords(units[k])
        BY <4>1, WordsAre DEF HandedWords
      <4> QED
        BY <2>7, <4>1, <4>2 DEF WordsCover, BytesAreTheWords, Kept
    <3> QED
      BY <3>1, <3>2
  <2> QED
    BY <1>3, <1>5, <2>9 DEF WordsInv, HandedWords
<1> QED
  BY <1>3, <1>4, <1>5

LEMMA SaveTrailingWords ==
  ASSUME IInv, WordsInv, SaveTrailing
  PROVE  WordsInv'
<1> USE DEF stream_vars, first_byte_vars, picture_vars
<1>1. /\ input' = input /\ phase = "parsing" /\ phase' = "waiting"
      /\ UNCHANGED <<saved_place, origin, words, have_seen_first_start_code, saved_to,
                     saved_num_truncated_bytes, units>>
  BY DEF SaveTrailing
<1>2. \A i \in 1 .. saved_to : to'[i] = to[i]
  <2> DEFINE room == MaxSize - Len(to)
             left == received - place
             saved == IF left <= room THEN left ELSE room
  <2>1. to' = to \o Bytes(place, saved)
    BY DEF SaveTrailing
  <2>2. saved \in Nat /\ place \in Nat /\ place + saved <= Len(input) /\ InputType
    BY Unfolded
  <2> HIDE DEF saved
  <2>3. Bytes(place, saved) \in Seq(0 .. 255)
    BY <2>2, SubBytes DEF Bytes
  <2>4. to \in Seq(0 .. 255) /\ saved_to \in Nat /\ saved_to <= Len(to) /\ Len(to) \in Nat
    BY Unfolded
  <2>5. \A i \in 1 .. Len(to) : (to \o Bytes(place, saved))[i] = to[i]
    BY <2>3, <2>4, ConcatProperties
  <2> QED
    BY <2>1, <2>4, <2>5
<1> QED
  BY <1>1, <1>2, SafeKept

LEMMA NextKeepsWords == IInv /\ WordsInv /\ [Next]_vars => WordsInv'
<1> SUFFICES ASSUME IInv, WordsInv, [Next]_vars PROVE WordsInv'
  OBVIOUS
<1> USE DEF stream_vars, place_vars, first_byte_vars, output_vars, picture_vars
<1>1. CASE GetNextFrame \/ SkipToFirstStartCode
  BY <1>1, StartWords
<1>2. CASE AskForMore
  BY <1>2, SafeKept DEF AskForMore
<1>3. CASE SaveBytes
  BY <1>3, SaveBytesWords
<1>4. CASE InterruptedAtUnitEnd
  BY <1>4, SafeKept DEF InterruptedAtUnitEnd, AtStartCode, Scanning
<1>5. ASSUME NEW taken \in BOOLEAN, EndUnit(taken) PROVE WordsInv'
  BY <1>5, EndUnitWords
<1>6. CASE SaveTrailing
  BY <1>6, SaveTrailingWords
<1>7. ASSUME NEW k \in 1 .. MaxRead, BytesArrive(k) PROVE WordsInv'
  BY <1>7, RestoredWords DEF BytesArrive
<1>8. CASE FirstClosure
  BY <1>8, RestoredWords DEF FirstClosure
<1>9. CASE SecondClosure
  BY <1>9, SafeKept DEF SecondClosure
<1>10. CASE StopGettingFrames
  <2>1. phase' = "idle" /\ input' = input /\ units' = units
    BY <1>10 DEF StopGettingFrames
  <2> QED
    BY <2>1, WordsAre DEF WordsInv
<1>11. CASE UNCHANGED vars
  BY <1>11, SafeKept DEF vars
<1> QED
  BY <1>1, <1>2, <1>3, <1>4, <1>5, <1>6, <1>7, <1>8, <1>9, <1>10, <1>11 DEF Next, Parse, Answer

LEMMA InitWordsInv == Init => WordsInv
BY DEF Init, WordsInv, HandedWords

(* For every file, every way to cut it into reads, every size of the reader's *)
(* buffer and stops at any time: every unit handed on is one of the file's,   *)
(* none is handed on twice or out of order, and without a stop none is left   *)
(* out; and its bytes are the words that parse() saves of it, one behind the  *)
(* other from its first byte to its last: four bytes of the file, or one      *)
(* behind three of zero, the words that do not fit counted as truncated       *)
(* (parse() and do_stop_getting_frames(),                                    *)
(* livemedia/h264or5_video_stream_framer.c).                                 *)
THEOREM HandedOnInOrder == Spec => []UnitsInOrder
<1>1. IInv /\ WordsInv => UnitsInOrder
  BY DEF IInv, Types, OrderInv, UnitsInOrder, Before, SpanOf, WordsInv, HandedWords
<1>2. Spec => Init /\ [][Next]_vars
  BY DEF Spec
<1> QED
  BY <1>1, <1>2, InitIInv, NextKeeps, InitWordsInv, NextKeepsWords, PTL

(* And the marker, the picture count and the parameter sets a unit is handed  *)
(* on with are those that the whole file tells, also when the parse was       *)
(* interrupted between the unit's end and the look at the next one and had    *)
(* forgotten its first byte (parse(), same file).                            *)
THEOREM HandedOnLabelled == Spec => []UnitsLabelled
<1>1. IInv => UnitsLabelled
  BY DEF IInv, LabelsInv, UnitsLabelled
<1> QED
  BY <1>1, ParserKeepsItsPlace, PTL

------------------------------------------------------------------------------
(* The end of the file. *)

(* The parser waits behind the code that ends a unit, whose picture's end the *)
(* bytes there do not yet tell.                                              *)
Undecided ==
  /\ have_seen_first_start_code
  /\ saved_place + 4 <= received /\ StartCode(saved_place)
  /\ place = saved_place + CodeLength(saved_place) /\ place + 3 > received
  /\ ~TypeDecides(nal_unit_type(Byte(origin)))

(* Nothing that should be handed on lies behind the place. *)
Complete ==
  /\ received = Len(input)
  /\ ~have_seen_first_start_code => place + 4 > received
  /\ \A s \in Spans : Decidable(s) => have_seen_first_start_code /\ s.first < origin

IsHanded(s) == \E k \in 1 .. Len(units) : SpanOf(units[k]) = s

EndInv ==
  stops = 0 =>
    /\ have_seen_first_start_code =>
         \A s \in Spans : s.first < origin => Decidable(s) /\ (phase = "stalled" \/ IsHanded(s))
    /\ \A k \in 1 .. Len(units) : units[k].first < origin
    /\ phase = "waiting" /\ ~have_seen_eof =>
         (place = saved_place /\ place + 4 > received) \/ Undecided
    /\ have_seen_eof \/ phase = "closed" => Complete

LEMMA SameSpans ==
  ASSUME input' = input
  PROVE  /\ Spans' = Spans
         /\ \A s : Decidable(s)' = Decidable(s)
         /\ \A p : Byte(p)' = Byte(p) /\ StartCode(p)' = StartCode(p) /\ CodeLength(p)' = CodeLength(p)
<1>1. Spans' = Spans
  BY SameInput
<1>2. \A p : Byte(p)' = Byte(p) /\ StartCode(p)' = StartCode(p) /\ CodeLength(p)' = CodeLength(p)
  BY DEF Byte, StartCode, CodeLength, LongCode, Bytes
<1>3. \A s : Decidable(s)' = Decidable(s)
  BY <1>2 DEF Decidable, TypeOf, NextUnitOf
<1> QED
  BY <1>1, <1>2, <1>3

(* A step that hands nothing on and does not learn of the end. *)
LEMMA EndAsBefore ==
  ASSUME EndInv, input' = input,
         UNCHANGED <<units, stops, origin, have_seen_first_start_code>>,
         phase = "stalled" => phase' = "stalled",
         phase' = "waiting" /\ ~have_seen_eof' =>
           (place' = saved_place' /\ place' + 4 > received') \/ Undecided',
         have_seen_eof' \/ phase' = "closed" =>
           /\ have_seen_eof \/ phase = "closed"
           /\ received' = received /\ (~have_seen_first_start_code => place' = place)
  PROVE  EndInv'
<1>1. \A s : IsHanded(s)' = IsHanded(s)
  BY DEF IsHanded, SpanOf
<1> QED
  BY <1>1, SameSpans DEF EndInv, Complete

(* Where the parse was left for want of bytes and no more come, every unit    *)
(* that can be decided has begun before the place.                           *)
LEMMA CompleteAtEnd ==
  ASSUME IInv, EndInv, stops = 0, phase = "waiting", ~have_seen_eof, received = Len(input),
         NEW s \in Spans, Decidable(s)
  PROVE  have_seen_first_start_code /\ s.first < origin
<1>1. /\ InputType /\ origin \in Nat /\ place \in Nat /\ saved_place \in Nat /\ Len(input) \in Nat
  BY Unfolded
<1>2. PICK a \in Codes, b \in Codes : Follows(b, a) /\ s = Span(a, b)
  BY <1>1, SpansAre
<1>3. /\ s.first = a + CodeLength(a) /\ s.last = b - 1 /\ a < b /\ NoCode(a + 1, b)
      /\ a \in Nat /\ b \in Nat /\ b + 4 <= Len(input) /\ CodeLength(a) \in {3, 4}
  BY <1>1, <1>2, CodeType DEF Span, Follows, CodeLength
<1>4. (place = saved_place /\ place + 4 > Len(input)) \/ Undecided
  BY DEF EndInv
<1>5. have_seen_first_start_code
  <2> SUFFICES ASSUME ~have_seen_first_start_code PROVE FALSE
    OBVIOUS
  <2>1. place = origin /\ place + 4 > Len(input)
    BY <1>4 DEF Undecided, IInv, PlacesInv
  <2>2. \A q \in 0 .. Len(input) - 4 : q < origin => ~LongCode(q)
    BY DEF IInv, OrderInv
  <2>3. PICK q \in 0 .. Len(input) - 4 : LongCode(q)
    BY DEF Codes
  <2>4. q < origin
    BY <1>1, <2>1
  <2> QED
    BY <2>2, <2>3, <2>4
<1>6. origin \in Starts /\ origin <= saved_place /\ NoCode(origin, saved_place)
  BY <1>5 DEF IInv, PlacesInv
<1>7. ASSUME ~(s.first < origin) PROVE FALSE
  <2>1. a + CodeLength(a) <= b
    BY <1>1, <1>3, CodesApart
  <2>2. saved_place <= b
    <3>1. origin <= b
      BY <1>1, <1>3, <1>7, <2>1
    <3>2. ~(b < saved_place)
      BY <1>6, <3>1 DEF NoCode
    <3> QED
      BY <1>1, <1>3, <3>2
  <2>3. CASE ~Undecided
    BY <1>1, <1>3, <1>4, <2>2, <2>3
  <2>4. CASE Undecided
    <3>1. saved_place + 4 <= Len(input) /\ StartCode(saved_place)
          /\ place = saved_place + CodeLength(saved_place) /\ place + 3 > Len(input)
          /\ ~TypeDecides(nal_unit_type(Byte(origin)))
      BY <2>4 DEF Undecided
    <3>2. saved_place \in Codes
      BY <1>1, <1>6, <3>1, NextCodeIsCode
    <3>3. b = saved_place
      <4> SUFFICES ASSUME saved_place < b PROVE FALSE
        BY <1>1, <1>3, <2>2
      <4>1. place <= b
        BY <1>1, <3>1, <3>2, CodesApart
      <4> QED
        BY <1>1, <1>3, <3>1, <4>1
    <3>4. s \in Begun(saved_place + CodeLength(saved_place))
      BY <1>3, <2>1, <3>3 DEF Begun, CodeLength
    <3>5. s \in Begun(origin) \/ s = [first |-> origin, last |-> saved_place - 1]
      BY <1>1, <1>6, <3>2, <3>4, UnitEnds
    <3>6. s = [first |-> origin, last |-> saved_place - 1]
      BY <1>7, <3>5 DEF Begun
    <3>7. TypeOf(s) = nal_unit_type(Byte(origin)) /\ NextUnitOf(s) = place
      <4>1. (saved_place - 1) + 1 = saved_place
        BY <1>1
      <4> QED
        BY <3>1, <3>6, <4>1 DEF TypeOf, NextUnitOf
    <3> QED
      BY <1>1, <3>1, <3>7 DEF Decidable
  <2> QED
    BY <2>3, <2>4
<1> QED
  BY <1>5, <1>7

LEMMA FirstClosureEnds ==
  ASSUME IInv, EndInv, FirstClosure
  PROVE  EndInv'
<1>1. /\ phase = "waiting" /\ phase' = "parsing" /\ received = Len(input) /\ ~have_seen_eof
      /\ input' = input /\ received' = received /\ origin' = origin /\ units' = units
      /\ stops' = stops /\ have_seen_first_start_code' = have_seen_first_start_code
      /\ place' = saved_place
  BY DEF FirstClosure, RestoreSavedParserState, stream_vars
<1>2. ASSUME stops = 0 PROVE Complete'
  <2>1. ASSUME ~have_seen_first_start_code PROVE place' + 4 > received'
    <3>1. place = saved_place /\ ~Undecided
      BY <2>1 DEF IInv, PlacesInv, Undecided
    <3> QED
      BY <1>1, <1>2, <3>1 DEF EndInv
  <2>2. \A s \in Spans : Decidable(s) => have_seen_first_start_code /\ s.first < origin
    BY <1>1, <1>2, CompleteAtEnd
  <2> QED
    BY <1>1, <2>1, <2>2, SameSpans DEF Complete
<1>3. \A s : IsHanded(s)' = IsHanded(s)
  BY <1>1 DEF IsHanded, SpanOf
<1> QED
  BY <1>1, <1>2, <1>3, SameSpans DEF EndInv

(* The unit that ends is one that can be decided, and is handed on unless it  *)
(* is empty.                                                                 *)
LEMMA EndUnitEnds ==
  ASSUME IInv, EndInv, NEW taken \in BOOLEAN, EndUnit(taken)
  PROVE  EndInv'
<1> DEFINE type == nal_unit_type(FirstByte)
           span == [first |-> origin, last |-> place - 1]
<1>1. AtCode(type) /\ Ended(type, taken) /\ (TypeDecides(type) \/ NextUnit + 3 <= received)
  BY EndedHolds DEF EndUnit
<1>2. TypeDecides(type) => type = nal_unit_type(Byte(origin))
  BY <1>1 DEF AtCode, TypeDecides, is_eof, usually_begin_access_unit
<1> HIDE DEF type
<1>3. /\ input' = input /\ stops' = stops /\ origin' = NextUnit /\ received' = received
      /\ have_seen_first_start_code' = have_seen_first_start_code /\ ~have_seen_eof'
      /\ ~have_seen_eof /\ phase = "parsing"
  BY <1>1 DEF Ended, AtCode
<1>4. /\ to = << >> /\ phase' = "stalled" /\ units' = units
      \/ /\ phase' = "idle" /\ units' = Append(units, Handed(type, taken))
  BY <1>1 DEF Ended, Deliver, Handed
<1>5. /\ InputType /\ origin \in Starts /\ place \in Codes /\ NoCode(origin, place)
      /\ origin \in Nat /\ place \in Nat /\ NextUnit \in Nat /\ origin <= place /\ place < NextUnit
      /\ have_seen_first_start_code /\ received <= Len(input) /\ received \in Nat /\ Len(input) \in Nat
      /\ units \in Seq(UnitType) /\ Len(units) \in Nat
  BY <1>1 DEF AtCode, IInv, Types
<1>6. span \in Spans /\ Begun(NextUnit) = Begun(origin) \cup {span}
  BY <1>5, UnitEnds DEF NextUnit
<1>7. Decidable(span)
  <2>1. TypeOf(span) = nal_unit_type(Byte(origin))
    BY DEF TypeOf
  <2>2. NextUnitOf(span) = NextUnit
    <3>1. (place - 1) + 1 = place
      BY <1>5
    <3> QED
      BY <3>1 DEF NextUnitOf, NextUnit
  <2>3. NextUnit + 3 <= received => NextUnit + 3 <= Len(input)
    BY <1>5
  <2> QED
    BY <1>1, <1>2, <2>1, <2>2, <2>3 DEF Decidable
<1>8. ASSUME phase' # "stalled", NEW s \in Spans, s = span \/ IsHanded(s) PROVE IsHanded(s)'
  <2>1. Handed(type, taken) \in UnitType /\ SpanOf(Handed(type, taken)) = span
    BY <1>1, HandedType DEF Handed, SpanOf
  <2>2. /\ Len(units') = Len(units) + 1 /\ units'[Len(units) + 1] = Handed(type, taken)
        /\ \A k \in 1 .. Len(units) : units'[k] = units[k]
    BY <1>4, <1>5, <1>8, <2>1, AppendProperties
  <2>3. \A k : SpanOf(units[k])' = SpanOf(units'[k])
    BY DEF SpanOf
  <2>4. CASE s = span
    <3>1. Len(units) + 1 \in 1 .. Len(units') /\ SpanOf(units'[Len(units) + 1]) = s
      BY <1>5, <2>1, <2>2, <2>4
    <3> QED
      BY <2>3, <3>1 DEF IsHanded, SpanOf
  <2>5. CASE IsHanded(s)
    <3>1. PICK k \in 1 .. Len(units) : SpanOf(units[k]) = s
      BY <2>5 DEF IsHanded
    <3>2. k \in 1 .. Len(units') /\ units'[k] = units[k]
      BY <1>5, <2>2, <3>1
    <3> QED
      BY <3>1, <3>2 DEF IsHanded, SpanOf
  <2> QED
    BY <1>8, <2>4, <2>5
<1>9. ASSUME stops = 0, NEW s \in Spans, s.first < NextUnit
      PROVE  Decidable(s) /\ (phase' = "stalled" \/ IsHanded(s)')
  <2>1. s \in Begun(origin) \/ s = span
    BY <1>6, <1>9 DEF Begun
  <2>2. s \in Begun(origin) => Decidable(s) /\ IsHanded(s)
    BY <1>3, <1>5, <1>9 DEF Begun, EndInv
  <2> QED
    BY <1>7, <1>8, <2>1, <2>2
<1>10. ASSUME stops = 0, NEW k \in 1 .. Len(units') PROVE units'[k].first < NextUnit
  <2>1. \A j \in 1 .. Len(units) : units[j].first < origin /\ units[j].first \in Nat
    BY <1>10, HandedOn DEF EndInv
  <2>2. CASE units' = units
    BY <1>5, <2>1, <2>2
  <2>3. CASE units' = Append(units, Handed(type, taken))
    <3>1. Handed(type, taken) \in UnitType /\ Handed(type, taken).first = origin
      BY <1>1, HandedType DEF Handed
    <3>2. /\ Len(units') = Len(units) + 1 /\ units'[Len(units) + 1] = Handed(type, taken)
          /\ \A j \in 1 .. Len(units) : units'[j] = units[j]
      BY <1>5, <2>3, <3>1, AppendProperties
    <3>3. k = Len(units) + 1 \/ k \in 1 .. Len(units)
      BY <1>5, <3>2
    <3> QED
      BY <1>5, <2>1, <3>1, <3>2, <3>3
  <2> QED
    BY <1>4, <2>2, <2>3
<1>11. phase' # "waiting" /\ phase' # "closed"
  BY <1>4
<1> QED
  BY <1>3, <1>9, <1>10, <1>11, SameSpans DEF EndInv

LEMMA SkipEnds ==
  ASSUME IInv, EndInv, SkipToFirstStartCode
  PROVE  EndInv'
<1>1. /\ input' = input /\ stops' = stops /\ units' = units /\ received' = received
      /\ phase = "parsing" /\ phase' = "parsing" /\ have_seen_eof' = have_seen_eof
      /\ ~have_seen_first_start_code /\ place + 4 <= received
      /\ have_seen_first_start_code' = LongCode(place)
      /\ origin' = (IF LongCode(place) THEN place + 4 ELSE place + 1)
  BY DEF SkipToFirstStartCode, Available, stream_vars
<1>2. /\ InputType /\ place \in Nat /\ place = origin /\ received \in Nat /\ Len(input) \in Nat
      /\ place + 4 <= Len(input)
  <2>1. /\ InputType /\ place \in Nat /\ received \in Nat /\ received <= Len(input) /\ Len(input) \in Nat
    BY Unfolded
  <2> QED
    BY <1>1, <2>1 DEF IInv, PlacesInv
<1>3. ASSUME stops = 0
      PROVE  ~have_seen_eof /\ units = << >> /\ (LongCode(place) => Begun(place + 4) = {})
  <2>1. ~have_seen_eof
    BY <1>1, <1>2, <1>3 DEF EndInv, Complete
  <2>2. units = << >> /\ \A q \in 0 .. Len(input) - 4 : q < place => ~LongCode(q)
    BY <1>1, <1>2, <1>3 DEF IInv, OrderInv
  <2> QED
    BY <1>2, <2>1, <2>2, NoneBegun
<1> QED
  BY <1>1, <1>3, SameSpans DEF EndInv, Begun

LEMMA EndKept == IInv /\ EndInv /\ [Next]_vars => EndInv'
<1> SUFFICES ASSUME IInv, EndInv, [Next]_vars PROVE EndInv'
  OBVIOUS
<1> USE DEF stream_vars, place_vars, first_byte_vars, picture_vars, output_vars
<1>1. CASE GetNextFrame
  BY <1>1, EndAsBefore DEF GetNextFrame
<1>2. CASE AskForMore
  <2>1. place = saved_place /\ place + 4 > received
    BY <1>2, Unfolded DEF AskForMore, Available, IInv, PlacesInv
  <2> QED
    BY <1>2, <2>1, EndAsBefore DEF AskForMore
<1>3. CASE SkipToFirstStartCode
  BY <1>3, SkipEnds
<1>4. CASE SaveBytes
  BY <1>4, EndAsBefore DEF SaveBytes, Scanning
<1>5. CASE InterruptedAtUnitEnd
  <2> DEFINE type == nal_unit_type(FirstByte)
  <2>1. AtCode(type) /\ ~TypeDecides(type)
    BY <1>5, AtCodeHolds DEF InterruptedAtUnitEnd
  <2>2. ~TypeDecides(nal_unit_type(Byte(origin)))
    <3>1. CASE origin < place
      BY <2>1, <3>1 DEF AtCode
    <3>2. CASE ~(origin < place)
      <4>1. type = 0 /\ origin = place /\ ~have_seen_first_byte_of_nal_unit
        BY <2>1, <3>2 DEF AtCode
      <4> QED
        BY <2>1, <4>1 DEF FirstByte
    <3> QED
      BY <3>1, <3>2
  <2>3. /\ input' = input /\ received' = received /\ phase' = "waiting" /\ place' = NextUnit
        /\ origin' = origin /\ saved_place' = saved_place /\ units' = units /\ stops' = stops
        /\ have_seen_first_start_code' = have_seen_first_start_code
        /\ have_seen_eof' = have_seen_eof /\ NextUnit + 3 > received /\ phase = "parsing"
        /\ StartCode(place)
    BY <1>5, <2>1 DEF InterruptedAtUnitEnd, AtStartCode, AtCode
  <2>4. Undecided'
    BY <2>1, <2>2, <2>3, SameSpans DEF Undecided, AtCode, NextUnit
  <2> QED
    BY <2>1, <2>3, <2>4, EndAsBefore DEF AtCode
<1>6. ASSUME NEW taken \in BOOLEAN, EndUnit(taken) PROVE EndInv'
  BY <1>6, EndUnitEnds
<1>7. CASE SaveTrailing
  BY <1>7, EndAsBefore DEF SaveTrailing
<1>8. ASSUME NEW k \in 1 .. MaxRead, BytesArrive(k) PROVE EndInv'
  <2>1. /\ phase = "waiting" /\ phase' = "parsing" /\ input' = input /\ units' = units /\ stops' = stops
        /\ origin' = origin /\ have_seen_first_start_code' = have_seen_first_start_code
        /\ have_seen_eof' = have_seen_eof /\ received + k <= Len(input)
    BY <1>8 DEF BytesArrive
  <2>2. received # Len(input)
    BY <2>1, Unfolded
  <2>3. stops = 0 => ~have_seen_eof
    BY <2>2 DEF EndInv, Complete
  <2>4. \A s : IsHanded(s)' = IsHanded(s)
    BY <2>1 DEF IsHanded, SpanOf
  <2> QED
    BY <2>1, <2>3, <2>4, SameSpans DEF EndInv
<1>9. CASE FirstClosure
  BY <1>9, FirstClosureEnds
<1>10. CASE SecondClosure
  BY <1>10, EndAsBefore DEF SecondClosure
<1>11. CASE StopGettingFrames
  <2>1. stops' # 0
    BY <1>11 DEF StopGettingFrames, IInv, Types
  <2> QED
    BY <2>1 DEF EndInv
<1>12. CASE UNCHANGED vars
  <2>1. Undecided' = Undecided
    BY <1>12 DEF vars, Undecided, StartCode, CodeLength, LongCode, Bytes, Byte
  <2> QED
    BY <1>12, <2>1, EndAsBefore DEF vars, EndInv
<1> QED
  BY <1>1, <1>2, <1>3, <1>4, <1>5, <1>6, <1>7, <1>8, <1>9, <1>10, <1>11, <1>12
     DEF Next, Parse, Answer

LEMMA InitEnd == Init => EndInv
BY DEF Init, EndInv

LEMMA EndAlways == Spec => [](IInv /\ EndInv)
<1>1. Spec => Init /\ [][Next]_vars
  BY DEF Spec
<1> QED
  BY <1>1, InitIInv, InitEnd, NextKeeps, EndKept, PTL

(* When the reader is told that the file ended, and never stopped, it has had *)
(* every unit that a start code follows and whose picture's end could be told *)
(* from the bytes behind it, and no other.                                   *)
THEOREM HandedOnAtTheEnd == Spec => []AllHandedOn
<1>1. ASSUME IInv, EndInv, phase = "closed", stops = 0
      PROVE  {SpanOf(units[k]) : k \in 1 .. Len(units)} = {span \in Spans : Decidable(span)}
  <2>1. /\ Complete /\ \A k \in 1 .. Len(units) : units[k].first < origin /\ SpanOf(units[k]) \in Spans
        /\ have_seen_first_start_code =>
             \A s \in Spans : s.first < origin => Decidable(s) /\ IsHanded(s)
    BY <1>1 DEF EndInv, IInv, OrderInv
  <2>2. ~have_seen_first_start_code => units = << >>
    BY <1>1 DEF IInv, OrderInv
  <2>3. ASSUME NEW k \in 1 .. Len(units) PROVE Decidable(SpanOf(units[k]))
    <3>1. have_seen_first_start_code
      BY <2>2
    <3>2. SpanOf(units[k]).first < origin
      BY <2>1 DEF SpanOf
    <3> QED
      BY <2>1, <3>1, <3>2
  <2>4. ASSUME NEW s \in Spans, Decidable(s) PROVE \E k \in 1 .. Len(units) : SpanOf(units[k]) = s
    BY <2>1, <2>4 DEF Complete, IsHanded
  <2> QED
    BY <2>1, <2>3, <2>4
<1>2. IInv /\ EndInv => AllHandedOn
  BY <1>1 DEF AllHandedOn
<1> QED
  BY <1>2, EndAlways, PTL

------------------------------------------------------------------------------
(* Stalls. *)

StallInv == phase = "stalled" => MaxSize < 4 \/ ~NoEmptyUnits

LEMMA StallKept == IInv /\ StallInv /\ [Next]_vars => StallInv'
<1> SUFFICES ASSUME IInv, StallInv, [Next]_vars PROVE StallInv'
  OBVIOUS
<1>1. ASSUME NEW taken \in BOOLEAN, EndUnit(taken) PROVE StallInv'
  <2> DEFINE type == nal_unit_type(FirstByte)
             span == [first |-> origin, last |-> place - 1]
  <2>1. AtCode(type) /\ Ended(type, taken)
    BY <1>1, EndedHolds
  <2> HIDE DEF type
  <2>2. CASE to # << >>
    BY <2>1, <2>2 DEF Ended, Deliver, StallInv
  <2>3. CASE to = << >> /\ MaxSize >= 4
    <3>1. Len(to) = 0 /\ MaxSize \in Nat /\ origin \in Nat /\ place \in Nat
      BY <2>3, Unfolded
    <3>2. origin = place
      BY <2>1, <2>3, <3>1 DEF AtCode, IInv, BufferInv
    <3>3. span \in Spans
      BY <2>1, UnitEnds DEF AtCode
    <3>4. ~NoEmptyUnits
      BY <3>1, <3>2, <3>3 DEF NoEmptyUnits
    <3>5. Spans' = Spans
      BY <2>1, SameInput DEF Ended
    <3> QED
      BY <3>4, <3>5 DEF StallInv, NoEmptyUnits
  <2>4. CASE MaxSize < 4
    BY <2>4 DEF StallInv
  <2> QED
    BY <2>2, <2>3, <2>4, Unfolded
<1>2. CASE UNCHANGED vars
  <2>1. Spans' = Spans /\ phase' = phase
    BY <1>2, SameInput DEF vars
  <2> QED
    BY <2>1 DEF StallInv, NoEmptyUnits
<1>3. CASE Next /\ ~\E taken \in BOOLEAN : EndUnit(taken)
  <2>1. phase' # "stalled"
    BY <1>3 DEF Next, Parse, Answer, GetNextFrame, AskForMore, SkipToFirstStartCode, SaveBytes, Scanning,
                InterruptedAtUnitEnd, SaveTrailing, BytesArrive, FirstClosure, SecondClosure,
                StopGettingFrames
  <2> QED
    BY <2>1 DEF StallInv
<1> QED
  BY <1>1, <1>2, <1>3

(* The parser stops asking for bytes without a frame only where the file has  *)
(* a unit of no bytes, if the reader's buffer has room for the word that      *)
(* save4_bytes() saves at a time.                                            *)
THEOREM StallsAsStated ==
  ASSUME MaxSize >= 4
  PROVE  Spec => []StallsOnEmptyUnitOnly
<1>1. Init => StallInv
  BY DEF Init, StallInv
<1>2. StallInv => StallsOnEmptyUnitOnly
  BY BoundsAssumption DEF StallInv, StallsOnEmptyUnitOnly
<1>3. Spec => Init /\ [][Next]_vars
  BY DEF Spec
<1> QED
  BY <1>1, <1>2, <1>3, InitIInv, NextKeeps, StallKept, PTL

------------------------------------------------------------------------------
(* The fragmenter: what its buffer and its fragments hold. *)

CellKinds == {"data", "FU indicator", "S", "", "E", "unwritten", "outside"}
CellValues == CellKinds \X {0, 1} \X Nat
Fragments == Seq(CellValues)

(* What a state holds beside the counters of FragmenterTypeOK. *)
FragmenterValuesOK ==
  /\ input_buffer \in [BufferIndices -> CellValues]
  /\ unit \in {0, 1} /\ size \in 0 .. InputBufferMax
  /\ fragments \in Seq(Fragments)
  /\ is_currently_awaiting_data => num_valid_data_bytes = 1
  /\ Fragmented => fragments # << >>

(* What is not sent yet of a unit: it begins where the next fragment's bytes  *)
(* belong, is intact in the buffer, and so is the header byte in front.      *)
RestIntact ==
  num_valid_data_bytes > 1 =>
    /\ Fragmented /\ num_valid_data_bytes = size + 1
    /\ cur_data_offset = ByteAt(Len(fragments) + 1, 3)
    /\ Len(fragments[Len(fragments)]) = MaxOutputPacketSize
    /\ input_buffer[0] = Indicator(unit)
    /\ \A i \in cur_data_offset .. size : input_buffer[i] = Data(unit, i)

(* The inductive invariant. *)
FragmentsIInv ==
  /\ FragmenterTypeOK
  /\ FragmenterValuesOK
  /\ RestIntact
  /\ BytesSentInOrder
  /\ StartMarkedOnce
  /\ FragmentedNeverCompleted

------------------------------------------------------------------------------
(* Lemmas about the operators of the model. *)

LEMMA PlacesOfBytes ==
  ASSUME NEW k \in Nat \ {0}, NEW j \in Nat
  PROVE  /\ ByteAt(k, j) \in Int
         /\ ByteAt(k, j) = ByteAt(k, 3) + j - 3
         /\ ByteAt(k, 3) >= 2
         /\ ByteAt(k + 1, 3) = ByteAt(k, 3) + MaxOutputPacketSize - 2
<1> DEFINE p == (k - 1) * (MaxOutputPacketSize - 2)
<1>1. p \in Nat
  BY SizesAssumption
<1>2. (k + 1 - 1) * (MaxOutputPacketSize - 2) = p + (MaxOutputPacketSize - 2)
  BY SizesAssumption
<1>3. ByteAt(k, j) = p + j - 1 /\ ByteAt(k, 3) = p + 3 - 1
  BY DEF ByteAt
<1>4. ByteAt(k + 1, 3) = p + (MaxOutputPacketSize - 2) + 3 - 1
  BY <1>2 DEF ByteAt
<1> HIDE DEF p
<1> QED
  BY <1>1, <1>3, <1>4, SizesAssumption

LEMMA FirstBytes ==
  ASSUME NEW j \in Nat
  PROVE  ByteAt(1, j) = j - 1
<1>1. (1 - 1) * (MaxOutputPacketSize - 2) = 0
  BY SizesAssumption
<1> QED
  BY <1>1 DEF ByteAt

LEMMA CellsOf ==
  ASSUME NEW buffer \in [BufferIndices -> CellValues], NEW from \in Nat, NEW n \in Nat
  PROVE  /\ Cells(buffer, from, n) \in Fragments
         /\ Len(Cells(buffer, from, n)) = n
         /\ \A j \in 1 .. n : from + j - 1 \in BufferIndices =>
              Cells(buffer, from, n)[j] = buffer[from + j - 1]
<1>1. Outside \in CellValues
  BY DEF Outside, CellKinds, CellValues
<1>2. \A j \in 1 .. n : Cell(buffer, from + j - 1) \in CellValues
  BY <1>1 DEF Cell
<1>3. Cells(buffer, from, n) = [j \in 1 .. n |-> Cell(buffer, from + j - 1)]
  BY DEF Cells
<1>4. Cells(buffer, from, n) \in [1 .. n -> CellValues]
  BY <1>2, <1>3
<1>5. Len(Cells(buffer, from, n)) = n
  BY <1>3
<1>6. \A j \in 1 .. n : from + j - 1 \in BufferIndices =>
        Cells(buffer, from, n)[j] = buffer[from + j - 1]
  BY <1>3 DEF Cell
<1> QED
  BY <1>4, <1>5, <1>6 DEF Fragments

LEMMA CellTypes ==
  ASSUME NEW u \in {0, 1}
  PROVE  /\ \A i \in Nat : Data(u, i) \in CellValues
         /\ Indicator(u) \in CellValues
         /\ \A kind \in {"S", "", "E"} : Header(kind, u) \in CellValues
BY DEF Data, Indicator, Header, CellKinds, CellValues

LEMMA UnitInBuffer ==
  ASSUME FragmenterValuesOK, NEW u \in {0, 1}, NEW n \in 0 .. InputBufferMax
  PROVE  /\ WithUnit(u, n) \in [BufferIndices -> CellValues]
         /\ \A i \in 1 .. n : WithUnit(u, n)[i] = Data(u, i)
<1>1. \A i \in 1 .. n : Data(u, i) \in CellValues
  <2>1. 1 .. n \subseteq Nat
    BY SizesAssumption
  <2>2. \A i \in Nat : Data(u, i) \in CellValues
    BY CellTypes
  <2> QED
    BY <2>1, <2>2
<1>2. \A i \in BufferIndices : input_buffer[i] \in CellValues
  BY DEF FragmenterValuesOK
<1>3. n \in Nat /\ 1 .. n \subseteq BufferIndices
  BY SizesAssumption DEF BufferIndices
<1> QED
  BY <1>1, <1>2, <1>3 DEF WithUnit

------------------------------------------------------------------------------
LEMMA FragmenterInitIInv == FragmenterInit => FragmentsIInv
<1> SUFFICES ASSUME FragmenterInit PROVE FragmentsIInv
  OBVIOUS
<1>1. FragmenterTypeOK
  <2>1. last_fragment_completed_nal_unit \in BOOLEAN /\ is_currently_awaiting_data \in BOOLEAN
    BY DEF FragmenterInit
  <2> QED
    BY <2>1, SizesAssumption DEF FragmenterInit, FragmenterTypeOK
<1>2. ~Fragmented /\ fragments = << >>
  BY SizesAssumption DEF FragmenterInit, Fragmented
<1>3. Unwritten \in CellValues
  BY DEF Unwritten, CellKinds, CellValues
<1>4. FragmenterValuesOK
  BY <1>2, <1>3, SizesAssumption DEF FragmenterInit, FragmenterValuesOK
<1>5. RestIntact
  BY DEF FragmenterInit, RestIntact
<1>6. BytesSentInOrder /\ StartMarkedOnce
  BY <1>2 DEF BytesSentInOrder, StartMarkedOnce
<1>7. FragmentedNeverCompleted
  BY <1>2 DEF FragmentedNeverCompleted
<1> QED
  BY <1>1, <1>4, <1>5, <1>6, <1>7 DEF FragmentsIInv

(* A first fragment: cells 0 and 1 are header bytes, the others the unit's. *)
LEMMA FirstFragmentIInv ==
  ASSUME FragmentsIInv, NEW n \in 1 .. InputBufferMax, NEW truncated \in Nat,
         AfterGettingFrame(n, truncated), FirstFragment(unit', n)
  PROVE  FragmentsIInv'
<1> DEFINE buffer == [WithUnit(unit', n) EXCEPT ![0] = Indicator(unit'), ![1] = Header("S", unit')]
           F == Cells(buffer, 0, MaxOutputPacketSize)
<1>1. unit' \in {0, 1} /\ size' = n /\ is_currently_awaiting_data' = FALSE
      /\ save_num_truncated_bytes' \in Nat
  BY DEF AfterGettingFrame, FragmentsIInv, FragmenterValuesOK
<1>2. /\ n > MaxOutputPacketSize /\ input_buffer' = buffer /\ fragments' = <<F>>
      /\ last_fragment_completed_nal_unit' = FALSE
  BY DEF FirstFragment
<1>3. cur_data_offset' = MaxOutputPacketSize /\ num_valid_data_bytes' = 1 + n
  BY <1>2, SizesAssumption DEF FirstFragment, Advance
<1>4. /\ WithUnit(unit', n) \in [BufferIndices -> CellValues]
      /\ \A i \in 1 .. n : WithUnit(unit', n)[i] = Data(unit', i)
  BY <1>1, UnitInBuffer, SizesAssumption DEF FragmentsIInv
<1>5. Indicator(unit') \in CellValues /\ Header("S", unit') \in CellValues
  BY <1>1, CellTypes
<1>6. 0 \in BufferIndices /\ 1 \in BufferIndices
  BY SizesAssumption DEF BufferIndices
<1>7. /\ buffer \in [BufferIndices -> CellValues]
      /\ buffer[0] = Indicator(unit') /\ buffer[1] = Header("S", unit')
      /\ \A i \in 2 .. n : buffer[i] = Data(unit', i)
  <2>1. 2 .. n \subseteq BufferIndices
    BY SizesAssumption DEF BufferIndices
  <2> QED
    BY <1>4, <1>5, <1>6, <2>1
<1> HIDE DEF buffer
<1>8. /\ F \in Fragments /\ Len(F) = MaxOutputPacketSize
      /\ \A j \in 1 .. MaxOutputPacketSize : 0 + j - 1 \in BufferIndices => F[j] = buffer[0 + j - 1]
  BY <1>7, CellsOf, SizesAssumption
<1> HIDE DEF F
<1>9. F[1] = Indicator(unit') /\ F[2] = Header("S", unit')
  BY <1>6, <1>7, <1>8, SizesAssumption
<1>10. \A j \in 3 .. MaxOutputPacketSize : F[j] = Data(unit', j - 1)
  <2> SUFFICES ASSUME NEW j \in 3 .. MaxOutputPacketSize PROVE F[j] = Data(unit', j - 1)
    OBVIOUS
  <2>1. j - 1 \in 2 .. n /\ j - 1 \in BufferIndices /\ 0 + j - 1 = j - 1 /\ j \in 1 .. MaxOutputPacketSize
    BY <1>2, SizesAssumption DEF BufferIndices
  <2> QED
    BY <1>7, <1>8, <2>1
<1>11. Len(fragments') = 1 /\ fragments'[1] = F /\ fragments' \in Seq(Fragments) /\ fragments' # << >>
  BY <1>2, <1>8
<1>12. Fragmented'
  BY <1>1, <1>2 DEF Fragmented
<1>13. FragmenterTypeOK'
  <2>1. last_fragment_completed_nal_unit' \in BOOLEAN /\ is_currently_awaiting_data' \in BOOLEAN
    BY <1>1, <1>2
  <2>2. num_valid_data_bytes' \in 1 .. InputBufferMax + 1 /\ cur_data_offset' \in 1 .. num_valid_data_bytes'
        /\ cur_data_offset' # num_valid_data_bytes'
    BY <1>2, <1>3, SizesAssumption
  <2> QED
    BY <1>1, <2>1, <2>2 DEF FragmenterTypeOK
<1>14. FragmenterValuesOK'
  <2>1. n \in 0 .. InputBufferMax
    OBVIOUS
  <2>2. BufferIndices' = BufferIndices
    BY DEF BufferIndices
  <2> QED
    BY <1>1, <1>2, <1>7, <1>11, <2>1, <2>2 DEF FragmenterValuesOK
<1>15. RestIntact'
  <2>1. ByteAt(1 + 1, 3) = MaxOutputPacketSize
    BY PlacesOfBytes, FirstBytes, SizesAssumption
  <2>2. ByteAt(Len(fragments') + 1, 3) = MaxOutputPacketSize
    BY <1>11, <2>1
  <2>3. \A i \in MaxOutputPacketSize .. n : buffer[i] = Data(unit', i)
    BY <1>7, SizesAssumption
  <2>4. num_valid_data_bytes' = size' + 1
    BY <1>1, <1>3
  <2> QED
    BY <1>1, <1>2, <1>3, <1>7, <1>8, <1>11, <1>12, <2>2, <2>3, <2>4 DEF RestIntact, ByteAt
<1>16. BytesSentInOrder'
  <2>1. \A k \in 2 .. Len(fragments') : FALSE
    BY <1>11
  <2>2. \A j \in 3 .. MaxOutputPacketSize : F[j] = Data(unit', ByteAt(1, j))
    BY <1>10, FirstBytes, SizesAssumption
  <2>3. \A k \in 1 .. Len(fragments') : k = 1
    BY <1>11
  <2>4. num_valid_data_bytes' # 1
    BY <1>3
  <2>5. ByteAt(1, 3) = 2 /\ ByteAt(1, MaxOutputPacketSize) = MaxOutputPacketSize - 1
    BY FirstBytes, SizesAssumption
  <2>6. ByteAt(1, 3) <= size' /\ ~(ByteAt(1, MaxOutputPacketSize) >= size')
    BY <1>1, <1>2, <2>5, SizesAssumption
  <2> QED
    BY <1>8, <1>11, <2>1, <2>2, <2>3, <2>4, <2>6 DEF BytesSentInOrder, ByteAt
<1>17. StartMarkedOnce'
  <2>1. \A k \in 1 .. Len(fragments') : k = 1
    BY <1>11
  <2> QED
    BY <1>9, <1>11, <2>1 DEF StartMarkedOnce
<1>18. FragmentedNeverCompleted'
  BY <1>2 DEF FragmentedNeverCompleted
<1> QED
  BY <1>13, <1>14, <1>15, <1>16, <1>17, <1>18 DEF FragmentsIInv

(* A unit that fits a packet. *)
LEMMA WholeUnitIInv ==
  ASSUME FragmentsIInv, NEW n \in 1 .. InputBufferMax, NEW truncated \in Nat,
         AfterGettingFrame(n, truncated), WholeUnit(unit', n)
  PROVE  FragmentsIInv'
<1> DEFINE F == Cells(input_buffer', 1, n)
<1>1. unit' \in {0, 1} /\ size' = n /\ is_currently_awaiting_data' = FALSE
      /\ save_num_truncated_bytes' \in Nat
  BY DEF AfterGettingFrame, FragmentsIInv, FragmenterValuesOK
<1>2. /\ n <= MaxOutputPacketSize /\ input_buffer' = WithUnit(unit', n) /\ fragments' = <<F>>
      /\ last_fragment_completed_nal_unit' = TRUE
  BY DEF WholeUnit
<1>3. cur_data_offset' = 1 /\ num_valid_data_bytes' = 1
  BY SizesAssumption DEF WholeUnit, Advance
<1>4. n \in 0 .. InputBufferMax
  OBVIOUS
<1>5. input_buffer' \in [BufferIndices -> CellValues]
  BY <1>1, <1>2, <1>4, UnitInBuffer DEF FragmentsIInv
<1>6. F \in Fragments
  BY <1>5, CellsOf, SizesAssumption
<1> HIDE DEF F
<1>7. fragments' \in Seq(Fragments) /\ fragments' # << >>
  BY <1>2, <1>6
<1>8. ~Fragmented'
  BY <1>1, <1>2, SizesAssumption DEF Fragmented
<1>9. FragmenterTypeOK'
  <2>1. last_fragment_completed_nal_unit' \in BOOLEAN /\ is_currently_awaiting_data' \in BOOLEAN
    BY <1>1, <1>2
  <2> QED
    BY <1>1, <1>3, <2>1, SizesAssumption DEF FragmenterTypeOK
<1>10. FragmenterValuesOK'
  <2>1. BufferIndices' = BufferIndices
    BY DEF BufferIndices
  <2> QED
    BY <1>1, <1>3, <1>4, <1>5, <1>7, <2>1 DEF FragmenterValuesOK
<1>11. RestIntact' /\ FragmentedNeverCompleted'
  BY <1>3, <1>8 DEF RestIntact, FragmentedNeverCompleted
<1>12. BytesSentInOrder' /\ StartMarkedOnce'
  BY <1>8 DEF BytesSentInOrder, StartMarkedOnce
<1> QED
  BY <1>9, <1>10, <1>11, <1>12 DEF FragmentsIInv

(* A later fragment: its header bytes go into the two cells before the bytes  *)
(* still to be sent, which are at 1 or behind.                               *)
LEMMA NextFragmentIInv ==
  ASSUME FragmentsIInv, NextFragment
  PROVE  FragmentsIInv'
<1> DEFINE L == Len(fragments)
           off == cur_data_offset
           num_bytes_to_send == 2 + (num_valid_data_bytes + off)
           fits == num_bytes_to_send <= MaxOutputPacketSize
           sent == IF fits THEN num_bytes_to_send ELSE MaxOutputPacketSize
           mark == Header(IF fits THEN "E" ELSE "", unit)
           buffer == [input_buffer EXCEPT ![off - 2] = input_buffer[0], ![off - 1] = mark]
           F == Cells(buffer, off - 2, sent)
<1>1. FragmenterTypeOK /\ FragmenterValuesOK /\ RestIntact /\ BytesSentInOrder /\ StartMarkedOnce
  BY DEF FragmentsIInv
<1>2. /\ num_valid_data_bytes > 1 /\ input_buffer' = buffer /\ fragments' = Append(fragments, F)
      /\ last_fragment_completed_nal_unit' = fits
      /\ Advance(off + sent - 2, num_valid_data_bytes)
      /\ UNCHANGED <<save_num_truncated_bytes, is_currently_awaiting_data, unit, size>>
  BY DEF NextFragment
<1>3. /\ Fragmented /\ num_valid_data_bytes = size + 1 /\ off = ByteAt(L + 1, 3)
      /\ Len(fragments[L]) = MaxOutputPacketSize
      /\ input_buffer[0] = Indicator(unit)
      /\ \A i \in off .. size : input_buffer[i] = Data(unit, i)
  BY <1>1, <1>2 DEF RestIntact
<1>4. L \in Nat \ {0} /\ fragments \in Seq(Fragments)
  BY <1>1, <1>3 DEF FragmenterValuesOK
<1>5. /\ off \in Nat /\ off >= MaxOutputPacketSize /\ off <= size
      /\ size \in Nat /\ size <= InputBufferMax
  <2>1. off >= MaxOutputPacketSize
    <3>1. ByteAt(L, 3) >= 2 /\ ByteAt(L, 3) \in Int
          /\ ByteAt(L + 1, 3) = ByteAt(L, 3) + MaxOutputPacketSize - 2
      BY <1>4, PlacesOfBytes
    <3> QED
      BY <1>3, <3>1, SizesAssumption
  <2>2. size \in 0 .. InputBufferMax
    BY <1>1 DEF FragmenterValuesOK
  <2>3. off \in 1 .. num_valid_data_bytes /\ off # num_valid_data_bytes
    <3>1. num_valid_data_bytes # 1
      <4>1. num_valid_data_bytes > 1
        BY <1>2
      <4> QED
        BY <1>3, <2>2, <4>1, SizesAssumption
    <3> QED
      BY <1>1, <3>1 DEF FragmenterTypeOK
  <2> QED
    BY <1>3, <2>1, <2>2, <2>3, SizesAssumption
<1>6. ~fits /\ sent = MaxOutputPacketSize /\ sent \in Nat /\ sent > 2
  BY <1>3, <1>5, SizesAssumption DEF Fragmented
<1>7. mark \in CellValues /\ mark = Header("", unit)
  BY <1>1, <1>6, CellTypes DEF FragmenterValuesOK
<1>8. off - 2 \in BufferIndices /\ off - 1 \in BufferIndices /\ 0 \in BufferIndices
      /\ off - 2 # 0 /\ off - 1 # 0 /\ off - 2 \in Nat
  BY <1>5, SizesAssumption DEF BufferIndices
<1>9. fits \in BOOLEAN
  OBVIOUS
<1> HIDE DEF fits, sent, mark, num_bytes_to_send, L
<1>10. /\ buffer \in [BufferIndices -> CellValues]
       /\ buffer[off - 2] = Indicator(unit) /\ buffer[off - 1] = mark
       /\ buffer[0] = Indicator(unit)
       /\ \A i \in off .. size : buffer[i] = Data(unit, i)
  <2>1. input_buffer \in [BufferIndices -> CellValues]
    BY <1>1 DEF FragmenterValuesOK
  <2>2. \A i \in off .. size : i \in BufferIndices /\ i # off - 2 /\ i # off - 1
    BY <1>5, SizesAssumption DEF BufferIndices
  <2>3. off - 2 # off - 1
    BY <1>5
  <2> QED
    BY <1>3, <1>7, <1>8, <2>1, <2>2, <2>3
<1> HIDE DEF buffer
<1>11. /\ F \in Fragments /\ Len(F) = sent
       /\ \A j \in 1 .. sent : off - 2 + j - 1 \in BufferIndices => F[j] = buffer[off - 2 + j - 1]
  BY <1>6, <1>8, <1>10, CellsOf
<1> HIDE DEF F
<1>12. F[1] = Indicator(unit) /\ F[2] = mark
  <2>1. 1 \in 1 .. sent /\ 2 \in 1 .. sent /\ off - 2 + 1 - 1 = off - 2 /\ off - 2 + 2 - 1 = off - 1
    BY <1>5, <1>6
  <2> QED
    BY <1>8, <1>10, <1>11, <2>1
<1>13. \A j \in 3 .. sent : ByteAt(L + 1, j) <= size => F[j] = Data(unit, ByteAt(L + 1, j))
  <2> SUFFICES ASSUME NEW j \in 3 .. sent, ByteAt(L + 1, j) <= size
               PROVE  F[j] = Data(unit, ByteAt(L + 1, j))
    OBVIOUS
  <2>1. L + 1 \in Nat \ {0} /\ j \in Nat /\ j \in 1 .. sent
    BY <1>4, <1>6
  <2>2. ByteAt(L + 1, j) = off + j - 3
    BY <1>3, <2>1, PlacesOfBytes
  <2>3. off + j - 3 \in off .. size /\ off + j - 3 \in BufferIndices /\ off - 2 + j - 1 = off + j - 3
    BY <1>5, <2>1, <2>2, SizesAssumption DEF BufferIndices
  <2> QED
    BY <1>10, <1>11, <2>1, <2>2, <2>3
<1>14. /\ fragments' \in Seq(Fragments) /\ Len(fragments') = L + 1 /\ fragments' # << >>
       /\ fragments'[L + 1] = F
       /\ \A k \in 1 .. L : fragments'[k] = fragments[k]
  BY <1>2, <1>4, <1>11 DEF L
<1>15. \/ cur_data_offset' = 1 /\ num_valid_data_bytes' = 1 /\ off + sent - 2 > size
       \/ /\ cur_data_offset' = off + MaxOutputPacketSize - 2
          /\ num_valid_data_bytes' = size + 1
          /\ off + MaxOutputPacketSize - 2 <= size
  BY <1>2, <1>3, <1>5, <1>6, SizesAssumption DEF Advance
<1>16. unit' = unit /\ size' = size /\ Fragmented' /\ is_currently_awaiting_data' = is_currently_awaiting_data
  BY <1>2, <1>3 DEF Fragmented
<1>17. FragmenterTypeOK'
  <2>1. last_fragment_completed_nal_unit' \in BOOLEAN /\ is_currently_awaiting_data' \in BOOLEAN
    BY <1>1, <1>2, <1>9 DEF FragmenterTypeOK
  <2>2. save_num_truncated_bytes' \in Nat
    BY <1>1, <1>2 DEF FragmenterTypeOK
  <2>3. /\ num_valid_data_bytes' \in 1 .. InputBufferMax + 1
        /\ cur_data_offset' \in 1 .. num_valid_data_bytes'
        /\ cur_data_offset' = num_valid_data_bytes' => num_valid_data_bytes' = 1
    BY <1>5, <1>15, SizesAssumption
  <2> QED
    BY <2>1, <2>2, <2>3 DEF FragmenterTypeOK
<1>18. FragmenterValuesOK'
  <2>1. ~is_currently_awaiting_data
    BY <1>1, <1>2 DEF FragmenterValuesOK
  <2>2. BufferIndices' = BufferIndices
    BY DEF BufferIndices
  <2>3. input_buffer' \in [BufferIndices -> CellValues]
    BY <1>2, <1>10
  <2> QED
    BY <1>1, <1>14, <1>16, <2>1, <2>2, <2>3 DEF FragmenterValuesOK
<1>19. RestIntact'
  <2> SUFFICES ASSUME num_valid_data_bytes' > 1 PROVE RestIntact'
    BY DEF RestIntact
  <2>1. cur_data_offset' = off + MaxOutputPacketSize - 2 /\ num_valid_data_bytes' = size + 1
    BY <1>15
  <2>2. cur_data_offset' = ByteAt(L + 1 + 1, 3)
    BY <1>3, <1>4, <2>1, PlacesOfBytes, SizesAssumption
  <2>3. Len(fragments'[Len(fragments')]) = MaxOutputPacketSize
    BY <1>6, <1>11, <1>14, <2>1
  <2>4. \A i \in cur_data_offset' .. size : input_buffer'[i] = Data(unit, i)
    BY <1>2, <1>5, <1>10, <2>1, SizesAssumption
  <2>5. input_buffer'[0] = Indicator(unit)
    BY <1>2, <1>10
  <2>6. cur_data_offset' = ByteAt(Len(fragments') + 1, 3)
    BY <1>14, <2>2
  <2> QED
    BY <1>16, <2>1, <2>3, <2>4, <2>5, <2>6 DEF RestIntact, ByteAt
<1>20. BytesSentInOrder'
  <2>1. ASSUME NEW k \in 1 .. Len(fragments') PROVE Len(fragments'[k]) = MaxOutputPacketSize
    <3>1. CASE k = L + 1
      BY <1>6, <1>11, <1>14, <3>1
    <3>2. CASE k # L + 1
      <4>1. k \in 1 .. L /\ fragments'[k] = fragments[k]
        BY <1>4, <1>14, <3>2
      <4> QED
        BY <1>1, <1>3, <4>1 DEF BytesSentInOrder, L
    <3> QED
      BY <3>1, <3>2
  <2>2. ASSUME NEW k \in 1 .. Len(fragments'), NEW j \in 3 .. MaxOutputPacketSize, ByteAt(k, j) <= size
        PROVE  fragments'[k][j] = Data(unit, ByteAt(k, j))
    <3>1. CASE k = L + 1
      BY <1>6, <1>13, <1>14, <2>2, <3>1
    <3>2. CASE k # L + 1
      <4>1. k \in 1 .. L /\ fragments'[k] = fragments[k]
        BY <1>4, <1>14, <3>2
      <4> QED
        BY <1>1, <1>3, <2>2, <4>1 DEF BytesSentInOrder, L
    <3> QED
      BY <3>1, <3>2
  <2>3. ASSUME NEW k \in 2 .. Len(fragments') PROVE fragments'[k][2] = Header("", unit)
    <3>1. CASE k = L + 1
      BY <1>7, <1>12, <1>14, <3>1
    <3>2. CASE k # L + 1
      <4>1. k \in 2 .. L /\ k \in 1 .. L /\ fragments'[k] = fragments[k]
        BY <1>4, <1>14, <3>2
      <4> QED
        BY <1>1, <1>3, <4>1 DEF BytesSentInOrder, L
    <3> QED
      BY <3>1, <3>2
  <2>4. ByteAt(L + 1, 3) <= size
    BY <1>3, <1>5
  <2>5. ByteAt(L + 1, MaxOutputPacketSize) = off + MaxOutputPacketSize - 3
    BY <1>3, <1>4, PlacesOfBytes, SizesAssumption
  <2>6. num_valid_data_bytes' = 1 <=> ByteAt(L + 1, MaxOutputPacketSize) >= size
    <3>1. size >= 1
      BY <1>3, <1>5, SizesAssumption DEF Fragmented
    <3> QED
      BY <1>5, <1>6, <1>15, <2>5, <3>1, SizesAssumption
  <2> QED
    BY <1>14, <1>16, <2>1, <2>2, <2>3, <2>4, <2>6 DEF BytesSentInOrder, ByteAt
<1>21. StartMarkedOnce'
  <2>1. ASSUME NEW k \in 1 .. Len(fragments')
        PROVE  /\ fragments'[k][1] = Indicator(unit)
               /\ fragments'[k][2] \in IF k = 1 THEN {Header("S", unit)}
                                       ELSE {Header("", unit), Header("E", unit)}
    <3>1. CASE k = L + 1
      <4>1. k # 1
        BY <1>4, <3>1
      <4> QED
        BY <1>7, <1>12, <1>14, <3>1, <4>1
    <3>2. CASE k # L + 1
      <4>1. k \in 1 .. L /\ fragments'[k] = fragments[k]
        BY <1>4, <1>14, <3>2
      <4> QED
        BY <1>1, <1>3, <4>1 DEF StartMarkedOnce, L
    <3> QED
      BY <3>1, <3>2
  <2> QED
    BY <1>16, <2>1 DEF StartMarkedOnce
<1>22. FragmentedNeverCompleted'
  BY <1>2, <1>6 DEF FragmentedNeverCompleted
<1> QED
  BY <1>17, <1>18, <1>19, <1>20, <1>21, <1>22 DEF FragmentsIInv

LEMMA StopIInv ==
  ASSUME FragmentsIInv, DoStopGettingFrames
  PROVE  FragmentsIInv'
<1>1. /\ num_valid_data_bytes' = 1 /\ cur_data_offset' = 1 /\ save_num_truncated_bytes' = 0
      /\ last_fragment_completed_nal_unit' = TRUE /\ is_currently_awaiting_data' = FALSE
      /\ size' = 0 /\ fragments' = << >> /\ input_buffer' = input_buffer /\ unit' = unit
  BY DEF DoStopGettingFrames
<1>2. ~Fragmented'
  BY <1>1, SizesAssumption DEF Fragmented
<1>3. FragmenterTypeOK'
  <2>1. last_fragment_completed_nal_unit' \in BOOLEAN /\ is_currently_awaiting_data' \in BOOLEAN
    BY <1>1
  <2> QED
    BY <1>1, <2>1, SizesAssumption DEF FragmenterTypeOK
<1>4. FragmenterValuesOK'
  BY <1>1, <1>2, SizesAssumption DEF FragmentsIInv, FragmenterValuesOK, BufferIndices
<1>5. RestIntact' /\ FragmentedNeverCompleted'
  BY <1>1, <1>2 DEF RestIntact, FragmentedNeverCompleted
<1>6. BytesSentInOrder' /\ StartMarkedOnce'
  BY <1>2 DEF BytesSentInOrder, StartMarkedOnce
<1> QED
  BY <1>3, <1>4, <1>5, <1>6 DEF FragmentsIInv

(* A step that leaves buffer, offsets and history alone. *)
LEMMA AskIInv ==
  ASSUME FragmentsIInv, AskForUnit \/ HandleClosure \/ UNCHANGED fragmenter_vars
  PROVE  FragmentsIInv'
<1>1. /\ num_valid_data_bytes' = num_valid_data_bytes /\ cur_data_offset' = cur_data_offset
      /\ save_num_truncated_bytes' = save_num_truncated_bytes
      /\ last_fragment_completed_nal_unit' = last_fragment_completed_nal_unit
      /\ size' = size /\ fragments' = fragments /\ input_buffer' = input_buffer /\ unit' = unit
  BY DEF AskForUnit, HandleClosure, buffer_vars, fragmenter_vars
<1>2. /\ is_currently_awaiting_data' \in BOOLEAN
      /\ is_currently_awaiting_data' => num_valid_data_bytes = 1
  <2>1. CASE AskForUnit \/ HandleClosure
    BY <2>1 DEF AskForUnit, HandleClosure
  <2>2. CASE UNCHANGED fragmenter_vars
    <3>1. is_currently_awaiting_data' = is_currently_awaiting_data
      BY <2>2 DEF fragmenter_vars
    <3> QED
      BY <3>1 DEF FragmentsIInv, FragmenterTypeOK, FragmenterValuesOK
  <2> QED
    BY <2>1, <2>2
<1>3. FragmenterTypeOK'
  BY <1>1, <1>2 DEF FragmentsIInv, FragmenterTypeOK
<1>4. FragmenterValuesOK'
  BY <1>1, <1>2 DEF FragmentsIInv, FragmenterValuesOK, BufferIndices, Fragmented
<1>5. RestIntact' /\ FragmentedNeverCompleted'
  BY <1>1 DEF FragmentsIInv, RestIntact, FragmentedNeverCompleted, Fragmented, ByteAt
<1>6. BytesSentInOrder' /\ StartMarkedOnce'
  BY <1>1 DEF FragmentsIInv, BytesSentInOrder, StartMarkedOnce, Fragmented, ByteAt
<1> QED
  BY <1>3, <1>4, <1>5, <1>6 DEF FragmentsIInv

(* The size reckoned for the last fragment never fits a packet (line 279). *)
LEMMA NextFragmentCompletesNothing ==
  ASSUME FragmentsIInv, NextFragment
  PROVE  last_fragment_completed_nal_unit' = FALSE
<1> DEFINE fits == 2 + (num_valid_data_bytes + cur_data_offset) <= MaxOutputPacketSize
<1>1. last_fragment_completed_nal_unit' = fits /\ num_valid_data_bytes > 1
  BY DEF NextFragment
<1>2. num_valid_data_bytes = size + 1 /\ size > MaxOutputPacketSize
  BY <1>1 DEF FragmentsIInv, RestIntact, Fragmented
<1>3. size \in Nat /\ cur_data_offset \in Nat
  BY SizesAssumption DEF FragmentsIInv, FragmenterTypeOK, FragmenterValuesOK
<1>4. fits = FALSE
  BY <1>2, <1>3, SizesAssumption
<1> QED
  BY <1>1, <1>4

LEMMA FragmenterNextIInv == FragmentsIInv /\ [FragmenterNext]_fragmenter_vars => FragmentsIInv'
<1> SUFFICES ASSUME FragmentsIInv, [FragmenterNext]_fragmenter_vars PROVE FragmentsIInv'
  OBVIOUS
<1>1. CASE AskForUnit \/ HandleClosure \/ UNCHANGED fragmenter_vars
  BY <1>1, AskIInv
<1>2. CASE \E n \in 1 .. InputBufferMax, truncated \in Nat : AfterGettingFrame(n, truncated)
  <2> PICK n \in 1 .. InputBufferMax, truncated \in Nat : AfterGettingFrame(n, truncated)
    BY <1>2
  <2>1. WholeUnit(unit', n) \/ FirstFragment(unit', n)
    BY DEF AfterGettingFrame
  <2> QED
    BY <2>1, WholeUnitIInv, FirstFragmentIInv
<1>3. CASE NextFragment
  BY <1>3, NextFragmentIInv
<1>4. CASE DoStopGettingFrames
  BY <1>4, StopIInv
<1> QED
  BY <1>1, <1>2, <1>3, <1>4 DEF FragmenterNext

LEMMA FragmentsInvariant == FragmenterSpec => []FragmentsIInv
BY FragmenterInitIInv, FragmenterNextIInv, PTL DEF FragmenterSpec

------------------------------------------------------------------------------
(* The offsets of do_get_next_frame() stay within the buffer, for a buffer    *)
(* and packets of any size.                                                  *)
THEOREM FragmenterTypeCorrect == FragmenterSpec => []FragmenterTypeOK
BY FragmentsInvariant, PTL DEF FragmentsIInv

(* The header bytes written over the buffer never reach a byte still to be    *)
(* sent: the fragments hold the bytes of the unit in order, each once, and    *)
(* are as many as it takes, all of full length, the last one too; none has    *)
(* the E bit.                                                                *)
THEOREM FragmentsCarryTheUnit == FragmenterSpec => []BytesSentInOrder
BY FragmentsInvariant, PTL DEF FragmentsIInv

(* Only the first fragment of a unit has the S bit. *)
THEOREM StartIsMarkedOnce == FragmenterSpec => []StartMarkedOnce
BY FragmentsInvariant, PTL DEF FragmentsIInv

(* Whatever the sizes, no fragment is ever taken for the end of its unit: the *)
(* sum of line 279 exceeds a packet for each unit that does not fit one.      *)
THEOREM NoFragmentCompletes == FragmenterSpec => []FragmentedNeverCompleted
BY FragmentsInvariant, PTL DEF FragmentsIInv

------------------------------------------------------------------------------
(* The framer and the fragmenter together: each step of the sink is one of    *)
(* either, or leaves it as it is.                                            *)

SinkIInv == IInv /\ WordsInv /\ FragmentsIInv

LEMMA FramerSteps ==
  ASSUME SinkIInv, [SinkNext]_sink_vars
  PROVE  [Next]_vars
<1> USE DEF Next, Parse, Answer
<1>1. CASE AskFramer
  BY <1>1 DEF AskFramer
<1>2. CASE ParseOn
  <2>1. to = << >> /\ EndUnit(FALSE) => \E taken \in BOOLEAN : EndUnit(taken)
    OBVIOUS
  <2> QED
    BY <1>2, <2>1 DEF ParseOn
<1>3. CASE DeliverUnit
  <2>1. \E taken \in BOOLEAN : EndUnit(taken)
    BY <1>3 DEF DeliverUnit
  <2> QED
    BY <2>1
<1>4. CASE SendFragment
  <2>1. NextFragment
    BY <1>4 DEF SendFragment
  <2>2. last_fragment_completed_nal_unit' = FALSE
    BY <2>1, NextFragmentCompletesNothing DEF SinkIInv
  <2>3. ~Marks /\ picture_end_marker \in BOOLEAN
    BY <2>2, Unfolded DEF Marks, SinkIInv
  <2>4. picture_end_marker' = picture_end_marker
    BY <1>4, <2>3 DEF SendFragment
  <2> QED
    BY <1>4, <2>4 DEF SendFragment, vars, stream_vars, place_vars, first_byte_vars, output_vars
<1>5. CASE ReadAnswers
  BY <1>5 DEF ReadAnswers
<1>6. CASE Stop
  BY <1>6 DEF Stop
<1>7. CASE UNCHANGED sink_vars
  BY <1>7 DEF sink_vars
<1> QED
  BY <1>1, <1>2, <1>3, <1>4, <1>5, <1>6, <1>7 DEF SinkNext

LEMMA FragmenterSteps ==
  ASSUME SinkIInv, [SinkNext]_sink_vars
  PROVE  [FragmenterNext]_fragmenter_vars
<1>1. CASE AskFramer
  BY <1>1 DEF AskFramer, FragmenterNext
<1>2. CASE ParseOn
  BY <1>2 DEF ParseOn
<1>3. CASE DeliverUnit
  <2>1. /\ Len(to) \in Nat /\ Len(to) <= InputBufferMax /\ Len(to) # 0 /\ InputBufferMax \in Nat
        /\ num_truncated_bytes \in Nat
    BY <1>3, Unfolded, BuffersAssumption DEF DeliverUnit, SinkIInv
  <2>2. Len(to) \in 1 .. InputBufferMax
    BY <2>1
  <2>3. AfterGettingFrame(Len(to), num_truncated_bytes)
    BY <1>3 DEF DeliverUnit
  <2> QED
    BY <2>1, <2>2, <2>3 DEF FragmenterNext
<1>4. CASE SendFragment
  BY <1>4 DEF SendFragment, FragmenterNext
<1>5. CASE ReadAnswers
  BY <1>5 DEF ReadAnswers, FragmenterNext
<1>6. CASE Stop
  BY <1>6 DEF Stop, FragmenterNext
<1>7. CASE UNCHANGED sink_vars
  BY <1>7 DEF sink_vars
<1> QED
  BY <1>1, <1>2, <1>3, <1>4, <1>5, <1>6, <1>7 DEF SinkNext

LEMMA SinkInvariant == SinkSpec => []SinkIInv
<1>1. SinkInit => SinkIInv
  BY InitIInv, InitWordsInv, FragmenterInitIInv DEF SinkInit, SinkIInv
<1>2. SinkIInv /\ [SinkNext]_sink_vars => SinkIInv'
  <2> SUFFICES ASSUME SinkIInv, [SinkNext]_sink_vars PROVE SinkIInv'
    OBVIOUS
  <2>1. [Next]_vars /\ [FragmenterNext]_fragmenter_vars
    BY FramerSteps, FragmenterSteps
  <2> QED
    BY <2>1, NextKeeps, NextKeepsWords, FragmenterNextIInv DEF SinkIInv
<1> QED
  BY <1>1, <1>2, PTL DEF SinkSpec

(* The framer of module H264Parser and the fragmenter of module Fragmenter,   *)
(* as the sink runs them (h264or5_video_rtp_sink.c): all that is shown of     *)
(* either by itself holds of the two together.                               *)
THEOREM SinkRunsBoth == SinkSpec => Spec /\ FragmenterSpec
<1>1. SinkIInv /\ [SinkNext]_sink_vars => [Next]_vars /\ [FragmenterNext]_fragmenter_vars
  BY FramerSteps, FragmenterSteps
<1>2. SinkInit => Init /\ FragmenterInit
  BY DEF SinkInit
<1> QED
  BY <1>1, <1>2, SinkInvariant, PTL DEF SinkSpec, Spec, FragmenterSpec

(* From the file to the packets, with every size of the buffer and of the     *)
(* packets: units as UnitsInOrder and UnitsLabelled say, in fragments as      *)
(* BytesSentInOrder and StartMarkedOnce say.                                 *)
THEOREM FromFileToPackets ==
  SinkSpec => [](UnitsInOrder /\ UnitsLabelled /\ BytesSentInOrder /\ StartMarkedOnce)
BY SinkRunsBoth, HandedOnInOrder, HandedOnLabelled, FragmentsCarryTheUnit, StartIsMarkedOnce, PTL
==============================================================================
