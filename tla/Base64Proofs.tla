----------------------------- MODULE Base64Proofs -----------------------------
(***************************************************************************)
(* What base64 writes is read back: every sequence of bytes by the decoder *)
(* and two of them, with a comma between, as two records.                  *)
(*                                                                         *)
(* Bits are counted within a group (EncodeGroupGives), groups are put side *)
(* by side (JoinedGives, ChunkGives); the zeros that fill the last group   *)
(* are as many as the letters of padding, which are counted (EncodeGives), *)
(* and are taken off again (TrimGives).  What is counted to the end, or    *)
(* searched for, is in CountingUp and SmallestNumber.                      *)
(***************************************************************************)
EXTENDS Base64, FiniteSetTheorems, SequenceTheorems, WellFoundedInduction, TLAPS

------------------------------------------------------------------------------
(* Counting up to n. *)

Below == {p \in Nat \X Nat : p[1] < p[2]}

LEMMA SmallestNumber ==
  ASSUME NEW T, T \subseteq Nat, T # {}
  PROVE  \E x \in T : \A y \in T : x <= y
<1>1. IsWellFoundedOn(Below, Nat)
  BY NatLessThanWellFounded DEF OpToRel, Below
<1>2. PICK x \in T : \A y \in T : ~ (<<y, x>> \in Below)
  BY <1>1, WFMin
<1>3. ASSUME NEW y \in T PROVE x <= y
  <2>1. x \in Nat /\ y \in Nat
    OBVIOUS
  <2>2. <<y, x>> \in Nat \X Nat /\ <<y, x>>[1] = y /\ <<y, x>>[2] = x
    BY <2>1
  <2>3. y < x => <<y, x>> \in Below
    BY <2>2 DEF Below
  <2> QED
    BY <1>2, <2>1, <2>3
<1> QED
  BY <1>3

LEMMA CountingUp ==
  ASSUME NEW n \in Nat, NEW S, 0 \in S, \A i \in 1 .. n : i - 1 \in S => i \in S
  PROVE  0 .. n \subseteq S
<1> DEFINE T == {i \in 0 .. n : i \notin S}
<1> SUFFICES ASSUME T # {} PROVE FALSE
  OBVIOUS
<1>1. PICK x \in T : \A y \in T : x <= y
  <2>1. T \subseteq Nat
    OBVIOUS
  <2> HIDE DEF T
  <2> QED
    BY <2>1, SmallestNumber
<1>2. x # 0 /\ x \in 1 .. n
  OBVIOUS
<1>3. x - 1 \in 0 .. n /\ x - 1 \notin T
  BY <1>1, <1>2
<1> QED
  BY <1>2, <1>3

------------------------------------------------------------------------------
(* Parameter sets as text (livemedia/base64.c): every sequence of bytes is    *)
(* read back as it was written.                                              *)

Bytes == 0 .. 255
Letters == 0 .. 64
Padded(bytes, p) == [k \in 1 .. Len(bytes) + p |-> IF k <= Len(bytes) THEN bytes[k] ELSE 0]

(* The bits of three bytes in four letters, and back. *)
LEMMA SixBits ==
  ASSUME NEW a \in Bytes, NEW b \in Bytes, NEW c \in Bytes
  PROVE  /\ a \div 4 \in 0 .. 63 /\ (16 * (a % 4)) + b \div 16 \in 0 .. 63
         /\ (4 * (b % 16)) + c \div 64 \in 0 .. 63 /\ c % 64 \in 0 .. 63
BY DEF Bytes

LEMMA EightBits ==
  ASSUME NEW a \in Bytes, NEW b \in Bytes, NEW c \in Bytes
  PROVE  /\ 4 * (a \div 4) + ((16 * (a % 4)) + b \div 16) \div 16 = a
         /\ ((16 * ((16 * (a % 4)) + b \div 16)) % 256) + ((4 * (b % 16)) + c \div 64) \div 4 = b
         /\ ((64 * ((4 * (b % 16)) + c \div 64)) % 256) + (c % 64) = c
<1>1. 4 * (a \div 4) + ((16 * (a % 4)) + b \div 16) \div 16 = a
  BY DEF Bytes
<1>2. ((16 * ((16 * (a % 4)) + b \div 16)) % 256) + ((4 * (b % 16)) + c \div 64) \div 4 = b
  BY DEF Bytes
<1>3. ((64 * ((4 * (b % 16)) + c \div 64)) % 256) + (c % 64) = c
  BY DEF Bytes
<1> QED
  BY <1>1, <1>2, <1>3

(* A group of up to three bytes, in letters and back again. *)
LEMMA GroupBytes ==
  ASSUME NEW g \in Seq(Bytes), Len(g) \in 1 .. 3
  PROVE  \E a \in Bytes, b \in Bytes, c \in Bytes :
           /\ a = g[1] /\ b = (IF Len(g) > 1 THEN g[2] ELSE 0) /\ c = (IF Len(g) > 2 THEN g[3] ELSE 0)
<1>1. \A k \in 1 .. Len(g) : g[k] \in Bytes
  OBVIOUS
<1>2. 0 \in Bytes
  BY DEF Bytes
<1> DEFINE n == Len(g)
<1>0. n \in 1 .. 3
  OBVIOUS
<1>3. /\ 1 \in 1 .. n /\ (n > 1 => 2 \in 1 .. n) /\ (n > 2 => 3 \in 1 .. n)
  <2> HIDE DEF n
  <2> QED
    BY <1>0
<1>4. g[1] \in Bytes /\ (Len(g) > 1 => g[2] \in Bytes) /\ (Len(g) > 2 => g[3] \in Bytes)
  BY <1>1, <1>3
<1> QED
  BY <1>2, <1>4

LEMMA EncodeGroupGives ==
  ASSUME NEW g \in Seq(Bytes), Len(g) \in 1 .. 3
  PROVE  /\ EncodeGroup(g) \in Seq(Letters) /\ Len(EncodeGroup(g)) = 4
         /\ \A k \in 1 .. 4 : EncodeGroup(g)[k] = Pad <=> k > Len(g) + 1
         /\ DecodeGroup(EncodeGroup(g)) = Padded(g, 3 - Len(g))
<1>1. PICK a \in Bytes, b \in Bytes, c \in Bytes :
        /\ a = g[1] /\ b = (IF Len(g) > 1 THEN g[2] ELSE 0) /\ c = (IF Len(g) > 2 THEN g[3] ELSE 0)
  BY GroupBytes
<1>n. (Len(g) = 1 \/ Len(g) = 2 \/ Len(g) = 3) /\ (Len(g) # 1 => Len(g) > 1)
  OBVIOUS
<1> DEFINE l1 == a \div 4
           l2 == (16 * (a % 4)) + b \div 16
           d3 == (4 * (b % 16)) + c \div 64
           d4 == c % 64
           l3 == IF Len(g) > 1 THEN d3 ELSE Pad
           l4 == IF Len(g) > 2 THEN d4 ELSE Pad
<1>2. EncodeGroup(g) = <<l1, l2, l3, l4>>
  BY <1>1 DEF EncodeGroup
<1>3. l1 \in 0 .. 63 /\ l2 \in 0 .. 63 /\ d3 \in 0 .. 63 /\ d4 \in 0 .. 63
  BY SixBits
<1>4. (Len(g) = 1 => d3 = 0) /\ (Len(g) < 3 => d4 = 0)
  <2>1. (Len(g) = 1 => b = 0 /\ c = 0) /\ (Len(g) < 3 => c = 0)
    BY <1>1, <1>n
  <2> QED
    BY <2>1, <1>n
<1>5. /\ 4 * l1 + l2 \div 16 = a /\ ((16 * l2) % 256) + d3 \div 4 = b /\ ((64 * d3) % 256) + d4 = c
  BY EightBits
<1> HIDE DEF l1, l2, d3, d4
<1>6. EncodeGroup(g) \in Seq(Letters) /\ Len(EncodeGroup(g)) = 4
  <2>1. l1 \in Letters /\ l2 \in Letters /\ l3 \in Letters /\ l4 \in Letters
    BY <1>3 DEF Letters, Pad
  <2> HIDE DEF l3, l4
  <2> QED
    BY <1>2, <2>1
<1>7. \A k \in 1 .. 4 : EncodeGroup(g)[k] = Pad <=> k > Len(g) + 1
  <2>1. /\ EncodeGroup(g)[1] = l1 /\ EncodeGroup(g)[2] = l2 /\ EncodeGroup(g)[3] = l3 /\ EncodeGroup(g)[4] = l4
    BY <1>2
  <2>2. l1 # Pad /\ l2 # Pad /\ (l3 = Pad <=> 3 > Len(g) + 1) /\ (l4 = Pad <=> 4 > Len(g) + 1)
    BY <1>3, <1>n DEF Pad
  <2> HIDE DEF l3, l4
  <2>3. ASSUME NEW k \in 1 .. 4 PROVE EncodeGroup(g)[k] = Pad <=> k > Len(g) + 1
    <3> DEFINE n == Len(g)
               e == EncodeGroup(g)
    <3>1. (k = 1 \/ k = 2 \/ k = 3 \/ k = 4) /\ n \in 1 .. 3
      OBVIOUS
    <3>2. e[1] # Pad /\ e[2] # Pad /\ (e[3] = Pad <=> 3 > n + 1) /\ (e[4] = Pad <=> 4 > n + 1)
      BY <2>1, <2>2
    <3> HIDE DEF n, e
    <3>3. e[k] = Pad <=> k > n + 1
      BY <3>1, <3>2
    <3> QED
      BY <3>3 DEF n, e
  <2> QED
    BY <2>3
<1>8. DecodeGroup(EncodeGroup(g)) = <<a, b, c>>
  <2>1. DecodeTable(l1) = l1 /\ DecodeTable(l2) = l2 /\ DecodeTable(l3) = d3 /\ DecodeTable(l4) = d4
    <3>1. \A d \in 0 .. 63 : DecodeTable(d) = d
      BY DEF DecodeTable
    <3>2. DecodeTable(Pad) = 0
      BY DEF DecodeTable, Pad
    <3>3. DecodeTable(l3) = d3
      <4>1. CASE Len(g) = 1
        BY <1>4, <3>2, <4>1
      <4>2. CASE Len(g) # 1
        <5>1. Len(g) > 1
          BY <1>n, <4>2
        <5> QED
          BY <1>3, <3>1, <5>1
      <4> QED
        BY <4>1, <4>2
    <3>4. DecodeTable(l4) = d4
      <4>1. CASE Len(g) < 3
        <5>1. l4 = Pad /\ d4 = 0
          BY <1>4, <1>n, <4>1
        <5> QED
          BY <3>2, <5>1
      <4>2. CASE ~ (Len(g) < 3)
        <5>1. l4 = d4
          BY <1>n, <4>2
        <5> QED
          BY <1>3, <3>1, <5>1
      <4> QED
        BY <4>1, <4>2
    <3> QED
      BY <1>3, <3>1, <3>3, <3>4
  <2> HIDE DEF l3, l4
  <2> DEFINE l == [i \in 1 .. 4 |-> DecodeTable(<<l1, l2, l3, l4>>[i])]
  <2>2. l[1] = l1 /\ l[2] = l2 /\ l[3] = d3 /\ l[4] = d4
    BY <2>1
  <2>3. DecodeGroup(<<l1, l2, l3, l4>>) =
          <<4 * l[1] + l[2] \div 16, ((16 * l[2]) % 256) + l[3] \div 4, ((64 * l[3]) % 256) + l[4]>>
    BY DEF DecodeGroup
  <2> QED
    BY <1>2, <1>5, <2>2, <2>3
<1>9. Padded(g, 3 - Len(g)) = <<a, b, c>>
  <2>1. Padded(g, 3 - Len(g)) = [k \in 1 .. 3 |-> IF k <= Len(g) THEN g[k] ELSE 0]
    BY <1>n DEF Padded
  <2>2. \A k \in 1 .. 3 : (IF k <= Len(g) THEN g[k] ELSE 0) = <<a, b, c>>[k]
    <3>1. ASSUME NEW k \in 1 .. 3 PROVE (IF k <= Len(g) THEN g[k] ELSE 0) = <<a, b, c>>[k]
      <4>1. k = 1 \/ k = 2 \/ k = 3
        OBVIOUS
      <4> QED
        BY <1>1, <1>n, <4>1
    <3> QED
      BY <3>1
  <2>3. <<a, b, c>> = [k \in 1 .. 3 |-> <<a, b, c>>[k]]
    OBVIOUS
  <2> QED
    BY <2>1, <2>2, <2>3
<1> QED
  BY <1>6, <1>7, <1>8, <1>9

(* Groups one behind the other: where each letter and byte of them is. *)
LEMMA PlaceInGroup ==
  ASSUME NEW n \in Nat, NEW k \in Nat, k # 0
  PROVE  /\ k <= 3 * n => /\ ((k - 1) \div 3) + 1 \in 1 .. n /\ ((k - 1) % 3) + 1 \in 1 .. 3
                          /\ k = 3 * ((k - 1) \div 3) + (((k - 1) % 3) + 1)
         /\ k <= 4 * n => /\ ((k - 1) \div 4) + 1 \in 1 .. n /\ ((k - 1) % 4) + 1 \in 1 .. 4
                          /\ k = 4 * ((k - 1) \div 4) + (((k - 1) % 4) + 1)
<1>1. PICK j \in Nat : j = k - 1
  OBVIOUS
<1>2. k <= 3 * n => (j \div 3) + 1 \in 1 .. n /\ (j % 3) + 1 \in 1 .. 3 /\ k = 3 * (j \div 3) + ((j % 3) + 1)
  BY <1>1
<1>3. k <= 4 * n => (j \div 4) + 1 \in 1 .. n /\ (j % 4) + 1 \in 1 .. 4 /\ k = 4 * (j \div 4) + ((j % 4) + 1)
  BY <1>1
<1> QED
  BY <1>1, <1>2, <1>3

LEMMA JoinedGives ==
  ASSUME NEW S, NEW size \in {3, 4}, NEW groups \in Seq(Seq(S)), \A i \in 1 .. Len(groups) : Len(groups[i]) = size
  PROVE  /\ Joined(groups, size) \in Seq(S) /\ Len(Joined(groups, size)) = size * Len(groups)
         /\ \A k \in 1 .. size * Len(groups) :
              /\ ((k - 1) \div size) + 1 \in 1 .. Len(groups) /\ ((k - 1) % size) + 1 \in 1 .. size
              /\ k = size * ((k - 1) \div size) + (((k - 1) % size) + 1)
              /\ Joined(groups, size)[k] = groups[((k - 1) \div size) + 1][((k - 1) % size) + 1]
<1> DEFINE n == Len(groups)
           At(k) == groups[((k - 1) \div size) + 1][((k - 1) % size) + 1]
           all == [k \in 1 .. size * n |-> At(k)]
<1>1. n \in Nat /\ Joined(groups, size) = all /\ size * n \in Nat
  BY DEF Joined
<1>2. \A i \in 1 .. n : groups[i] \in Seq(S) /\ Len(groups[i]) = size
  OBVIOUS
<1> HIDE DEF n
<1>3. ASSUME NEW k \in 1 .. size * n
      PROVE  /\ ((k - 1) \div size) + 1 \in 1 .. n /\ ((k - 1) % size) + 1 \in 1 .. size
             /\ k = size * ((k - 1) \div size) + (((k - 1) % size) + 1)
  <2>1. k \in Nat /\ k # 0 /\ k <= size * n
    BY <1>1
  <2>2. size = 3 \/ size = 4
    OBVIOUS
  <2> QED
    BY <1>1, <2>1, <2>2, PlaceInGroup
<1>4. ASSUME NEW k \in 1 .. size * n PROVE At(k) \in S
  <2> DEFINE i == ((k - 1) \div size) + 1
             m == ((k - 1) % size) + 1
  <2>1. i \in 1 .. n /\ m \in 1 .. size
    BY <1>3
  <2> HIDE DEF i, m
  <2>2. groups[i] \in Seq(S) /\ Len(groups[i]) = size
    BY <1>2, <2>1
  <2>3. groups[i][m] \in S
    BY <2>1, <2>2, ElementOfSeq
  <2> QED
    BY <2>3 DEF i, m
<1>5. all \in Seq(S) /\ Len(all) = size * n
  <2> HIDE DEF At
  <2> QED
    BY <1>1, <1>4
<1> QED
  BY <1>1, <1>3, <1>5 DEF n

(* The bytes that a group of letters stands for. *)
Chunk(bytes, i) == SubSeq(bytes, 3 * i - 2, IF 3 * i < Len(bytes) THEN 3 * i ELSE Len(bytes))
Groups(bytes) == (Len(bytes) + 2) \div 3

LEMMA GroupsGives ==
  ASSUME NEW n \in Nat
  PROVE  LET m == (n + 2) \div 3
         IN  m \in Nat /\ 3 * m - n \in 0 .. 2 /\ (4 * m) \div 4 = m
OBVIOUS

LEMMA ChunkGives ==
  ASSUME NEW b \in Seq(Bytes), NEW i \in 1 .. Groups(b)
  PROVE  /\ Chunk(b, i) \in Seq(Bytes) /\ Len(Chunk(b, i)) \in 1 .. 3
         /\ Len(Chunk(b, i)) = IF 3 * i < Len(b) THEN 3 ELSE Len(b) - 3 * i + 3
         /\ \A r \in 1 .. Len(Chunk(b, i)) : Chunk(b, i)[r] = b[3 * (i - 1) + r]
<1> DEFINE n == Len(b)
           last == IF 3 * i < n THEN 3 * i ELSE n
<1>1. n \in Nat /\ i \in Nat /\ 3 * Groups(b) - n \in 0 .. 2 /\ Groups(b) \in Nat
  BY GroupsGives DEF Groups
<1>2. 3 * i - 2 \in 1 .. n /\ last \in 3 * i - 2 .. n /\ last \in Nat
  <2> HIDE DEF n
  <2>1. 3 * i - 2 \in 1 .. n
    BY <1>1
  <2> QED
    BY <1>1, <2>1
<1>3. Chunk(b, i) = SubSeq(b, 3 * i - 2, last)
  BY DEF Chunk
<1> HIDE DEF last
<1>4. /\ Chunk(b, i) \in Seq(Bytes) /\ Len(Chunk(b, i)) = last - (3 * i - 2) + 1
      /\ \A r \in 1 .. last - (3 * i - 2) + 1 : Chunk(b, i)[r] = b[(3 * i - 2) + r - 1]
  <2> DEFINE from == 3 * i - 2
  <2>1. from \in 1 .. Len(b) /\ last \in from .. Len(b)
    BY <1>2
  <2> HIDE DEF from
  <2>2. SubSeq(b, from, last) \in Seq(Bytes) /\ Len(SubSeq(b, from, last)) = last - from + 1
        /\ \A r \in 1 .. last - from + 1 : SubSeq(b, from, last)[r] = b[from + r - 1]
    BY <2>1
  <2> QED
    BY <1>3, <2>2 DEF from
<1>5. last - (3 * i - 2) + 1 = IF 3 * i < n THEN 3 ELSE n - 3 * i + 3
  <2> HIDE DEF n
  <2> QED
    BY <1>1 DEF last
<1>6. last - (3 * i - 2) + 1 \in 1 .. 3
  <2> HIDE DEF n
  <2> QED
    BY <1>1, <1>2, <1>5
<1>7. ASSUME NEW r \in 1 .. 3 PROVE (3 * i - 2) + r - 1 = 3 * (i - 1) + r
  BY <1>1
<1>8. \A r \in 1 .. Len(Chunk(b, i)) : r \in 1 .. 3 /\ Chunk(b, i)[r] = b[3 * (i - 1) + r]
  BY <1>4, <1>6, <1>7
<1> QED
  BY <1>4, <1>5, <1>6, <1>8 DEF n

LEMMA EncodeGives ==
  ASSUME NEW b \in Seq(Bytes)
  PROVE  LET e == Base64Encode(b)
             m == Groups(b)
         IN  /\ e \in Seq(Letters) /\ Len(e) = 4 * m /\ m \in Nat
             /\ \A i \in 1 .. m : SubSeq(e, 4 * i - 3, 4 * i) = EncodeGroup(Chunk(b, i))
             /\ Cardinality({k \in 1 .. Len(e) : e[k] = Pad}) = 3 * m - Len(b)
<1> DEFINE e == Base64Encode(b)
           m == Groups(b)
           n == Len(b)
           groups == [i \in 1 .. m |-> EncodeGroup(Chunk(b, i))]
<1>1. m \in Nat /\ n \in Nat /\ 3 * m - n \in 0 .. 2
  BY GroupsGives DEF Groups
<1>2. e = Joined(groups, 4)
  BY DEF Base64Encode, Groups, Chunk
<1>3. ASSUME NEW i \in 1 .. m
      PROVE  /\ groups[i] = EncodeGroup(Chunk(b, i)) /\ groups[i] \in Seq(Letters) /\ Len(groups[i]) = 4
             /\ \A k \in 1 .. 4 : groups[i][k] = Pad <=> k > Len(Chunk(b, i)) + 1
  BY ChunkGives, EncodeGroupGives
<1>4. groups \in Seq(Seq(Letters)) /\ Len(groups) = m
  <2>1. \A i \in 1 .. m : EncodeGroup(Chunk(b, i)) \in Seq(Letters)
    BY <1>3
  <2> HIDE DEF m
  <2> QED
    BY <1>1, <2>1
<1> HIDE DEF groups, e, m
<1>5. /\ e \in Seq(Letters) /\ Len(e) = 4 * m
      /\ \A k \in 1 .. 4 * m :
           /\ ((k - 1) \div 4) + 1 \in 1 .. m /\ ((k - 1) % 4) + 1 \in 1 .. 4
           /\ k = 4 * ((k - 1) \div 4) + (((k - 1) % 4) + 1)
           /\ e[k] = groups[((k - 1) \div 4) + 1][((k - 1) % 4) + 1]
  <2> DEFINE size == 4
  <2>1. size \in {3, 4} /\ \A i \in 1 .. Len(groups) : Len(groups[i]) = size
    BY <1>3, <1>4
  <2>2. e = Joined(groups, size)
    BY <1>2
  <2> HIDE DEF size
  <2>3. /\ Joined(groups, size) \in Seq(Letters) /\ Len(Joined(groups, size)) = size * Len(groups)
        /\ \A k \in 1 .. size * Len(groups) :
             /\ ((k - 1) \div size) + 1 \in 1 .. Len(groups) /\ ((k - 1) % size) + 1 \in 1 .. size
             /\ k = size * ((k - 1) \div size) + (((k - 1) % size) + 1)
             /\ Joined(groups, size)[k] = groups[((k - 1) \div size) + 1][((k - 1) % size) + 1]
    <3>1. groups \in Seq(Seq(Letters))
      BY <1>4
    <3> HIDE DEF n
    <3> QED
      BY <2>1, <3>1, JoinedGives, ZenonT(60)
  <2> QED
    BY <1>4, <2>2, <2>3 DEF size
<1>6. ASSUME NEW i \in 1 .. m PROVE SubSeq(e, 4 * i - 3, 4 * i) = groups[i]
  <2> DEFINE from == 4 * i - 3
             to == 4 * i
             part == SubSeq(e, from, to)
  <2>1. i \in Nat /\ from \in 1 .. 4 * m /\ to \in from .. 4 * m /\ to - from + 1 = 4
    BY <1>1
  <2>2. Len(part) = 4 /\ part \in Seq(Letters) /\ \A r \in 1 .. 4 : part[r] = e[from + r - 1]
    <3> HIDE DEF from, to
    <3> QED
      BY <1>5, <2>1
  <2>3. ASSUME NEW r \in 1 .. 4 PROVE e[from + r - 1] = groups[i][r]
    <3> DEFINE k == from + r - 1
    <3>1. k \in 1 .. 4 * m /\ ((k - 1) \div 4) + 1 = i /\ ((k - 1) % 4) + 1 = r
      BY <1>1, <2>1
    <3> HIDE DEF k
    <3> QED
      BY <1>5, <3>1 DEF k
  <2>4. groups[i] \in Seq(Letters) /\ Len(groups[i]) = 4
    BY <1>3
  <2> HIDE DEF part
  <2>5. \A r \in 1 .. 4 : part[r] = groups[i][r]
    BY <2>2, <2>3
  <2>6. part = groups[i]
    BY <2>2, <2>4, <2>5, SeqEqual
  <2> QED
    BY <2>6 DEF part
<1>7. ASSUME NEW k \in 1 .. 4 * m PROVE e[k] = Pad <=> k > n + m
  <2>1. PICK i \in 1 .. m, r \in 1 .. 4 : k = 4 * (i - 1) + r /\ e[k] = groups[i][r]
    <3> DEFINE i == ((k - 1) \div 4) + 1
               r == ((k - 1) % 4) + 1
    <3>1. i \in 1 .. m /\ r \in 1 .. 4 /\ k = 4 * ((k - 1) \div 4) + r /\ e[k] = groups[i][r]
      BY <1>5
    <3>2. (k - 1) \div 4 = i - 1
      BY <1>1
    <3> HIDE DEF i, r
    <3>3. k = 4 * (i - 1) + r
      BY <3>1, <3>2
    <3> QED
      BY <3>1, <3>3
  <2>2. e[k] = Pad <=> r > Len(Chunk(b, i)) + 1
    BY <1>3, <2>1
  <2>3. Len(Chunk(b, i)) = IF 3 * i < n THEN 3 ELSE n - 3 * i + 3
    BY ChunkGives DEF m
  <2> HIDE DEF n
  <2>4. CASE i < m
    <3>1. 3 * i < n
      BY <1>1, <2>4
    <3>2. k <= n + m
      <4>1. i \in Nat /\ r \in Nat /\ r <= 4 /\ i <= m - 1
        BY <1>1, <2>4
      <4>2. k <= 4 * m - 4 /\ n >= 3 * m - 2
        BY <1>1, <2>1, <4>1
      <4> QED
        BY <1>1, <4>2
    <3> QED
      BY <1>1, <2>1, <2>2, <2>3, <3>1, <3>2
  <2>5. CASE i = m
    <3>1. Len(Chunk(b, i)) = n - 3 * m + 3
      BY <1>1, <2>3, <2>5
    <3>2. r > Len(Chunk(b, i)) + 1 <=> k > n + m
      BY <1>1, <2>1, <2>5, <3>1
    <3> QED
      BY <2>2, <3>2
  <2> QED
    BY <1>1, <2>1, <2>4, <2>5
<1>8. Cardinality({k \in 1 .. Len(e) : e[k] = Pad}) = 3 * m - n
  <2> HIDE DEF n
  <2>1. {k \in 1 .. Len(e) : e[k] = Pad} = (n + m + 1) .. (4 * m)
    BY <1>1, <1>5, <1>7
  <2>2. Cardinality((n + m + 1) .. (4 * m)) = 3 * m - n
    <3> DEFINE x == n + m + 1
               y == 4 * m
    <3>1. x \in Int /\ y \in Int /\ (IF x > y THEN 0 ELSE y - x + 1) = 3 * m - n
      BY <1>1
    <3> HIDE DEF x, y
    <3>2. Cardinality(x .. y) = IF x > y THEN 0 ELSE y - x + 1
      BY <3>1, FS_Interval
    <3> QED
      BY <3>1, <3>2 DEF x, y
  <2> QED
    BY <2>1, <2>2
<1> QED
  BY <1>1, <1>3, <1>5, <1>6, <1>8 DEF e, m, n

LEMMA LargestIn ==
  ASSUME NEW n \in Nat, NEW I, I \subseteq 1 .. n
  PROVE  (IF I # {} THEN Max(I) ELSE 0) \in 0 .. n
<1> SUFFICES ASSUME I # {} PROVE Max(I) \in 1 .. n
  OBVIOUS
<1> DEFINE J == {n - i : i \in I}
<1>1. J \subseteq Nat /\ J # {}
  <2>1. PICK i \in I : TRUE
    OBVIOUS
  <2>2. n - i \in J
    OBVIOUS
  <2>3. \A x \in I : n - x \in Nat
    OBVIOUS
  <2> QED
    BY <2>2, <2>3
<1>2. PICK j \in J : \A k \in J : j <= k
  <2> HIDE DEF J
  <2> QED
    BY <1>1, SmallestNumber
<1>3. PICK x \in I : j = n - x
  OBVIOUS
<1>4. ASSUME NEW y \in I PROVE x >= y
  <2>1. n - y \in J /\ x \in 1 .. n /\ y \in 1 .. n
    OBVIOUS
  <2>2. n - x <= n - y
    BY <1>2, <1>3, <2>1
  <2> QED
    BY <2>1, <2>2
<1>5. Max(I) \in I
  BY <1>4 DEF Max
<1> QED
  BY <1>5

(* Of a number of zeros at the end all are taken off, and no byte of those   *)
(* before them, be they zeros or not.                                        *)
LEMMA TrimGives ==
  ASSUME NEW b \in Seq(Bytes), NEW p \in Nat
  PROVE  TrimTrailingZeros(Padded(b, p), p) = b
<1> DEFINE n == Len(b)
           padded == Padded(b, p)
           I == {i \in 1 .. Len(padded) : padded[i] # 0}
           kept == IF I # {} THEN Max(I) ELSE 0
           stop == IF Len(padded) - kept <= p THEN kept ELSE Len(padded) - p
<1>1. n \in Nat /\ padded = [k \in 1 .. n + p |-> IF k <= n THEN b[k] ELSE 0]
  BY DEF Padded
<1>2. Len(padded) = n + p /\ padded \in Seq(Bytes)
  <2>1. \A k \in 1 .. n : b[k] \in Bytes
    OBVIOUS
  <2>2. 0 \in Bytes
    BY DEF Bytes
  <2> HIDE DEF n, padded
  <2> QED
    BY <1>1, <2>1, <2>2
<1>3. kept \in 0 .. n
  <2> HIDE DEF padded, n
  <2>1. I \subseteq 1 .. n
    BY <1>1, <1>2
  <2> HIDE DEF I
  <2> QED
    BY <1>1, <2>1, LargestIn
<1>4. TrimTrailingZeros(padded, p) = SubSeq(padded, 1, stop)
  BY DEF TrimTrailingZeros, SelectLastInSeq
<1> HIDE DEF kept, padded, n
<1>5. stop = n
  BY <1>1, <1>2, <1>3
<1>6. SubSeq(padded, 1, n) = b
  <2>1. Len(SubSeq(padded, 1, n)) = n /\ SubSeq(padded, 1, n) \in Seq(Bytes)
        /\ \A k \in 1 .. n : SubSeq(padded, 1, n)[k] = padded[k]
    BY <1>1, <1>2
  <2>2. \A k \in 1 .. n : padded[k] = b[k]
    BY <1>1
  <2>3. Len(b) = n
    BY DEF n
  <2> DEFINE part == SubSeq(padded, 1, n)
  <2>4. part \in Seq(Bytes) /\ Len(part) = Len(b) /\ \A k \in 1 .. Len(part) : part[k] = b[k]
    BY <2>1, <2>2, <2>3
  <2> HIDE DEF part
  <2>5. part = b
    BY <2>4, SeqEqual
  <2> QED
    BY <2>5 DEF part
<1> QED
  BY <1>4, <1>5, <1>6 DEF padded

(* What was written in letters is read back as it was. *)
THEOREM DecodeGives ==
  ASSUME NEW b \in Seq(Bytes)
  PROVE  Base64Decode(Base64Encode(b)) = b
<1> DEFINE e == Base64Encode(b)
           m == Groups(b)
           n == Len(b)
           text == SubSeq(e, 1, 4 * (Len(e) \div 4))
           groups == [i \in 1 .. Len(e) \div 4 |-> DecodeGroup(SubSeq(text, 4 * i - 3, 4 * i))]
           out == Joined(groups, 3)
<1>1. m \in Nat /\ n \in Nat /\ 3 * m - n \in 0 .. 2 /\ (4 * m) \div 4 = m
  BY GroupsGives DEF Groups
<1>2. /\ e \in Seq(Letters) /\ Len(e) = 4 * m
      /\ \A i \in 1 .. m : SubSeq(e, 4 * i - 3, 4 * i) = EncodeGroup(Chunk(b, i))
      /\ Cardinality({k \in 1 .. Len(e) : e[k] = Pad}) = 3 * m - n
  BY EncodeGives
<1>3. Base64Decode(e) = TrimTrailingZeros(out, Cardinality({k \in 1 .. Len(text) : text[k] = Pad}))
  BY DEF Base64Decode
<1> HIDE DEF e
<1>4. text = e
  <2>1. text = SubSeq(e, 1, Len(e))
    BY <1>1, <1>2
  <2> QED
    BY <1>2, <2>1, SubSeqFull
<1>5. Len(e) \div 4 = m
  BY <1>1, <1>2
<1> HIDE DEF text, m
<1>6. ASSUME NEW i \in 1 .. m
      PROVE  /\ groups[i] = Padded(Chunk(b, i), 3 - Len(Chunk(b, i)))
             /\ groups[i] \in Seq(Bytes) /\ Len(groups[i]) = 3
             /\ \A r \in 1 .. 3 : groups[i][r] = IF r <= Len(Chunk(b, i)) THEN Chunk(b, i)[r] ELSE 0
  <2> DEFINE c == Chunk(b, i)
  <2>1. c \in Seq(Bytes) /\ Len(c) \in 1 .. 3
    BY ChunkGives DEF m
  <2>2. groups[i] = DecodeGroup(EncodeGroup(c))
    BY <1>2, <1>4, <1>5
  <2> HIDE DEF c
  <2>3. groups[i] = Padded(c, 3 - Len(c))
    BY <2>1, <2>2, EncodeGroupGives
  <2> DEFINE At(r) == IF r <= Len(c) THEN c[r] ELSE 0
  <2>4. Padded(c, 3 - Len(c)) = [r \in 1 .. 3 |-> At(r)]
    BY <2>1 DEF Padded
  <2>5. ASSUME NEW r \in 1 .. 3 PROVE At(r) \in Bytes
    <3>1. CASE r <= Len(c)
      <4>1. r \in 1 .. Len(c)
        BY <2>1, <3>1
      <4> QED
        BY <2>1, <3>1, <4>1, ElementOfSeq
    <3>2. CASE ~ (r <= Len(c))
      BY <3>2 DEF Bytes
    <3> QED
      BY <3>1, <3>2
  <2> DEFINE padded == Padded(c, 3 - Len(c))
  <2>6. padded \in Seq(Bytes) /\ Len(padded) = 3 /\ \A r \in 1 .. 3 : padded[r] = At(r)
    <3> HIDE DEF At, padded, c
    <3>1. padded = [r \in 1 .. 3 |-> At(r)]
      BY <2>4 DEF padded
    <3> QED
      BY <2>5, <3>1
  <2> QED
    BY <2>3, <2>6 DEF c
<1>7. groups \in Seq(Seq(Bytes)) /\ Len(groups) = m
  <2>1. \A i \in 1 .. m : DecodeGroup(SubSeq(text, 4 * i - 3, 4 * i)) \in Seq(Bytes)
    BY <1>5, <1>6
  <2> QED
    BY <1>1, <1>5, <2>1
<1> HIDE DEF groups
<1>8. /\ out \in Seq(Bytes) /\ Len(out) = 3 * m
      /\ \A k \in 1 .. 3 * m :
           /\ ((k - 1) \div 3) + 1 \in 1 .. m /\ ((k - 1) % 3) + 1 \in 1 .. 3
           /\ k = 3 * ((k - 1) \div 3) + (((k - 1) % 3) + 1)
           /\ out[k] = groups[((k - 1) \div 3) + 1][((k - 1) % 3) + 1]
  <2> DEFINE size == 3
  <2>1. size \in {3, 4} /\ \A i \in 1 .. Len(groups) : Len(groups[i]) = size
    BY <1>6, <1>7
  <2>2. out = Joined(groups, size)
    OBVIOUS
  <2> HIDE DEF size
  <2>3. /\ Joined(groups, size) \in Seq(Bytes) /\ Len(Joined(groups, size)) = size * Len(groups)
        /\ \A k \in 1 .. size * Len(groups) :
             /\ ((k - 1) \div size) + 1 \in 1 .. Len(groups) /\ ((k - 1) % size) + 1 \in 1 .. size
             /\ k = size * ((k - 1) \div size) + (((k - 1) % size) + 1)
             /\ Joined(groups, size)[k] = groups[((k - 1) \div size) + 1][((k - 1) % size) + 1]
    <3>1. groups \in Seq(Seq(Bytes))
      BY <1>7
    <3> HIDE DEF out, n
    <3> QED
      BY <2>1, <3>1, JoinedGives, ZenonT(60)
  <2> QED
    BY <1>7, <2>2, <2>3 DEF size
<1> HIDE DEF out
<1>9. ASSUME NEW k \in 1 .. 3 * m PROVE out[k] = IF k <= n THEN b[k] ELSE 0
  <2> DEFINE i == ((k - 1) \div 3) + 1
             r == ((k - 1) % 3) + 1
             c == Chunk(b, i)
  <2>1. i \in 1 .. m /\ r \in 1 .. 3 /\ k = 3 * ((k - 1) \div 3) + r /\ out[k] = groups[i][r]
    BY <1>8
  <2>2. (k - 1) \div 3 = i - 1
    BY <1>1
  <2> HIDE DEF i, r
  <2>3. k = 3 * (i - 1) + r
    BY <2>1, <2>2
  <2>4. /\ Len(c) = IF 3 * i < n THEN 3 ELSE n - 3 * i + 3
        /\ \A s \in 1 .. Len(c) : c[s] = b[3 * (i - 1) + s]
    BY <2>1, ChunkGives DEF m
  <2>5. out[k] = IF r <= Len(c) THEN c[r] ELSE 0
    BY <1>6, <2>1
  <2> HIDE DEF c, n
  <2>6. r <= Len(c) <=> k <= n
    <3> DEFINE len == Len(c)
    <3>1. len = IF 3 * i < n THEN 3 ELSE n - 3 * i + 3
      BY <2>4
    <3>2. n \in Nat /\ i \in Nat /\ r \in 1 .. 3 /\ k \in Int
      BY <1>1, <2>1
    <3> HIDE DEF len
    <3>3. 3 * i < n => (r <= len <=> k <= n)
      BY <2>3, <3>1, <3>2
    <3>4. ~(3 * i < n) => (r <= len <=> k <= n)
      BY <2>3, <3>1, <3>2
    <3> QED
      BY <3>3, <3>4 DEF len
  <2>7. r <= Len(c) => c[r] = b[k]
    BY <1>1, <2>1, <2>3, <2>4
  <2> QED
    BY <2>5, <2>6, <2>7
<1>10. out = Padded(b, 3 * m - n)
  <2> DEFINE padded == Padded(b, 3 * m - n)
  <2>1. padded = [k \in 1 .. 3 * m |-> IF k <= n THEN b[k] ELSE 0]
    BY <1>1 DEF Padded
  <2>2. out = [k \in 1 .. 3 * m |-> out[k]]
    BY <1>1, <1>8
  <2> HIDE DEF padded
  <2>3. out = padded
    BY <1>9, <2>1, <2>2
  <2> QED
    BY <2>3 DEF padded
<1>11. Base64Decode(e) = TrimTrailingZeros(Padded(b, 3 * m - n), 3 * m - n)
  BY <1>2, <1>3, <1>4, <1>10
<1>12. 3 * m - n \in Nat
  BY <1>1
<1> QED
  BY <1>11, <1>12, TrimGives DEF e

LEMMA SmallestIn ==
  ASSUME NEW I, NEW x \in I, I \subseteq Int, \A y \in I : x <= y
  PROVE  Min(I) = x
<1>1. Min(I) \in I /\ \A y \in I : Min(I) <= y
  BY DEF Min
<1>2. Min(I) <= x /\ x <= Min(I) /\ Min(I) \in Int /\ x \in Int
  BY <1>1
<1> DEFINE z == Min(I)
<1>3. z <= x /\ x <= z /\ z \in Int /\ x \in Int
  BY <1>2
<1> HIDE DEF z
<1>4. z = x
  BY <1>3
<1> QED
  BY <1>4 DEF z

(* Two sets, with a comma between them, are read back as they were written. *)
THEOREM ParseGives ==
  ASSUME NEW a \in Seq(Bytes), NEW b \in Seq(Bytes)
  PROVE  ParseSPropParameterSets(Base64Encode(a) \o <<Comma>> \o Base64Encode(b)) = <<a, b>>
<1> DEFINE x == Base64Encode(a)
           y == Base64Encode(b)
           text == x \o <<Comma>> \o y
           n == Len(x)
           m == Len(y)
           end == n + 1 + m
           num == Cardinality({k \in 1 .. Len(text) : text[k] = Comma}) + 1
           End == CHOOSE f : f = [i \in 0 .. num |-> IF i = 0 THEN 0 ELSE RecordEnd(text, f[i - 1])]
<1>1. x \in Seq(Letters) /\ y \in Seq(Letters)
  BY EncodeGives
<1>2. ParseSPropParameterSets(text) = [i \in 1 .. num |-> Base64Decode(SubSeq(text, End[i - 1] + 1, End[i] - 1))]
  BY DEF ParseSPropParameterSets
<1>3. Base64Decode(x) = a /\ Base64Decode(y) = b
  BY DecodeGives
<1> HIDE DEF x, y
<1>4. /\ n \in Nat /\ m \in Nat
      /\ \A k \in 1 .. n : x[k] # Comma
      /\ \A k \in 1 .. m : y[k] # Comma
  <2>1. n \in Nat /\ m \in Nat
    BY <1>1
  <2>2. (\A k \in 1 .. n : x[k] \in Letters) /\ (\A k \in 1 .. m : y[k] \in Letters)
    BY <1>1, ElementOfSeq
  <2>3. \A letter \in Letters : letter # Comma
    BY DEF Letters, Comma
  <2> HIDE DEF n, m
  <2> QED
    BY <2>1, <2>2, <2>3
<1>5. /\ Len(text) = end /\ \A k \in 1 .. n : text[k] = x[k]
      /\ text[n + 1] = Comma /\ \A k \in 1 .. m : text[n + 1 + k] = y[k]
  <2> DEFINE S == Letters \cup {Comma}
  <2>1. x \in Seq(S) /\ y \in Seq(S) /\ <<Comma>> \in Seq(S)
    BY <1>1
  <2> HIDE DEF S
  <2> QED
    BY <2>1
<1>6. text \in Seq(Letters \cup {Comma})
  <2> DEFINE S == Letters \cup {Comma}
  <2>1. x \in Seq(S) /\ y \in Seq(S) /\ <<Comma>> \in Seq(S)
    BY <1>1
  <2> HIDE DEF S
  <2>2. text \in Seq(S)
    BY <2>1
  <2> QED
    BY <2>2 DEF S
<1> HIDE DEF text, n, m
<1>7. \A k \in 1 .. end : text[k] = Comma <=> k = n + 1
  <2>1. ASSUME NEW k \in 1 .. end, k # n + 1 PROVE text[k] # Comma
    <3>1. CASE k \in 1 .. n
      BY <1>4, <1>5, <3>1
    <3>2. CASE k > n + 1
      <4>1. k - (n + 1) \in 1 .. m /\ k = n + 1 + (k - (n + 1))
        BY <1>4, <3>2
      <4> DEFINE j == k - (n + 1)
      <4>2. j \in 1 .. m /\ k = n + 1 + j
        BY <4>1
      <4> HIDE DEF j
      <4>3. text[k] = y[j] /\ y[j] # Comma
        BY <1>4, <1>5, <4>2
      <4> QED
        BY <4>3
    <3> QED
      BY <1>4, <2>1, <3>1, <3>2
  <2> QED
    BY <1>4, <1>5, <2>1
<1>8. num = 2
  <2>1. {k \in 1 .. Len(text) : text[k] = Comma} = {n + 1}
    BY <1>4, <1>5, <1>7
  <2>2. Cardinality({n + 1}) = 1
    BY FS_Singleton
  <2>3. num = 1 + 1
    BY <2>1, <2>2
  <2> HIDE DEF num
  <2> QED
    BY <2>3
<1>9. RecordEnd(text, 0) = n + 1
  <2> DEFINE I == {j \in 0 + 1 .. Len(text) + 1 : j > Len(text) \/ text[j] = Comma}
  <2>1. n + 1 \in I /\ I \subseteq Int /\ \A j \in I : n + 1 <= j
    BY <1>4, <1>5, <1>7
  <2> HIDE DEF I
  <2>2. Min(I) = n + 1
    BY <2>1, SmallestIn
  <2> QED
    BY <2>2 DEF RecordEnd, I
<1>10. RecordEnd(text, n + 1) = end + 1
  <2> DEFINE I == {j \in (n + 1) + 1 .. Len(text) + 1 : j > Len(text) \/ text[j] = Comma}
  <2>1. end + 1 \in I /\ I \subseteq Int /\ \A j \in I : end + 1 <= j
    BY <1>4, <1>5, <1>7
  <2> HIDE DEF I
  <2>2. Min(I) = end + 1
    BY <2>1, SmallestIn
  <2> QED
    BY <2>2 DEF RecordEnd, I
<1> HIDE DEF num
<1>11. End[0] = 0 /\ End[1] = n + 1 /\ End[2] = end + 1
  <2> DEFINE Step(f, i) == IF i = 0 THEN 0 ELSE RecordEnd(text, f[i - 1])
             g == [i \in 0 .. 2 |-> IF i = 0 THEN 0 ELSE IF i = 1 THEN n + 1 ELSE end + 1]
  <2>1. \A i \in 0 .. 2 : g[i] = Step(g, i)
    <3>1. Step(g, 0) = 0 /\ Step(g, 1) = n + 1 /\ Step(g, 2) = end + 1
      BY <1>9, <1>10
    <3> HIDE DEF Step
    <3> QED
      BY <3>1
  <2>2. g = [i \in 0 .. 2 |-> g[i]]
    OBVIOUS
  <2> HIDE DEF g
  <2>3. g = [i \in 0 .. 2 |-> Step(g, i)]
    <3> HIDE DEF Step
    <3> QED
      BY <2>1, <2>2
  <2>4. \E f : f = [i \in 0 .. num |-> IF i = 0 THEN 0 ELSE RecordEnd(text, f[i - 1])]
    BY <1>8, <2>3
  <2>5. End = [i \in 0 .. num |-> IF i = 0 THEN 0 ELSE RecordEnd(text, End[i - 1])]
    BY <2>4
  <2> HIDE DEF End
  <2>6. End = [i \in 0 .. 2 |-> Step(End, i)]
    BY <1>8, <2>5
  <2>7. \A i \in 0 .. 2 : End[i] = Step(End, i)
    <3> HIDE DEF Step
    <3> QED
      BY <2>6
  <2>8. End[0] = 0
    BY <2>7
  <2>9. End[1] = n + 1
    BY <1>9, <2>7, <2>8
  <2>10. End[2] = end + 1
    BY <1>10, <2>7, <2>9
  <2> QED
    BY <2>8, <2>9, <2>10
<1> HIDE DEF End
<1>12. SubSeq(text, 1, n) = x
  <2> DEFINE part == SubSeq(text, 1, n)
  <2>1. part \in Seq(Letters \cup {Comma}) /\ Len(part) = n /\ \A k \in 1 .. n : part[k] = text[k]
    BY <1>4, <1>5, <1>6
  <2>2. x \in Seq(Letters \cup {Comma}) /\ Len(x) = n
    BY <1>1 DEF n
  <2> HIDE DEF part
  <2>3. part = x
    BY <1>5, <2>1, <2>2, SeqEqual
  <2> QED
    BY <2>3 DEF part
<1>13. SubSeq(text, n + 2, end) = y
  <2> DEFINE part == SubSeq(text, n + 2, end)
  <2>0. n + 2 \in Int /\ end \in Int /\ end - (n + 2) + 1 = m /\ \A k \in 1 .. m : n + 2 + k - 1 = n + 1 + k
    BY <1>4
  <2>1. part \in Seq(Letters \cup {Comma}) /\ Len(part) = m /\ \A k \in 1 .. m : part[k] = text[n + 1 + k]
    BY <1>4, <1>5, <1>6
  <2>2. y \in Seq(Letters \cup {Comma}) /\ Len(y) = m
    BY <1>1 DEF m
  <2> HIDE DEF part
  <2>3. part = y
    BY <1>5, <2>1, <2>2, SeqEqual
  <2> QED
    BY <2>3 DEF part
<1>14. /\ SubSeq(text, End[0] + 1, End[1] - 1) = x
       /\ SubSeq(text, End[1] + 1, End[2] - 1) = y
  <2>1. 0 + 1 = 1 /\ (n + 1) - 1 = n /\ (n + 1) + 1 = n + 2 /\ (end + 1) - 1 = end
    BY <1>4
  <2> HIDE DEF end
  <2> QED
    BY <1>11, <1>12, <1>13, <2>1
<1> DEFINE At(i) == Base64Decode(SubSeq(text, End[i - 1] + 1, End[i] - 1))
<1>15. At(1) = a /\ At(2) = b
  <2>1. 1 - 1 = 0 /\ 2 - 1 = 1
    OBVIOUS
  <2> QED
    BY <1>3, <1>14, <2>1
<1>16. ParseSPropParameterSets(text) = [i \in 1 .. 2 |-> At(i)]
  BY <1>2, <1>8
<1> HIDE DEF At
<1>17. [i \in 1 .. 2 |-> At(i)] = <<At(1), At(2)>>
  OBVIOUS
<1> QED
  BY <1>15, <1>16, <1>17 DEF text, x, y
===============================================================================
