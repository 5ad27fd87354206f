---------------------------- MODULE HashTableProofs ---------------------------
(***************************************************************************)
(* The hash table behaves as an associative array whatever is added,       *)
(* removed, rehashed and iterated over, for any keys, any hash of them and *)
(* any number of rebuilds.                                                 *)
(***************************************************************************)
EXTENDS HashTable, FiniteSetTheorems, SequenceTheorems, WellFoundedInduction, TLAPS

------------------------------------------------------------------------------
(* The invariant. *)

(* The keys that have an entry. *)
Used == {k \in Keys : value[k] # None}

(* A table of n chains links each key of S once, where it is hashed to. *)
Links(table, n, S) ==
  /\ table \in [0 .. n - 1 -> Seq(Keys)]
  /\ \A i \in 0 .. n - 1 : IsInjective(table[i])
  /\ \A i \in 0 .. n - 1, k \in Keys : k \in ToSet(table[i]) <=> k \in S /\ HashIndex(k, n) = i

Sizes == num_buckets \in Nat \ {0} /\ rebuild_size \in Nat \ {0}
Counted ==
  IsFiniteSet(Used) /\ num_entries = Cardinality(Used) /\ num_entries < rebuild_size

TableOK ==
  /\ key_type \in {"string", "word"}
  /\ Sizes
  /\ value \in [Keys -> Values \cup {None}]
  /\ Links(buckets, num_buckets, Used)
  /\ Counted

IteratorTypes ==
  /\ iterating \in BOOLEAN
  /\ next_index \in 0 .. num_buckets
  /\ next_entry \in Keys \cup {None}
  /\ current \in Keys \cup {None}

(* The entry that the user holds is in the table, and the iterator has passed *)
(* it: its removal takes nothing from under the iterator.                    *)
HeldIsPassed == iterating /\ current # None => current \in Used /\ current \notin Pending

IInv == TableOK /\ IteratorTypes /\ IteratorNotDangling /\ HeldIsPassed

------------------------------------------------------------------------------
(* Numbers: smallest and largest ones, and counting up to n. *)

Below == {p \in Nat \X Nat : p[1] < p[2]}

LEMMA BelowWellFounded == IsWellFoundedOn(Below, Nat)
BY NatLessThanWellFounded DEF OpToRel, Below

LEMMA SmallestNumber ==
  ASSUME NEW T, T \subseteq Nat, T # {}
  PROVE  \E x \in T : \A y \in T : x <= y
<1>1. PICK x \in T : \A y \in T : ~ (<<y, x>> \in Below)
  BY BelowWellFounded, WFMin
<1>2. ASSUME NEW y \in T PROVE x <= y
  <2>1. x \in Nat /\ y \in Nat
    OBVIOUS
  <2>2. <<y, x>> \in Nat \X Nat /\ <<y, x>>[1] = y /\ <<y, x>>[2] = x
    BY <2>1
  <2>3. y < x => <<y, x>> \in Below
    BY <2>2 DEF Below
  <2> QED
    BY <1>1, <2>1, <2>3
<1> QED
  BY <1>2

LEMMA MinOfNumbers ==
  ASSUME NEW T, T \subseteq Nat, T # {}
  PROVE  Min(T) \in T /\ \A y \in T : Min(T) <= y
BY SmallestNumber DEF Min

LEMMA MaxOfPlaces ==
  ASSUME NEW m \in Nat, NEW u \in SUBSET (1 .. m), u # {}
  PROVE  Max(u) \in u /\ \A y \in u : y <= Max(u)
<1> DEFINE T == {m - y : y \in u}
<1>0. \A y \in u : y \in 1 .. m /\ m - y \in Nat
  OBVIOUS
<1>1. T \subseteq Nat /\ T # {}
  BY <1>0
<1>2. PICK d \in T : \A y \in T : d <= y
  <2> HIDE DEF T
  <2> QED
    BY <1>1, SmallestNumber
<1>3. PICK x \in u : d = m - x
  OBVIOUS
<1>4. \A y \in u : x >= y
  <2> SUFFICES ASSUME NEW y \in u PROVE x >= y
    OBVIOUS
  <2>1. m - y \in T
    OBVIOUS
  <2> QED
    BY <1>0, <1>2, <1>3, <2>1
<1>5. \E z \in u : \A y \in u : z >= y
  BY <1>4
<1>6. Max(u) \in u /\ \A y \in u : Max(u) >= y
  BY <1>5 DEF Max
<1> QED
  BY <1>0, <1>6

(* What holds of 0, and of every i with i - 1, holds up to n. *)
LEMMA CountingUp ==
  ASSUME NEW n \in Nat, NEW S, 0 \in S, \A i \in 1 .. n : i - 1 \in S => i \in S
  PROVE  0 .. n \subseteq S
<1> DEFINE T == {i \in 0 .. n : i \notin S}
<1> SUFFICES ASSUME T # {} PROVE FALSE
  OBVIOUS
<1>1. PICK x \in T : \A y \in T : x <= y
  <2>1. T \subseteq Nat
    OBVIOUS
  <2> HIDE DEF T
  <2> QED
    BY <2>1, SmallestNumber
<1>2. x # 0 /\ x \in 1 .. n
  OBVIOUS
<1>3. x - 1 \in 0 .. n /\ x - 1 \notin T
  BY <1>1, <1>2
<1> QED
  BY <1>2, <1>3

------------------------------------------------------------------------------
(* Folds.  FoldLeft is defined by recursion over the places of a sequence,    *)
(* the last one first.  Such a function exists, so that the one FoldLeft      *)
(* chooses is one.                                                           *)

IsFold(h, n, X, base, step) ==
  /\ h \in [SUBSET (1 .. n) -> X]
  /\ \A u \in SUBSET (1 .. n) :
       h[u] = IF u = {} THEN base ELSE step[<<h[u \ {Max(u)}], Max(u)>>]

LEMMA FoldOfNothing ==
  ASSUME NEW X, NEW base \in X, NEW step
  PROVE  \E h : IsFold(h, 0, X, base, step)
<1> DEFINE h == [u \in SUBSET (1 .. 0) |-> base]
<1>1. \A u \in SUBSET (1 .. 0) : u = {}
  OBVIOUS
<1>2. h \in [SUBSET (1 .. 0) -> X] /\ \A u \in SUBSET (1 .. 0) : h[u] = base
  OBVIOUS
<1> HIDE DEF h
<1> QED
  BY <1>1, <1>2 DEF IsFold

LEMMA FoldOfOneMore ==
  ASSUME NEW m \in Nat, NEW X, NEW base \in X, NEW step \in [X \X Nat -> X],
         NEW h, IsFold(h, m, X, base, step)
  PROVE  \E g : IsFold(g, m + 1, X, base, step)
<1> DEFINE g == [u \in SUBSET (1 .. m + 1) |->
                   IF m + 1 \in u THEN step[<<h[u \ {m + 1}], m + 1>>] ELSE h[u]]
<1>1. ASSUME NEW u \in SUBSET (1 .. m + 1), m + 1 \in u
      PROVE  u \ {m + 1} \in SUBSET (1 .. m) /\ Max(u) = m + 1
  <2>0. m + 1 \in Nat /\ u # {} /\ \A y \in u : y \in 1 .. m + 1
    BY <1>1
  <2>1. Max(u) \in u /\ \A y \in u : y <= Max(u)
    BY <2>0, MaxOfPlaces
  <2>2. Max(u) \in 1 .. m + 1 /\ m + 1 <= Max(u)
    BY <1>1, <2>0, <2>1
  <2>3. \A y \in u \ {m + 1} : y \in 1 .. m
    BY <2>0
  <2> QED
    BY <2>2, <2>3
<1>2. ASSUME NEW u \in SUBSET (1 .. m + 1), m + 1 \notin u
      PROVE  u \in SUBSET (1 .. m)
  BY <1>2
<1>3. \A u \in SUBSET (1 .. m) : h[u] \in X
  BY DEF IsFold
<1>4. g \in [SUBSET (1 .. m + 1) -> X]
  <2> SUFFICES ASSUME NEW u \in SUBSET (1 .. m + 1) PROVE g[u] \in X
    OBVIOUS
  <2>1. CASE m + 1 \in u
    <3>1. <<h[u \ {m + 1}], m + 1>> \in X \X Nat
      BY <1>1, <1>3, <2>1
    <3> QED
      BY <2>1, <3>1
  <2>2. CASE m + 1 \notin u
    BY <1>2, <1>3, <2>2
  <2> QED
    BY <2>1, <2>2
<1>5. ASSUME NEW u \in SUBSET (1 .. m + 1)
      PROVE  g[u] = IF u = {} THEN base ELSE step[<<g[u \ {Max(u)}], Max(u)>>]
  <2>1. CASE m + 1 \in u
    <3>1. g[u \ {m + 1}] = h[u \ {m + 1}]
      BY <1>1, <2>1
    <3> QED
      BY <1>1, <2>1, <3>1
  <2>2. CASE m + 1 \notin u
    <3>1. u \in SUBSET (1 .. m) /\ g[u] = h[u]
      BY <1>2, <2>2
    <3>2. u \ {Max(u)} \in SUBSET (1 .. m) /\ m + 1 \notin u \ {Max(u)}
      BY <3>1, <2>2
    <3>3. g[u \ {Max(u)}] = h[u \ {Max(u)}]
      BY <3>2
    <3> QED
      BY <3>1, <3>3 DEF IsFold
  <2> QED
    BY <2>1, <2>2
<1> HIDE DEF g
<1> QED
  BY <1>4, <1>5 DEF IsFold

LEMMA FoldExists ==
  ASSUME NEW n \in Nat, NEW X, NEW base \in X, NEW step \in [X \X Nat -> X]
  PROVE  \E h : IsFold(h, n, X, base, step)
<1> DEFINE S == {m \in Nat : \E h : IsFold(h, m, X, base, step)}
<1>1. 0 \in S
  BY FoldOfNothing
<1>2. ASSUME NEW i \in 1 .. n, i - 1 \in S PROVE i \in S
  <2>1. PICK h : IsFold(h, i - 1, X, base, step)
    BY <1>2
  <2>2. i - 1 \in Nat /\ i - 1 + 1 = i
    OBVIOUS
  <2>3. \E g : IsFold(g, i, X, base, step)
    BY <2>1, <2>2, FoldOfOneMore
  <2> QED
    BY <2>3
<1>3. 0 .. n \subseteq S
  <2> HIDE DEF S
  <2> QED
    BY <1>1, <1>2, CountingUp
<1> QED
  BY <1>3

LEMMA PlacesUpTo ==
  ASSUME NEW n \in Nat, NEW i \in 1 .. n
  PROVE  /\ 1 .. i \in SUBSET (1 .. n)
         /\ 1 .. i # {}
         /\ Max(1 .. i) = i
         /\ (1 .. i) \ {i} = 1 .. (i - 1)
<1>1. i \in Nat /\ 1 .. i # {} /\ 1 .. i \in SUBSET (1 .. i) /\ i \in 1 .. i
  OBVIOUS
<1>2. Max(1 .. i) \in 1 .. i /\ \A y \in 1 .. i : y <= Max(1 .. i)
  BY <1>1, MaxOfPlaces
<1>3. Max(1 .. i) = i
  BY <1>1, <1>2
<1> QED
  BY <1>1, <1>3

(* The tables that a chain passes through while its entries are moved. *)
ChainSteps(at, t, s) ==
  /\ at[0] = t
  /\ \A i \in 1 .. Len(s) : at[i] = Moved(at[i - 1], s[i])
  /\ ChainMoved(t, s) = at[Len(s)]

LEMMA ChainMovedSteps ==
  ASSUME NEW X, NEW t \in X, NEW s \in Seq(Keys),
         \A y \in X, k \in Keys : Moved(y, k) \in X
  PROVE  \E at \in [0 .. Len(s) -> X] : ChainSteps(at, t, s)
<1> DEFINE n == Len(s)
           body(g) == [u \in SUBSET DOMAIN s |->
                         IF u = {} THEN t ELSE Moved(g[u \ {Max(u)}], s[Max(u)])]
           fold == CHOOSE g : g = body(g)
           step == [p \in X \X Nat |-> IF p[2] \in 1 .. n THEN Moved(p[1], s[p[2]]) ELSE p[1]]
<1>1. n \in Nat /\ DOMAIN s = 1 .. n /\ \A i \in 1 .. n : s[i] \in Keys
  OBVIOUS
<1>2. ChainMoved(t, s) = fold[1 .. n]
  BY <1>1 DEF ChainMoved, FoldLeft, MapThenFoldSet
<1>3. fold = body(fold)
  <2>1. step \in [X \X Nat -> X]
    BY <1>1
  <2>2. \A y \in X, i \in 1 .. n : step[<<y, i>>] = Moved(y, s[i])
    OBVIOUS
  <2> HIDE DEF step, n
  <2>3. PICK h : IsFold(h, n, X, t, step)
    BY <1>1, <2>1, FoldExists
  <2>4. ASSUME NEW u \in SUBSET (1 .. n)
        PROVE  h[u] = IF u = {} THEN t ELSE Moved(h[u \ {Max(u)}], s[Max(u)])
    <3>1. CASE u = {}
      BY <2>3, <3>1 DEF IsFold
    <3>2. CASE u # {}
      <4>1. Max(u) \in 1 .. n /\ h[u \ {Max(u)}] \in X
        BY <1>1, <2>3, <3>2, MaxOfPlaces DEF IsFold
      <4>2. h[u] = step[<<h[u \ {Max(u)}], Max(u)>>]
        BY <2>3, <3>2 DEF IsFold
      <4> QED
        BY <2>2, <3>2, <4>1, <4>2
    <3> QED
      BY <3>1, <3>2
  <2>5. h = body(h)
    <3>1. h = [u \in SUBSET (1 .. n) |-> h[u]]
      BY <2>3 DEF IsFold
    <3> QED
      BY <1>1, <2>4, <3>1
  <2> HIDE DEF body
  <2> QED
    BY <2>5
<1> HIDE DEF fold, n
<1>4. fold[1 .. 0] = t
  BY <1>1, <1>3
<1>5. ASSUME NEW i \in 1 .. n
      PROVE  fold[1 .. i] = Moved(fold[1 .. (i - 1)], s[i])
  <2>1. /\ 1 .. i \in SUBSET (1 .. n) /\ 1 .. i # {}
        /\ Max(1 .. i) = i /\ (1 .. i) \ {i} = 1 .. (i - 1)
    BY <1>1, PlacesUpTo
  <2> QED
    BY <1>1, <1>3, <2>1
<1> DEFINE S == {i \in 0 .. n : fold[1 .. i] \in X}
<1>6. 0 .. n \subseteq S
  <2>1. 0 \in S
    BY <1>1, <1>4
  <2>2. ASSUME NEW i \in 1 .. n, i - 1 \in S PROVE i \in S
    BY <1>1, <1>5, <2>2
  <2> HIDE DEF S
  <2> QED
    BY <1>1, <2>1, <2>2, CountingUp
<1> DEFINE at == [i \in 0 .. n |-> fold[1 .. i]]
<1>7. at \in [0 .. n -> X] /\ at[0] = t /\ at[n] = fold[1 .. n]
  BY <1>1, <1>4, <1>6
<1>8. \A i \in 1 .. n : at[i] = Moved(at[i - 1], s[i])
  BY <1>1, <1>5
<1> HIDE DEF at
<1>9. ChainSteps(at, t, s)
  BY <1>2, <1>7, <1>8 DEF n, ChainSteps
<1> QED
  BY <1>7, <1>9 DEF n

(* The tables that a rebuild passes through, chain by chain. *)
TableSteps(at, t, chains, n) ==
  /\ at[0] = t
  /\ \A j \in 1 .. n : at[j] = ChainMoved(at[j - 1], chains[j])
  /\ FoldLeft(ChainMoved, t, chains) = at[n]

LEMMA RebuiltSteps ==
  ASSUME NEW X, NEW t \in X, NEW n \in Nat, NEW chains,
         \A y \in X, j \in 1 .. n : ChainMoved(y, chains[j]) \in X, DOMAIN chains = 1 .. n
  PROVE  \E at \in [0 .. n -> X] : TableSteps(at, t, chains, n)
<1> DEFINE body(g) == [u \in SUBSET DOMAIN chains |->
                         IF u = {} THEN t ELSE ChainMoved(g[u \ {Max(u)}], chains[Max(u)])]
           fold == CHOOSE g : g = body(g)
           step == [p \in X \X Nat |-> IF p[2] \in 1 .. n THEN ChainMoved(p[1], chains[p[2]]) ELSE p[1]]
<1>2. FoldLeft(ChainMoved, t, chains) = fold[1 .. n]
  BY DEF FoldLeft, MapThenFoldSet
<1>3. fold = body(fold)
  <2>1. step \in [X \X Nat -> X]
    OBVIOUS
  <2>2. \A y \in X, i \in 1 .. n : step[<<y, i>>] = ChainMoved(y, chains[i])
    OBVIOUS
  <2> HIDE DEF step
  <2>3. PICK h : IsFold(h, n, X, t, step)
    BY <2>1, FoldExists
  <2>4. ASSUME NEW u \in SUBSET (1 .. n)
        PROVE  h[u] = IF u = {} THEN t ELSE ChainMoved(h[u \ {Max(u)}], chains[Max(u)])
    <3>1. CASE u = {}
      BY <2>3, <3>1 DEF IsFold
    <3>2. CASE u # {}
      <4>1. Max(u) \in 1 .. n /\ h[u \ {Max(u)}] \in X
        BY <2>3, <3>2, MaxOfPlaces DEF IsFold
      <4>2. h[u] = step[<<h[u \ {Max(u)}], Max(u)>>]
        BY <2>3, <3>2 DEF IsFold
      <4> QED
        BY <2>2, <3>2, <4>1, <4>2
    <3> QED
      BY <3>1, <3>2
  <2>5. h = body(h)
    <3>1. h = [u \in SUBSET (1 .. n) |-> h[u]]
      BY <2>3 DEF IsFold
    <3> QED
      BY <2>4, <3>1
  <2> HIDE DEF body
  <2> QED
    BY <2>5
<1> HIDE DEF fold
<1>4. fold[1 .. 0] = t
  BY <1>3
<1>5. ASSUME NEW i \in 1 .. n
      PROVE  fold[1 .. i] = ChainMoved(fold[1 .. (i - 1)], chains[i])
  <2>1. /\ 1 .. i \in SUBSET (1 .. n) /\ 1 .. i # {}
        /\ Max(1 .. i) = i /\ (1 .. i) \ {i} = 1 .. (i - 1)
    BY PlacesUpTo
  <2> QED
    BY <1>3, <2>1
<1> DEFINE S == {i \in 0 .. n : fold[1 .. i] \in X}
<1>6. 0 .. n \subseteq S
  <2>1. 0 \in S
    BY <1>4
  <2>2. ASSUME NEW i \in 1 .. n, i - 1 \in S PROVE i \in S
    BY <1>5, <2>2
  <2> HIDE DEF S
  <2> QED
    BY <2>1, <2>2, CountingUp
<1> DEFINE at == [i \in 0 .. n |-> fold[1 .. i]]
<1>7. at \in [0 .. n -> X] /\ at[0] = t /\ at[n] = fold[1 .. n]
  BY <1>4, <1>6
<1>8. \A i \in 1 .. n : at[i] = ChainMoved(at[i - 1], chains[i])
  BY <1>5
<1> HIDE DEF at
<1>9. TableSteps(at, t, chains, n)
  BY <1>2, <1>7, <1>8 DEF TableSteps
<1> QED
  BY <1>7, <1>9

------------------------------------------------------------------------------
(* Chains. *)

LEMMA ChainTypes ==
  ASSUME NEW s \in Seq(Keys)
  PROVE  /\ Len(s) \in Nat /\ DOMAIN s = 1 .. Len(s)
         /\ \A i \in 1 .. Len(s) : s[i] \in Keys
         /\ \A k : k \in ToSet(s) <=> \E i \in 1 .. Len(s) : s[i] = k
         /\ \A k : Contains(s, k) <=> k \in ToSet(s)
         /\ IsInjective(s) <=> \A i, j \in 1 .. Len(s) : s[i] = s[j] => i = j
         /\ s = << >> <=> ToSet(s) = {}
<1>1. Len(s) \in Nat /\ DOMAIN s = 1 .. Len(s) /\ \A i \in 1 .. Len(s) : s[i] \in Keys
  OBVIOUS
<1>2. \A k : k \in ToSet(s) <=> \E i \in 1 .. Len(s) : s[i] = k
  BY <1>1 DEF ToSet
<1>3. \A k : Contains(s, k) <=> k \in ToSet(s)
  BY <1>2 DEF Contains
<1>4. IsInjective(s) <=> \A i, j \in 1 .. Len(s) : s[i] = s[j] => i = j
  BY <1>1 DEF IsInjective
<1>5. s = << >> <=> ToSet(s) = {}
  <2>1. s = << >> => ToSet(s) = {}
    BY DEF ToSet
  <2>2. s # << >> => 1 \in 1 .. Len(s)
    OBVIOUS
  <2> QED
    BY <1>2, <2>1, <2>2
<1> QED
  BY <1>1, <1>2, <1>3, <1>4, <1>5

LEMMA EmptyChain == << >> \in Seq(Keys) /\ ToSet(<< >>) = {} /\ IsInjective(<< >>)
<1>1. << >> \in Seq(Keys) /\ Len(<< >>) = 0
  OBVIOUS
<1> QED
  BY <1>1, ChainTypes

LEMMA InFront ==
  ASSUME NEW s \in Seq(Keys), IsInjective(s), NEW k \in Keys, k \notin ToSet(s)
  PROVE  /\ <<k>> \o s \in Seq(Keys)
         /\ IsInjective(<<k>> \o s)
         /\ ToSet(<<k>> \o s) = ToSet(s) \cup {k}
<1> DEFINE c == <<k>> \o s
<1>1. c \in Seq(Keys) /\ Len(c) = Len(s) + 1 /\ Len(s) \in Nat
  OBVIOUS
<1>2. c[1] = k /\ \A i \in 1 .. Len(s) : c[i + 1] = s[i]
  OBVIOUS
<1> HIDE DEF c
<1>3. \A i \in 1 .. Len(c) : i = 1 \/ (i - 1 \in 1 .. Len(s) /\ c[i] = s[i - 1])
  <2> SUFFICES ASSUME NEW i \in 1 .. Len(c), i # 1
               PROVE  i - 1 \in 1 .. Len(s) /\ c[i] = s[i - 1]
    OBVIOUS
  <2>1. i - 1 \in 1 .. Len(s) /\ (i - 1) + 1 = i
    BY <1>1
  <2> QED
    BY <1>2, <2>1
<1>4. ToSet(c) = ToSet(s) \cup {k}
  <2>1. ASSUME NEW x \in ToSet(c) PROVE x \in ToSet(s) \cup {k}
    BY <1>1, <1>2, <1>3, <2>1, ChainTypes
  <2>2. k \in ToSet(c)
    <3>1. 1 \in 1 .. Len(c)
      BY <1>1
    <3> QED
      BY <1>1, <1>2, <3>1, ChainTypes
  <2>3. ASSUME NEW x \in ToSet(s) PROVE x \in ToSet(c)
    <3>1. PICK i \in 1 .. Len(s) : s[i] = x
      BY <2>3, ChainTypes
    <3>2. i + 1 \in 1 .. Len(c) /\ c[i + 1] = x
      BY <1>1, <1>2, <3>1
    <3> QED
      BY <1>1, <3>2, ChainTypes
  <2> QED
    BY <2>1, <2>2, <2>3
<1>5. IsInjective(c)
  <2> SUFFICES ASSUME NEW i \in 1 .. Len(c), NEW j \in 1 .. Len(c), c[i] = c[j] PROVE i = j
    BY <1>1, ChainTypes
  <2>1. \A p \in 1 .. Len(s) : s[p] # k
    BY ChainTypes
  <2>2. CASE i = 1
    BY <1>2, <1>3, <2>1, <2>2
  <2>3. CASE j = 1
    BY <1>2, <1>3, <2>1, <2>3
  <2>4. CASE i # 1 /\ j # 1
    <3>1. i - 1 \in 1 .. Len(s) /\ j - 1 \in 1 .. Len(s) /\ s[i - 1] = s[j - 1]
      BY <1>3, <2>4
    <3>2. i - 1 = j - 1
      BY <3>1, ChainTypes
    <3> QED
      BY <1>1, <3>2
  <2> QED
    BY <2>2, <2>3, <2>4
<1> QED
  BY <1>1, <1>4, <1>5 DEF c

LEMMA PlaceFound ==
  ASSUME NEW s \in Seq(Keys), NEW k, k \in ToSet(s)
  PROVE  Place(s, k) \in 1 .. Len(s) /\ s[Place(s, k)] = k
<1> DEFINE I == {i \in 1 .. Len(s) : s[i] = k}
<1>1. I # {} /\ I \subseteq Nat
  BY ChainTypes
<1>2. Place(s, k) = Min(I)
  BY <1>1 DEF Place, SelectInSeq
<1>3. Min(I) \in I
  <2> HIDE DEF I
  <2> QED
    BY <1>1, MinOfNumbers
<1> QED
  BY <1>2, <1>3

LEMMA Unlinked ==
  ASSUME NEW s \in Seq(Keys), IsInjective(s), NEW k, k \in ToSet(s)
  PROVE  /\ RemoveFirst(s, k) \in Seq(Keys)
         /\ Len(RemoveFirst(s, k)) = Len(s) - 1
         /\ \A i \in 1 .. Len(s) - 1 :
              RemoveFirst(s, k)[i] = IF i < Place(s, k) THEN s[i] ELSE s[i + 1]
         /\ IsInjective(RemoveFirst(s, k))
         /\ ToSet(RemoveFirst(s, k)) = ToSet(s) \ {k}
<1> DEFINE p == Place(s, k)
           c == RemoveFirst(s, k)
<1>1. Len(s) \in Nat /\ p \in 1 .. Len(s) /\ s[p] = k
  BY PlaceFound
<1>2. c = SubSeq(s, 1, p - 1) \o SubSeq(s, p + 1, Len(s))
  <2>1. \E i \in 1 .. Len(s) : s[i] = k
    BY <1>1
  <2> QED
    BY <2>1 DEF RemoveFirst, RemoveAt, Place
<1> HIDE DEF p, c
<1> DEFINE before == SubSeq(s, 1, p - 1)
           after == SubSeq(s, p + 1, Len(s))
<1>3. /\ before \in Seq(Keys) /\ Len(before) = p - 1
      /\ \A i \in 1 .. p - 1 : before[i] = s[i]
  BY <1>1
<1>4. /\ after \in Seq(Keys) /\ Len(after) = Len(s) - p
      /\ \A i \in 1 .. Len(s) - p : after[i] = s[p + i]
  BY <1>1
<1> HIDE DEF before, after
<1>5. /\ c \in Seq(Keys) /\ Len(c) = Len(s) - 1
      /\ \A i \in 1 .. Len(s) - 1 : c[i] = IF i <= p - 1 THEN before[i] ELSE after[i - (p - 1)]
  <2>1. c = before \o after
    BY <1>2 DEF before, after
  <2>2. Len(before) + Len(after) = Len(s) - 1
    BY <1>1, <1>3, <1>4
  <2> QED
    BY <1>3, <1>4, <2>1, <2>2, ConcatProperties
<1>6. ASSUME NEW i \in 1 .. Len(s) - 1
      PROVE  c[i] = IF i < p THEN s[i] ELSE s[i + 1]
  <2>1. CASE i < p
    <3>1. i <= p - 1 /\ i \in 1 .. p - 1
      BY <1>1, <2>1
    <3> QED
      BY <1>3, <1>5, <2>1, <3>1
  <2>2. CASE i >= p
    <3>1. i - (p - 1) \in 1 .. Len(s) - p /\ p + (i - (p - 1)) = i + 1
      BY <1>1, <2>2
    <3>2. c[i] = after[i - (p - 1)] /\ ~(i < p)
      BY <1>1, <1>5, <2>2
    <3> QED
      BY <1>4, <3>1, <3>2
  <2> QED
    BY <1>1, <2>1, <2>2
<1>7. \A i, j \in 1 .. Len(s) : s[i] = s[j] => i = j
  BY ChainTypes
<1>8. IsInjective(c)
  <2> SUFFICES ASSUME NEW i \in 1 .. Len(c), NEW j \in 1 .. Len(c), c[i] = c[j] PROVE i = j
    BY <1>5, ChainTypes
  <2>1. i \in 1 .. Len(s) - 1 /\ j \in 1 .. Len(s) - 1
    BY <1>5
  <2> QED
    BY <1>1, <1>6, <1>7, <2>1
<1>9. ToSet(c) = ToSet(s) \ {k}
  <2>1. ASSUME NEW x \in ToSet(c) PROVE x \in ToSet(s) \ {k}
    <3>1. PICK i \in 1 .. Len(s) - 1 : c[i] = x
      BY <1>5, <2>1, ChainTypes
    <3>2. CASE i < p
      <4>1. i \in 1 .. Len(s) /\ i # p /\ s[i] = x
        BY <1>1, <1>6, <3>1, <3>2
      <4> QED
        BY <1>1, <1>7, <4>1, ChainTypes
    <3>3. CASE ~(i < p)
      <4>1. i + 1 \in 1 .. Len(s) /\ i + 1 # p /\ s[i + 1] = x
        BY <1>1, <1>6, <3>1, <3>3
      <4> QED
        BY <1>1, <1>7, <4>1, ChainTypes
    <3> QED
      BY <3>2, <3>3
  <2>2. ASSUME NEW x \in ToSet(s), x # k PROVE x \in ToSet(c)
    <3>1. PICK i \in 1 .. Len(s) : s[i] = x
      BY <2>2, ChainTypes
    <3>2. i # p
      BY <1>1, <2>2, <3>1
    <3>3. CASE i < p
      <4>1. i \in 1 .. Len(s) - 1 /\ c[i] = x
        BY <1>1, <1>6, <3>1, <3>3
      <4> QED
        BY <1>5, <4>1, ChainTypes
    <3>4. CASE i > p
      <4>1. i - 1 \in 1 .. Len(s) - 1 /\ ~(i - 1 < p) /\ (i - 1) + 1 = i
        BY <1>1, <3>1, <3>4
      <4>2. c[i - 1] = x
        BY <1>6, <3>1, <4>1
      <4> QED
        BY <1>5, <4>1, <4>2, ChainTypes
    <3> QED
      BY <1>1, <3>2, <3>3, <3>4
  <2> QED
    BY <2>1, <2>2
<1> QED
  BY <1>5, <1>6, <1>8, <1>9 DEF c, p

------------------------------------------------------------------------------
(* Tables of chains. *)

LEMMA HashIndexRange ==
  ASSUME NEW k \in Keys, NEW n \in Nat \ {0}
  PROVE  HashIndex(k, n) \in 0 .. n - 1
<1>1. HashOf[k] \in Nat
  BY SizesAssumption
<1>2. DownShift(n) \in Nat \ {0}
  <2>1. CASE n < WordSpan
    <3>1. WordSpan \in Nat \ {0}
      BY SizesAssumption
    <3>2. WordSpan \div n \in Nat /\ WordSpan \div n # 0
      BY <2>1, <3>1
    <3> QED
      BY <2>1, <3>2 DEF DownShift
  <2>2. CASE ~(n < WordSpan)
    BY <2>2 DEF DownShift
  <2> QED
    BY <2>1, <2>2
<1>3. HashOf[k] \div DownShift(n) \in Nat
  BY <1>1, <1>2
<1>4. HashOf[k] % n \in 0 .. n - 1
  BY <1>1
<1>5. (HashOf[k] \div DownShift(n)) % n \in 0 .. n - 1
  <2> DEFINE x == HashOf[k] \div DownShift(n)
  <2> HIDE DEF x
  <2>1. x \in Nat => x % n \in 0 .. n - 1
    OBVIOUS
  <2> QED
    BY <1>3, <2>1 DEF x
<1> QED
  BY <1>4, <1>5 DEF HashIndex

LEMMA NothingLinked ==
  ASSUME NEW n \in Nat
  PROVE  Links([i \in 0 .. n - 1 |-> << >>], n, {})
BY EmptyChain DEF Links

LEMMA LinkedInFront ==
  ASSUME NEW n \in Nat \ {0}, NEW table, NEW S, Links(table, n, S),
         NEW k \in Keys, k \notin S
  PROVE  Links([table EXCEPT ![HashIndex(k, n)] = <<k>> \o @], n, S \cup {k})
<1> DEFINE h == HashIndex(k, n)
           c == <<k>> \o table[h]
           next == [table EXCEPT ![h] = c]
<1>1. h \in 0 .. n - 1
  BY HashIndexRange
<1>2. table[h] \in Seq(Keys) /\ IsInjective(table[h]) /\ k \notin ToSet(table[h])
  BY <1>1 DEF Links
<1>3. c \in Seq(Keys) /\ IsInjective(c) /\ ToSet(c) = ToSet(table[h]) \cup {k}
  BY <1>2, InFront
<1> HIDE DEF c
<1>4. next \in [0 .. n - 1 -> Seq(Keys)] /\ next[h] = c
      /\ \A i \in 0 .. n - 1 : i # h => next[i] = table[i]
  BY <1>1, <1>3 DEF Links
<1>5. next = [table EXCEPT ![HashIndex(k, n)] = <<k>> \o @]
  BY DEF c
<1> HIDE DEF next
<1>6. \A i \in 0 .. n - 1 : IsInjective(next[i])
  BY <1>3, <1>4 DEF Links
<1>7. ASSUME NEW i \in 0 .. n - 1, NEW x \in Keys
      PROVE  x \in ToSet(next[i]) <=> x \in S \cup {k} /\ HashIndex(x, n) = i
  <2>1. x \in ToSet(table[i]) <=> x \in S /\ HashIndex(x, n) = i
    BY DEF Links
  <2>2. CASE i = h
    BY <1>3, <1>4, <2>1, <2>2
  <2>3. CASE i # h
    BY <1>4, <2>1, <2>3
  <2> QED
    BY <2>2, <2>3
<1> QED
  BY <1>4, <1>5, <1>6, <1>7 DEF Links

LEMMA LinkedWithout ==
  ASSUME NEW n \in Nat \ {0}, NEW table, NEW S, Links(table, n, S),
         NEW k \in Keys, k \in S
  PROVE  Links([table EXCEPT ![HashIndex(k, n)] = RemoveFirst(@, k)], n, S \ {k})
<1> DEFINE h == HashIndex(k, n)
           c == RemoveFirst(table[h], k)
           next == [table EXCEPT ![h] = c]
<1>1. h \in 0 .. n - 1
  BY HashIndexRange
<1>2. table[h] \in Seq(Keys) /\ IsInjective(table[h]) /\ k \in ToSet(table[h])
  BY <1>1 DEF Links
<1>3. c \in Seq(Keys) /\ IsInjective(c) /\ ToSet(c) = ToSet(table[h]) \ {k}
  BY <1>2, Unlinked
<1> HIDE DEF c
<1>4. next \in [0 .. n - 1 -> Seq(Keys)] /\ next[h] = c
      /\ \A i \in 0 .. n - 1 : i # h => next[i] = table[i]
  BY <1>1, <1>3 DEF Links
<1>5. next = [table EXCEPT ![HashIndex(k, n)] = RemoveFirst(@, k)]
  BY DEF c
<1> HIDE DEF next
<1>6. \A i \in 0 .. n - 1 : IsInjective(next[i])
  BY <1>3, <1>4 DEF Links
<1>7. ASSUME NEW i \in 0 .. n - 1, NEW x \in Keys
      PROVE  x \in ToSet(next[i]) <=> x \in S \ {k} /\ HashIndex(x, n) = i
  <2>1. x \in ToSet(table[i]) <=> x \in S /\ HashIndex(x, n) = i
    BY DEF Links
  <2>2. CASE i = h
    BY <1>3, <1>4, <2>1, <2>2
  <2>3. CASE i # h
    BY <1>4, <2>1, <2>3
  <2> QED
    BY <2>2, <2>3
<1> QED
  BY <1>4, <1>5, <1>6, <1>7 DEF Links

(* Moving a chain links its keys to the new table and unlinks none of it. *)
LEMMA ChainMovedLinks ==
  ASSUME num_buckets \in Nat \ {0}, NEW t, NEW S, Links(t, 4 * num_buckets, S),
         NEW s \in Seq(Keys), IsInjective(s), S \cap ToSet(s) = {}
  PROVE  Links(ChainMoved(t, s), 4 * num_buckets, S \cup ToSet(s))
<1> DEFINE n == 4 * num_buckets
           X == [0 .. n - 1 -> Seq(Keys)]
           upto(i) == {s[j] : j \in 1 .. i}
<1>1. n \in Nat \ {0} /\ t \in X
  BY DEF Links
<1>2. Len(s) \in Nat /\ \A i \in 1 .. Len(s) : s[i] \in Keys
  BY ChainTypes
<1>3. \A y \in X, k \in Keys : Moved(y, k) \in X
  <2> SUFFICES ASSUME NEW y \in X, NEW k \in Keys PROVE Moved(y, k) \in X
    OBVIOUS
  <2>1. HashIndex(k, n) \in 0 .. n - 1
    BY <1>1, HashIndexRange
  <2>2. <<k>> \o y[HashIndex(k, n)] \in Seq(Keys)
    BY <2>1
  <2> QED
    BY <2>1, <2>2 DEF Moved
<1>4. PICK at \in [0 .. Len(s) -> X] : ChainSteps(at, t, s)
  <2> HIDE DEF X
  <2> QED
    BY <1>1, <1>3, ChainMovedSteps
<1> HIDE DEF X
<1> DEFINE Q == {i \in 0 .. Len(s) : Links(at[i], n, S \cup upto(i))}
<1>5. 0 \in Q
  <2>1. S \cup upto(0) = S
    OBVIOUS
  <2>2. at[0] = t
    BY <1>4 DEF ChainSteps
  <2>3. Links(at[0], n, S \cup upto(0))
    BY <2>1, <2>2
  <2> QED
    BY <1>2, <2>3
<1>6. ASSUME NEW i \in 1 .. Len(s), i - 1 \in Q PROVE i \in Q
  <2>1. Links(at[i - 1], n, S \cup upto(i - 1)) /\ s[i] \in Keys
    BY <1>2, <1>6
  <2>2. s[i] \notin S \cup upto(i - 1)
    <3>1. s[i] \in ToSet(s)
      BY ChainTypes
    <3>2. \A j \in 1 .. i - 1 : s[j] # s[i]
      BY <1>2, ChainTypes
    <3> QED
      BY <3>1, <3>2
  <2>3. Links(Moved(at[i - 1], s[i]), n, (S \cup upto(i - 1)) \cup {s[i]})
    BY <1>1, <2>1, <2>2, LinkedInFront DEF Moved
  <2>4. (S \cup upto(i - 1)) \cup {s[i]} = S \cup upto(i)
    <3>1. 1 .. i = (1 .. i - 1) \cup {i}
      BY <1>2
    <3> QED
      BY <3>1
  <2>5. at[i] = Moved(at[i - 1], s[i])
    BY <1>4 DEF ChainSteps
  <2>6. i \in 0 .. Len(s)
    BY <1>2
  <2> HIDE DEF upto
  <2>7. Links(at[i], n, S \cup upto(i))
    BY <2>3, <2>4, <2>5
  <2> QED
    BY <2>6, <2>7
<1>7. Len(s) \in Q
  <2>1. 0 .. Len(s) \subseteq Q
    <3> HIDE DEF Q
    <3> QED
      BY <1>2, <1>5, <1>6, CountingUp
  <2> QED
    BY <1>2, <2>1
<1>8. upto(Len(s)) = ToSet(s)
  BY ChainTypes
<1>9. ChainMoved(t, s) = at[Len(s)]
  BY <1>4 DEF ChainSteps
<1> QED
  BY <1>7, <1>8, <1>9

(* A rebuild keeps the entries, and links each where it will be looked for. *)
LEMMA RebuiltLinks ==
  ASSUME num_buckets \in Nat \ {0}, NEW chains, NEW S, S \subseteq Keys,
         Links(chains, num_buckets, S)
  PROVE  Links(Rebuilt(chains), 4 * num_buckets, S)
<1> DEFINE n == 4 * num_buckets
           t == [i \in 0 .. n - 1 |-> << >>]
           Y == [0 .. n - 1 -> Seq(Keys)]
           listed == [j \in 1 .. num_buckets |-> chains[j - 1]]
           upto(i) == {k \in S : HashIndex(k, num_buckets) < i}
<1>1. n \in Nat \ {0} /\ t \in Y /\ Links(t, n, {})
  <2>1. n \in Nat \ {0}
    OBVIOUS
  <2>2. Links(t, n, {})
    BY <2>1, NothingLinked
  <2> QED
    BY <2>1, <2>2 DEF Links
<1>2. \A j \in 1 .. num_buckets :
        /\ j - 1 \in 0 .. num_buckets - 1 /\ listed[j] = chains[j - 1]
        /\ listed[j] \in Seq(Keys) /\ IsInjective(listed[j])
        /\ \A k \in Keys : k \in ToSet(listed[j]) <=> k \in S /\ HashIndex(k, num_buckets) = j - 1
  <2> SUFFICES ASSUME NEW j \in 1 .. num_buckets
               PROVE  /\ j - 1 \in 0 .. num_buckets - 1
                      /\ chains[j - 1] \in Seq(Keys) /\ IsInjective(chains[j - 1])
                      /\ \A k \in Keys : k \in ToSet(chains[j - 1])
                                         <=> k \in S /\ HashIndex(k, num_buckets) = j - 1
    OBVIOUS
  <2>1. j - 1 \in 0 .. num_buckets - 1
    OBVIOUS
  <2> QED
    BY <2>1 DEF Links
<1>3. \A y \in Y, k \in Keys : Moved(y, k) \in Y
  <2> SUFFICES ASSUME NEW y \in Y, NEW k \in Keys PROVE Moved(y, k) \in Y
    OBVIOUS
  <2>1. HashIndex(k, n) \in 0 .. n - 1
    BY <1>1, HashIndexRange
  <2>2. <<k>> \o y[HashIndex(k, n)] \in Seq(Keys)
    BY <2>1
  <2> QED
    BY <2>1, <2>2 DEF Moved
<1> HIDE DEF Y
<1>4. \A y \in Y, j \in 1 .. num_buckets : ChainMoved(y, listed[j]) \in Y
  <2> SUFFICES ASSUME NEW y \in Y, NEW j \in 1 .. num_buckets PROVE ChainMoved(y, listed[j]) \in Y
    OBVIOUS
  <2> DEFINE s == listed[j]
  <2>1. s \in Seq(Keys)
    BY <1>2
  <2> HIDE DEF s
  <2>2. PICK at \in [0 .. Len(s) -> Y] : ChainSteps(at, y, s)
    BY <1>3, <2>1, ChainMovedSteps
  <2>3. Len(s) \in 0 .. Len(s)
    BY <2>1
  <2> QED
    BY <2>2, <2>3 DEF s, ChainSteps
<1>5. PICK at \in [0 .. num_buckets -> Y] : TableSteps(at, t, listed, num_buckets)
  <2>1. DOMAIN listed = 1 .. num_buckets /\ num_buckets \in Nat
    OBVIOUS
  <2> HIDE DEF t, listed
  <2> QED
    BY <1>1, <1>4, <2>1, RebuiltSteps
<1>6. \A k \in S : HashIndex(k, num_buckets) \in 0 .. num_buckets - 1
  BY HashIndexRange
<1> DEFINE Q == {i \in 0 .. num_buckets : Links(at[i], n, upto(i))}
<1>7. 0 \in Q
  <2>1. upto(0) = {}
    BY <1>6
  <2>2. at[0] = t
    BY <1>5 DEF TableSteps
  <2>3. Links(at[0], n, upto(0))
    BY <1>1, <2>1, <2>2
  <2> QED
    BY <2>3
<1>8. ASSUME NEW j \in 1 .. num_buckets, j - 1 \in Q PROVE j \in Q
  <2>1. Links(at[j - 1], n, upto(j - 1))
    BY <1>8
  <2>2. listed[j] \in Seq(Keys) /\ IsInjective(listed[j])
    BY <1>2
  <2>3. upto(j - 1) \cap ToSet(listed[j]) = {}
    BY <1>2, <1>6
  <2>4. upto(j - 1) \cup ToSet(listed[j]) = upto(j)
    <3>1. ToSet(listed[j]) \subseteq Keys
      BY <2>2, ChainTypes
    <3>2. ASSUME NEW k \in S
          PROVE  k \in upto(j) <=> k \in upto(j - 1) \/ HashIndex(k, num_buckets) = j - 1
      BY <1>6
    <3> QED
      BY <1>2, <3>1, <3>2
  <2> HIDE DEF upto, listed
  <2>5. Links(ChainMoved(at[j - 1], listed[j]), n, upto(j - 1) \cup ToSet(listed[j]))
    BY <2>1, <2>2, <2>3, ChainMovedLinks
  <2>6. at[j] = ChainMoved(at[j - 1], listed[j]) /\ j \in 0 .. num_buckets
    BY <1>5 DEF TableSteps
  <2>7. Links(at[j], n, upto(j))
    BY <2>4, <2>5, <2>6
  <2> QED
    BY <2>6, <2>7
<1>9. num_buckets \in Q
  <2>1. 0 .. num_buckets \subseteq Q
    <3> HIDE DEF Q
    <3> QED
      BY <1>7, <1>8, CountingUp
  <2> QED
    BY <2>1
<1>10. upto(num_buckets) = S
  BY <1>6
<1>11. Rebuilt(chains) = at[num_buckets]
  BY <1>5 DEF Rebuilt, TableSteps
<1> QED
  BY <1>9, <1>10, <1>11

------------------------------------------------------------------------------
(* The table. *)

LEMMA NoneIsNoKey == None \notin Keys /\ None \notin Values
BY SizesAssumption

LEMMA IndexFound ==
  ASSUME TableOK, NEW k \in Keys
  PROVE  /\ Index(k) \in Indices
         /\ buckets[Index(k)] \in Seq(Keys) /\ IsInjective(buckets[Index(k)])
         /\ k \in ToSet(buckets[Index(k)]) <=> k \in Used
         /\ LookupKey(k) <=> k \in Used
<1>1. Index(k) \in 0 .. num_buckets - 1
  BY HashIndexRange DEF Index, TableOK, Sizes
<1>2. buckets[Index(k)] \in Seq(Keys) /\ IsInjective(buckets[Index(k)])
  BY <1>1 DEF TableOK, Links
<1>3. k \in ToSet(buckets[Index(k)]) <=> k \in Used
  BY <1>1 DEF TableOK, Links, Index
<1>4. LookupKey(k) <=> k \in ToSet(buckets[Index(k)])
  BY <1>2, ChainTypes DEF LookupKey
<1> QED
  BY <1>1, <1>2, <1>3, <1>4 DEF Indices

(* The invariant implies what the run checks. *)
LEMMA IInvSuffices == IInv => EntriesLinkedOnce /\ IteratorNotDangling
<1> SUFFICES ASSUME IInv PROVE EntriesLinkedOnce
  BY DEF IInv
<1> USE DEF IInv
<1>1. TypeOK
  <2>1. DOMAIN buckets = Indices /\ \A i \in Indices : buckets[i] \in Seq(Keys)
    BY DEF TableOK, Links, Indices
  <2>2. num_entries \in 0 .. rebuild_size - 1
    BY FS_CardinalityType DEF TableOK, Sizes, Counted
  <2> QED
    BY <2>1, <2>2 DEF TypeOK, TableOK, IteratorTypes
<1>2. \A k \in Keys : value[k] # None <=> LookupKey(k)
  BY IndexFound DEF Used
<1>3. \A i \in Indices : \A k \in ToSet(buckets[i]) : Index(k) = i
  <2> SUFFICES ASSUME NEW i \in Indices, NEW k \in ToSet(buckets[i]) PROVE Index(k) = i
    OBVIOUS
  <2>1. k \in Keys
    <3>1. buckets[i] \in Seq(Keys)
      BY <1>1 DEF TypeOK
    <3> QED
      BY <3>1, ChainTypes
  <2> QED
    BY <2>1 DEF TableOK, Links, Index, Indices
<1>4. \A i \in Indices : IsInjective(buckets[i])
  BY DEF TableOK, Links, Indices
<1>5. num_entries = Cardinality({k \in Keys : value[k] # None})
  BY DEF TableOK, Counted, Used
<1> QED
  BY <1>1, <1>2, <1>3, <1>4, <1>5 DEF EntriesLinkedOnce

LEMMA TableOKInit == Init => TableOK
<1> SUFFICES ASSUME Init PROVE TableOK
  OBVIOUS
<1> USE DEF Init
<1>1. Used = {}
  BY DEF Used
<1>2. SmallHashTableSize \in Nat /\ SmallHashTableSize # 0
      /\ SmallHashTableSize * RebuildMultiplier \in Nat \ {0}
  BY SizesAssumption
<1>3. Links(buckets, num_buckets, Used)
  BY <1>1, <1>2, NothingLinked
<1>4. Counted
  BY <1>1, <1>2, FS_EmptySet DEF Counted
<1> QED
  BY <1>2, <1>3, <1>4 DEF TableOK, Sizes

(* The predicates of the next state, in terms of this one's key type. *)
LEMMA LinksNext ==
  ASSUME key_type' = key_type, NEW S, Links(buckets', num_buckets', S), Used' = S
  PROVE  Links(buckets, num_buckets, Used)'
BY DEF Links, HashIndex

LEMMA TableOKUnchanged == TableOK /\ UNCHANGED chain_vars => TableOK'
<1> SUFFICES ASSUME TableOK, UNCHANGED chain_vars PROVE TableOK'
  OBVIOUS
<1> USE DEF chain_vars
<1>1. Used' = Used
  BY DEF Used
<1>2. Links(buckets, num_buckets, Used)'
  BY <1>1, LinksNext DEF TableOK
<1> QED
  BY <1>1, <1>2 DEF TableOK, Sizes, Counted

LEMMA TableOKAdd ==
  ASSUME TableOK, NEW k \in Keys, NEW v \in Values, Add(k, v)
  PROVE  TableOK' /\ Used' = Used \cup {k}
<1> DEFINE found == LookupKey(k)
           count == IF found THEN num_entries ELSE num_entries + 1
           chains == IF found THEN buckets ELSE InsertNewEntry(k)
<1>1. found <=> k \in Used
  BY IndexFound
<1>2. value' = [value EXCEPT ![k] = v] /\ v # None /\ key_type' = key_type
  BY NoneIsNoKey DEF Add
<1>3. Used' = Used \cup {k}
  BY <1>2 DEF Used, TableOK
<1>4. num_buckets \in Nat \ {0} /\ rebuild_size \in Nat \ {0} /\ num_entries \in Nat
      /\ num_entries < rebuild_size
  BY FS_CardinalityType DEF TableOK, Sizes, Counted
<1>5. Links(chains, num_buckets, Used')
  <2>1. CASE found
    <3>1. Used' = Used
      BY <1>1, <1>3, <2>1
    <3> QED
      BY <2>1, <3>1 DEF TableOK
  <2>2. CASE ~found
    <3>1. Links(buckets, num_buckets, Used)
      BY DEF TableOK
    <3>2. Links(InsertNewEntry(k), num_buckets, Used \cup {k})
      BY <1>1, <1>4, <2>2, <3>1, LinkedInFront DEF InsertNewEntry, Index
    <3> QED
      BY <1>3, <2>2, <3>2
  <2> QED
    BY <2>1, <2>2
<1>6. IsFiniteSet(Used') /\ count = Cardinality(Used') /\ count \in Nat /\ count <= rebuild_size
  <2>1. IsFiniteSet(Used) /\ num_entries = Cardinality(Used)
    BY DEF TableOK, Counted
  <2>2. IsFiniteSet(Used') /\ Cardinality(Used') = IF k \in Used THEN num_entries ELSE num_entries + 1
    BY <1>3, <2>1, FS_AddElement
  <2> QED
    BY <1>1, <1>4, <2>2
<1>7. num_entries' = count
  BY DEF Add
<1>8. CASE TooLarge(count)
  <2>1. buckets' = Rebuilt(chains) /\ num_buckets' = 4 * num_buckets /\ rebuild_size' = 4 * rebuild_size
    BY <1>8 DEF Add
  <2>2. Used' \subseteq Keys
    BY <1>3 DEF Used
  <2> HIDE DEF chains, count
  <2>3. Links(Rebuilt(chains), 4 * num_buckets, Used')
    BY <1>4, <1>5, <2>2, RebuiltLinks
  <2>4. Links(buckets, num_buckets, Used)'
    BY <1>2, <2>1, <2>3, LinksNext
  <2>5. count < rebuild_size' /\ num_buckets' \in Nat \ {0} /\ rebuild_size' \in Nat \ {0}
    BY <1>4, <1>6, <2>1
  <2>6. value' \in [Keys -> Values \cup {None}]
    BY <1>2 DEF TableOK
  <2> QED
    BY <1>2, <1>3, <1>6, <1>7, <2>4, <2>5, <2>6 DEF TableOK, Sizes, Counted
<1>9. CASE ~TooLarge(count)
  <2>1. buckets' = chains /\ num_buckets' = num_buckets /\ rebuild_size' = rebuild_size
    BY <1>9 DEF Add
  <2> HIDE DEF chains, count
  <2>4. Links(buckets, num_buckets, Used)'
    BY <1>2, <1>5, <2>1, LinksNext
  <2>5. count < rebuild_size'
    BY <1>4, <1>6, <1>9, <2>1 DEF TooLarge
  <2>6. value' \in [Keys -> Values \cup {None}]
    BY <1>2 DEF TableOK
  <2> QED
    BY <1>2, <1>3, <1>4, <1>6, <1>7, <2>1, <2>4, <2>5, <2>6 DEF TableOK, Sizes, Counted
<1> QED
  BY <1>3, <1>8, <1>9

LEMMA TableOKDelete ==
  ASSUME TableOK, NEW k \in Used, DeleteEntry(k)
  PROVE  TableOK' /\ Used' = Used \ {k}
<1>1. /\ key_type' = key_type /\ num_buckets' = num_buckets /\ rebuild_size' = rebuild_size
      /\ value' = [value EXCEPT ![k] = None] /\ num_entries' = num_entries - 1
      /\ buckets' = [buckets EXCEPT ![Index(k)] = RemoveFirst(@, k)]
  BY DEF DeleteEntry
<1>2. k \in Keys /\ value \in [Keys -> Values \cup {None}]
  BY DEF Used, TableOK
<1>3. Used' = Used \ {k}
  BY <1>1, <1>2 DEF Used
<1>4. Links(buckets', num_buckets', Used \ {k})
  BY <1>1, <1>2, LinkedWithout DEF TableOK, Sizes, Index
<1>5. Links(buckets, num_buckets, Used)'
  BY <1>1, <1>3, <1>4, LinksNext
<1>6. Counted'
  <2>1. IsFiniteSet(Used) /\ num_entries = Cardinality(Used) /\ num_entries < rebuild_size
    BY DEF TableOK, Counted
  <2>2. IsFiniteSet(Used \ {k}) /\ Cardinality(Used \ {k}) = num_entries - 1 /\ num_entries \in Nat
    BY <2>1, FS_RemoveElement, FS_CardinalityType
  <2>3. num_entries - 1 < rebuild_size
    BY <2>1, <2>2 DEF TableOK, Sizes
  <2> QED
    BY <1>1, <1>3, <2>2, <2>3 DEF Counted
<1>7. value' \in [Keys -> Values \cup {None}]
  BY <1>1, <1>2
<1> QED
  BY <1>1, <1>3, <1>5, <1>6, <1>7 DEF TableOK, Sizes

------------------------------------------------------------------------------
(* The iterator. *)

Chain(k) == buckets[Index(k)]

(* The entries from a bucket on, and those of a chain from an entry on. *)
Ahead(first, entry) ==
  {k \in Used : \/ Index(k) >= first
                \/ entry # None /\ Index(k) = Index(entry)
                   /\ Place(Chain(entry), entry) <= Place(Chain(entry), k)}

LEMMA OnlyPlace ==
  ASSUME NEW s \in Seq(Keys), IsInjective(s), NEW i \in 1 .. Len(s)
  PROVE  Place(s, s[i]) = i
<1>1. s[i] \in ToSet(s)
  BY ChainTypes
<1>2. Place(s, s[i]) \in 1 .. Len(s) /\ s[Place(s, s[i])] = s[i]
  BY <1>1, PlaceFound
<1> QED
  BY <1>2, ChainTypes

(* A chain from an entry on. *)
LEMMA FromPlace ==
  ASSUME NEW s \in Seq(Keys), IsInjective(s), NEW e \in ToSet(s)
  PROVE  \A k : k \in ToSet(SubSeq(s, Place(s, e), Len(s)))
                <=> k \in ToSet(s) /\ Place(s, e) <= Place(s, k)
<1> DEFINE p == Place(s, e)
           t == SubSeq(s, p, Len(s))
<1>1. p \in 1 .. Len(s) /\ Len(s) \in Nat
  BY PlaceFound
<1> HIDE DEF p
<1>2. t \in Seq(Keys) /\ Len(t) = Len(s) - p + 1 /\ \A i \in 1 .. Len(s) - p + 1 : t[i] = s[p + i - 1]
  BY <1>1
<1> HIDE DEF t
<1>3. ASSUME NEW k \in ToSet(t) PROVE k \in ToSet(s) /\ p <= Place(s, k)
  <2>1. PICK i \in 1 .. Len(s) - p + 1 : t[i] = k
    BY <1>2, <1>3, ChainTypes
  <2>2. p + i - 1 \in 1 .. Len(s) /\ s[p + i - 1] = k
    BY <1>1, <1>2, <2>1
  <2>3. Place(s, k) = p + i - 1 /\ k \in ToSet(s)
    BY <2>2, OnlyPlace, ChainTypes
  <2> QED
    BY <1>1, <2>3
<1>4. ASSUME NEW k \in ToSet(s), p <= Place(s, k) PROVE k \in ToSet(t)
  <2>1. Place(s, k) \in 1 .. Len(s) /\ s[Place(s, k)] = k
    BY PlaceFound
  <2> DEFINE i == Place(s, k) - p + 1
  <2>2. i \in 1 .. Len(s) - p + 1 /\ p + i - 1 = Place(s, k)
    BY <1>1, <1>4, <2>1
  <2>3. t[i] = k
    BY <1>2, <2>1, <2>2
  <2> HIDE DEF i
  <2> QED
    BY <1>2, <2>2, <2>3, ChainTypes
<1> QED
  BY <1>3, <1>4 DEF p, t

PointsAtEntry(entry) == entry = None \/ entry \in Used

(* What Pending says of the places. *)
Unvisited(first, entry) ==
  (UNION {ToSet(buckets[i]) : i \in {j \in Indices : j >= first}})
    \cup (IF entry = None THEN {}
          ELSE ToSet(SubSeq(Chain(entry), Place(Chain(entry), entry), Len(Chain(entry)))))

LEMMA UnvisitedAhead ==
  ASSUME TableOK, NEW first, NEW entry, PointsAtEntry(entry)
  PROVE  Unvisited(first, entry) = Ahead(first, entry)
<1> DEFINE later == UNION {ToSet(buckets[i]) : i \in {j \in Indices : j >= first}}
<1>1. \A i \in Indices : \A k : k \in ToSet(buckets[i]) <=> k \in Used /\ Index(k) = i
  <2> SUFFICES ASSUME NEW i \in Indices, NEW k
               PROVE  k \in ToSet(buckets[i]) <=> k \in Used /\ Index(k) = i
    OBVIOUS
  <2>1. buckets[i] \in Seq(Keys)
    BY DEF TableOK, Links, Indices
  <2>2. k \in ToSet(buckets[i]) => k \in Keys
    BY <2>1, ChainTypes
  <2>3. k \in Keys => (k \in ToSet(buckets[i]) <=> k \in Used /\ Index(k) = i)
    BY DEF TableOK, Links, Indices, Index
  <2> QED
    BY <2>2, <2>3 DEF Used
<1>2. \A k : k \in later <=> k \in Used /\ Index(k) >= first
  <2>1. \A k \in Used : Index(k) \in Indices
    BY IndexFound DEF Used
  <2> QED
    BY <1>1, <2>1
<1> HIDE DEF later
<1>3. CASE entry = None
  <2>1. Unvisited(first, entry) = later
    BY <1>3 DEF Unvisited, later
  <2> QED
    BY <1>2, <1>3, <2>1 DEF Ahead
<1>4. CASE entry # None
  <2> DEFINE s == Chain(entry)
             from == ToSet(SubSeq(s, Place(s, entry), Len(s)))
  <2>1. entry \in Used /\ entry \in Keys
    BY <1>4 DEF PointsAtEntry, Used
  <2>2. s \in Seq(Keys) /\ IsInjective(s) /\ entry \in ToSet(s) /\ Index(entry) \in Indices
    BY <2>1, IndexFound DEF Chain
  <2>3. \A k : k \in from <=> k \in Used /\ Index(k) = Index(entry) /\ Place(s, entry) <= Place(s, k)
    <3>1. \A k : k \in ToSet(s) <=> k \in Used /\ Index(k) = Index(entry)
      BY <1>1, <2>2 DEF Chain
    <3> HIDE DEF s
    <3> QED
      BY <2>2, <3>1, FromPlace
  <2>4. Unvisited(first, entry) = later \cup from
    BY <1>4 DEF Unvisited, later
  <2> HIDE DEF from
  <2> QED
    BY <1>2, <1>4, <2>3, <2>4 DEF Ahead
<1> QED
  BY <1>3, <1>4

LEMMA PendingAhead ==
  ASSUME IInv
  PROVE  Pending = IF iterating THEN Ahead(next_index, next_entry) ELSE {}
<1>1. Pending = IF iterating THEN Unvisited(next_index, next_entry) ELSE {}
  BY DEF Pending, Unvisited, Chain
<1>2. iterating => PointsAtEntry(next_entry)
  BY DEF IInv, IteratorNotDangling, IteratorTypes, PointsAtEntry, Used
<1> QED
  BY <1>1, <1>2, UnvisitedAhead DEF IInv

LEMMA PendingAheadNext ==
  ASSUME TableOK, UNCHANGED chain_vars, PointsAtEntry(next_entry')
  PROVE  Pending' = IF iterating' THEN Ahead(next_index', next_entry') ELSE {}
<1>1. Pending' = IF iterating' THEN Unvisited(next_index', next_entry') ELSE {}
  BY DEF Pending, Unvisited, Chain, Index, HashIndex, Indices, chain_vars
<1> QED
  BY <1>1, UnvisitedAhead

(* The entry behind an entry. *)
LEMMA BehindIs ==
  ASSUME TableOK, NEW e \in Used
  PROVE  /\ Behind(e) = None \/ (Behind(e) \in Used /\ Index(Behind(e)) = Index(e))
         /\ \A k \in Used : Index(k) = Index(e) =>
              (Behind(e) # None /\ Place(Chain(e), Behind(e)) <= Place(Chain(e), k)
                <=> Place(Chain(e), e) <= Place(Chain(e), k) /\ k # e)
<1> DEFINE s == Chain(e)
           p == Place(s, e)
<1>0. e \in Keys
  BY DEF Used
<1>1. s \in Seq(Keys) /\ IsInjective(s) /\ e \in ToSet(s) /\ Index(e) \in Indices
  BY <1>0, IndexFound DEF Chain
<1>2. \A k \in Used : Index(k) = Index(e) => k \in ToSet(s)
  BY IndexFound DEF Used, Chain
<1>3. \A k \in ToSet(s) : k \in Used /\ Index(k) = Index(e)
  <2> SUFFICES ASSUME NEW k \in ToSet(s) PROVE k \in Used /\ Index(k) = Index(e)
    OBVIOUS
  <2>1. k \in Keys
    BY <1>1, ChainTypes
  <2> QED
    BY <1>1, <2>1 DEF TableOK, Links, Indices, Index, Chain
<1>4. Behind(e) = IF p < Len(s) THEN s[p + 1] ELSE None
  BY DEF Behind, Chain
<1> HIDE DEF s
<1>5. p \in 1 .. Len(s) /\ s[p] = e /\ Len(s) \in Nat
  BY <1>1, PlaceFound
<1>6. \A k \in ToSet(s) : Place(s, k) \in 1 .. Len(s) /\ s[Place(s, k)] = k
  BY <1>1, PlaceFound
<1> HIDE DEF p
<1>7. CASE p < Len(s)
  <2>1. p + 1 \in 1 .. Len(s)
    BY <1>5, <1>7
  <2>2. Place(s, s[p + 1]) = p + 1 /\ s[p + 1] \in ToSet(s)
    BY <1>1, <2>1, OnlyPlace, ChainTypes
  <2>3. Behind(e) \in Used /\ Index(Behind(e)) = Index(e) /\ Behind(e) # None
        /\ Place(s, Behind(e)) = p + 1
    BY <1>3, <1>4, <1>7, <2>2, NoneIsNoKey DEF Used
  <2>4. \A k \in ToSet(s) : p + 1 <= Place(s, k) <=> p <= Place(s, k) /\ k # e
    <3> SUFFICES ASSUME NEW k \in ToSet(s)
                 PROVE  p + 1 <= Place(s, k) <=> p <= Place(s, k) /\ k # e
      OBVIOUS
    <3>1. Place(s, k) \in 1 .. Len(s) /\ (Place(s, k) = p <=> k = e)
      BY <1>1, <1>5, <1>6, OnlyPlace
    <3> QED
      BY <1>5, <3>1
  <2> QED
    BY <1>2, <2>3, <2>4 DEF s, p
<1>8. CASE ~(p < Len(s))
  <2>1. Behind(e) = None /\ p = Len(s)
    BY <1>4, <1>5, <1>8
  <2>2. \A k \in ToSet(s) : p <= Place(s, k) => k = e
    BY <1>5, <1>6, <2>1
  <2> QED
    BY <1>2, <2>1, <2>2 DEF s, p
<1> QED
  BY <1>7, <1>8

(* The first entry of a bucket, which is its first non-empty one from first on. *)
LEMMA FirstFromIs ==
  ASSUME TableOK, NEW first \in Nat, NonEmptyFrom(first) # {}
  PROVE  /\ Min(NonEmptyFrom(first)) \in Indices /\ Min(NonEmptyFrom(first)) >= first
         /\ FirstFrom(first) \in Used
         /\ Index(FirstFrom(first)) = Min(NonEmptyFrom(first))
         /\ Place(Chain(FirstFrom(first)), FirstFrom(first)) = 1
         /\ \A k \in Used : Index(k) >= first => Index(k) >= Min(NonEmptyFrom(first))
<1> DEFINE m == Min(NonEmptyFrom(first))
           s == buckets[m]
<1>1. NonEmptyFrom(first) \subseteq Nat
  BY DEF NonEmptyFrom, Indices
<1>2. m \in NonEmptyFrom(first) /\ \A j \in NonEmptyFrom(first) : m <= j
  BY <1>1, MinOfNumbers
<1> HIDE DEF m
<1>3. m \in Indices /\ m >= first /\ s # << >>
  BY <1>2 DEF NonEmptyFrom
<1>4. s \in Seq(Keys) /\ IsInjective(s)
  BY <1>3 DEF TableOK, Links, Indices
<1>5. 1 \in 1 .. Len(s) /\ Head(s) = s[1]
  BY <1>3, <1>4
<1>6. s[1] \in ToSet(s) /\ s[1] \in Keys /\ Place(s, s[1]) = 1
  BY <1>4, <1>5, ChainTypes, OnlyPlace
<1>7. s[1] \in Used /\ Index(s[1]) = m
  BY <1>3, <1>6 DEF TableOK, Links, Indices, Index
<1>8. FirstFrom(first) = s[1]
  BY <1>5 DEF FirstFrom, m
<1>9. Place(Chain(s[1]), s[1]) = 1
  BY <1>6, <1>7 DEF Chain
<1>10. ASSUME NEW k \in Used, Index(k) >= first PROVE Index(k) >= m
  <2>1. Index(k) \in Indices /\ k \in ToSet(buckets[Index(k)]) /\ buckets[Index(k)] \in Seq(Keys)
    BY IndexFound DEF Used
  <2>2. buckets[Index(k)] # << >>
    BY <2>1, ChainTypes
  <2>3. Index(k) \in NonEmptyFrom(first)
    BY <1>10, <2>1, <2>2 DEF NonEmptyFrom
  <2> QED
    BY <1>1, <1>2, <2>3
<1> QED
  BY <1>3, <1>7, <1>8, <1>9, <1>10 DEF m

EntryKnown == PointsAtEntry(next_entry)
PendingIsAhead == Pending = IF iterating THEN Ahead(next_index, next_entry) ELSE {}

LEMMA PendingKnown == TableOK /\ EntryKnown => PendingIsAhead
<1> SUFFICES ASSUME TableOK, PointsAtEntry(next_entry)
             PROVE  Pending = IF iterating THEN Ahead(next_index, next_entry) ELSE {}
  BY DEF EntryKnown, PendingIsAhead
<1>1. Pending = IF iterating THEN Unvisited(next_index, next_entry) ELSE {}
  BY DEF Pending, Unvisited, Chain
<1> QED
  BY <1>1, UnvisitedAhead

LEMMA PendingKnownNext == TableOK' /\ EntryKnown' => PendingIsAhead'
BY PendingKnown, PTL

(* Unlinking an entry leaves the others in their order. *)
LEMMA OrderKept ==
  ASSUME NEW s \in Seq(Keys), IsInjective(s), NEW gone \in ToSet(s),
         NEW e \in ToSet(s), NEW k \in ToSet(s), e # gone, k # gone
  PROVE  Place(RemoveFirst(s, gone), e) <= Place(RemoveFirst(s, gone), k)
           <=> Place(s, e) <= Place(s, k)
<1> DEFINE p == Place(s, gone)
           c == RemoveFirst(s, gone)
<1>1. /\ c \in Seq(Keys) /\ IsInjective(c) /\ Len(c) = Len(s) - 1
      /\ \A i \in 1 .. Len(s) - 1 : c[i] = IF i < p THEN s[i] ELSE s[i + 1]
  BY Unlinked
<1>2. Len(s) \in Nat /\ p \in 1 .. Len(s) /\ s[p] = gone
  BY PlaceFound
<1> HIDE DEF p, c
<1>3. ASSUME NEW x \in ToSet(s), x # gone
      PROVE  /\ Place(s, x) \in 1 .. Len(s) /\ Place(s, x) # p
             /\ Place(c, x) = IF Place(s, x) < p THEN Place(s, x) ELSE Place(s, x) - 1
  <2>1. Place(s, x) \in 1 .. Len(s) /\ s[Place(s, x)] = x
    BY PlaceFound
  <2>2. Place(s, x) # p
    BY <1>2, <1>3, <2>1
  <2>3. CASE Place(s, x) < p
    <3>1. Place(s, x) \in 1 .. Len(c) /\ c[Place(s, x)] = x
      BY <1>1, <1>2, <2>1, <2>3
    <3> QED
      BY <1>1, <2>1, <2>2, <2>3, <3>1, OnlyPlace
  <2>4. CASE ~(Place(s, x) < p)
    <3> DEFINE i == Place(s, x) - 1
    <3>1. i \in 1 .. Len(c) /\ ~(i < p) /\ i + 1 = Place(s, x)
      BY <1>1, <1>2, <2>1, <2>2, <2>4
    <3>2. c[i] = x
      BY <1>1, <2>1, <3>1
    <3>3. Place(c, c[i]) = i
      BY <1>1, <3>1, OnlyPlace
    <3> QED
      BY <2>1, <2>2, <2>4, <3>2, <3>3
  <2> QED
    BY <2>1, <2>2, <2>3, <2>4
<1>4. /\ Place(s, e) \in 1 .. Len(s) /\ Place(s, e) # p
      /\ Place(c, e) = IF Place(s, e) < p THEN Place(s, e) ELSE Place(s, e) - 1
  BY <1>3
<1>5. /\ Place(s, k) \in 1 .. Len(s) /\ Place(s, k) # p
      /\ Place(c, k) = IF Place(s, k) < p THEN Place(s, k) ELSE Place(s, k) - 1
  BY <1>3
<1> HIDE <1>3
<1>6. Place(c, e) <= Place(c, k) <=> Place(s, e) <= Place(s, k)
  BY <1>2, <1>4, <1>5
<1> QED
  BY <1>6 DEF c

LEMMA PendingAfterRemoval ==
  ASSUME IInv, iterating, current # None, DeleteEntry(current),
         UNCHANGED <<iterating, next_index, next_entry>>
  PROVE  Pending' = Pending /\ PointsAtEntry(next_entry)'
<1> DEFINE e == next_entry
<1>1. current \in Used /\ current \in Keys /\ current \notin Pending
  BY DEF IInv, HeldIsPassed, IteratorTypes, Used
<1>2. TableOK /\ TableOK' /\ Used' = Used \ {current}
  BY <1>1, TableOKDelete DEF IInv
<1>3. Pending = Ahead(next_index, e)
  BY PendingAhead
<1>4. e = None \/ (e \in Used /\ e \in Keys)
  BY DEF IInv, IteratorNotDangling, IteratorTypes, Used
<1>5. e # None => e # current
  <2> SUFFICES ASSUME e # None PROVE e \in Pending
    BY <1>1
  <2>1. e \in Used /\ e \in Keys
    BY <1>4
  <2>2. Place(Chain(e), e) \in Nat
    <3>1. Chain(e) \in Seq(Keys) /\ e \in ToSet(Chain(e))
      BY <1>2, <2>1, IndexFound DEF Chain
    <3> QED
      BY <3>1, PlaceFound
  <2> QED
    BY <1>3, <2>1, <2>2 DEF Ahead
<1>6. PointsAtEntry(next_entry)'
  BY <1>2, <1>4, <1>5 DEF PointsAtEntry
<1>7. key_type' = key_type /\ num_buckets' = num_buckets
      /\ buckets' = [buckets EXCEPT ![Index(current)] = RemoveFirst(@, current)]
  BY DEF DeleteEntry
<1>8. \A k : Index(k)' = Index(k)
  BY <1>7 DEF Index, HashIndex
<1>9. Pending' = {k \in Used' : \/ Index(k) >= next_index
                                \/ e # None /\ Index(k) = Index(e)
                                   /\ Place(buckets'[Index(e)], e) <= Place(buckets'[Index(e)], k)}
  <2>1. PendingIsAhead'
    BY <1>2, <1>6, PendingKnownNext DEF EntryKnown
  <2>2. Pending' = Ahead(next_index, next_entry)'
    BY <2>1 DEF PendingIsAhead
  <2> QED
    BY <1>8, <2>2 DEF Ahead, Chain
<1>10. ASSUME NEW k \in Used, k # current, e # None, Index(k) = Index(e)
       PROVE  Place(buckets'[Index(e)], e) <= Place(buckets'[Index(e)], k)
                <=> Place(Chain(e), e) <= Place(Chain(e), k)
  <2> DEFINE s == Chain(e)
  <2>1. e \in Used /\ e \in Keys /\ k \in Keys
    BY <1>4, <1>10 DEF Used
  <2>2. s \in Seq(Keys) /\ IsInjective(s) /\ e \in ToSet(s) /\ k \in ToSet(s) /\ Index(e) \in Indices
    BY <1>2, <1>10, <2>1, IndexFound DEF Chain
  <2>3. DOMAIN buckets = Indices
    BY <1>2 DEF TableOK, Links, Indices
  <2>4. CASE Index(current) = Index(e)
    <3>1. buckets'[Index(e)] = RemoveFirst(s, current)
      BY <1>7, <2>2, <2>3, <2>4 DEF Chain
    <3>2. current \in ToSet(s)
      BY <1>1, <1>2, <2>4, IndexFound DEF Chain
    <3> HIDE DEF s
    <3>3. Place(RemoveFirst(s, current), e) <= Place(RemoveFirst(s, current), k)
            <=> Place(s, e) <= Place(s, k)
      BY <1>5, <1>10, <2>2, <3>2, OrderKept
    <3> QED
      BY <3>1, <3>3 DEF s
  <2>5. CASE Index(current) # Index(e)
    BY <1>7, <2>2, <2>3, <2>5 DEF Chain
  <2> QED
    BY <2>4, <2>5
<1>11. \A k \in Used : k \in Pending' <=> k \in Pending
  <2> SUFFICES ASSUME NEW k \in Used PROVE k \in Pending' <=> k \in Pending
    OBVIOUS
  <2>1. CASE k = current
    BY <1>1, <1>2, <1>9, <2>1
  <2>2. CASE k # current
    <3>1. k \in Pending <=> \/ Index(k) >= next_index
                            \/ e # None /\ Index(k) = Index(e)
                               /\ Place(Chain(e), e) <= Place(Chain(e), k)
      BY <1>3 DEF Ahead
    <3>2. k \in Pending' <=> \/ Index(k) >= next_index
                             \/ e # None /\ Index(k) = Index(e)
                                /\ Place(buckets'[Index(e)], e) <= Place(buckets'[Index(e)], k)
      BY <1>2, <1>9, <2>2
    <3> QED
      BY <1>10, <2>2, <3>1, <3>2
  <2> QED
    BY <2>1, <2>2
<1>12. Pending \subseteq Used /\ Pending' \subseteq Used
  BY <1>2, <1>3, <1>9 DEF Ahead
<1> QED
  BY <1>6, <1>11, <1>12

(* A visit takes its entry off the pending ones. *)
LEMMA VisitedInChain ==
  ASSUME IInv, NextInChain
  PROVE  /\ next_entry \in Pending /\ next_entry \in Used
         /\ Pending' = Pending \ {next_entry}
         /\ \/ Behind(next_entry) = None
            \/ Behind(next_entry) \in Used /\ Index(Behind(next_entry)) = Index(next_entry)
<1> DEFINE e == next_entry
           b == Behind(next_entry)
<1>1. iterating /\ e # None /\ TableOK
  BY DEF NextInChain, IInv
<1>2. e \in Used /\ e \in Keys /\ Index(e) = next_index - 1
  BY <1>1 DEF IInv, IteratorNotDangling, IteratorTypes, Used
<1>3. b = None \/ (b \in Used /\ Index(b) = Index(e))
  BY <1>1, <1>2, BehindIs
<1>4. \A k \in Used : Index(k) = Index(e) =>
        (b # None /\ Place(Chain(e), b) <= Place(Chain(e), k)
           <=> Place(Chain(e), e) <= Place(Chain(e), k) /\ k # e)
  BY <1>1, <1>2, BehindIs
<1>5. Pending = Ahead(next_index, e)
  BY <1>1, PendingAhead
<1>6. Pending' = Ahead(next_index, b)
  <2>1. next_entry' = b /\ next_index' = next_index /\ iterating' /\ UNCHANGED chain_vars
    BY <1>1 DEF NextInChain, Visit
  <2>2. PointsAtEntry(next_entry')
    BY <1>3, <2>1 DEF PointsAtEntry
  <2> QED
    BY <1>1, <2>1, <2>2, PendingAheadNext
<1>7. Place(Chain(e), e) \in Nat
  <2>1. Chain(e) \in Seq(Keys) /\ e \in ToSet(Chain(e))
    BY <1>1, <1>2, IndexFound DEF Chain
  <2> QED
    BY <2>1, PlaceFound
<1>8. e \in Pending
  BY <1>1, <1>2, <1>5, <1>7 DEF Ahead
<1>9. next_index \in Nat /\ Index(e) \in Nat /\ ~(Index(e) >= next_index)
  <2>1. Index(e) \in Indices
    BY <1>1, <1>2, IndexFound
  <2>2. num_buckets \in Nat /\ next_index \in 0 .. num_buckets
    BY DEF IInv, TableOK, Sizes, IteratorTypes
  <2> QED
    BY <1>2, <2>1, <2>2 DEF Indices
<1>10. \A k \in Used : k \in Ahead(next_index, b) <=> k \in Ahead(next_index, e) /\ k # e
  <2> SUFFICES ASSUME NEW k \in Used
               PROVE  k \in Ahead(next_index, b) <=> k \in Ahead(next_index, e) /\ k # e
    OBVIOUS
  <2>1. b # None => Chain(b) = Chain(e)
    BY <1>3 DEF Chain
  <2>2. CASE Index(k) >= next_index
    BY <1>9, <2>2 DEF Ahead
  <2>3. CASE ~(Index(k) >= next_index)
    <3>1. k \in Ahead(next_index, b)
            <=> b # None /\ Index(k) = Index(e) /\ Place(Chain(e), b) <= Place(Chain(e), k)
      BY <1>3, <2>1, <2>3 DEF Ahead
    <3>2. k \in Ahead(next_index, e)
            <=> Index(k) = Index(e) /\ Place(Chain(e), e) <= Place(Chain(e), k)
      BY <1>1, <2>3 DEF Ahead
    <3> QED
      BY <1>4, <3>1, <3>2
  <2> QED
    BY <2>2, <2>3
<1>11. Pending' = Pending \ {e}
  BY <1>5, <1>6, <1>10 DEF Ahead
<1> QED
  BY <1>2, <1>3, <1>8, <1>11

LEMMA VisitedInLaterBucket ==
  ASSUME IInv, NextInLaterBucket
  PROVE  /\ FirstFrom(next_index) \in Pending /\ FirstFrom(next_index) \in Used
         /\ Pending' = Pending \ {FirstFrom(next_index)}
         /\ next_index' = Index(FirstFrom(next_index)) + 1
         /\ \/ Behind(FirstFrom(next_index)) = None
            \/ Behind(FirstFrom(next_index)) \in Used
               /\ Index(Behind(FirstFrom(next_index))) = Index(FirstFrom(next_index))
<1> DEFINE e == FirstFrom(next_index)
           b == Behind(e)
<1>1. iterating /\ next_entry = None /\ TableOK /\ NonEmptyFrom(next_index) # {}
  BY DEF NextInLaterBucket, IInv
<1>2. next_index \in Nat /\ num_buckets \in Nat
  <2>1. num_buckets \in Nat /\ next_index \in 0 .. num_buckets
    BY DEF IInv, TableOK, Sizes, IteratorTypes
  <2> QED
    BY <2>1
<1>3. /\ e \in Used /\ Index(e) = Min(NonEmptyFrom(next_index))
      /\ Index(e) \in Indices /\ Index(e) >= next_index
      /\ Place(Chain(e), e) = 1
      /\ \A k \in Used : Index(k) >= next_index => Index(k) >= Index(e)
  BY <1>1, <1>2, FirstFromIs
<1>4. e \in Keys
  BY <1>3 DEF Used
<1> HIDE DEF e
<1>5. b = None \/ (b \in Used /\ Index(b) = Index(e))
  BY <1>1, <1>3, BehindIs
<1>6. \A k \in Used : Index(k) = Index(e) =>
        (b # None /\ Place(Chain(e), b) <= Place(Chain(e), k)
           <=> Place(Chain(e), e) <= Place(Chain(e), k) /\ k # e)
  BY <1>1, <1>3, BehindIs
<1>7. Pending = Ahead(next_index, None)
  BY <1>1, PendingAhead
<1>8. next_entry' = b /\ next_index' = Index(e) + 1 /\ iterating' /\ UNCHANGED chain_vars
  BY <1>1, <1>3 DEF NextInLaterBucket, Visit, e
<1>9. Pending' = Ahead(Index(e) + 1, b)
  <2>1. PointsAtEntry(next_entry')
    BY <1>5, <1>8 DEF PointsAtEntry
  <2> QED
    BY <1>1, <1>8, <2>1, PendingAheadNext
<1>10. \A k \in Used : k \in Ahead(Index(e) + 1, b) <=> k \in Ahead(next_index, None) /\ k # e
  <2> SUFFICES ASSUME NEW k \in Used
               PROVE  k \in Ahead(Index(e) + 1, b) <=> k \in Ahead(next_index, None) /\ k # e
    OBVIOUS
  <2>0. Index(k) \in Nat /\ Index(e) \in Nat /\ k \in Keys
    BY <1>1, <1>3, <1>4, IndexFound DEF Used, Indices
  <2>1. k \in Ahead(next_index, None) <=> Index(k) >= Index(e)
    <3>1. k \in Ahead(next_index, None) <=> Index(k) >= next_index
      BY DEF Ahead
    <3> QED
      BY <1>2, <1>3, <2>0, <3>1
  <2>2. b # None => Chain(b) = Chain(e)
    BY <1>5 DEF Chain
  <2>3. CASE Index(k) = Index(e)
    <3>1. k \in Ahead(Index(e) + 1, b) <=> b # None /\ Place(Chain(e), b) <= Place(Chain(e), k)
      BY <1>5, <2>0, <2>2, <2>3 DEF Ahead
    <3>2. Place(Chain(e), k) >= 1 /\ Place(Chain(e), k) \in Nat
      <4>1. Chain(e) \in Seq(Keys) /\ k \in ToSet(Chain(e))
        BY <1>1, <2>0, <2>3, IndexFound DEF Chain
      <4> QED
        BY <4>1, PlaceFound
    <3>3. k \in Ahead(next_index, None)
      BY <2>0, <2>1, <2>3
    <3> QED
      BY <1>3, <1>6, <2>3, <3>1, <3>2, <3>3
  <2>4. CASE Index(k) # Index(e)
    <3>1. k \in Ahead(Index(e) + 1, b) <=> Index(k) >= Index(e) + 1
      BY <1>5, <2>4 DEF Ahead
    <3> QED
      BY <2>0, <2>1, <2>4, <3>1
  <2> QED
    BY <2>3, <2>4
<1>11. e \in Pending
  BY <1>3, <1>7 DEF Ahead
<1>12. Pending' = Pending \ {e}
  BY <1>7, <1>9, <1>10 DEF Ahead
<1> QED
  BY <1>3, <1>5, <1>8, <1>11, <1>12 DEF e

------------------------------------------------------------------------------
(* Every step keeps the invariant. *)

LEMMA IInvInit == Init => IInv
<1> SUFFICES ASSUME Init PROVE IInv
  OBVIOUS
<1>1. TableOK
  BY TableOKInit
<1>2. IteratorTypes /\ ~iterating
  BY <1>1 DEF Init, IteratorTypes, TableOK, Sizes
<1> QED
  BY <1>1, <1>2 DEF IInv, IteratorNotDangling, HeldIsPassed

(* Between iterations nothing is asked of the iterator. *)
LEMMA IInvIdle ==
  ASSUME IInv, TableOK', ~iterating, UNCHANGED iterator_vars,
         num_buckets' \in Nat, num_buckets <= num_buckets'
  PROVE  IInv'
<1>1. UNCHANGED <<iterating, next_index, next_entry, current>>
  BY DEF iterator_vars
<1>2. next_index' \in 0 .. num_buckets'
  <2>1. next_index \in 0 .. num_buckets /\ num_buckets \in Nat
    BY DEF IInv, IteratorTypes, TableOK, Sizes
  <2> QED
    BY <1>1, <2>1
<1>3. IteratorTypes'
  BY <1>1, <1>2 DEF IInv, IteratorTypes
<1> QED
  BY <1>1, <1>3 DEF IInv, IteratorNotDangling, HeldIsPassed

LEMMA IInvAdd ==
  ASSUME IInv, NEW k \in Keys, NEW v \in Values, Add(k, v)
  PROVE  IInv'
<1>1. TableOK'
  BY TableOKAdd DEF IInv
<1>2. ~iterating /\ UNCHANGED iterator_vars
  BY DEF Add
<1>3. num_buckets' \in Nat /\ num_buckets <= num_buckets'
  <2>1. num_buckets \in Nat
    BY DEF IInv, TableOK, Sizes
  <2>2. num_buckets' = num_buckets \/ num_buckets' = 4 * num_buckets
    BY DEF Add
  <2> QED
    BY <2>1, <2>2
<1> QED
  BY <1>1, <1>2, <1>3, IInvIdle

LEMMA NumBucketsType == IInv => num_buckets \in Nat
BY DEF IInv, TableOK, Sizes

LEMMA FirstFromUsed ==
  ASSUME TableOK, NonEmptyFrom(0) # {}
  PROVE  FirstFrom(0) \in Used
BY FirstFromIs

LEMMA IInvLookup ==
  ASSUME IInv, UNCHANGED <<chain_vars, iterator_vars>>
  PROVE  IInv'
<1>1. TableOK'
  BY TableOKUnchanged DEF IInv
<1>2. UNCHANGED <<key_type, buckets, value, num_buckets, iterating, next_index, next_entry, current>>
  BY DEF chain_vars, iterator_vars
<1>3. Used' = Used /\ Pending' = Pending /\ (\A k : Index(k)' = Index(k))
  BY <1>2 DEF Used, Pending, Index, HashIndex, Indices
<1>4. IteratorTypes'
  BY <1>2 DEF IInv, IteratorTypes
<1>5. IteratorNotDangling'
  BY <1>2, <1>3 DEF IInv, IteratorNotDangling
<1>6. HeldIsPassed'
  BY <1>2, <1>3 DEF IInv, HeldIsPassed
<1> QED
  BY <1>1, <1>4, <1>5, <1>6 DEF IInv

LEMMA IInvDelete ==
  ASSUME IInv, NEW k \in Used, DeleteEntry(k), ~iterating, UNCHANGED iterator_vars
  PROVE  IInv'
<1>1. TableOK'
  BY TableOKDelete DEF IInv
<1>2. num_buckets' = num_buckets
  BY DEF DeleteEntry
<1>3. num_buckets' \in Nat /\ num_buckets <= num_buckets'
  BY <1>2, NumBucketsType
<1> QED
  BY <1>1, <1>3, IInvIdle

LEMMA IInvRemoveKey ==
  ASSUME IInv, NEW k \in Keys, RemoveKey(k)
  PROVE  IInv'
<1>1. CASE LookupKey(k)
  <2>1. k \in Used
    BY <1>1, IndexFound DEF IInv
  <2> QED
    BY <1>1, <2>1, IInvDelete DEF RemoveKey
<1>2. CASE ~LookupKey(k)
  BY <1>2, IInvLookup DEF RemoveKey
<1> QED
  BY <1>1, <1>2

LEMMA IInvRemoveNext ==
  ASSUME IInv, RemoveNext
  PROVE  IInv'
<1>1. CASE NonEmptyFrom(0) = {}
  BY <1>1, IInvLookup DEF RemoveNext
<1>2. CASE NonEmptyFrom(0) # {}
  <2>1. FirstFrom(0) \in Used
    BY <1>2, FirstFromUsed DEF IInv
  <2> QED
    BY <1>2, <2>1, IInvDelete DEF RemoveNext
<1> QED
  BY <1>1, <1>2

LEMMA IInvCreateIterator ==
  ASSUME IInv, CreateIterator
  PROVE  IInv'
<1>1. TableOK'
  BY TableOKUnchanged DEF IInv, CreateIterator
<1>2. IteratorTypes' /\ next_entry' = None /\ current' = None
  BY NumBucketsType DEF CreateIterator, IteratorTypes, chain_vars
<1> QED
  BY <1>1, <1>2 DEF IInv, IteratorNotDangling, HeldIsPassed

(* A visit holds its entry, which is then no longer pending, and points       *)
(* behind it in the same chain.                                              *)
LEMMA IInvVisit ==
  ASSUME IInv, UNCHANGED chain_vars, NEW e \in Used, e \notin Pending',
         next_entry' = Behind(e), current' = e, iterating' = TRUE,
         next_index' = Index(e) + 1,
         Behind(e) = None \/ (Behind(e) \in Used /\ Index(Behind(e)) = Index(e))
  PROVE  IInv'
<1>1. TableOK' /\ UNCHANGED <<key_type, value, num_buckets>>
  BY TableOKUnchanged DEF IInv, chain_vars
<1>2. Used' = Used /\ \A k : Index(k)' = Index(k)
  BY <1>1 DEF Used, Index, HashIndex
<1>3. e \in Keys /\ Index(e) \in 0 .. num_buckets - 1
  BY IndexFound DEF Used, IInv, Indices
<1>4. Behind(e) \in Keys \cup {None}
  BY DEF Used
<1>6. IteratorTypes'
  BY <1>1, <1>3, <1>4, NumBucketsType DEF IteratorTypes
<1>7. IteratorNotDangling'
  <2>1. Index(next_entry)' = Index(Behind(e))
    BY <1>1 DEF Index, HashIndex
  <2>2. CASE Behind(e) = None
    BY <2>2 DEF IteratorNotDangling
  <2>3. CASE Behind(e) # None
    <3>1. Behind(e) \in Used /\ Index(Behind(e)) = next_index' - 1
      BY <1>3, <2>3
    <3>2. value'[next_entry'] # None
      BY <1>1, <3>1 DEF Used
    <3> QED
      BY <2>1, <3>1, <3>2 DEF IteratorNotDangling
  <2> QED
    BY <2>2, <2>3
<1>8. HeldIsPassed'
  BY <1>2 DEF HeldIsPassed
<1> QED
  BY <1>1, <1>6, <1>7, <1>8 DEF IInv

LEMMA IInvNextInChain ==
  ASSUME IInv, NextInChain
  PROVE  IInv'
<1> DEFINE e == next_entry
<1>1. /\ e \in Used /\ Pending' = Pending \ {e}
      /\ Behind(e) = None \/ (Behind(e) \in Used /\ Index(Behind(e)) = Index(e))
  BY VisitedInChain
<1>2. UNCHANGED chain_vars /\ iterating /\ iterating' = iterating /\ next_index' = next_index
      /\ next_entry' = Behind(e) /\ current' = e /\ e # None
  BY DEF NextInChain, Visit
<1>3. next_index' = Index(e) + 1 /\ iterating' = TRUE
  <2>1. Index(e) = next_index - 1
    BY <1>2 DEF IInv, IteratorNotDangling
  <2>2. next_index \in Nat
    <3>1. next_index \in 0 .. num_buckets /\ num_buckets \in Nat
      BY NumBucketsType DEF IInv, IteratorTypes
    <3> QED
      BY <3>1
  <2>3. iterating = TRUE
    BY <1>2 DEF IInv, IteratorTypes
  <2> QED
    BY <1>2, <2>1, <2>2, <2>3
<1>4. e \notin Pending'
  BY <1>1
<1> HIDE DEF e
<1> QED
  BY <1>1, <1>2, <1>3, <1>4, IInvVisit

LEMMA IInvNextInLaterBucket ==
  ASSUME IInv, NextInLaterBucket
  PROVE  IInv'
<1> DEFINE e == FirstFrom(next_index)
<1>1. /\ e \in Used /\ Pending' = Pending \ {e} /\ next_index' = Index(e) + 1
      /\ Behind(e) = None \/ (Behind(e) \in Used /\ Index(Behind(e)) = Index(e))
  BY VisitedInLaterBucket
<1>2. UNCHANGED chain_vars /\ iterating /\ iterating' = iterating
      /\ next_entry' = Behind(e) /\ current' = e
  BY DEF NextInLaterBucket, Visit
<1>3. iterating' = TRUE
  BY <1>2 DEF IInv, IteratorTypes
<1>4. e \notin Pending'
  BY <1>1
<1> HIDE DEF e
<1> QED
  BY <1>1, <1>2, <1>3, <1>4, IInvVisit

LEMMA IInvNextFindsNone ==
  ASSUME IInv, NextFindsNone
  PROVE  IInv'
<1>1. TableOK' /\ num_buckets' = num_buckets
  BY TableOKUnchanged DEF IInv, NextFindsNone, chain_vars
<1>2. iterating' = FALSE /\ IteratorTypes'
  <2>1. next_entry' = next_entry /\ next_index' = num_buckets /\ current' = None /\ iterating' = FALSE
    BY DEF NextFindsNone
  <2>2. num_buckets \in 0 .. num_buckets
    BY NumBucketsType
  <2> QED
    BY <1>1, <2>1, <2>2 DEF IInv, IteratorTypes
<1> QED
  BY <1>1, <1>2 DEF IInv, IteratorNotDangling, HeldIsPassed

LEMMA IInvRemoveVisited ==
  ASSUME IInv, RemoveVisited
  PROVE  IInv'
<1>1. /\ iterating /\ current # None /\ DeleteEntry(current) /\ current' = None
      /\ UNCHANGED <<iterating, next_index, next_entry>>
  BY DEF RemoveVisited
<1>2. current \in Used
  BY <1>1 DEF IInv, HeldIsPassed
<1>3. TableOK' /\ num_buckets' = num_buckets /\ key_type' = key_type
  BY <1>1, <1>2, TableOKDelete DEF IInv, DeleteEntry
<1>4. IteratorTypes'
  BY <1>1, <1>3 DEF IInv, IteratorTypes
<1>5. PointsAtEntry(next_entry)'
  BY <1>1, PendingAfterRemoval
<1>6. IteratorNotDangling'
  <2>1. Index(next_entry)' = Index(next_entry)
    BY <1>1, <1>3 DEF Index, HashIndex
  <2>2. next_entry' # None => value'[next_entry'] # None
    BY <1>5 DEF PointsAtEntry, Used
  <2> QED
    BY <1>1, <2>1, <2>2 DEF IInv, IteratorNotDangling
<1>7. HeldIsPassed'
  BY <1>1 DEF HeldIsPassed
<1> QED
  BY <1>3, <1>4, <1>6, <1>7 DEF IInv

LEMMA IInvNext == IInv /\ [Next]_vars => IInv'
<1> SUFFICES ASSUME IInv, [Next]_vars PROVE IInv'
  OBVIOUS
<1>1. CASE UNCHANGED vars
  <2>1. UNCHANGED <<chain_vars, iterator_vars>>
    BY <1>1 DEF vars, chain_vars, iterator_vars
  <2> QED
    BY <2>1, IInvLookup
<1>2. ASSUME NEW k \in Keys, NEW v \in Values, Add(k, v) PROVE IInv'
  BY <1>2, IInvAdd
<1>3. ASSUME NEW k \in Keys, Lookup(k) PROVE IInv'
  BY <1>3, IInvLookup DEF Lookup
<1>4. ASSUME NEW k \in Keys, RemoveKey(k) PROVE IInv'
  BY <1>4, IInvRemoveKey
<1>5. CASE RemoveNext
  BY <1>5, IInvRemoveNext
<1>6. CASE CreateIterator
  BY <1>6, IInvCreateIterator
<1>7. CASE NextInChain
  BY <1>7, IInvNextInChain
<1>8. CASE NextInLaterBucket
  BY <1>8, IInvNextInLaterBucket
<1>9. CASE NextFindsNone
  BY <1>9, IInvNextFindsNone
<1>10. CASE RemoveVisited
  BY <1>10, IInvRemoveVisited
<1> QED
  BY <1>1, <1>2, <1>3, <1>4, <1>5, <1>6, <1>7, <1>8, <1>9, <1>10 DEF Next

LEMMA IInvAlways == Spec => []IInv
BY IInvInit, IInvNext, PTL DEF Spec

(* Through every add, replacement, removal and rebuild an entry that is       *)
(* allocated is linked once, in the bucket where it is looked for, one that   *)
(* is freed nowhere, and the count is the number of entries.                 *)
THEOREM LinkedOnce == Spec => []EntriesLinkedOnce
BY IInvAlways, IInvSuffices, PTL

(* The iterator never points at a freed entry, whatever its user removes.     *)
THEOREM NotDangling == Spec => []IteratorNotDangling
BY IInvAlways, IInvSuffices, PTL

------------------------------------------------------------------------------
(* The table implements an associative array. *)

ContentsAreValues == Contents = value

LEMMA ContentsKnown == TableOK => ContentsAreValues
<1> SUFFICES ASSUME TableOK PROVE Contents = value
  BY DEF ContentsAreValues
<1>1. \A k \in Keys : LookupKey(k) <=> value[k] # None
  BY IndexFound DEF Used
<1>2. value \in [Keys -> Values \cup {None}]
  BY DEF TableOK
<1> QED
  BY <1>1, <1>2 DEF Contents

LEMMA ContentsKnownNext == TableOK' => ContentsAreValues'
BY ContentsKnown, PTL

LEMMA ContentsUsed ==
  ASSUME IInv, IInv'
  PROVE  /\ Contents = value /\ Contents' = value'
         /\ Array!Listed = Used
<1>1. Contents = value /\ Contents' = value'
  BY ContentsKnown, ContentsKnownNext DEF IInv, ContentsAreValues
<1> QED
  BY <1>1 DEF Array!Listed, Used

LEMMA ArrayInit == Init => Array!Init
<1> SUFFICES ASSUME Init PROVE Array!Init
  OBVIOUS
<1>1. Contents = value
  BY TableOKInit, ContentsKnown DEF ContentsAreValues
<1>2. Pending = {}
  BY DEF Init, Pending
<1> QED
  BY <1>1, <1>2 DEF Init, Array!Init

NothingPending == ~iterating => Pending = {}

LEMMA PendingIdle == NothingPending
BY DEF NothingPending, Pending

LEMMA PendingIdleNext == NothingPending'
BY PendingIdle, PTL

LEMMA ArrayAdd ==
  ASSUME IInv, IInv', NEW k \in Keys, NEW v \in Values, Add(k, v)
  PROVE  Array!Add(k, v) \/ AddOfSameValue
<1>1. Contents = value /\ Contents' = value'
  BY ContentsUsed
<1>2. ~iterating /\ iterating' = iterating /\ current' = current
      /\ value' = [value EXCEPT ![k] = v]
  BY DEF Add, iterator_vars
<1>3. Pending = {} /\ Pending' = {}
  BY <1>2, PendingIdle, PendingIdleNext DEF NothingPending
<1>4. result' = <<"add", value[k]>>
  <2>1. LookupKey(k) <=> value[k] # None
    BY IndexFound DEF IInv, Used
  <2>2. result' = <<"add", IF LookupKey(k) THEN value[k] ELSE None>>
    BY DEF Add
  <2> QED
    BY <2>1, <2>2
<1>5. CASE value[k] = v
  <2>1. v # None
    BY SizesAssumption
  <2>2. value' = value
    BY <1>2, <1>5 DEF IInv, TableOK
  <2> QED
    BY <1>1, <1>2, <1>3, <1>4, <1>5, <2>1, <2>2 DEF AddOfSameValue
<1>6. CASE value[k] # v
  BY <1>1, <1>2, <1>3, <1>4, <1>6 DEF Array!Add
<1> QED
  BY <1>5, <1>6

(* A step that changes nothing but the result. *)
LEMMA ViewUnchanged ==
  ASSUME IInv, UNCHANGED <<chain_vars, iterator_vars>>
  PROVE  Contents' = Contents /\ Pending' = Pending /\ iterating' = iterating /\ current' = current
BY DEF Contents, LookupKey, Pending, Index, HashIndex, Indices, chain_vars, iterator_vars

LEMMA ArrayLookup ==
  ASSUME IInv, IInv', NEW k \in Keys, Lookup(k)
  PROVE  Array!Lookup(k)
<1>1. Contents' = Contents /\ Pending' = Pending /\ iterating' = iterating /\ current' = current
  BY ViewUnchanged DEF Lookup
<1>2. result' = <<"lookup", Contents[k]>>
  BY DEF Lookup, Contents
<1> QED
  BY <1>1, <1>2 DEF Array!Lookup

LEMMA ViewDeleted ==
  ASSUME IInv, IInv', ~iterating, NEW k \in Keys, DeleteEntry(k), UNCHANGED iterator_vars
  PROVE  /\ Contents' = [Contents EXCEPT ![k] = None]
         /\ Pending' = Pending /\ iterating' = iterating /\ current' = current
<1>1. Contents = value /\ Contents' = value'
  BY ContentsUsed
<1>2. iterating' = iterating /\ current' = current
  BY DEF iterator_vars
<1>3. Pending = {} /\ Pending' = {}
  BY <1>2, PendingIdle, PendingIdleNext DEF NothingPending
<1> QED
  BY <1>1, <1>2, <1>3 DEF DeleteEntry

LEMMA ArrayRemoveKey ==
  ASSUME IInv, IInv', NEW k \in Keys, RemoveKey(k)
  PROVE  Array!RemoveKey(k)
<1>1. Contents = value /\ value \in [Keys -> Values \cup {None}]
  BY ContentsUsed DEF IInv, TableOK
<1>2. LookupKey(k) <=> Contents[k] # None
  BY <1>1, IndexFound DEF IInv, Used
<1>3. ~iterating /\ result' = <<"remove", LookupKey(k)>> /\ UNCHANGED iterator_vars
  BY DEF RemoveKey
<1>4. result' = <<"remove", Contents[k] # None>>
  BY <1>2, <1>3 DEF LookupKey, Contains
<1>5. CASE LookupKey(k)
  <2>1. DeleteEntry(k)
    BY <1>5 DEF RemoveKey
  <2> QED
    BY <1>3, <1>4, <2>1, ViewDeleted DEF Array!RemoveKey
<1>6. CASE ~LookupKey(k)
  <2>1. Contents' = Contents /\ Pending' = Pending /\ iterating' = iterating /\ current' = current
    BY <1>3, <1>6, ViewUnchanged DEF RemoveKey
  <2>2. [Contents EXCEPT ![k] = None] = Contents
    BY <1>1, <1>2, <1>6
  <2> QED
    BY <1>3, <1>4, <2>1, <2>2 DEF Array!RemoveKey
<1> QED
  BY <1>5, <1>6

LEMMA ArrayRemoveNext ==
  ASSUME IInv, IInv', RemoveNext
  PROVE  Array!RemoveAny
<1>1. Contents = value /\ Array!Listed = Used
  BY ContentsUsed
<1>2. ~iterating /\ UNCHANGED iterator_vars
  BY DEF RemoveNext
<1>3. CASE NonEmptyFrom(0) = {}
  <2>1. Used = {}
    <3> SUFFICES ASSUME NEW k \in Used PROVE FALSE
      OBVIOUS
    <3>1. k \in Keys
      BY DEF Used
    <3>2. Index(k) \in Indices /\ k \in ToSet(buckets[Index(k)]) /\ buckets[Index(k)] \in Seq(Keys)
      BY <3>1, IndexFound DEF IInv
    <3>3. buckets[Index(k)] # << >> /\ Index(k) >= 0
      BY <3>2, ChainTypes DEF Indices
    <3> QED
      BY <1>3, <3>2, <3>3 DEF NonEmptyFrom
  <2>2. result' = <<"remove_next", None>> /\ UNCHANGED chain_vars
    BY <1>3 DEF RemoveNext
  <2>3. Contents' = Contents /\ Pending' = Pending /\ iterating' = iterating /\ current' = current
    BY <1>2, <2>2, ViewUnchanged
  <2> QED
    BY <1>1, <1>2, <2>1, <2>2, <2>3 DEF Array!RemoveAny
<1>4. CASE NonEmptyFrom(0) # {}
  <2> DEFINE k == FirstFrom(0)
  <2>1. k \in Used
    BY <1>4, FirstFromUsed DEF IInv
  <2>2. result' = <<"remove_next", value[k]>> /\ DeleteEntry(k) /\ k \in Keys
    BY <1>4, <2>1 DEF RemoveNext, Used
  <2> HIDE DEF k
  <2>3. /\ Contents' = [Contents EXCEPT ![k] = None]
        /\ Pending' = Pending /\ iterating' = iterating /\ current' = current
    BY <1>2, <2>2, ViewDeleted
  <2> QED
    BY <1>1, <1>2, <2>1, <2>2, <2>3 DEF Array!RemoveAny
<1> QED
  BY <1>3, <1>4

LEMMA ArrayBegin ==
  ASSUME IInv, IInv', CreateIterator
  PROVE  Array!Begin
<1>1. Array!Listed = Used /\ Contents = value /\ Contents' = value'
  BY ContentsUsed
<1>2. ~iterating /\ iterating' = TRUE /\ next_index' = 0 /\ next_entry' = None /\ current' = None
      /\ UNCHANGED chain_vars /\ result' = result
  BY DEF CreateIterator
<1>3. Pending' = Ahead(0, None)
  <2>1. PointsAtEntry(next_entry')
    BY <1>2 DEF PointsAtEntry
  <2> QED
    BY <1>2, <2>1, PendingAheadNext DEF IInv
<1>4. Ahead(0, None) = Used
  <2>1. \A k \in Used : Index(k) >= 0
    BY IndexFound DEF IInv, Used, Indices
  <2> QED
    BY <2>1 DEF Ahead
<1>5. Contents' = Contents
  BY <1>1, <1>2 DEF chain_vars
<1> QED
  BY <1>1, <1>2, <1>3, <1>4, <1>5 DEF Array!Begin

LEMMA ArrayVisit ==
  ASSUME IInv, IInv', NextInChain \/ NextInLaterBucket
  PROVE  Array!Visit
<1>1. Contents = value /\ Contents' = value'
  BY ContentsUsed
<1>2. CASE NextInChain
  <2>1. next_entry \in Pending /\ Pending' = Pending \ {next_entry}
    BY <1>2, VisitedInChain
  <2>2. current' = next_entry /\ result' = <<"next", value[next_entry]>> /\ iterating /\ iterating' = iterating
        /\ value' = value
    BY <1>2 DEF NextInChain, Visit, chain_vars
  <2> QED
    BY <1>1, <2>1, <2>2 DEF Array!Visit
<1>3. CASE NextInLaterBucket
  <2> DEFINE e == FirstFrom(next_index)
  <2>1. e \in Pending /\ Pending' = Pending \ {e}
    BY <1>3, VisitedInLaterBucket
  <2>2. current' = e /\ result' = <<"next", value[e]>> /\ iterating /\ iterating' = iterating
        /\ value' = value
    BY <1>3 DEF NextInLaterBucket, Visit, chain_vars
  <2> HIDE DEF e
  <2> QED
    BY <1>1, <2>1, <2>2 DEF Array!Visit
<1> QED
  BY <1>2, <1>3

LEMMA ArrayRemoveVisited ==
  ASSUME IInv, IInv', RemoveVisited
  PROVE  Array!RemoveVisited
<1>1. Contents = value /\ Contents' = value'
  BY ContentsUsed
<1>2. /\ iterating /\ current # None /\ DeleteEntry(current) /\ current' = None
      /\ result' = <<"remove", TRUE>>
      /\ UNCHANGED <<iterating, next_index, next_entry>>
  BY DEF RemoveVisited
<1>3. Pending' = Pending
  BY <1>2, PendingAfterRemoval
<1> QED
  BY <1>1, <1>2, <1>3 DEF Array!RemoveVisited, DeleteEntry

LEMMA ArrayEnd ==
  ASSUME IInv, IInv', NextFindsNone
  PROVE  Array!End
<1>1. Contents = value /\ Contents' = value'
  BY ContentsUsed
<1>2. /\ iterating /\ next_entry = None /\ NonEmptyFrom(next_index) = {}
      /\ iterating' = FALSE /\ current' = None /\ result' = <<"next", None>> /\ value' = value
  BY DEF NextFindsNone, chain_vars
<1>3. Pending = {}
  <2>1. Pending = Ahead(next_index, None)
    BY <1>2, PendingAhead
  <2> SUFFICES ASSUME NEW k \in Used, Index(k) >= next_index PROVE FALSE
    BY <2>1 DEF Ahead
  <2>2. k \in Keys
    BY DEF Used
  <2>3. Index(k) \in Indices /\ k \in ToSet(buckets[Index(k)]) /\ buckets[Index(k)] \in Seq(Keys)
    BY <2>2, IndexFound DEF IInv
  <2>4. buckets[Index(k)] # << >>
    BY <2>3, ChainTypes
  <2> QED
    BY <1>2, <2>3, <2>4 DEF NonEmptyFrom
<1>4. Pending' = {}
  BY <1>2, PendingIdleNext DEF NothingPending
<1> QED
  BY <1>1, <1>2, <1>3, <1>4 DEF Array!End

LEMMA ArrayNext == IInv /\ IInv' /\ [Next]_vars => [Array!Next \/ AddOfSameValue]_(Array!vars)
<1> SUFFICES ASSUME IInv, IInv', [Next]_vars
             PROVE  Array!Next \/ AddOfSameValue \/ UNCHANGED Array!vars
  OBVIOUS
<1>1. CASE UNCHANGED vars
  <2>1. UNCHANGED <<chain_vars, iterator_vars>> /\ result' = result
    BY <1>1 DEF vars, chain_vars, iterator_vars
  <2> QED
    BY <2>1, ViewUnchanged DEF Array!vars
<1>2. ASSUME NEW k \in Keys, NEW v \in Values, Add(k, v) PROVE Array!Next \/ AddOfSameValue
  BY <1>2, ArrayAdd DEF Array!Next
<1>3. ASSUME NEW k \in Keys, Lookup(k) PROVE Array!Next
  BY <1>3, ArrayLookup DEF Array!Next
<1>4. ASSUME NEW k \in Keys, RemoveKey(k) PROVE Array!Next
  BY <1>4, ArrayRemoveKey DEF Array!Next
<1>5. CASE RemoveNext
  BY <1>5, ArrayRemoveNext DEF Array!Next
<1>6. CASE CreateIterator
  BY <1>6, ArrayBegin DEF Array!Next
<1>7. CASE NextInChain \/ NextInLaterBucket
  BY <1>7, ArrayVisit DEF Array!Next
<1>8. CASE NextFindsNone
  BY <1>8, ArrayEnd DEF Array!Next
<1>9. CASE RemoveVisited
  BY <1>9, ArrayRemoveVisited DEF Array!Next
<1> QED
  BY <1>1, <1>2, <1>3, <1>4, <1>5, <1>6, <1>7, <1>8, <1>9 DEF Next

(* Buckets, chains and rebuilds behave as the associative array that          *)
(* hash_table.h promises, but that adding a value again answers that value;  *)
(* and an iteration visits every entry exactly once, also while its user     *)
(* removes the entries it gets.                                              *)
THEOREM TableImplementsArray == Spec => ImplementsArray
<1>1. Init => Array!Init
  BY ArrayInit
<1>2. IInv /\ IInv' /\ [Next]_vars => [Array!Next \/ AddOfSameValue]_(Array!vars)
  BY ArrayNext
<1> QED
  BY <1>1, <1>2, IInvAlways, PTL DEF Spec, ImplementsArray
===============================================================================
