------------------------------ MODULE HashTable ------------------------------
(***************************************************************************)
(* livemedia/basic_hash_table.c and hash_table.c: the table that the       *)
(* server keeps its streams, connections, sessions and sockets in.         *)
(*                                                                         *)
(* An entry is modelled by its key.  The iterator points at an entry of a  *)
(* chain, the one to visit next.  Its user (the loop that closes the       *)
(* client sessions of a stream) removes no entry but the one just visited. *)
(* HashOf is what a key is hashed to before it is cut to an index.         *)
(***************************************************************************)
EXTENDS Naturals, SequencesExt, FiniteSetsExt

CONSTANTS
  Keys, Values,
  None,                 \* NULL
  SmallHashTableSize,   \* SMALL_HASH_TABLE_SIZE
  RebuildMultiplier,    \* REBUILD_MULTIPLIER
  HashOf,               \* the sum over a string, or a word multiplied at random
  WordSpan              \* 2^30: the buckets at which down_shift has reached 0

ASSUME SizesAssumption ==
  /\ SmallHashTableSize \in Nat \ {0} /\ RebuildMultiplier \in Nat \ {0}
  /\ None \notin Keys \cup Values
  /\ HashOf \in [Keys -> Nat] /\ WordSpan \in Nat \ {0}

VARIABLES
  key_type,             \* what the table was made for: strings or words
  buckets,              \* the chain of each bucket
  value,                \* of each entry; None when there is no entry
  num_buckets, num_entries, rebuild_size,
  iterating,            \* an iterator exists
  next_index, next_entry, \* of the iterator
  current,              \* the key its user got last, and has not removed
  result                \* the last call that returned, with what it returned

chain_vars == <<key_type, buckets, value, num_buckets, num_entries, rebuild_size>>
iterator_vars == <<iterating, next_index, next_entry, current>>
vars == <<key_type, buckets, value, num_buckets, num_entries, rebuild_size,
          iterating, next_index, next_entry, current, result>>

Indices == 0 .. num_buckets - 1

Init ==
  /\ key_type \in {"string", "word"}
  /\ num_buckets = SmallHashTableSize
  /\ buckets = [i \in 0 .. SmallHashTableSize - 1 |-> << >>]
  /\ value = [k \in Keys |-> None]
  /\ num_entries = 0
  /\ rebuild_size = SmallHashTableSize * RebuildMultiplier
  /\ iterating = FALSE /\ next_index = 0 /\ next_entry = None /\ current = None
  /\ result = None

------------------------------------------------------------------------------
(* Looking up, adding and removing. *)

(* 2^down_shift, which a rebuild makes four times smaller. *)
DownShift(n) == IF n < WordSpan THEN WordSpan \div n ELSE 1

(* hash_index_from_key(), in a table of n buckets, whose mask is n - 1: the   *)
(* lowest bits of a string's sum, higher ones of a word's product.           *)
HashIndex(k, n) ==
  IF key_type = "string" THEN HashOf[k] % n ELSE (HashOf[k] \div DownShift(n)) % n
Index(k) == HashIndex(k, num_buckets)

(* lookup_key(): only the chain of the key's own bucket is searched. *)
LookupKey(k) == Contains(buckets[Index(k)], k)

(* Mutant: the entries are rehashed before the mask is widened. *)
MovedByOldMask(table, k) ==
  [table EXCEPT ![HashIndex(k, num_buckets)] = <<k>> \o @]

(* rebuild(): four times the buckets.  The old chains are walked from first   *)
(* to last and each entry is put in front of its new chain.                  *)
Moved(table, k) == [table EXCEPT ![HashIndex(k, 4 * num_buckets)] = <<k>> \o @]
ChainMoved(table, chain) == FoldLeft(Moved, table, chain)
Rebuilt(chains) ==
  FoldLeft(ChainMoved, [i \in 0 .. 4 * num_buckets - 1 |-> << >>],
           [j \in 1 .. num_buckets |-> chains[j - 1]])

TooLarge(count) == count >= rebuild_size

(* insert_new_entry(): in front of its chain. *)
InsertNewEntry(k) == [buckets EXCEPT ![Index(k)] = <<k>> \o @]

(* add(): the value of a key that is there is replaced, else a new entry goes *)
(* in front of its chain; then the table is rebuilt if it has become too     *)
(* large.                                                                    *)
Add(k, v) ==
  LET found == LookupKey(k)
      count == IF found THEN num_entries ELSE num_entries + 1
      chains == IF found THEN buckets ELSE InsertNewEntry(k)
      too_large == TooLarge(count)
  IN
  /\ ~iterating
  /\ result' = <<"add", IF found THEN value[k] ELSE None>>
  /\ value' = [value EXCEPT ![k] = v]
  /\ num_entries' = count
  /\ buckets' = IF too_large THEN Rebuilt(chains) ELSE chains
  /\ num_buckets' = IF too_large THEN 4 * num_buckets ELSE num_buckets
  /\ rebuild_size' = IF too_large THEN 4 * rebuild_size ELSE rebuild_size
  /\ UNCHANGED <<key_type, iterator_vars>>

Lookup(k) ==
  /\ result' = <<"lookup", IF LookupKey(k) THEN value[k] ELSE None>>
  /\ UNCHANGED <<chain_vars, iterator_vars>>

(* Mutant: the count is not lowered. *)
DeleteEntryUncounted(k) ==
  /\ buckets' = [buckets EXCEPT ![Index(k)] = RemoveFirst(@, k)]
  /\ value' = [value EXCEPT ![k] = None]
  /\ UNCHANGED <<key_type, num_entries, num_buckets, rebuild_size>>

(* delete_entry(): the entry is unlinked from its chain and freed. *)
DeleteEntry(k) ==
  /\ buckets' = [buckets EXCEPT ![Index(k)] = RemoveFirst(@, k)]
  /\ value' = [value EXCEPT ![k] = None]
  /\ num_entries' = num_entries - 1
  /\ UNCHANGED <<key_type, num_buckets, rebuild_size>>

(* remove() *)
RemoveKey(k) ==
  /\ ~iterating
  /\ result' = <<"remove", LookupKey(k)>>
  /\ IF LookupKey(k) THEN DeleteEntry(k) ELSE UNCHANGED chain_vars
  /\ UNCHANGED iterator_vars

(* remove_next(), and the loops that get_first() and then remove: an iterator *)
(* of their own visits one entry, the first of the first chain, which is     *)
(* removed.                                                                  *)
NonEmptyFrom(first) == {i \in Indices : i >= first /\ buckets[i] # << >>}
FirstFrom(first) == Head(buckets[Min(NonEmptyFrom(first))])
RemoveNext ==
  /\ ~iterating
  /\ IF NonEmptyFrom(0) = {}
       THEN result' = <<"remove_next", None>> /\ UNCHANGED chain_vars
       ELSE result' = <<"remove_next", value[FirstFrom(0)]>> /\ DeleteEntry(FirstFrom(0))
  /\ UNCHANGED iterator_vars

------------------------------------------------------------------------------
(* Iterating. *)

Place(chain, k) == SelectInSeq(chain, LAMBDA other : other = k)

(* The entry behind k in its chain. *)
Behind(k) ==
  LET chain == buckets[Index(k)]
  IN IF Place(chain, k) < Len(chain) THEN chain[Place(chain, k) + 1] ELSE None

CreateIterator ==
  /\ ~iterating
  /\ iterating' = TRUE
  /\ next_index' = 0 /\ next_entry' = None /\ current' = None
  /\ UNCHANGED <<chain_vars, result>>

(* Mutant: the iterator stays at the entry it returns until the next call. *)
VisitStaying(k) ==
  /\ next_entry' = k
  /\ current' = k
  /\ result' = <<"next", value[k]>>

(* The entry is returned; the iterator already points behind it. *)
Visit(k) ==
  /\ next_entry' = Behind(k)
  /\ current' = k
  /\ result' = <<"next", value[k]>>

(* next(), the iterator within a chain. *)
NextInChain ==
  /\ iterating /\ next_entry # None
  /\ Visit(next_entry)
  /\ UNCHANGED <<chain_vars, iterating, next_index>>

(* next(), the chain being done: the first bucket from next_index on that has *)
(* entries.                                                                  *)
NextInLaterBucket ==
  /\ iterating /\ next_entry = None /\ NonEmptyFrom(next_index) # {}
  /\ next_index' = Min(NonEmptyFrom(next_index)) + 1
  /\ Visit(FirstFrom(next_index))
  /\ UNCHANGED <<chain_vars, iterating>>

(* next(), no entry being left: NULL, and the user deletes the iterator. *)
NextFindsNone ==
  /\ iterating /\ next_entry = None /\ NonEmptyFrom(next_index) = {}
  /\ iterating' = FALSE /\ next_index' = num_buckets /\ current' = None
  /\ result' = <<"next", None>>
  /\ UNCHANGED <<chain_vars, next_entry>>

(* The user removes the entry it just got. *)
RemoveVisited ==
  /\ iterating /\ current # None
  /\ DeleteEntry(current)
  /\ current' = None
  /\ result' = <<"remove", TRUE>>
  /\ UNCHANGED <<iterating, next_index, next_entry>>

Next ==
  \/ \E k \in Keys, v \in Values : Add(k, v)
  \/ \E k \in Keys : Lookup(k)
  \/ \E k \in Keys : RemoveKey(k)
  \/ RemoveNext
  \/ CreateIterator
  \/ NextInChain
  \/ NextInLaterBucket
  \/ NextFindsNone
  \/ RemoveVisited

Spec == Init /\ [][Next]_vars

------------------------------------------------------------------------------
(* Types. *)
TypeOK ==
  /\ key_type \in {"string", "word"}
  /\ DOMAIN buckets = Indices
  /\ \A i \in Indices : buckets[i] \in Seq(Keys)
  /\ value \in [Keys -> Values \cup {None}]
  /\ num_entries \in 0 .. rebuild_size - 1
  /\ iterating \in BOOLEAN
  /\ next_index \in 0 .. num_buckets
  /\ next_entry \in Keys \cup {None}
  /\ current \in Keys \cup {None}

(* Whatever was added, replaced, removed and rehashed: an entry that is       *)
(* allocated is linked once, in the bucket where it will be looked for, one   *)
(* that is freed is linked nowhere, and the count that decides on a rebuild   *)
(* is the number of entries.                                                 *)
EntriesLinkedOnce ==
  /\ TypeOK
  /\ \A k \in Keys : value[k] # None <=> LookupKey(k)
  /\ \A i \in Indices : \A k \in ToSet(buckets[i]) : Index(k) = i
  /\ \A i \in Indices : IsInjective(buckets[i])
  /\ num_entries = Cardinality({k \in Keys : value[k] # None})

(* The iterator never points at a freed entry, also when its user removes     *)
(* each entry it gets, and what it points at is in the bucket it walks.       *)
IteratorNotDangling ==
  iterating /\ next_entry # None => value[next_entry] # None /\ Index(next_entry) = next_index - 1

(* The keys that the iterator has before it. *)
Pending ==
  IF iterating
    THEN (UNION {ToSet(buckets[i]) : i \in {j \in Indices : j >= next_index}})
         \cup (IF next_entry = None THEN {}
               ELSE LET chain == buckets[Index(next_entry)]
                    IN ToSet(SubSeq(chain, Place(chain, next_entry), Len(chain))))
    ELSE {}

(* What looking each key up would find. *)
Contents == [k \in Keys |-> IF LookupKey(k) THEN value[k] ELSE None]

Array == INSTANCE AssociativeArray WITH
           table <- Contents,
           pending <- Pending,
           visiting <- iterating

(* The one call that does not do what is promised of it: adding the value     *)
(* that a key has already answers that value, where hash_table.h:57 and      *)
(* basic_hash_table.h:81 say that "the old value if different, otherwise 0"  *)
(* is returned (basic_hash_table.c:124-139).                                 *)
AddOfSameValue ==
  /\ ~iterating
  /\ \E k \in Keys : Contents[k] # None /\ result' = <<"add", Contents[k]>>
  /\ UNCHANGED <<Contents, Pending, iterating, current>>

(* But for adding a value again, buckets, chains and rebuilds behave as the   *)
(* associative array that hash_table.h promises, and an iteration visits     *)
(* every entry exactly once, also while its user removes the entries it      *)
(* gets.                                                                     *)
ImplementsArray == Array!Init /\ [][Array!Next \/ AddOfSameValue]_(Array!vars)
==============================================================================
