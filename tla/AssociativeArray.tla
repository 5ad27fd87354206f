--------------------------- MODULE AssociativeArray ---------------------------
(* What a table promises its users: keys with their values, and an iteration *)
(* that visits each key once, during which the key just visited may be       *)
(* removed.  "result" is the last call that returned, with what it returned. *)
EXTENDS Naturals

CONSTANTS Keys, Values, None

VARIABLES
  table,    \* the value of each key, None when there is none
  pending,  \* the keys that the iteration has still to visit
  visiting, \* an iteration is going on
  current,  \* the key it visited last, None once that one is removed
  result
vars == <<table, pending, visiting, current, result>>

Listed == {k \in Keys : table[k] # None}

Init ==
  /\ table = [k \in Keys |-> None]
  /\ pending = {} /\ visiting = FALSE /\ current = None
  /\ result = None

(* "Returns the old value if different, otherwise 0".                         *)
Add(k, v) ==
  /\ ~visiting
  /\ table' = [table EXCEPT ![k] = v]
  /\ result' = <<"add", IF table[k] = v THEN None ELSE table[k]>>
  /\ UNCHANGED <<pending, visiting, current>>

Lookup(k) ==
  /\ result' = <<"lookup", table[k]>>
  /\ UNCHANGED <<table, pending, visiting, current>>

RemoveKey(k) ==
  /\ ~visiting
  /\ table' = [table EXCEPT ![k] = None]
  /\ result' = <<"remove", table[k] # None>>
  /\ UNCHANGED <<pending, visiting, current>>

RemoveAny ==
  /\ ~visiting
  /\ \/ Listed = {} /\ result' = <<"remove_next", None>> /\ UNCHANGED table
     \/ \E k \in Listed :
          table' = [table EXCEPT ![k] = None] /\ result' = <<"remove_next", table[k]>>
  /\ UNCHANGED <<pending, visiting, current>>

Begin ==
  /\ ~visiting
  /\ visiting' = TRUE /\ pending' = Listed /\ current' = None
  /\ UNCHANGED <<table, result>>

Visit ==
  /\ visiting
  /\ \E k \in pending :
       pending' = pending \ {k} /\ current' = k /\ result' = <<"next", table[k]>>
  /\ UNCHANGED <<table, visiting>>

RemoveVisited ==
  /\ visiting /\ current # None
  /\ table' = [table EXCEPT ![current] = None] /\ current' = None
  /\ result' = <<"remove", TRUE>>
  /\ UNCHANGED <<pending, visiting>>

End ==
  /\ visiting /\ pending = {}
  /\ visiting' = FALSE /\ current' = None /\ result' = <<"next", None>>
  /\ UNCHANGED <<table, pending>>

Next ==
  \/ \E k \in Keys, v \in Values : Add(k, v)
  \/ \E k \in Keys : Lookup(k) \/ RemoveKey(k)
  \/ RemoveAny
  \/ Begin \/ Visit \/ RemoveVisited \/ End

Spec == Init /\ [][Next]_vars
==============================================================================
