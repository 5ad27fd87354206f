------------------------------ MODULE ByteStream ------------------------------
(***************************************************************************)
(* What a stream parser sees of its input: one endless array of bytes, in  *)
(* the order the source supplied them, with a cursor and a place to come   *)
(* back to.  There are no banks here.  A byte is its place in the array.   *)
(***************************************************************************)
EXTENDS Integers

VARIABLES
  received,  \* how many bytes the source has supplied so far
  committed, \* the place the parser comes back to when it is interrupted
  cursor,    \* the place of the next byte to parse
  block      \* the bytes the parser last read, by index

vars == <<received, committed, cursor, block>>

Init ==
  /\ received = 0
  /\ committed = 0
  /\ cursor = 0
  /\ block = << >>

(* The parser reads the next n bytes. *)
Read(n) ==
  /\ cursor' = cursor + n
  /\ block' = [i \in 0 .. n - 1 |-> cursor + i]
  /\ UNCHANGED <<received, committed>>

Commit ==
  /\ committed' = cursor
  /\ UNCHANGED <<received, cursor, block>>

(* More bytes arrive, or none and the parser looks again. *)
Arrive ==
  /\ received' \in Nat /\ received' >= received
  /\ cursor' = committed
  /\ UNCHANGED <<committed, block>>

(* Everything supplied so far is forgotten. *)
Flush ==
  /\ committed' = received
  /\ cursor' = received
  /\ UNCHANGED <<received, block>>

Next ==
  \/ \E n \in 1 .. received - cursor : Read(n)
  \/ Commit
  \/ Arrive
  \/ Flush

Spec == Init /\ [][Next]_vars
==============================================================================
