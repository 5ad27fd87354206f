--------------------------- MODULE StreamDirectory ---------------------------
(***************************************************************************)
(* What a media server promises the clients that watch its streams, with   *)
(* no reference counts, no deletion flags and no timers.                   *)
(*                                                                         *)
(*   - A directory maps a stream name to at most one stream object.        *)
(*   - A client session that names a listed stream starts watching it.     *)
(*   - A stream object lives as long as it is listed or watched: it is     *)
(*     closed only when nobody can reach it any more, and never reopened.  *)
(*                                                                         *)
(* One step of the server may make several viewers leave, several names    *)
(* disappear and several objects close, so Retire takes sets.              *)
(***************************************************************************)

CONSTANTS
  Streams,   \* stream objects
  Names,     \* stream names
  Sessions,  \* client sessions
  NameOf,    \* the name of each stream object
  None       \* no stream

VARIABLES
  directory, \* the stream object listed under each name
  life,      \* "unborn", "live" or "closed" for each stream object
  watching   \* the stream object each client session watches

vars == <<directory, life, watching>>

Phases == {"unborn", "live", "closed"}

(* Every stream object that a client can still reach is live. *)
ReachableLive ==
  /\ \A n \in Names : directory[n] # None => life[directory[n]] = "live"
  /\ \A c \in Sessions : watching[c] # None => life[watching[c]] = "live"

Init ==
  /\ directory = [n \in Names |-> None]
  /\ life = [s \in Streams |-> "unborn"]
  /\ watching = [c \in Sessions |-> None]

(* A stream object only ever moves from unborn to live to closed. *)
LifeMovesOn ==
  /\ life' \in [Streams -> Phases]
  /\ \A s \in Streams : life[s] = "closed" => life'[s] = "closed"
  /\ \A s \in Streams : life'[s] = "unborn" => life[s] = "unborn"

(* List s under its name, in place of the object listed there, if any. *)
Publish(s) ==
  /\ life[s] # "closed"
  /\ directory' = [directory EXCEPT ![NameOf[s]] = s]
  /\ UNCHANGED watching
  /\ LifeMovesOn
  /\ \A t \in Streams \ {s} : life'[t] = "live" => life[t] = "live"
  /\ ReachableLive'

(* Session c, watching nothing yet, starts watching the stream listed under n. *)
Watch(c, n) ==
  /\ watching[c] = None
  /\ directory[n] # None
  /\ watching' = [watching EXCEPT ![c] = directory[n]]
  /\ UNCHANGED <<directory, life>>

(* Viewers leave, names are withdrawn and unreachable objects are closed. *)
Retire ==
  /\ \A n \in Names : directory'[n] \in {directory[n], None}
  /\ \A c \in Sessions : watching'[c] \in {watching[c], None}
  /\ directory' \in [Names -> Streams \cup {None}]
  /\ watching' \in [Sessions -> Streams \cup {None}]
  /\ LifeMovesOn
  /\ \A s \in Streams : life'[s] = "live" => life[s] = "live"
  /\ ReachableLive'

Next ==
  \/ \E s \in Streams : Publish(s)
  \/ \E c \in Sessions, n \in Names : Watch(c, n)
  \/ Retire

Spec == Init /\ [][Next]_vars

==============================================================================
