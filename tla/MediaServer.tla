----------------------------- MODULE MediaServer -----------------------------
(***************************************************************************)
(* livemedia/generic_media_server.c with the "ServerMediaSession" life     *)
(* cycle of livemedia/server_media_session.c: the table of streams by      *)
(* name, the client sessions and the stream each of them has SETUP, the    *)
(* reference count that keeps a stream alive, the deletion flag, and the   *)
(* liveness timer of a client session.                                     *)
(*                                                                         *)
(* Everything runs on one libuv loop, so each action is one callback or    *)
(* one call by the application, run to completion.  The interleaving is    *)
(* that of requests, of timers and of the application.                     *)
(***************************************************************************)
EXTENDS Naturals, FiniteSets

CONSTANTS
  Streams,     \* server_media_session_t objects the application may create
  Names,       \* stream names
  SessionIds,  \* the 32-bit client session ids the generator may draw
  NameOf,      \* stream_name of each object
  Reclamation, \* reclamation_seconds, in clock ticks; 0 disables the timers
  None         \* the NULL pointer

ASSUME StreamsAssumption ==
  /\ NameOf \in [Streams -> Names]
  /\ None \notin Streams
  /\ IsFiniteSet(Streams)

ASSUME SessionsAssumption ==
  /\ SessionIds \subseteq Nat \ {0}
  /\ IsFiniteSet(SessionIds)
  /\ Reclamation \in Nat

VARIABLES
  serving,                    \* cleanup() has not run: the tables exist
  server_media_sessions,      \* hash table: the object listed under each name
  life,                       \* memory of an object: unborn, live, closed (freed)
  reference_count,            \* of each object
  delete_when_unreferenced,   \* of each object
  client_sessions,            \* hash table: ids of the sessions that exist
  our_server_media_session,   \* the object each client session has SETUP
  previous_client_session_id, \* the last id handed out
  idle                        \* ticks since the session's liveness timer was started

stream_vars == <<serving, server_media_sessions, life, reference_count, delete_when_unreferenced>>
session_vars == <<client_sessions, our_server_media_session, previous_client_session_id, idle>>
vars == <<serving, server_media_sessions, life, reference_count, delete_when_unreferenced,
          client_sessions, our_server_media_session, previous_client_session_id, idle>>

Phases == {"unborn", "live", "closed"}

(* The client sessions that hold a pointer to stream s. *)
Viewers(s) == {c \in client_sessions : our_server_media_session[c] = s}

Init ==
  /\ serving = TRUE
  /\ server_media_sessions = [n \in Names |-> None]
  /\ life = [s \in Streams |-> "unborn"]
  /\ reference_count = [s \in Streams |-> 0]
  /\ delete_when_unreferenced = [s \in Streams |-> FALSE]
  /\ client_sessions = {}
  /\ our_server_media_session = [c \in SessionIds |-> None]
  /\ previous_client_session_id = 0
  /\ idle = [c \in SessionIds |-> 0]

------------------------------------------------------------------------------
(* Streams: calls made by the application. *)

(* Mutant: a referenced object is closed as well. *)
CloseReferenced(s, fresh) ==
  /\ life' = [t \in Streams |-> IF t = fresh THEN "live"
                                ELSE IF t = s THEN "closed" ELSE life[t]]
  /\ UNCHANGED delete_when_unreferenced

(* remove_server_media_session() once s is off the table: an unreferenced   *)
(* object is closed at once, a referenced one is marked.  fresh is the      *)
(* object created in the same step, or None.                                *)
CloseOrMark(s, fresh) ==
  /\ life' = [t \in Streams |->
                IF t = fresh THEN "live"
                ELSE IF t = s /\ reference_count[s] = 0 THEN "closed" ELSE life[t]]
  /\ delete_when_unreferenced' =
       [t \in Streams |-> \/ delete_when_unreferenced[t]
                          \/ t = s /\ reference_count[s] > 0]

(* add_server_media_session(): an object listed under the same name is      *)
(* removed first.  s is new, or was removed while clients still watched it. *)
AddServerMediaSession(s) ==
  /\ serving
  /\ life[s] # "closed"
  /\ server_media_sessions[NameOf[s]] # s
  /\ CloseOrMark(server_media_sessions[NameOf[s]], s)
  /\ server_media_sessions' = [server_media_sessions EXCEPT ![NameOf[s]] = s]
  /\ UNCHANGED <<serving, reference_count, session_vars>>

(* remove_server_media_session_by_stream_name() of a listed name. *)
RemoveServerMediaSession(n) ==
  /\ server_media_sessions[n] # None
  /\ CloseOrMark(server_media_sessions[n], None)
  /\ server_media_sessions' = [server_media_sessions EXCEPT ![n] = None]
  /\ UNCHANGED <<serving, reference_count, session_vars>>

------------------------------------------------------------------------------
(* Client sessions. *)

(* Mutant: the object is left open. *)
ReleaseWithoutClosing(s, k) ==
  /\ reference_count' = [reference_count EXCEPT ![s] = k]
  /\ UNCHANGED <<serving, server_media_sessions, life, delete_when_unreferenced>>

(* Mutant: the object is closed and stays in the table. *)
ReleaseWithoutUnlisting(s, k) ==
  /\ reference_count' = [reference_count EXCEPT ![s] = k]
  /\ life' = [t \in Streams |-> IF k = 0 /\ t = s THEN "closed" ELSE life[t]]
  /\ UNCHANGED <<serving, server_media_sessions, delete_when_unreferenced>>

(* The stream side of client_session deinit: k references to s remain.      *)
(* delete_when_unreferenced() returns the flag's address, which is never    *)
(* NULL, so the flag's value plays no part: at 0 the name of s is taken     *)
(* off the table, whatever object is listed under it, and s is closed.      *)
Release(s, k) ==
  /\ reference_count' = [reference_count EXCEPT ![s] = k]
  /\ server_media_sessions' =
       [n \in Names |-> IF k = 0 /\ n = NameOf[s] THEN None ELSE server_media_sessions[n]]
  /\ life' = [t \in Streams |-> IF k = 0 /\ t = s THEN "closed" ELSE life[t]]
  /\ UNCHANGED <<serving, delete_when_unreferenced>>

(* The session side of deinit: the ids leave the table, their memory goes.  *)
EndSessions(C) ==
  /\ client_sessions' = client_sessions \ C
  /\ our_server_media_session' =
       [c \in SessionIds |-> IF c \in C THEN None ELSE our_server_media_session[c]]
  /\ idle' = [c \in SessionIds |-> IF c \in C THEN 0 ELSE idle[c]]
  /\ UNCHANGED previous_client_session_id

(* create_new_client_session_with_id(): a random id, not 0, not in use and  *)
(* not the previous one; init starts the liveness timer.                    *)
IsFreshId(c) == c \notin client_sessions /\ c # previous_client_session_id

(* A SETUP with no session id: a new session that, if the name is listed,   *)
(* takes a reference to the stream.  An unknown name leaves the session     *)
(* behind, attached to nothing.                                             *)
SetupNewSession(c, n) ==
  /\ serving
  /\ IsFreshId(c)
  /\ client_sessions' = client_sessions \cup {c}
  /\ previous_client_session_id' = c
  /\ idle' = [idle EXCEPT ![c] = 0]
  /\ our_server_media_session' =
       [our_server_media_session EXCEPT ![c] = server_media_sessions[n]]
  /\ reference_count' =
       [s \in Streams |-> IF s = server_media_sessions[n] THEN reference_count[s] + 1
                                                          ELSE reference_count[s]]
  /\ UNCHANGED <<serving, server_media_sessions, life, delete_when_unreferenced>>

(* Mutant: the reference is not counted. *)
SetupInSessionUncounted(c, n) ==
  /\ c \in client_sessions
  /\ our_server_media_session[c] = None
  /\ server_media_sessions[n] # None
  /\ our_server_media_session' =
       [our_server_media_session EXCEPT ![c] = server_media_sessions[n]]
  /\ idle' = [idle EXCEPT ![c] = 0]
  /\ UNCHANGED <<stream_vars, client_sessions, previous_client_session_id>>

(* A SETUP within a session: the first one that finds its stream takes the  *)
(* reference; a later one must name the same stream and takes none.  Any    *)
(* request with a session id restarts that session's timer first.           *)
SetupInSession(c, n) ==
  /\ c \in client_sessions
  /\ our_server_media_session[c] = None
  /\ server_media_sessions[n] # None
  /\ our_server_media_session' =
       [our_server_media_session EXCEPT ![c] = server_media_sessions[n]]
  /\ reference_count' = [reference_count EXCEPT ![server_media_sessions[n]] = @ + 1]
  /\ idle' = [idle EXCEPT ![c] = 0]
  /\ UNCHANGED <<serving, server_media_sessions, life, delete_when_unreferenced,
                 client_sessions, previous_client_session_id>>

(* note_liveness(): any other request that carries the session id. *)
NoteLiveness(c) ==
  /\ c \in client_sessions
  /\ idle' = [idle EXCEPT ![c] = 0]
  /\ UNCHANGED <<stream_vars, client_sessions, our_server_media_session,
                 previous_client_session_id>>

(* handle_cmd_describe(): takes a reference while the SDP is built and      *)
(* gives it back before it returns, then removes a stream it finds marked   *)
(* and unreferenced.  Here the flag's value is tested.                      *)
Describe(n) ==
  LET s == server_media_sessions[n] IN
  /\ s # None
  /\ IF reference_count[s] = 0 /\ delete_when_unreferenced[s]
       THEN RemoveServerMediaSession(n)
       ELSE UNCHANGED vars

(* Mutant: off by one, the timer never fires. *)
LivenessTimeoutLate(c) ==
  /\ c \in client_sessions
  /\ Reclamation > 0 /\ idle[c] > Reclamation
  /\ EndSessions({c})
  /\ UNCHANGED stream_vars

(* liveness_timeout_task(): the session is assumed to have timed out.       *)
LivenessTimeout(c) ==
  /\ c \in client_sessions
  /\ Reclamation > 0 /\ idle[c] = Reclamation
  /\ EndSessions({c})
  /\ IF our_server_media_session[c] = None
       THEN UNCHANGED stream_vars
       ELSE Release(our_server_media_session[c],
                    reference_count[our_server_media_session[c]] - 1)

(* close_all_client_sessions_for_server_media_session_by_stream_name():     *)
(* the sessions that use the stream are deleted one by one; the last one    *)
(* to go releases it.                                                       *)
CloseAllClientSessions(n) ==
  LET s == server_media_sessions[n] IN
  /\ s # None
  /\ Viewers(s) # {}
  /\ Release(s, reference_count[s] - Cardinality(Viewers(s)))
  /\ EndSessions(Viewers(s))

(* delete_server_media_session_by_stream_name(): close_all..., then         *)
(* remove...  With viewers the first half has already removed and closed    *)
(* the stream, and the second reads the freed object: undefined, taken here *)
(* to find nothing more to remove.  Without viewers it is just remove...    *)
DeleteServerMediaSession(n) ==
  LET s == server_media_sessions[n] IN
  /\ s # None
  /\ IF Viewers(s) = {}
       THEN RemoveServerMediaSession(n)
       ELSE CloseAllClientSessions(n)

(* cleanup(), run when the server itself is deleted: every client session   *)
(* is deleted, then every stream that is still listed is removed, then the  *)
(* tables.  A stream whose name the last viewer of another object took off  *)
(* the table is no longer found.                                            *)
Cleanup ==
  LET watched == {s \in Streams : Viewers(s) # {}}
      listed == {s \in Streams : server_media_sessions[NameOf[s]] = s}
      taken_off == {NameOf[s] : s \in watched}
  IN
  /\ serving
  /\ serving' = FALSE
  /\ EndSessions(client_sessions)
  /\ server_media_sessions' = [n \in Names |-> None]
  /\ life' = [s \in Streams |->
                IF s \in watched \/ (s \in listed /\ NameOf[s] \notin taken_off)
                  THEN "closed" ELSE life[s]]
  /\ reference_count' = [s \in Streams |-> reference_count[s] - Cardinality(Viewers(s))]
  /\ UNCHANGED delete_when_unreferenced

(* Mutant: the clock does not wait for the timers that are due. *)
TickPastDue ==
  /\ Reclamation > 0
  /\ client_sessions # {}
  /\ \A c \in client_sessions : idle[c] <= Reclamation
  /\ idle' = [c \in SessionIds |-> IF c \in client_sessions THEN idle[c] + 1 ELSE 0]
  /\ UNCHANGED <<stream_vars, client_sessions, our_server_media_session,
                 previous_client_session_id>>

(* One second passes.  A timer that is due fires before the clock moves on. *)
Tick ==
  /\ Reclamation > 0
  /\ client_sessions # {}
  /\ \A c \in client_sessions : idle[c] < Reclamation
  /\ idle' = [c \in SessionIds |-> IF c \in client_sessions THEN idle[c] + 1 ELSE 0]
  /\ UNCHANGED <<stream_vars, client_sessions, our_server_media_session,
                 previous_client_session_id>>

------------------------------------------------------------------------------

(* What a client's requests do to a session that exists. *)
Request(c) == NoteLiveness(c) \/ \E n \in Names : SetupInSession(c, n)

Application ==
  \/ \E s \in Streams : AddServerMediaSession(s)
  \/ \E n \in Names : RemoveServerMediaSession(n)
  \/ \E n \in Names : CloseAllClientSessions(n)
  \/ \E n \in Names : DeleteServerMediaSession(n)
  \/ Cleanup

Next ==
  \/ Application
  \/ \E c \in SessionIds, n \in Names : SetupNewSession(c, n)
  \/ \E c \in SessionIds : Request(c)
  \/ \E n \in Names : Describe(n)
  \/ \E c \in SessionIds : LivenessTimeout(c)
  \/ Tick

Spec == Init /\ [][Next]_vars

(* libuv's loop runs on: time passes, and a timer that is due fires. *)
Fairness == WF_vars(Tick) /\ \A c \in SessionIds : WF_vars(LivenessTimeout(c))

FairSpec == Spec /\ Fairness

------------------------------------------------------------------------------
(* Safety. *)

(* Types.  No timer runs longer than reclamation_seconds: the session it     *)
(* belongs to is deleted when it fires (note_liveness, liveness_timeout_task). *)
TypeOK ==
  /\ serving \in BOOLEAN
  /\ server_media_sessions \in [Names -> Streams \cup {None}]
  /\ life \in [Streams -> Phases]
  /\ reference_count \in [Streams -> Nat]
  /\ delete_when_unreferenced \in [Streams -> BOOLEAN]
  /\ client_sessions \subseteq SessionIds
  /\ our_server_media_session \in [SessionIds -> Streams \cup {None}]
  /\ previous_client_session_id \in SessionIds \cup {0}
  /\ idle \in [SessionIds -> 0 .. Reclamation]

(* A session id that is not in the table stands for freed memory: it points  *)
(* to nothing.                                                               *)
EndedSessionsPointNowhere ==
  \A c \in SessionIds : c \notin client_sessions => our_server_media_session[c] = None

(* The reference count of every object is the number of client sessions that *)
(* point to it, across SETUPs, timeouts, forced closes and replacements:     *)
(* the count that decides when the object's memory goes is never short.      *)
RefCountExact ==
  \A s \in Streams : reference_count[s] = Cardinality(Viewers(s))

(* No dangling pointer: an object reached through the table of names or      *)
(* through a client session has been created and has not been closed, and is *)
(* listed under no name but its own.                                         *)
ReachableLive ==
  /\ \A n \in Names : server_media_sessions[n] # None =>
       /\ life[server_media_sessions[n]] = "live"
       /\ NameOf[server_media_sessions[n]] = n
  /\ \A c \in SessionIds : our_server_media_session[c] # None =>
       life[our_server_media_session[c]] = "live"

(* An object marked for deletion is still referenced as long as it is live:  *)
(* whoever drops the last reference closes it.  So the removal at the end of *)
(* handle_cmd_describe() is never needed.                                    *)
MarkedReferenced ==
  \A s \in Streams :
    delete_when_unreferenced[s] /\ life[s] = "live" => reference_count[s] > 0

(* The server is a directory of live streams: counts, flags and timers only  *)
(* ever close an object that neither a name nor a client reaches.            *)
Directory == INSTANCE StreamDirectory WITH
               Sessions <- SessionIds,
               directory <- server_media_sessions,
               watching <- our_server_media_session
ImplementsDirectory == Directory!Spec

------------------------------------------------------------------------------
(* Liveness, under FairSpec. *)

(* A client session whose timer is running is heard from again or ends: the  *)
(* server never keeps a silent client's session for ever.                    *)
SilentSessionsEnd ==
  \A c \in SessionIds :
    (c \in client_sessions /\ idle[c] > 0) ~> (c \notin client_sessions \/ idle[c] = 0)

Heard ==
  \/ \E c \in SessionIds, n \in Names : SetupNewSession(c, n)
  \/ \E c \in SessionIds : Request(c)

(* When the clients fall silent, every stream that was removed while clients *)
(* still watched it is closed in the end, its memory given back.             *)
WithdrawnStreamsClose ==
  <>[][~Heard]_vars =>
    \A s \in Streams : [](delete_when_unreferenced[s] => <>(life[s] = "closed"))

==============================================================================
