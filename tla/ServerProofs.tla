----------------------------- MODULE ServerProofs -----------------------------
(***************************************************************************)
(* The safety of the media server and of what it says of its sessions.     *)
(*                                                                         *)
(* First the server, for every set of streams, of names and of client      *)
(* sessions and every reclamation time: the reference counts are exact,    *)
(* nothing reachable is freed, and the server implements the abstract      *)
(* directory of streams.                                                   *)
(*                                                                         *)
(* Then one of its sessions, for sets of tracks, ranges, scales and        *)
(* lengths of any kind: what a PLAY that seeks answers is what the tracks  *)
(* were asked to do, and what is said of a session holds for its tracks.   *)
(***************************************************************************)
EXTENDS MediaServer, PlayRange, FiniteSetTheorems, WellFoundedInduction, TLAPS

(* An object that has not been created yet is not marked for deletion. *)
UnbornUnmarked ==
  \A s \in Streams : delete_when_unreferenced[s] => life[s] # "unborn"

(* The inductive invariant. *)
IInv ==
  /\ TypeOK
  /\ EndedSessionsPointNowhere
  /\ RefCountExact
  /\ ReachableLive
  /\ MarkedReferenced
  /\ UnbornUnmarked

(* The viewers of an object are finitely many, and none exactly when its    *)
(* reference count is 0.                                                    *)
LEMMA ViewersCounted ==
  ASSUME TypeOK, RefCountExact, NEW s \in Streams
  PROVE  /\ IsFiniteSet(Viewers(s))
         /\ Cardinality(Viewers(s)) \in Nat
         /\ reference_count[s] = 0 <=> Viewers(s) = {}
<1>1. Viewers(s) \subseteq SessionIds
  BY DEF Viewers, TypeOK
<1>2. IsFiniteSet(Viewers(s))
  BY <1>1, FS_Subset, SessionsAssumption
<1>3. Cardinality(Viewers(s)) \in Nat
  BY <1>2, FS_CardinalityType
<1>4. Cardinality(Viewers(s)) = 0 <=> Viewers(s) = {}
  BY <1>2, FS_EmptySet
<1> QED
  BY <1>2, <1>3, <1>4 DEF RefCountExact

LEMMA InitIInv == Init => IInv
<1> SUFFICES ASSUME Init PROVE IInv
  OBVIOUS
<1>1. TypeOK
  BY StreamsAssumption, SessionsAssumption DEF Init, TypeOK, Phases
<1>2. RefCountExact
  <2> SUFFICES ASSUME NEW s \in Streams PROVE reference_count[s] = Cardinality(Viewers(s))
    BY DEF RefCountExact
  <2>1. Viewers(s) = {}
    BY DEF Init, Viewers
  <2> QED
    BY <2>1, FS_EmptySet DEF Init
<1>3. EndedSessionsPointNowhere /\ ReachableLive /\ MarkedReferenced /\ UnbornUnmarked
  BY DEF Init, EndedSessionsPointNowhere, ReachableLive, MarkedReferenced, UnbornUnmarked
<1> QED
  BY <1>1, <1>2, <1>3 DEF IInv

------------------------------------------------------------------------------
(* One lemma per action. *)

(* Taking the stream listed under a name off the table, or replacing it. *)
LEMMA CloseOrMarkIInv ==
  ASSUME IInv, NEW n \in Names, NEW fresh \in Streams \cup {None},
         fresh # None => life[fresh] # "closed" /\ NameOf[fresh] = n
                         /\ server_media_sessions[n] # fresh,
         CloseOrMark(server_media_sessions[n], fresh),
         server_media_sessions' = [server_media_sessions EXCEPT ![n] = fresh],
         serving' = serving, reference_count' = reference_count, UNCHANGED session_vars
  PROVE  IInv'
<1> DEFINE old == server_media_sessions[n]
<1> USE DEF IInv
<1>0. /\ old \in Streams \cup {None}
      /\ old # None => life[old] = "live" /\ NameOf[old] = n
  BY DEF TypeOK, ReachableLive
<1>1. TypeOK'
  BY <1>0 DEF TypeOK, CloseOrMark, session_vars, Phases
<1>2. EndedSessionsPointNowhere' /\ RefCountExact'
  BY DEF EndedSessionsPointNowhere, RefCountExact, Viewers, session_vars
<1>3. \A t \in Streams : life[t] = "live" /\ (t # old \/ reference_count[t] # 0) => life'[t] = "live"
  BY DEF CloseOrMark, TypeOK
<1>4. ReachableLive'
  <2>1. ASSUME NEW m \in Names, server_media_sessions'[m] # None
        PROVE  /\ life'[server_media_sessions'[m]] = "live"
               /\ NameOf[server_media_sessions'[m]] = m
    <3>1. CASE m = n
      BY <2>1, <3>1, StreamsAssumption DEF CloseOrMark, TypeOK
    <3>2. CASE m # n
      <4>1. server_media_sessions'[m] = server_media_sessions[m]
        BY <3>2 DEF TypeOK
      <4>2. /\ server_media_sessions[m] \in Streams
            /\ life[server_media_sessions[m]] = "live"
            /\ NameOf[server_media_sessions[m]] = m
        BY <2>1, <4>1 DEF TypeOK, ReachableLive
      <4> QED
        BY <1>0, <1>3, <3>2, <4>1, <4>2, StreamsAssumption
    <3> QED
      BY <3>1, <3>2
  <2>2. ASSUME NEW c \in SessionIds, our_server_media_session'[c] # None
        PROVE  life'[our_server_media_session'[c]] = "live"
    <3> DEFINE s == our_server_media_session[c]
    <3>1. /\ our_server_media_session'[c] = s
          /\ s \in Streams
          /\ life[s] = "live"
          /\ c \in Viewers(s)
      BY <2>2 DEF session_vars, TypeOK, ReachableLive, EndedSessionsPointNowhere, Viewers
    <3>2. reference_count[s] # 0
      BY <3>1, ViewersCounted
    <3> QED
      BY <1>3, <3>1, <3>2
  <2> QED
    BY <2>1, <2>2 DEF ReachableLive
<1>5. MarkedReferenced'
  <2> SUFFICES ASSUME NEW t \in Streams, delete_when_unreferenced'[t], life'[t] = "live"
               PROVE  reference_count'[t] > 0
    BY DEF MarkedReferenced
  <2>1. CASE delete_when_unreferenced[t]
    <3>1. life[t] = "live"
      BY <2>1, StreamsAssumption DEF CloseOrMark, TypeOK, Phases, UnbornUnmarked
    <3> QED
      BY <2>1, <3>1 DEF MarkedReferenced
  <2>2. CASE ~delete_when_unreferenced[t]
    BY <2>2 DEF CloseOrMark, TypeOK
  <2> QED
    BY <2>1, <2>2
<1>6. UnbornUnmarked'
  BY <1>0, StreamsAssumption DEF UnbornUnmarked, CloseOrMark, TypeOK
<1> QED
  BY <1>1, <1>2, <1>4, <1>5, <1>6

LEMMA AddIInv ==
  ASSUME IInv, NEW s \in Streams, AddServerMediaSession(s)
  PROVE  IInv'
<1>1. NameOf[s] \in Names /\ s # None
  BY StreamsAssumption
<1> QED
  BY <1>1, CloseOrMarkIInv DEF AddServerMediaSession, session_vars

LEMMA RemoveIInv ==
  ASSUME IInv, NEW n \in Names, RemoveServerMediaSession(n)
  PROVE  IInv'
BY CloseOrMarkIInv DEF RemoveServerMediaSession, session_vars

(* A session that did not exist and one that has no stream yet take their   *)
(* reference in the same way.                                               *)
LEMMA WatchIInv ==
  ASSUME IInv, NEW c \in SessionIds, NEW o \in Streams \cup {None},
         our_server_media_session[c] = None,
         o # None => life[o] = "live",
         client_sessions' = client_sessions \cup {c},
         our_server_media_session' = [our_server_media_session EXCEPT ![c] = o],
         reference_count' = [s \in Streams |-> IF s = o THEN reference_count[s] + 1
                                                       ELSE reference_count[s]],
         previous_client_session_id' \in SessionIds \cup {0},
         idle' = [idle EXCEPT ![c] = 0],
         UNCHANGED <<serving, server_media_sessions, life, delete_when_unreferenced>>
  PROVE  IInv'
<1> USE DEF IInv
<1>1. TypeOK'
  BY SessionsAssumption DEF TypeOK
<1>2. EndedSessionsPointNowhere' /\ UnbornUnmarked'
  BY DEF EndedSessionsPointNowhere, UnbornUnmarked, TypeOK
<1>3. RefCountExact'
  <2> SUFFICES ASSUME NEW s \in Streams
               PROVE  reference_count'[s] = Cardinality(Viewers(s)')
    BY DEF RefCountExact
  <2>1. /\ IsFiniteSet(Viewers(s))
        /\ reference_count[s] = Cardinality(Viewers(s))
        /\ c \notin Viewers(s)
    BY ViewersCounted, StreamsAssumption DEF RefCountExact, Viewers
  <2>2. CASE s = o
    <3>1. Viewers(s)' = Viewers(s) \cup {c}
      BY <2>2 DEF Viewers, TypeOK
    <3>2. Cardinality(Viewers(s) \cup {c}) = Cardinality(Viewers(s)) + 1
      BY <2>1, FS_AddElement
    <3> QED
      BY <2>1, <2>2, <3>1, <3>2
  <2>3. CASE s # o
    <3>1. Viewers(s)' = Viewers(s)
      BY <2>1, <2>3, StreamsAssumption DEF Viewers, TypeOK
    <3> QED
      BY <2>1, <2>3, <3>1
  <2> QED
    BY <2>2, <2>3
<1>4. ReachableLive'
  BY DEF ReachableLive, TypeOK
<1>5. MarkedReferenced'
  BY DEF MarkedReferenced, TypeOK
<1> QED
  BY <1>1, <1>2, <1>3, <1>4, <1>5

LEMMA SetupNewIInv ==
  ASSUME IInv, NEW c \in SessionIds, NEW n \in Names, SetupNewSession(c, n)
  PROVE  IInv'
<1> DEFINE o == server_media_sessions[n]
<1>1. o \in Streams \cup {None} /\ (o # None => life[o] = "live")
  BY DEF IInv, TypeOK, ReachableLive
<1>2. our_server_media_session[c] = None
  BY DEF IInv, EndedSessionsPointNowhere, SetupNewSession, IsFreshId
<1> QED
  BY <1>1, <1>2, WatchIInv DEF SetupNewSession

LEMMA SetupInIInv ==
  ASSUME IInv, NEW c \in SessionIds, NEW n \in Names, SetupInSession(c, n)
  PROVE  IInv'
<1> DEFINE o == server_media_sessions[n]
<1>1. o \in Streams \cup {None} /\ (o # None => life[o] = "live")
  BY DEF IInv, TypeOK, ReachableLive
<1>2. client_sessions' = client_sessions \cup {c}
  BY DEF SetupInSession
<1>3. reference_count' = [s \in Streams |-> IF s = o THEN reference_count[s] + 1
                                                    ELSE reference_count[s]]
  BY DEF SetupInSession, IInv, TypeOK
<1>4. previous_client_session_id' \in SessionIds \cup {0}
  BY DEF SetupInSession, IInv, TypeOK
<1> QED
  BY <1>1, <1>2, <1>3, <1>4, WatchIInv DEF SetupInSession

(* Deleting a set C of sessions that all watch s, k references remaining. *)
LEMMA ReleaseIInv ==
  ASSUME IInv, NEW s \in Streams, NEW C, C \subseteq Viewers(s),
         NEW k \in Nat, k = Cardinality(Viewers(s) \ C),
         Release(s, k), EndSessions(C)
  PROVE  IInv'
<1> USE DEF IInv
<1>0. /\ IsFiniteSet(Viewers(s) \ C)
      /\ k = 0 <=> Viewers(s) \ C = {}
      /\ C \subseteq client_sessions
  <2>1. IsFiniteSet(Viewers(s) \ C)
    BY ViewersCounted, FS_Subset
  <2> QED
    BY <2>1, FS_EmptySet DEF Viewers
<1>1. TypeOK'
  <2>1. life' \in [Streams -> Phases] /\ reference_count' \in [Streams -> Nat]
    BY DEF TypeOK, Release, Phases
  <2>2. server_media_sessions' \in [Names -> Streams \cup {None}]
    BY DEF TypeOK, Release
  <2>3. /\ client_sessions' \subseteq SessionIds
        /\ our_server_media_session' \in [SessionIds -> Streams \cup {None}]
    BY DEF TypeOK, EndSessions
  <2>4. idle' \in [SessionIds -> 0 .. Reclamation]
    BY SessionsAssumption DEF TypeOK, EndSessions
  <2> QED
    BY <2>1, <2>2, <2>3, <2>4 DEF TypeOK, Release, EndSessions
<1>2. EndedSessionsPointNowhere'
  BY DEF EndedSessionsPointNowhere, EndSessions
<1>3. RefCountExact'
  <2> SUFFICES ASSUME NEW t \in Streams
               PROVE  reference_count'[t] = Cardinality(Viewers(t)')
    BY DEF RefCountExact
  <2>1. CASE t = s
    <3>1. Viewers(t)' = Viewers(s) \ C
      BY <2>1, StreamsAssumption DEF Viewers, EndSessions, TypeOK
    <3> QED
      BY <2>1, <3>1 DEF Release, TypeOK
  <2>2. CASE t # s
    <3>1. Viewers(t)' = Viewers(t)
      BY <2>2, StreamsAssumption DEF Viewers, EndSessions, TypeOK
    <3> QED
      BY <2>2, <3>1 DEF Release, TypeOK, RefCountExact
  <2> QED
    BY <2>1, <2>2
<1>4. ReachableLive'
  <2>1. ASSUME NEW n \in Names, server_media_sessions'[n] # None
        PROVE  /\ life'[server_media_sessions'[n]] = "live"
               /\ NameOf[server_media_sessions'[n]] = n
    <3>1. /\ server_media_sessions'[n] = server_media_sessions[n]
          /\ ~(k = 0 /\ n = NameOf[s])
      BY <2>1 DEF Release
    <3>2. /\ server_media_sessions[n] \in Streams
          /\ life[server_media_sessions[n]] = "live"
          /\ NameOf[server_media_sessions[n]] = n
      BY <2>1, <3>1 DEF TypeOK, ReachableLive
    <3> QED
      BY <3>1, <3>2 DEF Release
  <2>2. ASSUME NEW c \in SessionIds, our_server_media_session'[c] # None
        PROVE  life'[our_server_media_session'[c]] = "live"
    <3> DEFINE o == our_server_media_session[c]
    <3>1. /\ c \notin C
          /\ our_server_media_session'[c] = o
          /\ o \in Streams
          /\ life[o] = "live"
          /\ c \in Viewers(o)
      BY <2>2 DEF EndSessions, TypeOK, ReachableLive, EndedSessionsPointNowhere, Viewers
    <3>2. ~(k = 0 /\ o = s)
      BY <1>0, <3>1
    <3> QED
      BY <3>1, <3>2 DEF Release
  <2> QED
    BY <2>1, <2>2 DEF ReachableLive
<1>5. MarkedReferenced'
  BY DEF MarkedReferenced, Release, TypeOK
<1>6. UnbornUnmarked'
  BY DEF UnbornUnmarked, Release, TypeOK
<1> QED
  BY <1>1, <1>2, <1>3, <1>4, <1>5, <1>6

LEMMA TimeoutIInv ==
  ASSUME IInv, NEW c \in SessionIds, LivenessTimeout(c)
  PROVE  IInv'
<1> DEFINE s == our_server_media_session[c]
<1>1. CASE s = None
  <2>1. TypeOK'
    BY <1>1, SessionsAssumption DEF IInv, TypeOK, LivenessTimeout, EndSessions, stream_vars
  <2>2. our_server_media_session' = our_server_media_session
    BY <1>1 DEF IInv, TypeOK, LivenessTimeout, EndSessions
  <2>3. RefCountExact'
    <3> SUFFICES ASSUME NEW t \in Streams
                 PROVE  reference_count'[t] = Cardinality(Viewers(t)')
      BY DEF RefCountExact
    <3>1. Viewers(t)' = Viewers(t)
      BY <1>1, <2>2, StreamsAssumption DEF Viewers, LivenessTimeout, EndSessions
    <3> QED
      BY <1>1, <3>1 DEF IInv, RefCountExact, LivenessTimeout, stream_vars
  <2>4. /\ EndedSessionsPointNowhere' /\ ReachableLive'
        /\ MarkedReferenced' /\ UnbornUnmarked'
    BY <1>1, <2>2 DEF IInv, EndedSessionsPointNowhere, ReachableLive, MarkedReferenced,
                      UnbornUnmarked, LivenessTimeout, EndSessions, stream_vars
  <2> QED
    BY <2>1, <2>3, <2>4 DEF IInv
<1>2. CASE s # None
  <2>1. s \in Streams /\ c \in Viewers(s)
    BY <1>2 DEF IInv, TypeOK, EndedSessionsPointNowhere, Viewers
  <2>2. /\ IsFiniteSet(Viewers(s))
        /\ reference_count[s] = Cardinality(Viewers(s))
        /\ Cardinality(Viewers(s)) \in Nat \ {0}
    BY <2>1, ViewersCounted DEF IInv, RefCountExact
  <2>3. Cardinality(Viewers(s) \ {c}) = Cardinality(Viewers(s)) - 1
    BY <2>1, <2>2, FS_RemoveElement
  <2>4. /\ reference_count[s] - 1 \in Nat
        /\ reference_count[s] - 1 = Cardinality(Viewers(s) \ {c})
    BY <2>2, <2>3
  <2>5. {c} \subseteq Viewers(s)
    BY <2>1
  <2>6. Release(s, reference_count[s] - 1) /\ EndSessions({c})
    BY <1>2 DEF LivenessTimeout
  <2> HIDE DEF s
  <2> QED
    BY <2>1, <2>4, <2>5, <2>6, ReleaseIInv
<1> QED
  BY <1>1, <1>2

LEMMA CloseAllIInv ==
  ASSUME IInv, NEW n \in Names, CloseAllClientSessions(n)
  PROVE  IInv'
<1> DEFINE s == server_media_sessions[n]
<1>1. s \in Streams
  BY DEF IInv, TypeOK, CloseAllClientSessions
<1>2. reference_count[s] - Cardinality(Viewers(s)) = 0
  BY <1>1, ViewersCounted DEF IInv, RefCountExact
<1>3. Cardinality(Viewers(s) \ Viewers(s)) = 0
  BY FS_EmptySet
<1>4. Release(s, 0) /\ EndSessions(Viewers(s))
  BY <1>2 DEF CloseAllClientSessions
<1> HIDE DEF s
<1> QED
  BY <1>1, <1>3, <1>4, ReleaseIInv

LEMMA DeleteIInv ==
  ASSUME IInv, NEW n \in Names, DeleteServerMediaSession(n)
  PROVE  IInv'
BY RemoveIInv, CloseAllIInv DEF DeleteServerMediaSession

LEMMA CleanupIInv ==
  ASSUME IInv, Cleanup
  PROVE  IInv'
<1> USE DEF IInv
<1>1. \A s \in Streams : reference_count'[s] = 0
  BY ViewersCounted DEF Cleanup, RefCountExact
<1>2. /\ client_sessions' = {}
      /\ \A c \in SessionIds : our_server_media_session'[c] = None
  BY DEF Cleanup, EndSessions, EndedSessionsPointNowhere
<1>3. TypeOK'
  <2>1. server_media_sessions' \in [Names -> Streams \cup {None}] /\ serving' \in BOOLEAN
    BY DEF Cleanup
  <2>2. life' \in [Streams -> Phases] /\ delete_when_unreferenced' \in [Streams -> BOOLEAN]
    BY DEF TypeOK, Cleanup, Phases
  <2>3. reference_count' \in [Streams -> Nat]
    BY <1>1 DEF Cleanup
  <2>4. /\ client_sessions' \subseteq SessionIds
        /\ our_server_media_session' \in [SessionIds -> Streams \cup {None}]
        /\ previous_client_session_id' \in SessionIds \cup {0}
    BY DEF TypeOK, Cleanup, EndSessions
  <2>5. idle' \in [SessionIds -> 0 .. Reclamation]
    BY SessionsAssumption DEF TypeOK, Cleanup, EndSessions
  <2> QED
    BY <2>1, <2>2, <2>3, <2>4, <2>5 DEF TypeOK
<1>4. RefCountExact'
  <2>1. \A s \in Streams : Viewers(s)' = {}
    BY <1>2 DEF Viewers
  <2> QED
    BY <1>1, <2>1, FS_EmptySet DEF RefCountExact
<1>5. EndedSessionsPointNowhere' /\ ReachableLive'
  BY <1>2 DEF EndedSessionsPointNowhere, ReachableLive, Cleanup
<1>6. MarkedReferenced'
  <2> SUFFICES ASSUME NEW s \in Streams, delete_when_unreferenced'[s] PROVE life'[s] # "live"
    BY DEF MarkedReferenced
  <2>1. CASE life[s] = "live"
    <3>1. Viewers(s) # {}
      BY <2>1, ViewersCounted DEF MarkedReferenced, Cleanup, TypeOK
    <3> QED
      BY <3>1 DEF Cleanup
  <2>2. CASE life[s] # "live"
    BY <2>2 DEF Cleanup
  <2> QED
    BY <2>1, <2>2
<1>7. UnbornUnmarked'
  BY DEF UnbornUnmarked, Cleanup
<1> QED
  BY <1>3, <1>4, <1>5, <1>6, <1>7

LEMMA TimerIInv ==
  ASSUME IInv, Tick \/ \E c \in SessionIds : NoteLiveness(c)
  PROVE  IInv'
<1> USE DEF IInv
<1>1. idle' \in [SessionIds -> 0 .. Reclamation]
  BY SessionsAssumption DEF TypeOK, Tick, NoteLiveness
<1>2. UNCHANGED <<stream_vars, client_sessions, our_server_media_session,
                  previous_client_session_id>>
  BY DEF Tick, NoteLiveness
<1> QED
  BY <1>1, <1>2 DEF TypeOK, EndedSessionsPointNowhere, RefCountExact, Viewers, ReachableLive,
                    MarkedReferenced, UnbornUnmarked, stream_vars

LEMMA StutterIInv ==
  ASSUME IInv, UNCHANGED vars
  PROVE  IInv'
BY DEF IInv, TypeOK, EndedSessionsPointNowhere, RefCountExact, Viewers, ReachableLive,
       MarkedReferenced, UnbornUnmarked, vars

LEMMA NextIInv == IInv /\ [Next]_vars => IInv'
<1> SUFFICES ASSUME IInv, [Next]_vars PROVE IInv'
  OBVIOUS
<1>1. CASE Application
  BY <1>1, AddIInv, RemoveIInv, CloseAllIInv, DeleteIInv, CleanupIInv DEF Application
<1>2. CASE \E c \in SessionIds, n \in Names : SetupNewSession(c, n)
  BY <1>2, SetupNewIInv
<1>3. CASE \E c \in SessionIds : Request(c)
  BY <1>3, SetupInIInv, TimerIInv DEF Request
<1>4. CASE \E n \in Names : Describe(n)
  BY <1>4, RemoveIInv, StutterIInv DEF Describe
<1>5. CASE \E c \in SessionIds : LivenessTimeout(c)
  BY <1>5, TimeoutIInv
<1>6. CASE Tick
  BY <1>6, TimerIInv
<1>7. CASE UNCHANGED vars
  BY <1>7, StutterIInv
<1> QED
  BY <1>1, <1>2, <1>3, <1>4, <1>5, <1>6, <1>7 DEF Next

(* The inductive invariant holds of every behaviour. *)
THEOREM Inductive == Spec => []IInv
<1>1. Init => IInv
  BY InitIInv
<1>2. IInv /\ [Next]_vars => IInv'
  BY NextIInv
<1> QED
  BY <1>1, <1>2, PTL DEF Spec

(* Every variable keeps its type and no timer overruns. *)
THEOREM TypeCorrect == Spec => []TypeOK
<1>1. IInv => TypeOK
  BY DEF IInv
<1> QED
  BY <1>1, Inductive, PTL

(* However many clients SETUP, fall silent or are thrown out, the reference  *)
(* count of each stream is the number of sessions that point to it.          *)
THEOREM ReferencesCounted == Spec => []RefCountExact
<1>1. IInv => RefCountExact
  BY DEF IInv
<1> QED
  BY <1>1, Inductive, PTL

(* Nothing that a request can reach, by name or by session, is freed.        *)
THEOREM NothingDangles == Spec => []ReachableLive
<1>1. IInv => ReachableLive
  BY DEF IInv
<1> QED
  BY <1>1, Inductive, PTL

(* A stream marked for deletion that is not closed yet has a viewer.         *)
THEOREM MarksAreReferenced == Spec => []MarkedReferenced
<1>1. IInv => MarkedReferenced
  BY DEF IInv
<1> QED
  BY <1>1, Inductive, PTL

------------------------------------------------------------------------------
(* The server implements the directory. *)

LEMMA DirectoryInit == Init => Directory!Init
BY DEF Init, Directory!Init

(* A step that only takes off names, detaches viewers and closes objects.   *)
LEMMA RetireStep ==
  ASSUME IInv, IInv',
         \A n \in Names : server_media_sessions'[n] \in {server_media_sessions[n], None},
         \A c \in SessionIds :
           our_server_media_session'[c] \in {our_server_media_session[c], None},
         \A s \in Streams : life'[s] \in {life[s], "closed"}
  PROVE  Directory!Retire
<1>1. Directory!LifeMovesOn
  BY DEF Directory!LifeMovesOn, Directory!Phases, IInv, TypeOK, Phases
<1>2. Directory!ReachableLive'
  BY DEF Directory!ReachableLive, IInv, ReachableLive
<1>3. /\ server_media_sessions' \in [Names -> Streams \cup {None}]
      /\ our_server_media_session' \in [SessionIds -> Streams \cup {None}]
  BY DEF IInv, TypeOK
<1> QED
  BY <1>1, <1>2, <1>3 DEF Directory!Retire

LEMMA PublishStep ==
  ASSUME IInv, IInv', NEW s \in Streams, AddServerMediaSession(s)
  PROVE  Directory!Publish(s)
<1>1. \A t \in Streams \ {s} : life'[t] \in {life[t], "closed"}
  BY DEF AddServerMediaSession, CloseOrMark
<1>2. life[s] # "closed" /\ life'[s] = "live"
  BY DEF AddServerMediaSession, CloseOrMark
<1>3. Directory!LifeMovesOn
  BY <1>1, <1>2 DEF Directory!LifeMovesOn, Directory!Phases, IInv, TypeOK, Phases
<1>4. Directory!ReachableLive'
  BY DEF Directory!ReachableLive, IInv, ReachableLive
<1> QED
  BY <1>1, <1>2, <1>3, <1>4 DEF Directory!Publish, AddServerMediaSession, session_vars

LEMMA RemoveStep ==
  ASSUME IInv, IInv', NEW n \in Names, RemoveServerMediaSession(n)
  PROVE  Directory!Retire
<1>1. \A m \in Names : server_media_sessions'[m] \in {server_media_sessions[m], None}
  BY DEF RemoveServerMediaSession, IInv, TypeOK
<1>2. \A t \in Streams : life'[t] \in {life[t], "closed"}
  BY StreamsAssumption DEF RemoveServerMediaSession, CloseOrMark
<1>3. our_server_media_session' = our_server_media_session
  BY DEF RemoveServerMediaSession, session_vars
<1> QED
  BY <1>1, <1>2, <1>3, RetireStep

LEMMA ReleaseStep ==
  ASSUME IInv, IInv', NEW s, NEW k, NEW C,
         Release(s, k) \/ UNCHANGED stream_vars, EndSessions(C)
  PROVE  Directory!Retire
<1>1. \A m \in Names : server_media_sessions'[m] \in {server_media_sessions[m], None}
  BY DEF Release, stream_vars
<1>2. \A t \in Streams : life'[t] \in {life[t], "closed"}
  BY DEF Release, stream_vars
<1>3. \A c \in SessionIds : our_server_media_session'[c] \in {our_server_media_session[c], None}
  BY DEF EndSessions
<1> QED
  BY <1>1, <1>2, <1>3, RetireStep

LEMMA CleanupStep ==
  ASSUME IInv, IInv', Cleanup
  PROVE  Directory!Retire
<1>1. \A m \in Names : server_media_sessions'[m] \in {server_media_sessions[m], None}
  BY DEF Cleanup
<1>2. \A t \in Streams : life'[t] \in {life[t], "closed"}
  BY DEF Cleanup
<1>3. \A c \in SessionIds : our_server_media_session'[c] \in {our_server_media_session[c], None}
  BY DEF Cleanup, EndSessions
<1> QED
  BY <1>1, <1>2, <1>3, RetireStep

(* A SETUP starts watching, or finds no stream of that name. *)
LEMMA WatchStep ==
  ASSUME IInv, NEW c \in SessionIds, NEW n \in Names,
         SetupNewSession(c, n) \/ SetupInSession(c, n)
  PROVE  Directory!Watch(c, n) \/ UNCHANGED Directory!vars
<1>1. /\ our_server_media_session[c] = None
      /\ our_server_media_session' =
           [our_server_media_session EXCEPT ![c] = server_media_sessions[n]]
      /\ UNCHANGED <<server_media_sessions, life>>
  BY DEF SetupNewSession, SetupInSession, IsFreshId, IInv, EndedSessionsPointNowhere
<1>2. CASE server_media_sessions[n] # None
  BY <1>1, <1>2 DEF Directory!Watch
<1>3. CASE server_media_sessions[n] = None
  <2>1. our_server_media_session' = our_server_media_session
    BY <1>1, <1>3 DEF IInv, TypeOK
  <2> QED
    BY <1>1, <2>1 DEF Directory!vars
<1> QED
  BY <1>2, <1>3

LEMMA DirectoryNext == IInv /\ IInv' /\ [Next]_vars => [Directory!Next]_Directory!vars
<1> SUFFICES ASSUME IInv, IInv', [Next]_vars
             PROVE  Directory!Next \/ UNCHANGED Directory!vars
  OBVIOUS
<1>1. CASE Application
  <2>1. ASSUME NEW s \in Streams, AddServerMediaSession(s) PROVE Directory!Next
    BY <2>1, PublishStep DEF Directory!Next
  <2>2. ASSUME NEW n \in Names, RemoveServerMediaSession(n) PROVE Directory!Retire
    BY <2>2, RemoveStep
  <2>3. ASSUME NEW n \in Names, CloseAllClientSessions(n) PROVE Directory!Retire
    BY <2>3, ReleaseStep DEF CloseAllClientSessions
  <2>4. ASSUME NEW n \in Names, DeleteServerMediaSession(n) PROVE Directory!Retire
    BY <2>2, <2>3, <2>4 DEF DeleteServerMediaSession
  <2>5. CASE Cleanup
    BY <2>5, CleanupStep DEF Directory!Next
  <2> QED
    BY <1>1, <2>1, <2>2, <2>3, <2>4, <2>5 DEF Application, Directory!Next
<1>2. CASE \E c \in SessionIds, n \in Names : SetupNewSession(c, n)
  BY <1>2, WatchStep DEF Directory!Next
<1>3. CASE \E c \in SessionIds : Request(c)
  <2>1. ASSUME NEW c \in SessionIds, NoteLiveness(c) PROVE UNCHANGED Directory!vars
    BY <2>1 DEF NoteLiveness, stream_vars, Directory!vars
  <2> QED
    BY <1>3, <2>1, WatchStep DEF Request, Directory!Next
<1>4. CASE \E n \in Names : Describe(n)
  <2>1. ASSUME NEW n \in Names, Describe(n)
        PROVE  Directory!Retire \/ UNCHANGED Directory!vars
    BY <2>1, RemoveStep DEF Describe, vars, Directory!vars
  <2> QED
    BY <1>4, <2>1 DEF Directory!Next
<1>5. CASE \E c \in SessionIds : LivenessTimeout(c)
  BY <1>5, ReleaseStep DEF LivenessTimeout, Directory!Next
<1>6. CASE Tick
  BY <1>6 DEF Tick, stream_vars, Directory!vars
<1>7. CASE UNCHANGED vars
  BY <1>7 DEF vars, Directory!vars
<1> QED
  BY <1>1, <1>2, <1>3, <1>4, <1>5, <1>6, <1>7 DEF Next

(* Every behaviour of the server, counts, flags and timers hidden, is one of *)
(* the directory of live streams.                                            *)
THEOREM DirectoryImplemented == Spec => ImplementsDirectory
<1>1. Init => Directory!Init
  BY DirectoryInit
<1>2. IInv /\ IInv' /\ [Next]_vars => [Directory!Next]_Directory!vars
  BY DirectoryNext
<1> QED
  BY <1>1, <1>2, Inductive, PTL DEF Spec, ImplementsDirectory, Directory!Spec

------------------------------------------------------------------------------
(* Largest and smallest elements.  A set of naturals without a smallest one  *)
(* would have no minimum in the well-founded order of the naturals.          *)

Below == {p \in Nat \X Nat : p[1] < p[2]}

LEMMA BelowWellFounded == IsWellFoundedOn(Below, Nat)
BY NatLessThanWellFounded DEF OpToRel, Below

LEMMA SmallestNumber ==
  ASSUME NEW T, T \subseteq Nat, T # {}
  PROVE  \E x \in T : \A y \in T : x <= y
<1>1. PICK x \in T : \A y \in T : ~ (<<y, x>> \in Below)
  BY BelowWellFounded, WFMin
<1>2. ASSUME NEW y \in T PROVE x <= y
  <2>1. x \in Nat /\ y \in Nat
    OBVIOUS
  <2>2. <<y, x>> \in Nat \X Nat /\ <<y, x>>[1] = y /\ <<y, x>>[2] = x
    BY <2>1
  <2>3. y < x => <<y, x>> \in Below
    BY <2>2 DEF Below
  <2> QED
    BY <1>1, <2>1, <2>3
<1> QED
  BY <1>2

HasLargest(S) == \E x \in S : \A y \in S : x >= y

LEMMA LargestExists ==
  ASSUME NEW S \in SUBSET Int, IsFiniteSet(S), S # {}
  PROVE  HasLargest(S)
<1> DEFINE Bad(n) == \E U \in SUBSET Int : IsFiniteSet(U) /\ U # {} /\ Cardinality(U) = n /\ ~HasLargest(U)
           T == {n \in Nat : Bad(n)}
<1> SUFFICES ASSUME ~HasLargest(S) PROVE FALSE
  OBVIOUS
<1>1. Cardinality(S) \in T
  BY FS_CardinalityType
<1>2. PICK n \in T : \A m \in T : n <= m
  <2>1. T \subseteq Nat /\ T # {}
    BY <1>1
  <2> HIDE DEF T
  <2> QED
    BY <2>1, SmallestNumber
<1>3. PICK U \in SUBSET Int : IsFiniteSet(U) /\ U # {} /\ Cardinality(U) = n /\ ~HasLargest(U)
  BY <1>2
<1>4. PICK x \in U : TRUE
  BY <1>3
<1> DEFINE V == U \ {x}
<1>5. IsFiniteSet(V) /\ Cardinality(V) = n - 1
  BY <1>3, <1>4, FS_RemoveElement
<1>6. CASE V = {}
  <2>1. U = {x} /\ x \in Int
    BY <1>4, <1>6
  <2> QED
    BY <1>3, <2>1 DEF HasLargest
<1>7. CASE V # {}
  <2>1. n - 1 \in Nat /\ n - 1 \notin T
    <3>1. n - 1 \in Nat
      BY <1>5, FS_CardinalityType
    <3>2. n \in Int
      BY <1>2
    <3> QED
      BY <1>2, <3>1, <3>2
  <2>2. HasLargest(V)
    BY <1>5, <1>7, <2>1
  <2>3. PICK y \in V : \A z \in V : y >= z
    BY <2>2 DEF HasLargest
  <2> DEFINE w == IF x >= y THEN x ELSE y
  <2>4. w \in U /\ \A z \in U : w >= z
    BY <1>4, <2>3
  <2> QED
    BY <1>3, <2>4 DEF HasLargest
<1> QED
  BY <1>6, <1>7

LEMMA MaxOfSet ==
  ASSUME NEW S \in SUBSET Int, IsFiniteSet(S), S # {}
  PROVE  Max(S) \in S /\ \A y \in S : Max(S) >= y
<1>1. HasLargest(S)
  BY LargestExists
<1> QED
  BY <1>1 DEF HasLargest, Max

(* Something nearest to a number. *)
LEMMA NearestExists ==
  ASSUME NEW S \in SUBSET Int, IsFiniteSet(S), S # {}, NEW n \in Int
  PROVE  \E s \in S : \A o \in S : Distance(s, n) <= Distance(o, n)
<1> DEFINE T == {Distance(s, n) : s \in S}
<1>1. \A s \in S : Distance(s, n) \in Nat
  BY DEF Distance
<1>2. T \subseteq Nat /\ T # {}
  BY <1>1
<1>3. PICK d \in T : \A e \in T : d <= e
  <2> HIDE DEF T
  <2> QED
    BY <1>2, SmallestNumber
<1>4. PICK s \in S : d = Distance(s, n)
  BY <1>3
<1>5. \A o \in S : Distance(o, n) \in T
  OBVIOUS
<1> QED
  BY <1>3, <1>4, <1>5

------------------------------------------------------------------------------
(* The session. *)

LEMMA SubsessionTypes ==
  ASSUME NEW s \in Subsessions
  PROVE  /\ s.duration \in Nat
         /\ 1 \in s.scales /\ s.scales \subseteq Int /\ IsFiniteSet(s.scales)
BY SubsessionsAssumption

(* A subsession plays at the scale that it answers. *)
LEMMA SubTestScaleOK ==
  ASSUME NEW s \in Subsessions, NEW scale \in Int
  PROVE  SubTestScale(s, scale) \in s.scales /\ SubTestScale(s, scale) \in Int
<1>1. 1 \in s.scales /\ s.scales \subseteq Int /\ IsFiniteSet(s.scales)
  BY SubsessionTypes
<1>2. CASE s.scales = {1}
  BY <1>1, <1>2 DEF SubTestScale, DefaultTestScale
<1>3. CASE s.scales # {1}
  <2>1. \E q \in s.scales : \A o \in s.scales : Distance(q, scale) <= Distance(o, scale)
    BY <1>1, NearestExists
  <2>2. SubTestScale(s, scale) =
          CHOOSE q \in s.scales : \A o \in s.scales : Distance(q, scale) <= Distance(o, scale)
    BY <1>3 DEF SubTestScale
  <2> QED
    BY <1>1, <2>1, <2>2
<1> QED
  BY <1>2, <1>3

LEMMA SessionDurationOK ==
  ASSUME NEW s \in Seq(Subsessions)
  PROVE  /\ SessionDuration(s) \in Int
         /\ SessionDuration(s) >= 0 /\ s # << >> =>
              \A i \in DOMAIN s : ~s[i].absolute /\ s[i].duration = SessionDuration(s)
<1> DEFINE durations == {s[i].duration : i \in DOMAIN s}
<1>1. \A i \in DOMAIN s : s[i] \in Subsessions
  OBVIOUS
<1>2. durations \subseteq Nat /\ IsFiniteSet(durations) /\ (s # << >> => durations # {})
  <2>1. DOMAIN s = 1 .. Len(s) /\ Len(s) \in Nat
    OBVIOUS
  <2>2. IsFiniteSet(DOMAIN s)
    BY <2>1, FS_Interval
  <2>3. IsFiniteSet(durations)
    <3> DEFINE f == [i \in 1 .. Len(s) |-> s[i].duration]
    <3>1. f \in Surjection(1 .. Len(s), durations)
      BY <2>1 DEF Surjection
    <3> HIDE DEF f, durations
    <3> QED
      BY <2>1, <2>2, <3>1, FS_Surjection
  <2>4. durations \subseteq Nat
    BY <1>1, SubsessionTypes
  <2>5. s # << >> => durations # {}
    BY <2>1
  <2> QED
    BY <2>3, <2>4, <2>5
<1>3. \A i \in DOMAIN s : s[i].duration \in durations
  OBVIOUS
<1>4. SessionDuration(s) =
        IF \E i \in DOMAIN s : s[i].absolute THEN -1
        ELSE IF s = << >> THEN 0
        ELSE IF Cardinality(durations) > 1 THEN -Max(durations) ELSE Max(durations)
  BY DEF SessionDuration
<1> HIDE DEF durations
<1>5. CASE (\E i \in DOMAIN s : s[i].absolute) \/ s = << >>
  BY <1>4, <1>5
<1>6. CASE ~(\E i \in DOMAIN s : s[i].absolute) /\ s # << >>
  <2>1. Max(durations) \in durations /\ (\A y \in durations : Max(durations) >= y)
        /\ Max(durations) \in Nat
    <3>1. durations \in SUBSET Int /\ durations # {}
      BY <1>2, <1>6
    <3>2. Max(durations) \in durations /\ \A y \in durations : Max(durations) >= y
      BY <1>2, <3>1, MaxOfSet
    <3> QED
      BY <1>2, <3>2
  <2>2. CASE Cardinality(durations) > 1
    <3>1. Max(durations) # 0
      <4> SUFFICES ASSUME Max(durations) = 0 PROVE FALSE
        OBVIOUS
      <4>1. durations = {0}
        <5>1. \A y \in durations : y = 0
          BY <1>2, <2>1
        <5> QED
          BY <2>1, <5>1
      <4>2. Cardinality(durations) = 1
        BY <4>1, FS_Singleton
      <4> QED
        BY <2>2, <4>2
    <3>2. SessionDuration(s) = -Max(durations)
      BY <1>4, <1>6, <2>2
    <3> QED
      BY <2>1, <3>1, <3>2
  <2>3. CASE ~(Cardinality(durations) > 1)
    <3>1. SessionDuration(s) = Max(durations)
      BY <1>4, <1>6, <2>3
    <3>2. PICK d : durations = {d}
      <4>1. Cardinality(durations) \in Nat /\ Cardinality(durations) # 0
        BY <1>2, <1>6, FS_CardinalityType, FS_EmptySet
      <4>2. Cardinality(durations) = 1
        BY <2>3, <4>1
      <4> QED
        BY <1>2, <4>2, FS_Singleton
    <3> QED
      <4>1. Max(durations) = d /\ \A i \in DOMAIN s : s[i].duration = d
        BY <1>3, <2>1, <3>2
      <4> QED
        BY <1>6, <2>1, <3>1, <4>1
  <2> QED
    BY <2>2, <2>3
<1> QED
  BY <1>5, <1>6

LEMMA TestScaleFactorOK ==
  ASSUME NEW s \in Seq(Subsessions), NEW scale \in Int
  PROVE  /\ TestScaleFactor(s, scale) \in Int
         /\ \A i \in DOMAIN s : TestScaleFactor(s, scale) \in s[i].scales
<1> DEFINE got == [i \in DOMAIN s |-> SubTestScale(s[i], scale)]
           near == Min({Distance(got[i], 1) : i \in DOMAIN got})
           best == got[Min({i \in DOMAIN got : Distance(got[i], 1) = near})]
<1>1. \A i \in DOMAIN s : s[i] \in Subsessions
  OBVIOUS
<1>2. TestScaleFactor(s, scale) =
        IF s = << >> THEN 1
        ELSE IF \A i \in DOMAIN got : got[i] = got[1] THEN got[1]
        ELSE IF \A i \in DOMAIN s : SubTestScale(s[i], best) = best THEN best
        ELSE 1
  BY DEF TestScaleFactor
<1>3. DOMAIN got = DOMAIN s /\ \A i \in DOMAIN s : got[i] \in s[i].scales /\ got[i] \in Int
  BY <1>1, SubTestScaleOK
<1>4. s # << >> => 1 \in DOMAIN s
  OBVIOUS
<1>5. s # << >> => best \in Int
  <2> SUFFICES ASSUME s # << >> PROVE best \in Int
    OBVIOUS
  <2> DEFINE away == {Distance(got[i], 1) : i \in DOMAIN got}
             firsts == {i \in DOMAIN got : Distance(got[i], 1) = near}
  <2>1. away \subseteq Nat /\ away # {}
    BY <1>3, <1>4 DEF Distance
  <2>2. near \in away
    <3> DEFINE n == Min(away)
    <3>1. \E x \in away : \A y \in away : x <= y
      <4> HIDE DEF away
      <4> QED
        BY <2>1, SmallestNumber
    <3> HIDE DEF away
    <3>2. n \in away
      BY <3>1 DEF Min
    <3> QED
      BY <3>2 DEF away
  <2>3. firsts \subseteq Nat /\ firsts # {}
    <3> HIDE DEF near
    <3>1. PICK i \in DOMAIN got : near = Distance(got[i], 1)
      BY <2>2
    <3>2. i \in firsts
      BY <3>1
    <3> QED
      BY <1>3, <3>2
  <2> HIDE DEF away
  <2>4. Min(firsts) \in firsts
    <3> HIDE DEF firsts
    <3>1. \E x \in firsts : \A y \in firsts : x <= y
      BY <2>3, SmallestNumber
    <3> QED
      BY <3>1 DEF Min
  <2>5. Min(firsts) \in DOMAIN s
    BY <1>3, <2>4
  <2> QED
    BY <1>3, <2>5
<1> HIDE DEF got, best
<1>6. CASE s = << >>
  BY <1>2, <1>6
<1>7. CASE s # << >> /\ \A i \in DOMAIN got : got[i] = got[1]
  <2>1. TestScaleFactor(s, scale) = got[1]
    BY <1>2, <1>7
  <2> QED
    BY <1>3, <1>4, <1>7, <2>1
<1>8. CASE s # << >> /\ ~(\A i \in DOMAIN got : got[i] = got[1])
           /\ \A i \in DOMAIN s : SubTestScale(s[i], best) = best
  <2>1. TestScaleFactor(s, scale) = best
    BY <1>2, <1>8
  <2>2. \A i \in DOMAIN s : SubTestScale(s[i], best) \in s[i].scales
    BY <1>1, <1>5, <1>8, SubTestScaleOK
  <2> QED
    BY <1>5, <1>8, <2>1, <2>2
<1>9. CASE s # << >> /\ ~(\A i \in DOMAIN got : got[i] = got[1])
           /\ ~(\A i \in DOMAIN s : SubTestScale(s[i], best) = best)
  <2>1. TestScaleFactor(s, scale) = 1
    BY <1>2, <1>9
  <2> QED
    BY <1>1, <2>1, SubsessionTypes
<1> QED
  BY <1>6, <1>7, <1>8, <1>9

------------------------------------------------------------------------------
(* The headers. *)

ParsedRanges == [ok : BOOLEAN, abs : BOOLEAN, now : BOOLEAN, start : Int, end : Int]

LEMMA ParsedTypes ==
  ASSUME NEW range \in Ranges \cup {NotAsked}
  PROVE  ParseRangeHeader(range) \in ParsedRanges
<1>1. CASE range.kind = "npt"
  <2>1. range # NotAsked /\ range \in Ranges
    BY <1>1 DEF NotAsked
  <2>2. range.start[2] \in Nat /\ range.end[2] \in Nat
    BY <1>1, <2>1, RangeAssumption
  <2>3. ParseRangeHeader(range) = ParseNpt(range.start, range.end)
    BY <1>1, <2>1 DEF ParseRangeHeader, ParseRangeParam
  <2> DEFINE start == range.start
             end == range.end
  <2> HIDE DEF start, end
  <2>4. start[2] \in Nat /\ end[2] \in Nat
    BY <2>2 DEF start, end
  <2> DEFINE h == HourOf(end[2])
             x == (end[2] % 3600) - 3600 * h
             to == end[2]
             zero == 0
  <2>6. h \in Int /\ x \in Int /\ start[2] \in Int /\ to \in Int /\ zero \in Int
    BY <2>4 DEF HourOf
  <2>7. /\ \A s \in Int : Parsed(TRUE, FALSE, s, to) \in ParsedRanges
        /\ \A s \in Int : Parsed(TRUE, FALSE, s, zero) \in ParsedRanges
        /\ \A e \in Int : Parsed(TRUE, TRUE, zero, e) \in ParsedRanges
        /\ Parsed(FALSE, FALSE, zero, zero) \in ParsedRanges
    BY <2>6 DEF Parsed, ParsedRanges
  <2>8. ParseNpt(start, end) =
          CASE start[1] = "hms"  -> Parsed(TRUE, FALSE, start[2], IF end[1] = "hms" THEN to ELSE zero)
            [] start[1] = "secs" -> Parsed(TRUE, FALSE, start[2], IF end[1] \in {"hms", "secs"} THEN to ELSE zero)
            [] start[1] = "none" /\ end[1] = "hms"  -> Parsed(TRUE, FALSE, x, zero)
            [] start[1] = "none" /\ end[1] = "secs" -> Parsed(TRUE, TRUE, zero, to)
            [] start[1] = "now"  ->
                 Parsed(TRUE, TRUE, zero, IF end[1] = "hms" THEN h ELSE IF end[1] = "secs" THEN to ELSE zero)
            [] OTHER             -> Parsed(FALSE, FALSE, zero, zero)
    BY DEF ParseNpt
  <2> HIDE DEF h, x, to, zero
  <2>9. ParseNpt(start, end) \in ParsedRanges
    BY <2>6, <2>7, <2>8
  <2> QED
    BY <2>3, <2>9 DEF start, end
<1>2. CASE range.kind # "npt"
  <2> DEFINE no == Parsed(FALSE, FALSE, 0, 0)
             yes == Parsed(TRUE, FALSE, 0, 0)
             clock == [yes EXCEPT !.abs = TRUE]
  <2>1. ParseRangeHeader(range) \in {no, yes, clock}
    BY <1>2 DEF ParseRangeHeader, ParseRangeParam
  <2>2. no \in ParsedRanges /\ yes \in ParsedRanges
    BY DEF Parsed, ParsedRanges
  <2>3. clock \in ParsedRanges
    BY <2>2 DEF ParsedRanges
  <2> QED
    BY <2>1, <2>2, <2>3
<1> QED
  BY <1>1, <1>2

LEMMA SaneRangeOK ==
  ASSUME NEW q \in ParsedRanges, NEW duration \in Nat, NEW scale \in Int
  PROVE  LET p == SaneRange(q, duration, scale)
         IN  /\ p \in ParsedRanges /\ p.start \in 0 .. duration /\ p.end \in 0 .. duration
             /\ scale > 0 => p.end = 0 \/ p.start <= p.end
             /\ scale < 0 => p.end <= p.start
<1> DEFINE s == Clipped(q.start, duration)
           e == Clipped(q.end, duration)
           around == (scale > 0 /\ s > e /\ e > 0) \/ (scale < 0 /\ s < e)
           start == IF around THEN e ELSE s
           end == IF around THEN s ELSE e
           p == SaneRange(q, duration, scale)
<1>1. s \in 0 .. duration /\ e \in 0 .. duration
  BY DEF Clipped, ParsedRanges
<1>2. p = [q EXCEPT !.start = start, !.end = end]
  BY DEF SaneRange
<1> HIDE DEF s, e, p
<1>3. /\ start \in 0 .. duration /\ end \in 0 .. duration
      /\ scale > 0 => end = 0 \/ start <= end
      /\ scale < 0 => end <= start
  BY <1>1
<1> HIDE DEF start, end
<1>4. start \in Int /\ end \in Int
  BY <1>3
<1>5. p \in ParsedRanges /\ p.start = start /\ p.end = end
  BY <1>2, <1>4 DEF ParsedRanges
<1> QED
  BY <1>3, <1>5 DEF p

------------------------------------------------------------------------------
(* The invariant: the lines of the description are those of the session as   *)
(* it is; and what is said of the answer while nothing but sending it can    *)
(* happen.                                                                   *)

TypeInv == session \in Seq(Subsessions) /\ set_up \subseteq Tracks

AskedInv == answer # NoAnswer => set_up # {}

ScaleInv ==
  answer \notin {NoAnswer, Answered, Died} /\ answer.which = 0 =>
    \A t \in Tracks : answer.scale \in session[t].scales

LinesInv ==
  /\ lines # << >> =>
       session # << >> /\ lines = [t \in Tracks |-> RangeSdpLine(session, session[t])]
  /\ sdp # NoSdp => lines # << >> /\ sdp = GenerateSdpDescription(session, lines)

PlayInv == TypeInv /\ AskedInv /\ ScaleInv /\ LinesInv /\ PlaysWhatItSays

LEMMA PlayInvAtFirst == PlayInit => PlayInv
<1> SUFFICES ASSUME PlayInit PROVE PlayInv
  OBVIOUS
<1>1. session = << >> /\ Tracks = {} /\ set_up = {} /\ lines = << >> /\ sdp = NoSdp
      /\ answer = NoAnswer
  BY DEF PlayInit, Tracks
<1>2. TypeInv
  BY <1>1 DEF TypeInv
<1>3. PlaysWhatItSays
  BY <1>1 DEF PlaysWhatItSays, NoAnswer
<1> QED
  BY <1>1, <1>2, <1>3 DEF PlayInv, AskedInv, ScaleInv, LinesInv

------------------------------------------------------------------------------
(* The steps. *)

LEMMA AddKeeps == ASSUME PlayInv, NEW sub \in Subsessions, Add(sub) PROVE PlayInv'
<1>1. TypeInv /\ AskedInv /\ LinesInv
  BY DEF PlayInv
<1>2. /\ lines = << >> /\ set_up = {} /\ lines' = lines /\ set_up' = set_up /\ sdp' = sdp
      /\ answer' = answer /\ session' = Append(session, sub)
  BY DEF Add, AddSubsession
<1>3. session' \in Seq(Subsessions)
  BY <1>1, <1>2 DEF TypeInv
<1>4. TypeInv'
  BY <1>2, <1>3 DEF TypeInv
<1>5. answer' = NoAnswer /\ sdp' = NoSdp /\ lines' = << >>
  BY <1>1, <1>2 DEF AskedInv, LinesInv
<1>6. AskedInv' /\ ScaleInv' /\ LinesInv'
  BY <1>5 DEF AskedInv, ScaleInv, LinesInv
<1>7. PlaysWhatItSays'
  BY <1>5 DEF PlaysWhatItSays, NoAnswer
<1> QED
  BY <1>4, <1>6, <1>7 DEF PlayInv

(* The steps that leave the tracks and the answer alone. *)
LEMMA SameAnswer ==
  ASSUME PlaysWhatItSays, ScaleInv, UNCHANGED <<session, set_up, start_npt, told, answer>>
  PROVE  PlaysWhatItSays' /\ ScaleInv'
<1>1. Tracks' = Tracks
  BY DEF Tracks
<1>2. PlaysWhatItSays'
  BY <1>1 DEF PlaysWhatItSays, SeeksTracks
<1>3. ScaleInv'
  BY <1>1 DEF ScaleInv
<1> QED
  BY <1>2, <1>3

LEMMA DescribeKeeps == ASSUME PlayInv, DescribeTracks PROVE PlayInv'
<1>1. TypeInv /\ AskedInv /\ ScaleInv /\ LinesInv /\ PlaysWhatItSays
  BY DEF PlayInv
<1>2. /\ session # << >> /\ UNCHANGED <<session, set_up, start_npt, told, answer>>
      /\ lines' = IF lines = << >> THEN [t \in Tracks |-> RangeSdpLine(session, session[t])]
                  ELSE lines
      /\ sdp' = GenerateSdpDescription(session, lines')
  BY DEF DescribeTracks
<1>3. Tracks' = Tracks
  BY <1>2 DEF Tracks
<1>4. lines' = [t \in Tracks |-> RangeSdpLine(session, session[t])]
  BY <1>1, <1>2 DEF LinesInv
<1>5. lines' # << >>
  <2>1. 1 \in Tracks
    BY <1>1, <1>2 DEF TypeInv, Tracks
  <2> QED
    BY <1>4, <2>1
<1>6. LinesInv'
  BY <1>2, <1>3, <1>4, <1>5 DEF LinesInv
<1>7. TypeInv' /\ AskedInv'
  BY <1>1, <1>2, <1>3 DEF TypeInv, AskedInv
<1> QED
  BY <1>1, <1>2, <1>6, <1>7, SameAnswer DEF PlayInv

LEMMA SetUpKeeps == ASSUME PlayInv, NEW t \in Tracks, SetUp(t) PROVE PlayInv'
<1>1. TypeInv /\ LinesInv
  BY DEF PlayInv
<1>2. /\ answer = NoAnswer /\ set_up' = set_up \cup {t}
      /\ UNCHANGED <<session, lines, sdp, start_npt, told, answer>>
  BY DEF SetUp
<1>3. Tracks' = Tracks
  BY <1>2 DEF Tracks
<1>4. TypeInv' /\ LinesInv'
  BY <1>1, <1>2, <1>3 DEF TypeInv, LinesInv
<1>5. AskedInv' /\ ScaleInv' /\ PlaysWhatItSays'
  BY <1>2 DEF AskedInv, ScaleInv, PlaysWhatItSays, NoAnswer
<1> QED
  BY <1>4, <1>5 DEF PlayInv

LEMMA SendAnswerKeeps == ASSUME PlayInv, SendAnswer PROVE PlayInv'
<1>1. TypeInv /\ AskedInv /\ LinesInv
  BY DEF PlayInv
<1>2. /\ answer # NoAnswer /\ answer' = Answered
      /\ UNCHANGED <<session, lines, sdp, set_up, start_npt, told>>
  BY DEF SendAnswer
<1>3. Tracks' = Tracks
  BY <1>2 DEF Tracks
<1>4. TypeInv' /\ AskedInv' /\ LinesInv'
  BY <1>1, <1>2, <1>3 DEF TypeInv, AskedInv, LinesInv
<1>5. ScaleInv' /\ PlaysWhatItSays'
  BY <1>2 DEF ScaleInv, PlaysWhatItSays, Answered
<1> QED
  BY <1>4, <1>5 DEF PlayInv

(* The length that the tracks are told fits the answer. *)
LEMMA StreamDurationOK ==
  ASSUME NEW p \in ParsedRanges, NEW duration \in Nat, p.end \in 0 .. duration
  PROVE  \/ StreamDuration(p, duration) = 0 /\ p.end \in {0, duration}
         \/ StreamDuration(p, duration) = Distance(p.start, p.end)
BY DEF StreamDuration, ParsedRanges

(* What parse_scale_header() leaves is a number: the one it read, or 1.      *)
LEMMA ScaleHeaderType ==
  ASSUME NEW h \in {0} \cup Scales
  PROVE  ParseScaleHeader(h) \in Int
<1>1. h \in Int
  BY RangeAssumption
<1>2. CASE h = 0
  BY <1>2 DEF ParseScaleHeader
<1>3. CASE h # 0
  <2>1. ParseScaleHeader(h) = h
    BY <1>3 DEF ParseScaleHeader
  <2> QED
    BY <1>1, <2>1
<1> QED
  BY <1>2, <1>3

LEMMA PlayKeeps ==
  ASSUME PlayInv, NEW which \in {0} \cup Tracks, NEW scale_header \in {0} \cup Scales,
         NEW range \in Ranges \cup {NotAsked}, Play(which, scale_header, range)
  PROVE  PlayInv'
<1> DEFINE scale == IF which = 0 THEN TestScaleFactor(session, ParseScaleHeader(scale_header))
                    ELSE SubTestScale(session[which], ParseScaleHeader(scale_header))
           saw == ParseRangeHeader(range)
           known == IF which = 0 THEN SessionDuration(session) ELSE session[which].duration
           duration == IF known < 0 THEN -known ELSE known
           p == IF saw.ok /\ ~saw.abs THEN SaneRange(saw, duration, scale) ELSE saw
           resumes == ~saw.ok \/ saw.now
           sought == IF SeeksTracks(which) THEN set_up ELSE {}
           asked == IF which = 0 THEN Tracks ELSE {which}
           Answer(kind, start) ==
             [kind |-> kind, which |-> which, scale |-> scale, duration |-> duration,
              start |-> start, end |-> p.end, open |-> p.end = 0 /\ scale >= 0]
<1>1. TypeInv /\ AskedInv /\ ScaleInv /\ LinesInv /\ PlaysWhatItSays
  BY DEF PlayInv
<1>2. /\ set_up # {} /\ UNCHANGED <<session, lines, sdp, set_up>>
      /\ \/ answer' = [kind |-> "clock", scale |-> scale, which |-> which]
         \/ /\ ~saw.abs /\ ~resumes
            /\ Sought(sought, p, duration)
            /\ answer' = Answer("sought", p.start)
         \/ \E largest : answer' = Answer("resumed", largest)
         \/ answer' = Died
  BY DEF Play
<1>3. Tracks' = Tracks /\ session \in Seq(Subsessions) /\ \A t \in Tracks : session[t] \in Subsessions
  BY <1>1, <1>2 DEF TypeInv, Tracks
<1>4. scale \in Int /\ (which = 0 => \A t \in Tracks : scale \in session[t].scales)
  <2>1. ParseScaleHeader(scale_header) \in Int
    BY ScaleHeaderType
  <2>2. CASE which = 0
    <3>1. scale = TestScaleFactor(session, ParseScaleHeader(scale_header))
      BY <2>2
    <3> HIDE DEF scale
    <3> QED
      BY <1>3, <2>1, <3>1, TestScaleFactorOK DEF Tracks
  <2>3. CASE which # 0
    <3>1. scale = SubTestScale(session[which], ParseScaleHeader(scale_header)) /\ which \in Tracks
      BY <2>3
    <3> HIDE DEF scale
    <3> QED
      BY <1>3, <2>1, <2>3, <3>1, SubTestScaleOK
  <2> QED
    BY <2>2, <2>3
<1>5. duration \in Nat
  <2>1. known \in Int
    <3>1. SessionDuration(session) \in Int
      BY <1>3, SessionDurationOK
    <3>2. \A t \in Tracks : session[t].duration \in Int
      BY <1>3, SubsessionTypes
    <3> QED
      BY <3>1, <3>2
  <2> HIDE DEF known
  <2> QED
    BY <2>1
<1>6. saw \in ParsedRanges
  BY ParsedTypes
<1> HIDE DEF scale, saw, duration
<1>7. p \in ParsedRanges
  BY <1>4, <1>5, <1>6, SaneRangeOK
<1>8. TypeInv'
  BY <1>1, <1>2, <1>3 DEF TypeInv
<1>10. AskedInv'
  BY <1>2 DEF AskedInv
<1>11. LinesInv'
  BY <1>1, <1>2, <1>3 DEF LinesInv
<1>12. answer' = Died \/ (answer'.which = which /\ answer'.scale = scale)
  <2> HIDE DEF p, resumes, sought
  <2>1. \A kind, start : Answer(kind, start).which = which /\ Answer(kind, start).scale = scale
    OBVIOUS
  <2> HIDE DEF Answer
  <2>2. CASE answer' = [kind |-> "clock", scale |-> scale, which |-> which]
    BY <2>2
  <2>3. CASE answer' = Answer("sought", p.start)
    BY <2>1, <2>3
  <2>4. ASSUME NEW largest, answer' = Answer("resumed", largest)
        PROVE  answer'.which = which /\ answer'.scale = scale
    BY <2>1, <2>4
  <2>5. \/ answer' = [kind |-> "clock", scale |-> scale, which |-> which]
        \/ answer' = Answer("sought", p.start)
        \/ \E largest : answer' = Answer("resumed", largest)
        \/ answer' = Died
    BY <1>2, Zenon
  <2> QED
    BY <2>2, <2>3, <2>4, <2>5
<1>13. ScaleInv'
  BY <1>2, <1>3, <1>4, <1>12 DEF ScaleInv
<1>14. PlaysWhatItSays'
  <2> SUFFICES ASSUME answer'.kind = "sought" PROVE PlaysWhatItSays'
    BY DEF PlaysWhatItSays
  <2>1. /\ ~saw.abs /\ ~resumes /\ Sought(sought, p, duration)
        /\ answer' = Answer("sought", p.start)
        /\ answer'.which = which /\ answer'.scale = scale
    <3> HIDE DEF p, resumes
    <3> QED
      BY <1>2 DEF Died
  <2>2. p = SaneRange(saw, duration, scale)
    BY <2>1
  <2>3. /\ p.start \in 0 .. duration /\ p.end \in 0 .. duration
        /\ scale > 0 => p.end = 0 \/ p.start <= p.end
        /\ scale < 0 => p.end <= p.start
    BY <1>4, <1>5, <1>6, <2>2, SaneRangeOK
  <2> HIDE DEF p, resumes
  <2>5. /\ answer'.duration = duration /\ answer'.start = p.start /\ answer'.end = p.end
        /\ answer'.open = (p.end = 0 /\ scale >= 0)
    BY <2>1
  <2>6. ASSUME SeeksTracks(which), NEW t \in set_up
        PROVE  /\ start_npt'[t] = p.start
               /\ \/ told'[t] = 0 /\ p.end \in {0, duration}
                  \/ told'[t] = Distance(p.start, p.end)
    <3>1. Sought(sought, p, duration) /\ sought = set_up /\ t \in Tracks
      BY <1>1, <2>1, <2>6 DEF TypeInv
    <3>2. start_npt'[t] = p.start /\ told'[t] = StreamDuration(p, duration)
      BY <2>6, <3>1 DEF Sought
    <3> QED
      BY <1>5, <1>7, <2>3, <3>2, StreamDurationOK
  <2>7. SeeksTracks(which)' => SeeksTracks(which)
    BY <1>3 DEF SeeksTracks
  <2>8. /\ answer'.start \in 0 .. answer'.duration /\ answer'.end \in 0 .. answer'.duration
        /\ answer'.scale > 0 => answer'.open \/ answer'.start <= answer'.end
        /\ answer'.scale < 0 => answer'.end <= answer'.start
    <3> DEFINE s == p.start
               e == p.end
               a == answer'
    <3>1. /\ s \in 0 .. duration /\ e \in 0 .. duration
          /\ scale > 0 => e = 0 \/ s <= e
          /\ scale < 0 => e <= s
      BY <2>3
    <3>2. /\ a.duration = duration /\ a.start = s /\ a.end = e /\ a.scale = scale
          /\ a.open = (e = 0 /\ scale >= 0)
      BY <2>1, <2>5
    <3> HIDE DEF s, e, a
    <3>3. scale > 0 => (e = 0 /\ scale >= 0) \/ s <= e
      BY <1>4, <1>5, <3>1
    <3>4. /\ a.start \in 0 .. a.duration /\ a.end \in 0 .. a.duration
          /\ a.scale > 0 => a.open \/ a.start <= a.end
          /\ a.scale < 0 => a.end <= a.start
      BY <3>1, <3>2, <3>3
    <3> QED
      BY <3>4 DEF a
  <2>9. SeeksTracks(answer.which)' =>
          \A t \in set_up' :
            /\ start_npt'[t] = answer'.start
            /\ \/ told'[t] = 0 /\ answer'.end \in {0, answer'.duration}
               \/ told'[t] = Distance(answer'.start, answer'.end)
    BY <1>2, <1>3, <2>1, <2>5, <2>6 DEF SeeksTracks
  <2> QED
    BY <2>8, <2>9 DEF PlaysWhatItSays
<1> QED
  BY <1>8, <1>10, <1>11, <1>13, <1>14 DEF PlayInv

(* Every operation of the session, and every request of its client, keeps the *)
(* invariant (server_media_session.c, rtsp_server.c).                         *)
THEOREM PlayInductive == PlaySpec => []PlayInv
<1>1. PlayInv /\ [PlayNext]_play_vars => PlayInv'
  <2> SUFFICES ASSUME PlayInv, [PlayNext]_play_vars PROVE PlayInv'
    OBVIOUS
  <2>1. CASE UNCHANGED play_vars
    <3>1. UNCHANGED <<session, lines, sdp, set_up, start_npt, told, answer>>
      BY <2>1 DEF play_vars
    <3>2. Tracks' = Tracks
      BY <3>1 DEF Tracks
    <3>3. TypeInv' /\ AskedInv' /\ LinesInv'
      BY <3>1, <3>2 DEF PlayInv, TypeInv, AskedInv, LinesInv
    <3>4. PlaysWhatItSays' /\ ScaleInv'
      BY <3>1, SameAnswer DEF PlayInv
    <3> QED
      BY <3>3, <3>4 DEF PlayInv
  <2> QED
    BY <2>1, AddKeeps, DescribeKeeps, SendAnswerKeeps, SetUpKeeps, PlayKeeps DEF PlayNext
<1> QED
  BY <1>1, PlayInvAtFirst, PTL DEF PlaySpec

(* Whatever a client seeks, the answer names a part of the stream, the right *)
(* way around for the scale, and the tracks were asked to play that part and *)
(* are taken to begin with it.                                               *)
THEOREM EveryAnswerTrue == PlaySpec => []PlaysWhatItSays
<1>1. PlayInv => PlaysWhatItSays
  BY DEF PlayInv
<1> QED
  BY <1>1, PlayInductive, PTL

(* The answered speed suits every track, and every length is in the          *)
(* description once, for sessions of any number of tracks of any kind.       *)
THEOREM SessionSpeaksForTracks == PlaySpec => []SpeaksForAllTracks
<1>1. PlayInv => SpeaksForAllTracks
  <2> SUFFICES ASSUME PlayInv, sdp # NoSdp, NEW t \in Tracks,
                      NEW own,
                      own = IF session[t].absolute THEN <<"clock">> ELSE NptLine(session[t].duration)
               PROVE  \/ sdp.session = own /\ sdp.tracks[t] = NoLine
                      \/ sdp.session = NoLine /\ sdp.tracks[t] = own
    BY DEF SpeaksForAllTracks, PlayInv, ScaleInv
  <2>1. /\ session # << >> /\ session \in Seq(Subsessions)
        /\ lines = [u \in Tracks |-> RangeSdpLine(session, session[u])]
        /\ sdp = [session |-> SessionRangeLine(session), tracks |-> lines]
    BY DEF PlayInv, LinesInv, TypeInv, GenerateSdpDescription
  <2>2. sdp.session = SessionRangeLine(session) /\ sdp.tracks[t] = RangeSdpLine(session, session[t])
    BY <2>1
  <2>3. /\ SessionDuration(session) \in Int
        /\ SessionDuration(session) >= 0 =>
             ~session[t].absolute /\ session[t].duration = SessionDuration(session)
    BY <2>1, SessionDurationOK DEF Tracks
  <2> QED
    BY <2>2, <2>3 DEF SessionRangeLine, RangeSdpLine
<1> QED
  BY <1>1, PlayInductive, PTL
===============================================================================
