---------------------------- MODULE OnDemandProofs ----------------------------
(***************************************************************************)
(* What a client was told of the ports of its stream stays true, every     *)
(* media object is accounted for, and a stream plays only for a client     *)
(* that asked, for any number of clients, tracks and streams.              *)
(***************************************************************************)
EXTENDS OnDemand, WellFoundedInduction, TLAPS

(* The objects of the table. *)
Kinds == {"server", "session", "subsession", "file", "framer", "sink", "rtcp", "fragmenter"}
Objects == [kind : Kinds, input : Nat, fid : {0, NoFile}, pos : Int,
            awaiting : BOOLEAN, have_started_reading : BOOLEAN, idling : BOOLEAN]

(* A table of media: names are below the next one, inputs below their reader. *)
TableOK(m) ==
  /\ m = [table |-> m.table, next |-> m.next]
  /\ m.next \in Nat \ {0}
  /\ m.table = [n \in DOMAIN m.table |-> m.table[n]]
  /\ DOMAIN m.table \subseteq 1 .. m.next - 1
  /\ \A n \in DOMAIN m.table : m.table[n] \in Objects /\ m.table[n].input < n

Groupsocks == [port : Nat, socket : BOOLEAN, dests : {{}}]
StreamStates ==
  [session : Sessions, track : TrackIds, source : Nat, sink : Nat, udp_sink : Nat,
   rtp_gs : Groupsocks, rtcp_gs : Groupsocks, rtcp_instance : Nat, fragmenter : Nat,
   are_currently_playing : BOOLEAN, ended : BOOLEAN]

(* A stream reads a file through its source, and has no fragmenter before it  *)
(* plays.                                                                    *)
StreamOK(m, st) ==
  /\ st.source # NoMedium /\ FileOf(m, st.source) # NoMedium
  /\ st.fragmenter # NoMedium => st.are_currently_playing

(* The table m and the streams ss: whatever the table names belongs to a      *)
(* stream or is permanent, and the other way round.                          *)
Accounted(m, ss) ==
  /\ TableOK(m) /\ ss \in Seq(StreamStates)
  /\ \A i \in DOMAIN ss : StreamOK(m, ss[i])
  /\ \A n : n \in DOMAIN m.table <=>
              n \in Permanent \/ \E i \in DOMAIN ss : n \in ObjectsOf(m, ss[i])

(* The ports bound in the network n: no socket of a description is left, the  *)
(* server shares none, and holds each alone.                                 *)
NetOK(n) ==
  /\ n = [priv |-> n.priv, bound |-> n.bound]
  /\ \A b \in n.bound : b.owner # Sdp /\ (b.owner # Other => b.reuse = Unshared)
  /\ \A b, c \in n.bound : b.port = c.port /\ b # c => b.owner = Other /\ c.owner = Other

TrackStates == [token : Nat, tcp : BOOLEAN]
Destinations == UNION {[S -> [is_tcp : BOOLEAN]] : S \in SUBSET Sessions}

(* A session that has not named the stream, or has ended, has no states and   *)
(* was told nothing.                                                         *)
SessionsTyped ==
  /\ DOMAIN client_sessions = Sessions
  /\ client_sessions = [s \in Sessions |->
                          [status |-> client_sessions[s].status, states |-> client_sessions[s].states]]
  /\ \A s \in Sessions :
       LET c == client_sessions[s]
       IN  \/ c.status = "bound" /\ c.states \in [TrackIds -> TrackStates]
           \/ c.status \in {"new", "ended"} /\ c.states = << >>
              /\ told[s] = [t \in TrackIds |-> NoPorts]
  /\ told \in [Sessions -> [TrackIds -> [rtp : Nat, rtcp : Nat]]]
  /\ destinations \in [TrackIds -> Destinations]
  /\ process \in {"running", "crashed"} /\ file \in BOOLEAN

(* A token names a stream that the session itself set up for the track.      *)
TokensInv ==
  \A s \in Sessions, t \in TrackIds :
    client_sessions[s].status = "bound" =>
      LET k == client_sessions[s].states[t].token
      IN  k # NoStream => /\ k \in DOMAIN streams /\ streams[k].track = t
                          /\ streams[k].session = s /\ s \in DOMAIN destinations[t]

(* The ports that a session was told of are those of the stream it has a      *)
(* token for.                                                                *)
HeldBy(n, ports, k) ==
  /\ \A p \in {ports.rtp, ports.rtcp} \ {0} :
       k # NoStream /\ \E b \in n.bound : b.port = p /\ b.owner = k
  /\ ports.rtcp # 0 => ports.rtp % 2 = 0 /\ ports.rtcp = ports.rtp + 1

ToldInv ==
  \A s \in Sessions, t \in TrackIds :
    HeldBy(net, told[s][t], client_sessions[s].states[t].token)

(* The inductive invariant. *)
IInv ==
  /\ NetOK(net)
  /\ SessionsTyped
  /\ TokensInv
  /\ ToldInv
  /\ Accounted(media, streams)
  /\ PlayedAsAsked

------------------------------------------------------------------------------
(* The table of media. *)

LEMMA NewMediumTyped ==
  ASSUME NEW kind \in Kinds, NEW input \in Nat
  PROVE  Medium(kind, input) \in Objects /\ Medium(kind, input).input = input
BY DEF Medium, Objects, NoFile

(* The table m2 is m and one object more, under the next name. *)
OneMore(m2, m, obj) ==
  /\ TableOK(m2) /\ m2.next = m.next + 1
  /\ m.next \notin DOMAIN m.table
  /\ \A n : n \in DOMAIN m2.table <=> n \in DOMAIN m.table \/ n = m.next
  /\ m2.table[m.next] = obj
  /\ \A n \in DOMAIN m.table : m2.table[n] = m.table[n]

LEMMA AddNewOK ==
  ASSUME NEW m, TableOK(m), NEW obj \in Objects, obj.input < m.next
  PROVE  OneMore(AddNew(m, obj), m, obj)
<1> DEFINE D == DOMAIN m.table \cup {m.next}
           table == [n \in D |-> IF n = m.next THEN obj ELSE m.table[n]]
           m2 == AddNew(m, obj)
<1>1. m.next \in Nat \ {0} /\ DOMAIN m.table \subseteq 1 .. m.next - 1
      /\ \A n \in DOMAIN m.table : m.table[n] \in Objects /\ m.table[n].input < n
  BY DEF TableOK
<1>2. m.next \notin DOMAIN m.table
  BY <1>1
<1>3. m2 = [table |-> table, next |-> m.next + 1]
  BY DEF AddNew
<1>4. m2.table = table /\ m2.next = m.next + 1 /\ m2 = [table |-> m2.table, next |-> m2.next]
  BY <1>3
<1>5. DOMAIN table = D /\ table[m.next] = obj /\ \A n \in DOMAIN m.table : table[n] = m.table[n]
  BY <1>2
<1>6. table = [n \in DOMAIN table |-> table[n]]
  OBVIOUS
<1> HIDE DEF table, m2
<1>7. D \subseteq 1 .. (m.next + 1) - 1 /\ m.next + 1 \in Nat \ {0}
  BY <1>1
<1>8. \A n \in D : table[n] \in Objects /\ table[n].input < n
  BY <1>1, <1>5
<1>9. TableOK(m2)
  BY <1>4, <1>5, <1>6, <1>7, <1>8 DEF TableOK
<1> QED
  BY <1>2, <1>4, <1>5, <1>9 DEF OneMore, m2

(* The table m2 has the objects of m, and each reads from what it did. *)
SameObjects(m2, m) ==
  /\ TableOK(m2) /\ m2.next = m.next
  /\ DOMAIN m2.table = DOMAIN m.table
  /\ \A n \in DOMAIN m.table : m2.table[n].input = m.table[n].input

LEMMA ChangedInPlace ==
  ASSUME NEW m, TableOK(m), NEW name \in DOMAIN m.table, NEW obj \in Objects,
         obj.input = m.table[name].input
  PROVE  SameObjects([m EXCEPT !.table[name] = obj], m)
<1> DEFINE m2 == [m EXCEPT !.table[name] = obj]
           table == [m.table EXCEPT ![name] = obj]
<1>1. /\ m = [table |-> m.table, next |-> m.next]
      /\ m.table = [n \in DOMAIN m.table |-> m.table[n]]
      /\ m.next \in Nat \ {0} /\ DOMAIN m.table \subseteq 1 .. m.next - 1
      /\ \A n \in DOMAIN m.table : m.table[n] \in Objects /\ m.table[n].input < n
  BY DEF TableOK
<1>2. m2 = [table |-> table, next |-> m.next]
  BY <1>1
<1>3. m2.table = table /\ m2.next = m.next /\ m2 = [table |-> m2.table, next |-> m2.next]
  BY <1>2
<1>4. DOMAIN table = DOMAIN m.table /\ table[name] = obj
      /\ table = [n \in DOMAIN table |-> table[n]]
      /\ \A n \in DOMAIN m.table : n # name => table[n] = m.table[n]
  OBVIOUS
<1> HIDE DEF m2, table
<1>5. \A n \in DOMAIN table : /\ table[n] \in Objects /\ table[n].input < n
                              /\ table[n].input = m.table[n].input
  BY <1>1, <1>4
<1> QED
  BY <1>1, <1>3, <1>4, <1>5 DEF SameObjects, TableOK, m2

LEMMA AskedInPlace ==
  ASSUME NEW m, TableOK(m), NEW name \in DOMAIN m.table
  PROVE  SameObjects(DoGetNextFrame(m, name), m)
<1> DEFINE o == m.table[name]
           obj == [o EXCEPT !.awaiting = TRUE, !.have_started_reading = TRUE,
                            !.idling = o.idling \/ ~o.have_started_reading]
<1>1. o \in Objects
  BY DEF TableOK
<1>2. obj \in Objects /\ obj.input = o.input
  BY <1>1 DEF Objects
<1>3. DoGetNextFrame(m, name) = [m EXCEPT !.table[name] = obj]
  BY DEF DoGetNextFrame
<1> HIDE DEF obj
<1> QED
  BY <1>2, <1>3, ChangedInPlace

LEMMA ReadInPlace ==
  ASSUME NEW m, TableOK(m), NEW name \in DOMAIN m.table, NEW max_size \in Nat
  PROVE  SameObjects(FileReadableHandler(m, name, max_size), m)
<1> DEFINE o == m.table[name]
           read == [o EXCEPT !.pos = Fread(o.pos, max_size).pos, !.awaiting = FALSE]
           stop == [o EXCEPT !.idling = FALSE, !.have_started_reading = FALSE]
<1>1. o \in Objects
  BY DEF TableOK
<1>2. o.pos \in Int
  BY <1>1 DEF Objects
<1>3. Fread(o.pos, max_size).pos \in Int
  <2> DEFINE blocks == (max_size + BlockSize - 1) \div BlockSize
  <2>1. blocks \in Int
    BY FileAssumption
  <2> HIDE DEF blocks
  <2>2. BlockSize * blocks \in Int
    BY <2>1, FileAssumption
  <2>3. o.pos + BlockSize * blocks \in Int
    BY <1>2, <2>2
  <2> QED
    BY <2>3, FileAssumption DEF Fread, blocks
<1>4. read \in Objects /\ read.input = o.input
  BY <1>1, <1>3 DEF Objects
<1>5. stop \in Objects /\ stop.input = o.input
  BY <1>1 DEF Objects
<1>6. FileReadableHandler(m, name, max_size)
        = IF o.awaiting THEN [m EXCEPT !.table[name] = read] ELSE [m EXCEPT !.table[name] = stop]
  BY DEF FileReadableHandler, DoReadFromFile, DoStopGettingFrames
<1> HIDE DEF read, stop
<1>7. SameObjects([m EXCEPT !.table[name] = read], m)
  BY <1>4, ChangedInPlace
<1>8. SameObjects([m EXCEPT !.table[name] = stop], m)
  BY <1>5, ChangedInPlace
<1> QED
  BY <1>6, <1>7, <1>8

(* A source for a stream: the file and the framer that reads it. *)
WithSource(m2, m) ==
  /\ TableOK(m2) /\ m2.next = m.next + 2
  /\ m.next \notin DOMAIN m.table /\ m.next + 1 \notin DOMAIN m.table
  /\ \A n : n \in DOMAIN m2.table <=> n \in DOMAIN m.table \/ n \in {m.next, m.next + 1}
  /\ m2.table[m.next].input = NoMedium
  /\ m2.table[m.next + 1].input = m.next
  /\ \A n \in DOMAIN m.table : m2.table[n] = m.table[n]

LEMMA SourceMade ==
  ASSUME NEW m, TableOK(m), NEW exists \in BOOLEAN
  PROVE  WithSource(CreateNewStreamSource(m, exists), m)
<1> DEFINE fobj == [Medium("file", NoMedium) EXCEPT !.fid = OpenInputFile(exists)]
           m1 == AddNew(m, fobj)
           sobj == Medium("framer", m.next)
           m2 == AddNew(m1, sobj)
<1>1. m.next \in Nat \ {0} /\ m.next + 1 # m.next /\ DOMAIN m.table \subseteq 1 .. m.next - 1
  BY DEF TableOK
<1>2. fobj \in Objects /\ fobj.input = 0
  <2>1. "file" \in Kinds
    BY DEF Kinds
  <2>2. Medium("file", NoMedium) \in Objects /\ Medium("file", NoMedium).input = 0
    BY <2>1, NewMediumTyped DEF NoMedium
  <2>3. OpenInputFile(exists) \in {0, NoFile}
    BY DEF OpenInputFile
  <2> QED
    BY <2>2, <2>3 DEF Objects
<1>3. sobj \in Objects /\ sobj.input = m.next
  BY <1>1, NewMediumTyped DEF Kinds
<1>4. CreateNewStreamSource(m, exists) = m2
  BY DEF CreateNewStreamSource, NewFilter, CreateNewFileSource, NewFileSource, GenerateNewName
<1> HIDE DEF fobj, sobj
<1>5. OneMore(m1, m, fobj)
  BY <1>1, <1>2, AddNewOK
<1> HIDE DEF m1
<1>6. TableOK(m1) /\ m1.next = m.next + 1 /\ sobj.input < m1.next
  BY <1>1, <1>3, <1>5 DEF OneMore
<1>7. OneMore(m2, m1, sobj)
  BY <1>3, <1>6, AddNewOK
<1> HIDE DEF m2
<1>8. m2.next = m.next + 2 /\ m.next + 1 \notin DOMAIN m.table /\ m.next \in DOMAIN m1.table
  BY <1>1, <1>5, <1>6, <1>7 DEF OneMore
<1>9. \A n : n \in DOMAIN m2.table <=> n \in DOMAIN m.table \/ n \in {m.next, m.next + 1}
  BY <1>5, <1>6, <1>7 DEF OneMore
<1>10. m2.table[m.next] = fobj /\ m2.table[m.next + 1] = sobj
       /\ \A n \in DOMAIN m.table : m2.table[n] = m.table[n]
  BY <1>5, <1>6, <1>7, <1>8 DEF OneMore
<1> QED
  BY <1>2, <1>3, <1>4, <1>5, <1>7, <1>8, <1>9, <1>10 DEF WithSource, OneMore, NoMedium

LEMMA Closed ==
  ASSUME NEW m, TableOK(m), NEW name \in DOMAIN m.table
  PROVE  LET m2 == CloseMedium(m, name)
         IN  /\ TableOK(m2) /\ m2.next = m.next
             /\ \A n : n \in DOMAIN m2.table <=>
                         n \in DOMAIN m.table /\ n # name /\ n # m.table[name].input
             /\ \A n \in DOMAIN m2.table : m2.table[n] = m.table[n]
<1> DEFINE D == DOMAIN m.table \ ({name} \cup Inputs(m, name))
           table == [n \in D |-> m.table[n]]
           m2 == CloseMedium(m, name)
<1>1. /\ m = [table |-> m.table, next |-> m.next]
      /\ m.next \in Nat \ {0} /\ DOMAIN m.table \subseteq 1 .. m.next - 1
      /\ \A n \in DOMAIN m.table : m.table[n] \in Objects /\ m.table[n].input < n
  BY DEF TableOK
<1>2. m2 = [table |-> table, next |-> m.next]
  BY <1>1 DEF CloseMedium, RemoveMedia, Restrict
<1>3. m2.table = table /\ m2.next = m.next /\ m2 = [table |-> m2.table, next |-> m2.next]
  BY <1>2
<1>4. DOMAIN table = D /\ table = [n \in DOMAIN table |-> table[n]]
      /\ \A n \in D : table[n] = m.table[n]
  OBVIOUS
<1>5. \A n : n \in D <=> n \in DOMAIN m.table /\ n # name /\ n # m.table[name].input
  BY <1>1 DEF Inputs, NoMedium
<1> HIDE DEF m2, table, D
<1>6. \A n \in D : n \in DOMAIN m.table
  BY <1>5
<1>7. TableOK(m2)
  BY <1>1, <1>3, <1>4, <1>6 DEF TableOK
<1> QED
  BY <1>3, <1>4, <1>5, <1>7 DEF m2

(* The table m2 holds what m does; names may have been used up in between.   *)
SameTable(m2, m) ==
  /\ TableOK(m2) /\ DOMAIN m2.table = DOMAIN m.table
  /\ \A n \in DOMAIN m.table : m2.table[n] = m.table[n]

LEMMA SdpLinesLeaveTable ==
  ASSUME NEW acc, TableOK(acc.media), file \in BOOLEAN, NEW t
  PROVE  SameTable(SdpLines(acc, t).media, acc.media)
<1> DEFINE m == acc.media
           source == m.next + 1
           m2 == CreateNewStreamSource(m, file)
           obj == Medium("sink", NoMedium)
           made == AddNew(m2, obj)
           c1 == CloseMedium(made, source + 1)
           c2 == CloseMedium(c1, source)
<1>1. CASE t \in sdp_lines
  BY <1>1 DEF SdpLines, SameTable
<1>2. CASE t \notin sdp_lines
  <2>1. SdpLines(acc, t).media = c2
    BY <1>2 DEF SdpLines, SourceIn, GenerateNewName, NewObject
  <2>2. TableOK(m) /\ m.next \in Nat \ {0} /\ DOMAIN m.table \subseteq 1 .. m.next - 1
    BY DEF TableOK
  <2>3. WithSource(m2, m)
    BY <2>2, SourceMade
  <2>4. obj \in Objects /\ obj.input = 0
    BY NewMediumTyped DEF Kinds, NoMedium
  <2> HIDE DEF m2, obj, m
  <2>5. TableOK(m2) /\ m2.next = m.next + 2 /\ obj.input < m2.next
    BY <2>2, <2>3, <2>4 DEF WithSource
  <2>6. OneMore(made, m2, obj)
    BY <2>4, <2>5, AddNewOK
  <2> HIDE DEF made
  <2>7. /\ \A n : n \in DOMAIN made.table <=> n \in DOMAIN m.table \/ n \in {m.next, source, source + 1}
        /\ made.table[source].input = m.next /\ made.table[source + 1].input = 0
        /\ \A n \in DOMAIN m.table : made.table[n] = m.table[n]
    <3>1. source + 1 = m2.next
      BY <2>2, <2>5
    <3>2. \A n : n \in DOMAIN m2.table <=> n \in DOMAIN m.table \/ n \in {m.next, source}
      BY <2>3 DEF WithSource
    <3> QED
      BY <2>3, <2>4, <2>6, <3>1, <3>2 DEF WithSource, OneMore
  <2>8. TableOK(made) /\ source + 1 \in DOMAIN made.table
    BY <2>6, <2>7 DEF OneMore
  <2>9. /\ TableOK(c1)
        /\ \A n : n \in DOMAIN c1.table <=> n \in DOMAIN made.table /\ n # source + 1 /\ n # 0
        /\ \A n \in DOMAIN c1.table : c1.table[n] = made.table[n]
    BY <2>7, <2>8, Closed
  <2> HIDE DEF c1
  <2>10. \A n : n \in DOMAIN c1.table <=> n \in DOMAIN m.table \/ n \in {m.next, source}
    BY <2>2, <2>7, <2>9
  <2>11. source \in DOMAIN c1.table /\ c1.table[source].input = m.next
    BY <2>7, <2>9, <2>10
  <2>12. /\ TableOK(c2)
         /\ \A n : n \in DOMAIN c2.table <=> n \in DOMAIN c1.table /\ n # source /\ n # m.next
         /\ \A n \in DOMAIN c2.table : c2.table[n] = c1.table[n]
    BY <2>9, <2>11, Closed
  <2> HIDE DEF c2
  <2>13. \A n : n \in DOMAIN c2.table <=> n \in DOMAIN m.table
    BY <2>2, <2>10, <2>12
  <2>14. DOMAIN c2.table = DOMAIN m.table
    BY <2>13
  <2>15. \A n \in DOMAIN m.table : c2.table[n] = m.table[n]
    BY <2>7, <2>9, <2>10, <2>12, <2>13
  <2> QED
    BY <2>1, <2>12, <2>14, <2>15 DEF SameTable, m
<1> QED
  BY <1>1, <1>2

------------------------------------------------------------------------------
(* The network. *)

(* A description opens a socket without a port and closes it again.          *)
LEMMA SdpLinesLeavePorts ==
  ASSUME NEW acc, NetOK(acc.net), NEW t
  PROVE  LET n == SdpLines(acc, t).net
         IN  n = [priv |-> n.priv, bound |-> n.bound] /\ n.bound = acc.net.bound
<1> DEFINE n == acc.net
           g == NewGroupsock(n, 0, 0, Sdp)
           d == DeleteGroupsock(g.net, g.gs, Sdp)
           ready == ReclaimGroupsockPriv(GroupsockPriv(n))
<1>1. n = [priv |-> n.priv, bound |-> n.bound] /\ \A b \in n.bound : b.owner # Sdp
  BY DEF NetOK
<1>2. CASE t \in sdp_lines
  BY <1>1, <1>2 DEF SdpLines
<1>3. CASE t \notin sdp_lines
  <2>1. ready = [priv |-> ready.priv, bound |-> ready.bound] /\ ready.bound = n.bound
    BY <1>1 DEF ReclaimGroupsockPriv, GroupsockPriv
  <2>2. g.net = ready
    BY DEF NewGroupsock, NewSocket, SetupDatagramSocket
  <2> HIDE DEF g, ready
  <2>3. d = [ready EXCEPT !.bound = {b \in ready.bound : ~(g.gs.socket /\ b.port = g.gs.port /\ b.owner = Sdp)}]
    BY <2>2 DEF DeleteGroupsock, SocketReset, RemoveAllDestinations, NewGroupsock, g
  <2>4. {b \in ready.bound : ~(g.gs.socket /\ b.port = g.gs.port /\ b.owner = Sdp)} = n.bound
    BY <1>1, <2>1
  <2>5. d = [priv |-> ready.priv, bound |-> n.bound]
    BY <2>1, <2>3, <2>4
  <2>6. SdpLines(acc, t).net = d
    BY <1>3 DEF SdpLines, g
  <2> HIDE DEF d
  <2> QED
    BY <2>5, <2>6
<1> QED
  BY <1>2, <1>3

(* The network n2 has the port bound, unless it is 0, and all that n has.    *)
Holds(n2, n, port, owner) ==
  /\ NetOK(n2) /\ n2.priv = Unshared /\ n.bound \subseteq n2.bound
  /\ port # 0 => \E b \in n2.bound : b.port = port /\ b.owner = owner

(* Where ports are not shared, a socket gets its port only if nobody has it.  *)
LEMMA PortTaken ==
  ASSUME NEW n, NetOK(n), n.priv = Unshared, NEW port \in Nat, NEW owner \in Nat \ {0}
  PROVE  LET g == NewGroupsock(n, 0, port, owner)
         IN  /\ g.gs.port = port /\ g.gs.socket \in BOOLEAN /\ g.crashed = ~g.gs.socket
             /\ RemoveAllDestinations(g.gs) = [port |-> port, socket |-> g.gs.socket, dests |-> {}]
             /\ ~g.crashed => Holds(g.net, n, port, owner)
<1> DEFINE g == NewGroupsock(n, 0, port, owner)
           s == SetupDatagramSocket(n, port, owner)
           new == [port |-> port, owner |-> owner, reuse |-> Unshared]
<1>1. /\ n = [priv |-> n.priv, bound |-> n.bound]
      /\ \A b \in n.bound : b.owner # Sdp /\ (b.owner # Other => b.reuse = Unshared)
      /\ \A b, c \in n.bound : b.port = c.port /\ b # c => b.owner = Other /\ c.owner = Other
  BY DEF NetOK
<1>2. ReclaimGroupsockPriv(GroupsockPriv(n)) = n /\ GroupsockPriv(n).priv = Unshared
  BY DEF ReclaimGroupsockPriv, GroupsockPriv, Shared, Unshared, NoPriv
<1>3. MayBind(n, port, Unshared) => \A b \in n.bound : b.port # port
  BY DEF MayBind, Bound, Shared, Unshared
<1>4. s = IF port = 0 THEN [net |-> n, socket |-> TRUE]
          ELSE IF MayBind(n, port, Unshared) THEN [net |-> Bind(n, port, owner, Unshared), socket |-> TRUE]
          ELSE [net |-> n, socket |-> FALSE]
  BY <1>2 DEF SetupDatagramSocket
<1>5. g = [net |-> s.net, crashed |-> ~s.socket,
           gs |-> [port |-> port, socket |-> s.socket, dests |-> {NewDestRecord(0, port)}]]
  BY DEF NewGroupsock, NewSocket, JoinsGroup
<1> HIDE DEF g, s
<1>6. s.socket \in BOOLEAN
  BY <1>4
<1>7. /\ g.gs.port = port /\ g.gs.socket = s.socket /\ g.crashed = ~s.socket /\ g.net = s.net
      /\ RemoveAllDestinations(g.gs) = [port |-> port, socket |-> s.socket, dests |-> {}]
  BY <1>5 DEF RemoveAllDestinations
<1>8. ASSUME s.socket PROVE Holds(s.net, n, port, owner)
  <2>1. CASE port = 0
    BY <1>4, <2>1 DEF Holds
  <2>2. CASE port # 0
    <3>1. MayBind(n, port, Unshared) /\ s.net = Bind(n, port, owner, Unshared)
      BY <1>4, <1>8, <2>2
    <3>2. s.net = [priv |-> Unshared, bound |-> n.bound \cup {new}]
      BY <1>1, <3>1 DEF Bind
    <3>3. s.net.bound = n.bound \cup {new} /\ s.net.priv = Unshared
          /\ s.net = [priv |-> s.net.priv, bound |-> s.net.bound]
      BY <3>2
    <3>4. new.port = port /\ new.owner = owner /\ new.reuse = Unshared /\ owner # Sdp
      BY DEF Sdp
    <3>5. \A b \in n.bound : b.port # port
      BY <1>3, <3>1
    <3> HIDE DEF new
    <3>6. \A b \in s.net.bound : b.owner # Sdp /\ (b.owner # Other => b.reuse = Unshared)
      BY <1>1, <3>3, <3>4
    <3>7. \A b, c \in s.net.bound : b.port = c.port /\ b # c => b.owner = Other /\ c.owner = Other
      BY <1>1, <3>3, <3>4, <3>5
    <3> QED
      BY <3>3, <3>4, <3>6, <3>7 DEF Holds, NetOK
  <2> QED
    BY <2>1, <2>2
<1> QED
  BY <1>6, <1>7, <1>8 DEF g

(* The sockets of a stream hold their ports, and a pair is even and odd.     *)
PortsHeld(s, owner) ==
  /\ NetOK(s.net) /\ net.bound \subseteq s.net.bound
  /\ s.rtp \in Groupsocks /\ s.rtcp \in Groupsocks
  /\ \A p \in {s.rtp.port, s.rtcp.port} \ {0} :
       \E b \in s.net.bound : b.port = p /\ b.owner = owner
  /\ s.rtcp.port # 0 => s.rtp.port % 2 = 0 /\ s.rtcp.port = s.rtp.port + 1

LEMMA SocketsBound ==
  ASSUME NetOK(net), NEW t, NEW tcp \in BOOLEAN, NEW owner \in Nat \ {0},
         ~StreamSockets(t, tcp, owner).crashed
  PROVE  PortsHeld(StreamSockets(t, tcp, owner), owner)
<1> DEFINE s == StreamSockets(t, tcp, owner)
           n == NewNoReuse(net)
           first == NewGroupsock(n, 0, InitialPort, owner)
           second == NewGroupsock(first.net, 0, InitialPort + 1, owner)
           r1 == RemoveAllDestinations(first.gs)
           r2 == RemoveAllDestinations(second.gs)
           none == t.rtp_port = 0 /\ ~tcp
           single == t.rtcp_port = 0 /\ (t.rtp_port # 0 \/ tcp)
<1>1. InitialPort \in Nat /\ InitialPort % 2 = 0 /\ InitialPort + 1 # 0
  BY OnDemandAssumption DEF InitialPort
<1>2. NetOK(n) /\ n.priv = Unshared /\ n.bound = net.bound
  BY DEF NewNoReuse, GroupsockPriv, NetOK
<1>3. NoGroupsock \in Groupsocks /\ NoGroupsock.port = 0
  BY DEF NoGroupsock, Groupsocks
<1>4. s = IF none THEN [net |-> net, crashed |-> FALSE, rtp |-> NoGroupsock, rtcp |-> NoGroupsock]
          ELSE IF single THEN [net |-> first.net, crashed |-> first.crashed, rtp |-> r1, rtcp |-> NoGroupsock]
          ELSE [net |-> second.net, crashed |-> first.crashed \/ second.crashed, rtp |-> r1, rtcp |-> r2]
  BY DEF StreamSockets
<1> HIDE DEF n
<1>5. /\ first.gs.socket \in BOOLEAN
      /\ r1 = [port |-> InitialPort, socket |-> first.gs.socket, dests |-> {}]
      /\ ~first.crashed => Holds(first.net, n, InitialPort, owner)
  BY <1>1, <1>2, PortTaken
<1> HIDE DEF first
<1>6. ASSUME ~first.crashed
      PROVE  /\ second.gs.socket \in BOOLEAN
             /\ r2 = [port |-> InitialPort + 1, socket |-> second.gs.socket, dests |-> {}]
             /\ ~second.crashed => Holds(second.net, first.net, InitialPort + 1, owner)
  <2>1. NetOK(first.net) /\ first.net.priv = Unshared /\ InitialPort + 1 \in Nat
    BY <1>1, <1>5, <1>6 DEF Holds
  <2> QED
    BY <2>1, PortTaken
<1> HIDE DEF s, second, r1, r2
<1>7. CASE none
  <2>1. s.net = net /\ s.rtp = NoGroupsock /\ s.rtcp = NoGroupsock
    BY <1>4, <1>7
  <2> QED
    BY <1>3, <2>1 DEF s, PortsHeld
<1>8. CASE ~none /\ single
  <2>1. s.net = first.net /\ s.rtp = r1 /\ s.rtcp = NoGroupsock /\ ~first.crashed
    BY <1>4, <1>8 DEF s
  <2>2. Holds(first.net, n, InitialPort, owner) /\ r1 \in Groupsocks /\ r1.port = InitialPort
    BY <1>1, <1>5, <2>1 DEF Groupsocks
  <2> QED
    BY <1>2, <1>3, <2>1, <2>2 DEF s, Holds, PortsHeld
<1>9. CASE ~none /\ ~single
  <2>1. s.net = second.net /\ s.rtp = r1 /\ s.rtcp = r2 /\ ~first.crashed /\ ~second.crashed
    <3>1. s = [net |-> second.net, crashed |-> first.crashed \/ second.crashed,
               rtp |-> r1, rtcp |-> r2]
      BY <1>4, <1>9
    <3>2. s.net = second.net /\ s.rtp = r1 /\ s.rtcp = r2
          /\ s.crashed = (first.crashed \/ second.crashed)
      BY <3>1
    <3>3. ~s.crashed
      BY DEF s
    <3> QED
      BY <3>2, <3>3
  <2>2. Holds(first.net, n, InitialPort, owner) /\ r1 \in Groupsocks /\ r1.port = InitialPort
    BY <1>1, <1>5, <2>1 DEF Groupsocks
  <2>3. Holds(second.net, first.net, InitialPort + 1, owner)
        /\ r2 \in Groupsocks /\ r2.port = InitialPort + 1
    BY <1>1, <1>6, <2>1 DEF Groupsocks
  <2>4. net.bound \subseteq second.net.bound /\ NetOK(second.net)
    BY <1>2, <2>2, <2>3 DEF Holds
  <2>5. \A p \in {InitialPort, InitialPort + 1} \ {0} :
          \E b \in second.net.bound : b.port = p /\ b.owner = owner
    BY <2>2, <2>3 DEF Holds
  <2> QED
    BY <1>1, <2>1, <2>2, <2>3, <2>4, <2>5 DEF s, PortsHeld
<1> QED
  BY <1>7, <1>8, <1>9

------------------------------------------------------------------------------
(* SETUP. *)

LEMMA TrackNamed ==
  ASSUME NEW name
  PROVE  TrackOf(name) \in TrackIds \cup {NoTrack}
BY DEF TrackOf

LEMMA SetupTrackTyped ==
  ASSUME NEW url
  PROVE  SetupTrack(url) \in TrackIds \cup {NoTrack}
BY TrackNamed, OnDemandAssumption DEF SetupTrack, TrackIds

LEMMA StatesTyped ==
  ASSUME SessionsTyped, NEW s \in Sessions, client_sessions[s].status # "ended"
  PROVE  /\ StatesOf(s) \in [TrackIds -> TrackStates]
         /\ \A t \in TrackIds : StatesOf(s)[t].token # NoStream =>
              client_sessions[s].status = "bound" /\ StatesOf(s)[t] = client_sessions[s].states[t]
<1>1. CASE client_sessions[s].status = "new"
  BY <1>1 DEF StatesOf, TrackStates, NoStream
<1>2. CASE client_sessions[s].status = "bound"
  BY <1>2 DEF StatesOf, SessionsTyped
<1> QED
  BY <1>1, <1>2 DEF SessionsTyped

(* What a session was told stays so when its states are kept.                *)
LEMMA ToldKept ==
  ASSUME SessionsTyped, ToldInv, NEW s \in Sessions, client_sessions[s].status # "ended",
         NEW t \in TrackIds, NEW p \in {told[s][t].rtp, told[s][t].rtcp} \ {0}
  PROVE  StatesOf(s)[t].token # NoStream /\ StatesOf(s)[t] = client_sessions[s].states[t]
<1>1. client_sessions[s].status = "bound"
  BY DEF SessionsTyped, NoPorts
<1>2. StatesOf(s) = client_sessions[s].states
  BY <1>1 DEF StatesOf
<1> QED
  BY <1>2 DEF ToldInv, HeldBy

(* The objects of a stream are in the table. *)
LEMMA ObjectsListed ==
  ASSUME NEW m, NEW ss, Accounted(m, ss), NEW i \in DOMAIN ss
  PROVE  /\ ss[i] \in StreamStates /\ StreamOK(m, ss[i])
         /\ ss[i].source \in DOMAIN m.table /\ FileOf(m, ss[i].source) \in DOMAIN m.table
<1>1. ss[i] \in StreamStates /\ StreamOK(m, ss[i])
  BY DEF Accounted
<1>2. ss[i].source \in ObjectsOf(m, ss[i]) /\ FileOf(m, ss[i].source) \in ObjectsOf(m, ss[i])
  BY <1>1 DEF StreamOK, ObjectsOf
<1> QED
  BY <1>1, <1>2 DEF Accounted

(* A table that keeps the inputs of m keeps what a stream owns. *)
LEMMA ObjectsKept ==
  ASSUME NEW m, NEW ss, Accounted(m, ss), NEW i \in DOMAIN ss, NEW m2,
         \A n \in DOMAIN m.table : m2.table[n].input = m.table[n].input
  PROVE  ObjectsOf(m2, ss[i]) = ObjectsOf(m, ss[i]) /\ StreamOK(m2, ss[i])
<1>1. ss[i].source \in DOMAIN m.table /\ StreamOK(m, ss[i])
  BY ObjectsListed
<1>2. FileOf(m2, ss[i].source) = FileOf(m, ss[i].source)
  BY <1>1 DEF FileOf
<1> QED
  BY <1>1, <1>2 DEF ObjectsOf, StreamOK

(* With a stream more, and its objects more in the table, all is accounted. *)
LEMMA StreamAdded ==
  ASSUME NEW m, NEW ss, Accounted(m, ss), NEW m2, TableOK(m2), NEW st \in StreamStates,
         StreamOK(m2, st),
         \A n \in DOMAIN m.table : m2.table[n].input = m.table[n].input,
         \A n : n \in DOMAIN m2.table <=> n \in DOMAIN m.table \/ n \in ObjectsOf(m2, st)
  PROVE  Accounted(m2, Append(ss, st))
<1> DEFINE k == Len(ss) + 1
           s2 == Append(ss, st)
<1>1. /\ ss \in Seq(StreamStates) /\ Len(ss) \in Nat /\ DOMAIN ss = 1 .. Len(ss)
      /\ \A n : n \in DOMAIN m.table <=>
                  n \in Permanent \/ \E i \in DOMAIN ss : n \in ObjectsOf(m, ss[i])
  BY DEF Accounted
<1>2. /\ s2 \in Seq(StreamStates) /\ DOMAIN s2 = 1 .. k /\ s2[k] = st
      /\ \A i \in DOMAIN ss : s2[i] = ss[i]
  BY <1>1
<1>3. \A i : i \in DOMAIN s2 <=> i \in DOMAIN ss \/ i = k
  BY <1>1, <1>2
<1> HIDE DEF k, s2
<1>4. \A i \in DOMAIN ss : ObjectsOf(m2, ss[i]) = ObjectsOf(m, ss[i]) /\ StreamOK(m2, ss[i])
  BY ObjectsKept
<1>5. \A i \in DOMAIN s2 : StreamOK(m2, s2[i])
  BY <1>2, <1>3, <1>4
<1>6. ASSUME NEW n
      PROVE  n \in DOMAIN m2.table <=>
               n \in Permanent \/ \E i \in DOMAIN s2 : n \in ObjectsOf(m2, s2[i])
  <2>1. (\E i \in DOMAIN s2 : n \in ObjectsOf(m2, s2[i])) <=>
          (\E i \in DOMAIN ss : n \in ObjectsOf(m, ss[i])) \/ n \in ObjectsOf(m2, st)
    BY <1>2, <1>3, <1>4
  <2> QED
    BY <1>1, <2>1
<1> QED
  BY <1>2, <1>5, <1>6 DEF Accounted, s2

(* What get_stream_parameters() returns when it makes a stream. *)
Made(p, s, track) ==
  /\ NetOK(p.net) /\ net.bound \subseteq p.net.bound
  /\ p.token = Len(streams) + 1 /\ p.token \in DOMAIN p.streams
  /\ p.ports \in [rtp : Nat, rtcp : Nat]
  /\ \A port \in {p.ports.rtp, p.ports.rtcp} \ {0} :
       \E b \in p.net.bound : b.port = port /\ b.owner = p.token
  /\ p.ports.rtcp # 0 => p.ports.rtp % 2 = 0 /\ p.ports.rtcp = p.ports.rtp + 1
  /\ \A i \in DOMAIN streams : i \in DOMAIN p.streams /\ p.streams[i] = streams[i]
  /\ \A i \in DOMAIN p.streams : i \in DOMAIN streams \/ i = p.token
  /\ p.streams[p.token].session = s /\ p.streams[p.token].track = track
  /\ ~p.streams[p.token].are_currently_playing
  /\ Accounted(p.media, p.streams)

LEMMA StreamMade ==
  ASSUME NetOK(net), Accounted(media, streams), file \in BOOLEAN,
         NEW s \in Sessions, NEW track \in TrackIds, NEW t, NEW tcp \in BOOLEAN,
         ~GetStreamParameters(s, track, t, tcp).crashed
  PROVE  Made(GetStreamParameters(s, track, t, tcp), s, track)
<1> DEFINE p == MakeStream(s, track, t, tcp)
           k == Len(streams) + 1
           socks == StreamSockets(t, tcp, k)
           source == SourceIn(media)
           made == CreateNewStreamSource(media, file)
           sinks == IF ~socks.rtp.socket THEN [rtp |-> NoMedium, udp |-> NoMedium]
                    ELSE IF ~socks.rtcp.socket THEN [rtp |-> NoMedium, udp |-> GenerateNewName(made)]
                    ELSE [rtp |-> GenerateNewName(made), udp |-> NoMedium]
           obj == Medium("sink", NoMedium)
           m2 == IF socks.rtp.socket THEN AddNew(made, obj) ELSE made
           st == NewStream(s, track, source, sinks, socks)
<1>1. ~Reuses(track) /\ GetStreamParameters(s, track, t, tcp) = p
  BY DEF GetStreamParameters
<1>2. p = IF socks.crashed THEN [crashed |-> TRUE]
          ELSE [crashed |-> FALSE, net |-> socks.net, token |-> k, media |-> m2,
                streams |-> Append(streams, st),
                ports |-> [rtp |-> socks.rtp.port, rtcp |-> socks.rtcp.port]]
  BY DEF MakeStream, NewObject
<1>3. k \in Nat \ {0} /\ streams \in Seq(StreamStates) /\ DOMAIN streams = 1 .. k - 1
  BY DEF Accounted
<1> HIDE DEF p, socks, made, m2, st, sinks, obj
<1>4. ~socks.crashed
  BY <1>1, <1>2
<1>5. /\ p.net = socks.net /\ p.token = k /\ p.media = m2 /\ p.streams = Append(streams, st)
      /\ p.ports = [rtp |-> socks.rtp.port, rtcp |-> socks.rtcp.port]
  BY <1>2, <1>4
<1>6. /\ NetOK(socks.net) /\ net.bound \subseteq socks.net.bound
      /\ socks.rtp \in Groupsocks /\ socks.rtcp \in Groupsocks
      /\ \A port \in {socks.rtp.port, socks.rtcp.port} \ {0} :
           \E b \in socks.net.bound : b.port = port /\ b.owner = k
      /\ socks.rtcp.port # 0 => socks.rtp.port % 2 = 0 /\ socks.rtcp.port = socks.rtp.port + 1
  <2>1. k \in Nat \ {0} /\ ~StreamSockets(t, tcp, k).crashed
    BY <1>3, <1>4 DEF socks
  <2> HIDE DEF k
  <2>2. PortsHeld(socks, k)
    BY <2>1, SocketsBound DEF socks
  <2> QED
    BY <2>2 DEF PortsHeld
<1>7. /\ socks.rtp.socket \in BOOLEAN /\ socks.rtcp.socket \in BOOLEAN
      /\ socks.rtp.port \in Nat /\ socks.rtcp.port \in Nat
  BY <1>6 DEF Groupsocks
<1>8. TableOK(media) /\ media.next \in Nat \ {0} /\ source = media.next + 1
  BY DEF Accounted, TableOK, SourceIn, GenerateNewName
<1>9. WithSource(made, media) /\ TableOK(made) /\ made.next = media.next + 2
  BY <1>8, SourceMade DEF made, WithSource
<1>10. obj \in Objects /\ obj.input = 0
  BY NewMediumTyped DEF Kinds, NoMedium, obj
<1> HIDE DEF source
<1>11. sinks.rtp \in Nat /\ sinks.udp \in Nat
       /\ {sinks.rtp, sinks.udp} \ {0} = IF socks.rtp.socket THEN {made.next} ELSE {}
  <2>1. made.next \in Nat \ {0}
    BY <1>8, <1>9
  <2> QED
    BY <1>7, <2>1 DEF sinks, NoMedium, GenerateNewName
<1>12. st \in StreamStates /\ st.session = s /\ st.track = track /\ ~st.are_currently_playing
       /\ st.source = source /\ st.sink = sinks.rtp /\ st.udp_sink = sinks.udp
       /\ st.rtcp_instance = NoMedium /\ st.fragmenter = NoMedium
  BY <1>6, <1>8, <1>11 DEF st, NewStream, StreamStates, NoMedium
<1>13. /\ TableOK(m2)
       /\ \A n : n \in DOMAIN m2.table <=>
                   n \in DOMAIN media.table \/ n \in {media.next, source} \/ (socks.rtp.socket /\ n = made.next)
       /\ m2.table[source].input = media.next
       /\ \A n \in DOMAIN media.table : m2.table[n] = media.table[n]
  <2>1. CASE ~socks.rtp.socket
    BY <1>8, <1>9, <2>1 DEF m2, WithSource
  <2>2. CASE socks.rtp.socket
    <3>1. OneMore(m2, made, obj)
      <4>1. obj.input < made.next
        BY <1>8, <1>9, <1>10
      <4> QED
        BY <1>9, <1>10, <2>2, <4>1, AddNewOK DEF m2
    <3> QED
      BY <1>8, <1>9, <2>2, <3>1 DEF OneMore, WithSource
  <2> QED
    BY <1>7, <2>1, <2>2
<1>14. FileOf(m2, source) = media.next /\ StreamOK(m2, st)
  BY <1>8, <1>12, <1>13 DEF FileOf, StreamOK, NoMedium
<1>15. \A n : n \in ObjectsOf(m2, st) <=>
                n \in {media.next, source} \/ (socks.rtp.socket /\ n = made.next)
  <2>1. ObjectsOf(m2, st) = {source, media.next, sinks.rtp, sinks.udp} \ {0}
    BY <1>12, <1>14 DEF ObjectsOf, NoMedium
  <2>2. source # 0 /\ media.next # 0
    BY <1>8
  <2>3. \A n : n \in {sinks.rtp, sinks.udp} \ {0} <=> socks.rtp.socket /\ n = made.next
    BY <1>7, <1>11
  <2> QED
    BY <2>1, <2>2, <2>3
<1>16. Accounted(m2, Append(streams, st))
  <2>1. \A n : n \in DOMAIN m2.table <=> n \in DOMAIN media.table \/ n \in ObjectsOf(m2, st)
    BY <1>13, <1>15
  <2>2. \A n \in DOMAIN media.table : m2.table[n].input = media.table[n].input
    BY <1>13
  <2>3. TableOK(m2)
    BY <1>13
  <2> QED
    BY <1>12, <1>14, <2>1, <2>2, <2>3, StreamAdded
<1>17. /\ DOMAIN Append(streams, st) = 1 .. k /\ Append(streams, st)[k] = st
       /\ \A i \in 1 .. k - 1 : Append(streams, st)[i] = streams[i]
  BY <1>3, <1>12
<1>18. p.ports \in [rtp : Nat, rtcp : Nat] /\ p.ports.rtp = socks.rtp.port /\ p.ports.rtcp = socks.rtcp.port
  BY <1>5, <1>7
<1>19. /\ p.token \in DOMAIN p.streams /\ p.streams[p.token] = st
       /\ \A i \in DOMAIN streams : i \in DOMAIN p.streams /\ p.streams[i] = streams[i]
       /\ \A i \in DOMAIN p.streams : i \in DOMAIN streams \/ i = p.token
  BY <1>3, <1>5, <1>17
<1> HIDE DEF k
<1>20. Made(p, s, track)
  BY <1>5, <1>6, <1>12, <1>16, <1>18, <1>19 DEF Made, k
<1> QED
  BY <1>1, <1>20

(* A destination under the session joins those of the track. *)
LEMMA DestinationAdded ==
  ASSUME destinations \in [TrackIds -> Destinations], NEW s \in Sessions,
         NEW track \in TrackIds, NEW tcp \in BOOLEAN
  PROVE  /\ WithDestination(s, track, tcp) \in [TrackIds -> Destinations]
         /\ s \in DOMAIN WithDestination(s, track, tcp)[track]
         /\ \A t \in TrackIds : DOMAIN destinations[t] \subseteq DOMAIN WithDestination(s, track, tcp)[t]
<1> DEFINE old == destinations[track]
           d == [is_tcp |-> tcp]
           new == [x \in {s} \cup DOMAIN old |-> IF x = s THEN d ELSE old[x]]
           w == WithDestination(s, track, tcp)
<1>1. PICK S \in SUBSET Sessions : old \in [S -> [is_tcp : BOOLEAN]]
  BY DEF Destinations
<1>2. d \in [is_tcp : BOOLEAN]
  OBVIOUS
<1>4. w = [destinations EXCEPT ![track] = new]
  BY DEF WithDestination
<1>5. new \in [{s} \cup S -> [is_tcp : BOOLEAN]] /\ {s} \cup S \in SUBSET Sessions
  BY <1>1, <1>2
<1>6. new \in Destinations /\ DOMAIN new = {s} \cup DOMAIN old
  <2> HIDE DEF new
  <2>1. new \in Destinations
    BY <1>5 DEF Destinations
  <2> QED
    BY <2>1 DEF new
<1> HIDE DEF new, w
<1>7. w \in [TrackIds -> Destinations] /\ w[track] = new
      /\ \A t \in TrackIds : t # track => w[t] = destinations[t]
  BY <1>4, <1>6
<1> QED
  BY <1>6, <1>7 DEF w

(* What a step leaves alone. *)
LEMMA OthersUnchanged ==
  ASSUME IInv, process' \in {"running", "crashed"}, file' \in BOOLEAN,
         UNCHANGED <<net, media, streams, client_sessions, destinations, told>>,
         played \subseteq played'
  PROVE  IInv'
<1>1. NetOK(net)' /\ Accounted(media, streams)'
  BY DEF IInv, NetOK, Accounted, TableOK, StreamOK, FileOf, ObjectsOf
<1>2. SessionsTyped'
  BY DEF IInv, SessionsTyped
<1>3. TokensInv' /\ ToldInv'
  BY DEF IInv, TokensInv, ToldInv, HeldBy
<1>4. PlayedAsAsked'
  BY DEF IInv, PlayedAsAsked
<1> QED
  BY <1>1, <1>2, <1>3, <1>4 DEF IInv

(* A session gets its states, and what it is told. *)
LEMMA SessionTyped ==
  ASSUME SessionsTyped, NEW s \in Sessions, NEW states \in [TrackIds -> TrackStates],
         client_sessions' = [client_sessions EXCEPT ![s] = [status |-> "bound", states |-> states]],
         told' \in [Sessions -> [TrackIds -> [rtp : Nat, rtcp : Nat]]],
         \A x \in Sessions : x # s => told'[x] = told[x],
         destinations' \in [TrackIds -> Destinations],
         process' = "running", file' = file
  PROVE  /\ SessionsTyped'
         /\ client_sessions'[s].status = "bound" /\ client_sessions'[s].states = states
         /\ \A x \in Sessions : x # s => client_sessions'[x] = client_sessions[x]
<1> DEFINE new == [status |-> "bound", states |-> states]
<1>1. DOMAIN client_sessions = Sessions
      /\ \A x \in Sessions : client_sessions[x] = [status |-> client_sessions[x].status,
                                                   states |-> client_sessions[x].states]
  BY DEF SessionsTyped
<1>2. new.status = "bound" /\ new.states = states
      /\ new = [status |-> new.status, states |-> new.states]
  OBVIOUS
<1> HIDE DEF new
<1>3. DOMAIN client_sessions' = Sessions /\ client_sessions'[s] = new
      /\ \A x \in Sessions : x # s => client_sessions'[x] = client_sessions[x]
  BY <1>1 DEF new
<1>4. client_sessions' = [x \in Sessions |-> client_sessions'[x]]
  BY <1>1
<1>5. \A x \in Sessions : client_sessions'[x] = [status |-> client_sessions'[x].status,
                                                 states |-> client_sessions'[x].states]
  BY <1>1, <1>2, <1>3
<1>6. client_sessions' = [x \in Sessions |-> [status |-> client_sessions'[x].status,
                                              states |-> client_sessions'[x].states]]
  BY <1>4, <1>5
<1>7. \A x \in Sessions :
        \/ client_sessions'[x].status = "bound" /\ client_sessions'[x].states \in [TrackIds -> TrackStates]
        \/ client_sessions'[x].status \in {"new", "ended"} /\ client_sessions'[x].states = << >>
           /\ told'[x] = [t \in TrackIds |-> NoPorts]
  BY <1>2, <1>3 DEF SessionsTyped
<1>8. SessionsTyped'
  BY <1>3, <1>6, <1>7 DEF SessionsTyped
<1> QED
  BY <1>2, <1>3, <1>8

(* The states of a session may be made when no track is named.               *)
LEMMA StatesMade ==
  ASSUME IInv, process = "running", NEW s \in Sessions, client_sessions[s].status # "ended",
         client_sessions' = [client_sessions EXCEPT ![s] = [status |-> "bound", states |-> StatesOf(s)]],
         UNCHANGED <<process, file, net, media, sdp_lines, streams, last_stream_token,
                     destinations, told, played>>
  PROVE  IInv'
<1>1. SessionsTyped /\ TokensInv /\ ToldInv
  BY DEF IInv
<1>2. /\ StatesOf(s) \in [TrackIds -> TrackStates]
      /\ \A t \in TrackIds : StatesOf(s)[t].token # NoStream =>
           client_sessions[s].status = "bound" /\ StatesOf(s)[t] = client_sessions[s].states[t]
  BY <1>1, StatesTyped
<1>3. /\ SessionsTyped'
      /\ client_sessions'[s].status = "bound" /\ client_sessions'[s].states = StatesOf(s)
      /\ \A x \in Sessions : x # s => client_sessions'[x] = client_sessions[x]
  BY <1>1, <1>2, SessionTyped DEF SessionsTyped
<1>4. TokensInv'
  BY <1>1, <1>2, <1>3 DEF TokensInv
<1>5. ToldInv'
  <2>1. ASSUME NEW t \in TrackIds, NEW p \in {told[s][t].rtp, told[s][t].rtcp} \ {0}
        PROVE  StatesOf(s)[t].token # NoStream /\ StatesOf(s)[t] = client_sessions[s].states[t]
    BY <1>1, <2>1, ToldKept
  <2>2. ASSUME NEW x \in Sessions, NEW t \in TrackIds,
               NEW p \in {told[x][t].rtp, told[x][t].rtcp} \ {0}
        PROVE  client_sessions'[x].states[t] = client_sessions[x].states[t]
    BY <1>3, <2>1, <2>2
  <2> QED
    BY <1>1, <2>2 DEF ToldInv, HeldBy
<1>6. NetOK(net)' /\ Accounted(media, streams)' /\ PlayedAsAsked'
  BY DEF IInv, NetOK, Accounted, TableOK, StreamOK, FileOf, ObjectsOf, PlayedAsAsked
<1> QED
  BY <1>3, <1>4, <1>5, <1>6 DEF IInv

(* A SETUP that makes a stream: its token, destination and ports go together. *)
LEMMA StreamSetUp ==
  ASSUME IInv, process = "running", NEW s \in Sessions, client_sessions[s].status # "ended",
         NEW track \in TrackIds, NEW tcp \in BOOLEAN, NEW t, NEW p, Made(p, s, track),
         client_sessions' = [client_sessions EXCEPT ![s] =
           [status |-> "bound",
            states |-> [StatesOf(s) EXCEPT ![track] = [token |-> p.token, tcp |-> tcp]]]],
         net' = p.net, media' = p.media, streams' = p.streams,
         destinations' = WithDestination(s, track, tcp),
         told' = [told EXCEPT ![s][track] = IF t.mode = "tcp" THEN NoPorts ELSE p.ports],
         UNCHANGED <<process, file, sdp_lines, played>>
  PROVE  IInv'
<1> DEFINE entry == [token |-> p.token, tcp |-> tcp]
           states == [StatesOf(s) EXCEPT ![track] = entry]
           ports == IF t.mode = "tcp" THEN NoPorts ELSE p.ports
<1>1. SessionsTyped /\ TokensInv /\ ToldInv /\ PlayedAsAsked /\ Accounted(media, streams)
      /\ told \in [Sessions -> [TrackIds -> [rtp : Nat, rtcp : Nat]]]
      /\ destinations \in [TrackIds -> Destinations]
  BY DEF IInv, SessionsTyped
<1>2. /\ StatesOf(s) \in [TrackIds -> TrackStates]
      /\ \A x \in TrackIds : StatesOf(s)[x].token # NoStream =>
           client_sessions[s].status = "bound" /\ StatesOf(s)[x] = client_sessions[s].states[x]
  BY <1>1, StatesTyped
<1>3. p.token \in Nat \ {0} /\ p.token = Len(streams) + 1 /\ p.ports \in [rtp : Nat, rtcp : Nat]
  BY <1>1 DEF Made, Accounted
<1>4. entry \in TrackStates /\ entry.token = p.token
  BY <1>3 DEF TrackStates
<1> HIDE DEF entry
<1>5. states \in [TrackIds -> TrackStates] /\ states[track] = entry
      /\ \A x \in TrackIds : x # track => states[x] = StatesOf(s)[x]
  BY <1>2, <1>4
<1>6. ports \in [rtp : Nat, rtcp : Nat]
      /\ (ports = NoPorts \/ ports = p.ports)
  BY <1>3 DEF NoPorts
<1> HIDE DEF states, ports
<1>7. /\ told' \in [Sessions -> [TrackIds -> [rtp : Nat, rtcp : Nat]]]
      /\ told'[s][track] = ports
      /\ \A x \in Sessions : x # s => told'[x] = told[x]
      /\ \A x \in TrackIds : x # track => told'[s][x] = told[s][x]
  BY <1>1, <1>6 DEF ports
<1>8. /\ destinations' \in [TrackIds -> Destinations] /\ s \in DOMAIN destinations'[track]
      /\ \A x \in TrackIds : DOMAIN destinations[x] \subseteq DOMAIN destinations'[x]
  BY <1>1, DestinationAdded
<1>9. /\ SessionsTyped'
      /\ client_sessions'[s].status = "bound" /\ client_sessions'[s].states = states
      /\ \A x \in Sessions : x # s => client_sessions'[x] = client_sessions[x]
  <2>1. client_sessions' = [client_sessions EXCEPT ![s] = [status |-> "bound", states |-> states]]
    BY DEF states, entry
  <2>2. process' = "running" /\ file' = file
    OBVIOUS
  <2>3. \A x \in Sessions : x # s => told'[x] = told[x]
    BY <1>7
  <2> QED
    BY <1>1, <1>5, <1>7, <1>8, <2>1, <2>2, <2>3, SessionTyped
<1>10. /\ \A i \in DOMAIN streams : i \in DOMAIN streams' /\ streams'[i] = streams[i]
       /\ \A i \in DOMAIN streams' : i \in DOMAIN streams \/ i = p.token
       /\ p.token \in DOMAIN streams' /\ streams'[p.token].session = s
       /\ streams'[p.token].track = track /\ ~streams'[p.token].are_currently_playing
  BY DEF Made
<1>11. TokensInv'
  <2>1. ASSUME NEW x \in Sessions, NEW y \in TrackIds, client_sessions'[x].status = "bound",
               client_sessions'[x].states[y].token # NoStream
        PROVE  LET k == client_sessions'[x].states[y].token
               IN  k \in DOMAIN streams' /\ streams'[k].track = y
                   /\ streams'[k].session = x /\ x \in DOMAIN destinations'[y]
    <3>1. CASE x = s /\ y = track
      BY <1>4, <1>5, <1>8, <1>9, <1>10, <3>1
    <3>2. CASE ~(x = s /\ y = track)
      <4>1. client_sessions[x].status = "bound"
            /\ client_sessions'[x].states[y].token = client_sessions[x].states[y].token
        BY <1>2, <1>5, <1>9, <2>1, <3>2
      <4> DEFINE k == client_sessions[x].states[y].token
      <4>2. k \in DOMAIN streams /\ streams[k].track = y
            /\ streams[k].session = x /\ x \in DOMAIN destinations[y]
        BY <1>1, <2>1, <4>1 DEF TokensInv
      <4> QED
        BY <1>8, <1>10, <4>1, <4>2
    <3> QED
      BY <3>1, <3>2
  <2> QED
    BY <2>1 DEF TokensInv
<1>12. ToldInv'
  <2>1. /\ net.bound \subseteq net'.bound
        /\ \A port \in {p.ports.rtp, p.ports.rtcp} \ {0} :
             \E b \in net'.bound : b.port = port /\ b.owner = p.token
        /\ p.ports.rtcp # 0 => p.ports.rtp % 2 = 0 /\ p.ports.rtcp = p.ports.rtp + 1
    BY DEF Made
  <2>2. ASSUME NEW x \in Sessions, NEW y \in TrackIds
        PROVE  HeldBy(net', told'[x][y], client_sessions'[x].states[y].token)
    <3>1. CASE x = s /\ y = track
      <4>1. told'[x][y] = ports /\ client_sessions'[x].states[y].token = p.token
        BY <1>4, <1>5, <1>7, <1>9, <3>1
      <4>2. HeldBy(net', NoPorts, p.token)
        BY DEF HeldBy, NoPorts
      <4>3. HeldBy(net', p.ports, p.token)
        BY <1>3, <2>1 DEF HeldBy, NoStream
      <4> QED
        BY <1>6, <4>1, <4>2, <4>3
    <3>2. CASE ~(x = s /\ y = track)
      <4>1. told'[x][y] = told[x][y]
        BY <1>7, <3>2
      <4>2. ASSUME NEW q \in {told[x][y].rtp, told[x][y].rtcp} \ {0}
            PROVE  client_sessions'[x].states[y].token = client_sessions[x].states[y].token
        <5>1. CASE x # s
          BY <1>9, <5>1
        <5>2. CASE x = s
          <6>1. StatesOf(s)[y] = client_sessions[s].states[y]
            BY <1>1, <4>2, <5>2, ToldKept
          <6> QED
            BY <1>5, <1>9, <3>2, <5>2, <6>1
        <5> QED
          BY <5>1, <5>2
      <4>3. HeldBy(net, told[x][y], client_sessions[x].states[y].token)
        BY <1>1 DEF ToldInv
      <4> DEFINE old == told[x][y]
                 k == client_sessions[x].states[y].token
                 k2 == client_sessions'[x].states[y].token
      <4>4. ASSUME NEW q \in {old.rtp, old.rtcp} \ {0}
            PROVE  k2 # NoStream /\ \E b \in net'.bound : b.port = q /\ b.owner = k2
        <5>1. k2 = k
          BY <4>2
        <5>2. k # NoStream /\ \E b \in net.bound : b.port = q /\ b.owner = k
          BY <4>3 DEF HeldBy
        <5> HIDE DEF k, k2
        <5> QED
          BY <2>1, <5>1, <5>2
      <4>5. old.rtcp # 0 => old.rtp % 2 = 0 /\ old.rtcp = old.rtp + 1
        BY <4>3 DEF HeldBy
      <4> HIDE DEF old, k2
      <4>6. HeldBy(net', old, k2)
        BY <4>4, <4>5 DEF HeldBy
      <4> QED
        BY <4>1, <4>6 DEF old, k2
    <3> QED
      BY <3>1, <3>2
  <2> QED
    BY <2>2 DEF ToldInv
<1>13. NetOK(net)' /\ Accounted(media, streams)'
  <2>1. NetOK(net') /\ Accounted(media', streams')
    BY DEF Made
  <2> QED
    BY <2>1 DEF NetOK, Accounted, TableOK, StreamOK, FileOf, ObjectsOf
<1>14. PlayedAsAsked'
  BY <1>1, <1>10 DEF PlayedAsAsked
<1> QED
  BY <1>9, <1>11, <1>12, <1>13, <1>14 DEF IInv

LEMMA SetupKeeps ==
  ASSUME IInv, NEW s \in Sessions, NEW url, NEW fields, Setup(s, url, fields)
  PROVE  IInv'
<1> DEFINE track == SetupTrack(url)
           t == ParseTransport(fields)
           tcp == t.mode = "tcp" \/ StatesOf(s)[track].tcp
           p == GetStreamParameters(s, track, t, tcp)
<1>1. process = "running" /\ client_sessions[s].status # "ended"
  BY DEF Setup
<1>2. CASE track = NoTrack
  <2>1. client_sessions' = [client_sessions EXCEPT ![s] = [status |-> "bound", states |-> StatesOf(s)]]
        /\ UNCHANGED <<process, file, net, media, sdp_lines, streams, last_stream_token,
                       destinations, told, played>>
    BY <1>2 DEF Setup
  <2> QED
    BY <1>1, <2>1, StatesMade
<1>3. CASE track # NoTrack
  <2>1. track \in TrackIds
    BY <1>3, SetupTrackTyped
  <2>2. tcp \in BOOLEAN
    OBVIOUS
  <2>3. CASE p.crashed
    <3>1. Crash
      BY <1>3, <2>3 DEF Setup
    <3> QED
      BY <3>1, OthersUnchanged DEF Crash, IInv, SessionsTyped
  <2>4. CASE ~p.crashed
    <3>1. Made(p, s, track)
      BY <2>1, <2>2, <2>4, StreamMade DEF IInv, SessionsTyped
    <3>2. /\ client_sessions' = [client_sessions EXCEPT ![s] =
               [status |-> "bound",
                states |-> [StatesOf(s) EXCEPT ![track] = [token |-> p.token, tcp |-> tcp]]]]
          /\ net' = p.net /\ media' = p.media /\ streams' = p.streams
          /\ destinations' = WithDestination(s, track, tcp)
          /\ told' = [told EXCEPT ![s][track] = IF t.mode = "tcp" THEN NoPorts ELSE p.ports]
          /\ UNCHANGED <<process, file, sdp_lines, played>>
      BY <1>3, <2>4 DEF Setup
    <3> HIDE DEF track, t, tcp, p
    <3> QED
      BY <1>1, <2>1, <2>2, <3>1, <3>2, StreamSetUp
  <2> QED
    BY <2>3, <2>4
<1> QED
  BY <1>2, <1>3

(* Objects that change in place, and streams that keep theirs. *)
SameOwner(st2, st) ==
  /\ st2.source = st.source /\ st2.sink = st.sink /\ st2.udp_sink = st.udp_sink
  /\ st2.rtcp_instance = st.rtcp_instance /\ st2.fragmenter = st.fragmenter
  /\ st.are_currently_playing => st2.are_currently_playing

LEMMA StillAccounted ==
  ASSUME NEW m, NEW ss, Accounted(m, ss), NEW m2, TableOK(m2),
         DOMAIN m2.table = DOMAIN m.table,
         \A n \in DOMAIN m.table : m2.table[n].input = m.table[n].input,
         NEW ss2 \in Seq(StreamStates), DOMAIN ss2 = DOMAIN ss,
         \A i \in DOMAIN ss : SameOwner(ss2[i], ss[i])
  PROVE  Accounted(m2, ss2)
<1>1. ASSUME NEW i \in DOMAIN ss
      PROVE  StreamOK(m2, ss2[i]) /\ ObjectsOf(m2, ss2[i]) = ObjectsOf(m, ss[i])
  <2>1. ObjectsOf(m2, ss[i]) = ObjectsOf(m, ss[i]) /\ StreamOK(m2, ss[i])
    BY ObjectsKept
  <2>2. SameOwner(ss2[i], ss[i])
    OBVIOUS
  <2>3. ObjectsOf(m2, ss2[i]) = ObjectsOf(m2, ss[i])
    BY <2>2 DEF SameOwner, ObjectsOf
  <2> QED
    BY <2>1, <2>2, <2>3 DEF SameOwner, StreamOK
<1>2. \A n : n \in DOMAIN m.table <=>
               n \in Permanent \/ \E i \in DOMAIN ss : n \in ObjectsOf(m, ss[i])
  BY DEF Accounted
<1> QED
  BY <1>1, <1>2 DEF Accounted

------------------------------------------------------------------------------
(* Counting up to n. *)

Below == {p \in Nat \X Nat : p[1] < p[2]}

LEMMA SmallestNumber ==
  ASSUME NEW T, T \subseteq Nat, T # {}
  PROVE  \E x \in T : \A y \in T : x <= y
<1>1. IsWellFoundedOn(Below, Nat)
  BY NatLessThanWellFounded DEF OpToRel, Below
<1>2. PICK x \in T : \A y \in T : ~ (<<y, x>> \in Below)
  BY <1>1, WFMin
<1>3. ASSUME NEW y \in T PROVE x <= y
  <2>1. x \in Nat /\ y \in Nat
    OBVIOUS
  <2>2. <<y, x>> \in Nat \X Nat /\ <<y, x>>[1] = y /\ <<y, x>>[2] = x
    BY <2>1
  <2>3. y < x => <<y, x>> \in Below
    BY <2>2 DEF Below
  <2> QED
    BY <1>2, <2>1, <2>3
<1> QED
  BY <1>3

LEMMA CountingUp ==
  ASSUME NEW n \in Nat, NEW S, 0 \in S, \A i \in 1 .. n : i - 1 \in S => i \in S
  PROVE  0 .. n \subseteq S
<1> DEFINE T == {i \in 0 .. n : i \notin S}
<1> SUFFICES ASSUME T # {} PROVE FALSE
  OBVIOUS
<1>1. PICK x \in T : \A y \in T : x <= y
  <2>1. T \subseteq Nat
    OBVIOUS
  <2> HIDE DEF T
  <2> QED
    BY <2>1, SmallestNumber
<1>2. x # 0 /\ x \in 1 .. n
  OBVIOUS
<1>3. x - 1 \in 0 .. n /\ x - 1 \notin T
  BY <1>1, <1>2
<1> QED
  BY <1>2, <1>3

------------------------------------------------------------------------------
(* DESCRIBE goes through the tracks by a recursive function, which exists     *)
(* because it does for the first tracks.                                     *)

DescribesUpTo(f, n) ==
  f = [t \in 0 .. n |-> IF t = 0 THEN [net |-> net, media |-> media] ELSE SdpLines(f[t - 1], t)]

LEMMA DescribeSteps ==
  ASSUME NEW n \in Nat, NEW f, DescribesUpTo(f, n)
  PROVE  /\ f[0] = [net |-> net, media |-> media]
         /\ \A t \in 1 .. n : f[t] = SdpLines(f[t - 1], t)
<1> DEFINE F(t) == IF t = 0 THEN [net |-> net, media |-> media] ELSE SdpLines(f[t - 1], t)
<1>1. ASSUME NEW t \in 0 .. n PROVE f[t] = F(t)
  <2> DEFINE g == [j \in 0 .. n |-> F(j)]
  <2>1. f = g
    BY DEF DescribesUpTo
  <2>2. g[t] = F(t)
    OBVIOUS
  <2> HIDE DEF g, F
  <2> QED
    BY <2>1, <2>2
<1>2. 0 \in 0 .. n /\ \A t \in 1 .. n : t \in 0 .. n /\ t # 0
  OBVIOUS
<1> QED
  BY <1>1, <1>2

LEMMA DescribeExists ==
  ASSUME NEW n \in Nat
  PROVE  \E f : DescribesUpTo(f, n)
<1> DEFINE S == {m \in Nat : \E f : DescribesUpTo(f, m)}
           start == [net |-> net, media |-> media]
<1>1. 0 \in S
  <2> DEFINE f == [t \in 0 .. 0 |-> start]
             F(t) == IF t = 0 THEN start ELSE SdpLines(f[t - 1], t)
  <2>1. \A t \in 0 .. 0 : t = 0
    OBVIOUS
  <2>2. \A t \in 0 .. 0 : F(t) = start
    BY <2>1
  <2>3. f = [t \in 0 .. 0 |-> F(t)]
    <3> HIDE DEF F, start
    <3> QED
      BY <2>2
  <2>4. DescribesUpTo(f, 0)
    BY <2>3 DEF DescribesUpTo
  <2> HIDE DEF f
  <2> QED
    BY <2>4
<1>2. ASSUME NEW i \in 1 .. n, i - 1 \in S PROVE i \in S
  <2>1. PICK f : DescribesUpTo(f, i - 1)
    BY <1>2
  <2> DEFINE last == SdpLines(f[i - 1], i)
             g == [t \in 0 .. i |-> IF t = i THEN last ELSE f[t]]
             G(t) == IF t = 0 THEN start ELSE SdpLines(g[t - 1], t)
  <2>2. g[i] = last /\ (\A t \in 0 .. i - 1 : g[t] = f[t]) /\ g = [t \in 0 .. i |-> g[t]]
    OBVIOUS
  <2>3. f[0] = start /\ \A t \in 1 .. i - 1 : f[t] = SdpLines(f[t - 1], t)
    <3>1. i - 1 \in Nat
      OBVIOUS
    <3> QED
      BY <2>1, <3>1, DescribeSteps
  <2> HIDE DEF g, start
  <2>4. ASSUME NEW t \in 0 .. i PROVE g[t] = G(t)
    <3>1. CASE t = 0
      BY <2>2, <2>3, <3>1
    <3>2. CASE t \in 1 .. i - 1
      <4>1. t \in 0 .. i - 1 /\ t - 1 \in 0 .. i - 1 /\ t # 0
        BY <3>2
      <4>2. g[t] = f[t] /\ g[t - 1] = f[t - 1]
        BY <2>2, <4>1
      <4> QED
        BY <2>3, <3>2, <4>1, <4>2
    <3>3. CASE t = i
      <4>1. i - 1 \in 0 .. i - 1 /\ t # 0
        BY <3>3
      <4>2. g[i - 1] = f[i - 1]
        BY <2>2, <4>1
      <4> QED
        BY <2>2, <3>3, <4>1, <4>2
    <3> QED
      BY <3>1, <3>2, <3>3
  <2>5. g = [t \in 0 .. i |-> G(t)]
    <3> HIDE DEF G
    <3> QED
      BY <2>2, <2>4
  <2>6. DescribesUpTo(g, i)
    BY <2>5 DEF DescribesUpTo, start
  <2> QED
    BY <2>6
<1>3. 0 .. n \subseteq S
  <2> HIDE DEF S
  <2> QED
    BY <1>1, <1>2, CountingUp
<1> QED
  BY <1>3

(* A description leaves the ports and the table as they are. *)
Undisturbed(acc) ==
  /\ acc.net = [priv |-> acc.net.priv, bound |-> acc.net.bound] /\ acc.net.bound = net.bound
  /\ SameTable(acc.media, media)

LEMMA DescribedUndisturbed ==
  ASSUME NetOK(net), TableOK(media), file \in BOOLEAN
  PROVE  Undisturbed(Described)
<1> DEFINE n == NumTracks
           upto == CHOOSE f : DescribesUpTo(f, n)
           S == {t \in 0 .. n : Undisturbed(upto[t])}
<1>1. n \in Nat
  BY OnDemandAssumption
<1>2. DescribesUpTo(upto, n)
  <2>1. \E f : DescribesUpTo(f, n)
    BY <1>1, DescribeExists
  <2> QED
    BY <2>1
<1>3. Described = upto[n]
  BY DEF Described, DescribesUpTo
<1> HIDE DEF upto, n
<1>4. /\ upto[0] = [net |-> net, media |-> media]
      /\ \A t \in 1 .. n : upto[t] = SdpLines(upto[t - 1], t)
  BY <1>1, <1>2, DescribeSteps
<1>5. 0 \in S
  <2>1. upto[0].net = net /\ upto[0].media = media
    BY <1>4
  <2>2. Undisturbed(upto[0])
    BY <2>1 DEF Undisturbed, NetOK, SameTable
  <2> QED
    BY <1>1, <2>2
<1>6. ASSUME NEW t \in 1 .. n, t - 1 \in S PROVE t \in S
  <2> DEFINE acc == upto[t - 1]
             acc2 == SdpLines(acc, t)
  <2>1. Undisturbed(acc) /\ upto[t] = acc2
    BY <1>4, <1>6
  <2> HIDE DEF acc
  <2>2. NetOK(acc.net) /\ TableOK(acc.media)
    BY <2>1 DEF Undisturbed, SameTable, NetOK
  <2>3. acc2.net = [priv |-> acc2.net.priv, bound |-> acc2.net.bound]
        /\ acc2.net.bound = acc.net.bound
    BY <2>2, SdpLinesLeavePorts
  <2>4. SameTable(acc2.media, acc.media)
    BY <2>2, SdpLinesLeaveTable
  <2> HIDE DEF acc2
  <2>5. Undisturbed(acc2)
    BY <2>1, <2>3, <2>4 DEF Undisturbed, SameTable
  <2> QED
    BY <1>1, <2>1, <2>5
<1>7. 0 .. n \subseteq S
  <2> HIDE DEF S
  <2> QED
    BY <1>1, <1>5, <1>6, CountingUp
<1> QED
  BY <1>1, <1>3, <1>7

LEMMA DescribeKeeps ==
  ASSUME IInv, Describe
  PROVE  IInv'
<1>1. NetOK(net) /\ Accounted(media, streams) /\ file \in BOOLEAN
  BY DEF IInv, SessionsTyped
<1>2. /\ net' = Described.net /\ media' = Described.media
      /\ UNCHANGED <<process, file, streams, client_sessions, destinations, told, played>>
  BY DEF Describe
<1>3. Undisturbed(Described)
  BY <1>1, DescribedUndisturbed DEF Accounted
<1>4. /\ net' = [priv |-> net'.priv, bound |-> net'.bound] /\ net'.bound = net.bound
      /\ SameTable(media', media)
  BY <1>2, <1>3 DEF Undisturbed
<1>5. NetOK(net')
  BY <1>1, <1>4 DEF NetOK
<1>6. Accounted(media', streams)
  <2>1. /\ TableOK(media') /\ DOMAIN media'.table = DOMAIN media.table
        /\ \A n \in DOMAIN media.table : media'.table[n].input = media.table[n].input
        /\ streams \in Seq(StreamStates) /\ \A i \in DOMAIN streams : SameOwner(streams[i], streams[i])
    BY <1>1, <1>4 DEF SameTable, Accounted, SameOwner
  <2> QED
    BY <1>1, <2>1, StillAccounted
<1>7. NetOK(net)' /\ Accounted(media, streams)'
  BY <1>2, <1>5, <1>6 DEF NetOK, Accounted, TableOK, StreamOK, FileOf, ObjectsOf
<1>8. SessionsTyped' /\ TokensInv'
  BY <1>2 DEF IInv, SessionsTyped, TokensInv
<1>9. ToldInv'
  <2>1. ASSUME NEW s \in Sessions, NEW t \in TrackIds
        PROVE  HeldBy(net', told'[s][t], client_sessions'[s].states[t].token)
    <3> DEFINE k == client_sessions[s].states[t].token
               ports == told[s][t]
    <3>1. HeldBy(net, ports, k)
      BY DEF IInv, ToldInv
    <3>2. told'[s][t] = ports /\ client_sessions'[s].states[t].token = k
      BY <1>2
    <3> HIDE DEF ports, k
    <3>3. HeldBy(net', ports, k)
      BY <1>4, <3>1 DEF HeldBy
    <3> QED
      BY <3>2, <3>3
  <2> QED
    BY <2>1 DEF ToldInv
<1>10. PlayedAsAsked'
  BY <1>2 DEF IInv, PlayedAsAsked
<1> QED
  BY <1>7, <1>8, <1>9, <1>10 DEF IInv

------------------------------------------------------------------------------
(* PLAY. *)

(* An object more in the table, and its name in the state of a stream. *)
LEMMA ObjectAdded ==
  ASSUME NEW m, NEW ss, Accounted(m, ss), NEW m2, NEW obj, OneMore(m2, m, obj),
         NEW k \in DOMAIN ss, NEW st \in StreamStates, st.source = ss[k].source,
         st.fragmenter # NoMedium => st.are_currently_playing,
         \A n : n \in ObjectsOf(m, st) <=> n \in ObjectsOf(m, ss[k]) \/ n = m.next
  PROVE  Accounted(m2, [ss EXCEPT ![k] = st])
<1> DEFINE s2 == [ss EXCEPT ![k] = st]
<1>1. ss \in Seq(StreamStates) /\ DOMAIN ss = 1 .. Len(ss) /\ Len(ss) \in Nat
      /\ \A n : n \in DOMAIN m.table <=>
                  n \in Permanent \/ \E i \in DOMAIN ss : n \in ObjectsOf(m, ss[i])
  BY DEF Accounted
<1>2. s2 \in Seq(StreamStates) /\ DOMAIN s2 = DOMAIN ss /\ s2[k] = st
      /\ \A i \in DOMAIN ss : i # k => s2[i] = ss[i]
  BY <1>1
<1> HIDE DEF s2
<1>3. /\ TableOK(m2)
      /\ \A n : n \in DOMAIN m2.table <=> n \in DOMAIN m.table \/ n = m.next
      /\ \A n \in DOMAIN m.table : m2.table[n] = m.table[n]
  BY DEF OneMore
<1>4. \A i \in DOMAIN ss : ObjectsOf(m2, ss[i]) = ObjectsOf(m, ss[i]) /\ StreamOK(m2, ss[i])
  BY <1>3, ObjectsKept
<1>5. ObjectsOf(m2, st) = ObjectsOf(m, st) /\ StreamOK(m2, st)
  <2>1. ss[k].source \in DOMAIN m.table /\ StreamOK(m, ss[k])
    BY ObjectsListed
  <2>2. FileOf(m2, st.source) = FileOf(m, st.source)
    BY <1>3, <2>1 DEF FileOf
  <2> QED
    BY <2>1, <2>2 DEF ObjectsOf, StreamOK
<1>6. \A i \in DOMAIN s2 : StreamOK(m2, s2[i])
  BY <1>2, <1>4, <1>5
<1>7. ASSUME NEW n
      PROVE  n \in DOMAIN m2.table <=>
               n \in Permanent \/ \E i \in DOMAIN s2 : n \in ObjectsOf(m2, s2[i])
  <2>1. \A i \in DOMAIN ss : i # k => ObjectsOf(m2, s2[i]) = ObjectsOf(m, ss[i])
    BY <1>2, <1>4
  <2>2. n \in ObjectsOf(m2, s2[k]) <=> n \in ObjectsOf(m, ss[k]) \/ n = m.next
    BY <1>2, <1>5
  <2>3. (\E i \in DOMAIN s2 : n \in ObjectsOf(m2, s2[i])) <=>
          (\E i \in DOMAIN ss : n \in ObjectsOf(m, ss[i])) \/ n = m.next
    BY <1>2, <2>1, <2>2
  <2> QED
    BY <1>1, <1>3, <2>3
<1> QED
  BY <1>2, <1>3, <1>6, <1>7 DEF Accounted, s2

(* How far PLAY has come: the streams are those there were, and those it      *)
(* started are of the session and of tracks it named.                        *)
Going(acc, s, url) ==
  /\ acc = [crashed |-> FALSE, media |-> acc.media, streams |-> acc.streams]
  /\ Accounted(acc.media, acc.streams)
  /\ DOMAIN acc.streams = DOMAIN streams
  /\ \A i \in DOMAIN streams :
       /\ acc.streams[i].session = streams[i].session /\ acc.streams[i].track = streams[i].track
       /\ acc.streams[i].are_currently_playing =>
            \/ streams[i].are_currently_playing
            \/ streams[i].session = s /\ streams[i].track \in TracksWithin(url)

LEMMA RtcpKeeps ==
  ASSUME NEW acc, NEW s, NEW url, Going(acc, s, url), NEW k \in DOMAIN streams
  PROVE  /\ Going(WithRtcp(acc, k), s, url)
         /\ WithRtcp(acc, k).streams[k].are_currently_playing = acc.streams[k].are_currently_playing
<1> DEFINE m == acc.media
           st == acc.streams[k]
           obj == Medium("rtcp", NoMedium)
           m2 == AddNew(m, obj)
           new == [st EXCEPT !.rtcp_instance = m.next]
           s2 == [acc.streams EXCEPT ![k] = new]
           acc2 == WithRtcp(acc, k)
<1>1. CASE st.sink = NoMedium \/ st.rtcp_instance # NoMedium
  BY <1>1 DEF WithRtcp
<1>2. CASE st.sink # NoMedium /\ st.rtcp_instance = NoMedium
  <2>1. /\ acc = [crashed |-> FALSE, media |-> m, streams |-> acc.streams]
        /\ Accounted(m, acc.streams) /\ DOMAIN acc.streams = DOMAIN streams
        /\ TableOK(m) /\ m.next \in Nat \ {0}
    BY DEF Going, Accounted, TableOK
  <2>2. acc2 = [crashed |-> FALSE, media |-> m2, streams |-> s2]
    <3>1. acc2 = [acc EXCEPT !.media = m2, !.streams[k] = new]
      BY <1>2 DEF WithRtcp, NewObject, GenerateNewName
    <3> DEFINE acc1 == [acc EXCEPT !.media = m2]
               ss == acc.streams
               going == FALSE
    <3>2. acc = [crashed |-> going, media |-> m, streams |-> ss]
      BY <2>1
    <3> HIDE DEF m, m2, new, acc2, ss, going
    <3>3. acc1 = [crashed |-> going, media |-> m2, streams |-> ss]
      BY <3>2
    <3>4. acc2 = [acc1 EXCEPT !.streams[k] = new]
      BY <3>1
    <3> HIDE DEF acc1
    <3>5. acc2 = [crashed |-> going, media |-> m2, streams |-> [ss EXCEPT ![k] = new]]
      BY <3>3, <3>4
    <3> QED
      BY <3>5 DEF ss, going
  <2>3. st \in StreamStates /\ StreamOK(m, st)
    BY <2>1, ObjectsListed
  <2>4. /\ new \in StreamStates /\ new.source = st.source /\ new.sink = st.sink
        /\ new.udp_sink = st.udp_sink /\ new.fragmenter = st.fragmenter /\ new.rtcp_instance = m.next
        /\ new.are_currently_playing = st.are_currently_playing
        /\ new.session = st.session /\ new.track = st.track
    BY <2>1, <2>3 DEF StreamStates
  <2>5. OneMore(m2, m, obj)
    <3>1. obj \in Objects /\ obj.input = 0
      BY NewMediumTyped DEF Kinds, NoMedium
    <3> HIDE DEF obj
    <3> QED
      BY <2>1, <3>1, AddNewOK
  <2> HIDE DEF new, m2
  <2>6. \A n : n \in ObjectsOf(m, new) <=> n \in ObjectsOf(m, st) \/ n = m.next
    BY <1>2, <2>1, <2>4 DEF ObjectsOf, NoMedium
  <2>7. Accounted(m2, s2)
    <3>1. new.fragmenter # NoMedium => new.are_currently_playing
      BY <2>3, <2>4 DEF StreamOK
    <3> HIDE DEF m, obj
    <3> QED
      BY <2>1, <2>4, <2>5, <2>6, <3>1, ObjectAdded
  <2>8. DOMAIN s2 = DOMAIN streams /\ s2[k] = new
        /\ \A i \in DOMAIN streams : i # k => s2[i] = acc.streams[i]
    BY <2>1
  <2> HIDE DEF s2
  <2>9. \A i \in DOMAIN streams :
          /\ s2[i].session = acc.streams[i].session /\ s2[i].track = acc.streams[i].track
          /\ s2[i].are_currently_playing = acc.streams[i].are_currently_playing
    BY <2>4, <2>8
  <2>10. acc2.media = m2 /\ acc2.streams = s2
         /\ acc2 = [crashed |-> FALSE, media |-> acc2.media, streams |-> acc2.streams]
    BY <2>2
  <2> HIDE DEF acc2
  <2>11. Going(acc2, s, url)
    BY <2>7, <2>8, <2>9, <2>10 DEF Going
  <2> QED
    BY <2>9, <2>10, <2>11 DEF acc2
<1> QED
  BY <1>1, <1>2

LEMMA SinkStarted ==
  ASSUME NEW acc, NEW s, NEW url, Going(acc, s, url), NEW k \in DOMAIN streams,
         ~acc.streams[k].are_currently_playing,
         streams[k].session = s, streams[k].track \in TracksWithin(url),
         ~StartSink(acc, k).crashed
  PROVE  Going(StartSink(acc, k), s, url)
<1> DEFINE m == acc.media
           st == acc.streams[k]
           from == FileOf(m, st.source)
           obj == Medium("fragmenter", st.source)
           made == IF st.sink = NoMedium THEN m ELSE AddNew(m, obj)
           name == IF st.sink = NoMedium THEN NoMedium ELSE m.next
           new == [st EXCEPT !.are_currently_playing = TRUE, !.fragmenter = name]
           s2 == [acc.streams EXCEPT ![k] = new]
           m2 == DoGetNextFrame(made, from)
           acc2 == StartSink(acc, k)
<1>1. /\ acc = [crashed |-> FALSE, media |-> m, streams |-> acc.streams]
      /\ Accounted(m, acc.streams) /\ DOMAIN acc.streams = DOMAIN streams
      /\ TableOK(m) /\ m.next \in Nat \ {0}
  BY DEF Going, Accounted, TableOK
<1>2. acc2 = IF ~Readable(m, from) THEN [acc EXCEPT !.crashed = TRUE]
             ELSE [acc EXCEPT !.media = m2, !.streams[k] = new]
  BY DEF StartSink, NewFilter, GenerateNewName
<1>3. Readable(m, from)
  <2>1. ~Readable(m, from) => acc2.crashed
    BY <1>1, <1>2
  <2> QED
    BY <2>1
<1>4. acc2 = [crashed |-> FALSE, media |-> m2, streams |-> s2]
  <2>1. acc2 = [acc EXCEPT !.media = m2, !.streams[k] = new]
    BY <1>2, <1>3
  <2> DEFINE acc1 == [acc EXCEPT !.media = m2]
             ss == acc.streams
             going == FALSE
  <2>2. acc = [crashed |-> going, media |-> m, streams |-> ss]
    BY <1>1
  <2> HIDE DEF m, m2, new, acc2, ss, going
  <2>3. acc1 = [crashed |-> going, media |-> m2, streams |-> ss]
    BY <2>2
  <2>4. acc2 = [acc1 EXCEPT !.streams[k] = new]
    BY <2>1
  <2> HIDE DEF acc1
  <2>5. acc2 = [crashed |-> going, media |-> m2, streams |-> [ss EXCEPT ![k] = new]]
    BY <2>3, <2>4
  <2> QED
    BY <2>5 DEF ss, going
<1>5. st \in StreamStates /\ StreamOK(m, st) /\ st.source \in DOMAIN m.table /\ from \in DOMAIN m.table
  BY <1>1, ObjectsListed
<1>6. st.fragmenter = NoMedium /\ name \in Nat /\ st.source \in Nat
  BY <1>1, <1>5 DEF StreamOK, StreamStates, NoMedium
<1> HIDE DEF name
<1>7. /\ new \in StreamStates /\ new.source = st.source /\ new.sink = st.sink
      /\ new.udp_sink = st.udp_sink /\ new.fragmenter = name /\ new.rtcp_instance = st.rtcp_instance
      /\ new.are_currently_playing
      /\ new.session = st.session /\ new.track = st.track
  BY <1>5, <1>6 DEF StreamStates
<1> HIDE DEF new
<1>8. DOMAIN s2 = DOMAIN streams /\ s2[k] = new /\ s2 \in Seq(StreamStates)
      /\ \A i \in DOMAIN streams : i # k => s2[i] = acc.streams[i]
  BY <1>1, <1>7 DEF Accounted
<1>9. /\ Accounted(made, s2) /\ from \in DOMAIN made.table
  <2>1. CASE st.sink = NoMedium
    <3>1. made = m /\ name = NoMedium
      BY <2>1 DEF name
    <3>2. \A i \in DOMAIN acc.streams : SameOwner(s2[i], acc.streams[i])
      BY <1>1, <1>6, <1>7, <1>8, <3>1 DEF SameOwner
    <3> HIDE DEF s2, m
    <3> QED
      BY <1>1, <1>5, <1>8, <3>1, <3>2, StillAccounted
  <2>2. CASE st.sink # NoMedium
    <3>1. obj \in Objects /\ obj.input = st.source
      BY <1>6, NewMediumTyped DEF Kinds
    <3>2. made = AddNew(m, obj) /\ name = m.next
      BY <2>2 DEF name
    <3>3. st.source < m.next
      BY <1>1, <1>5 DEF TableOK
    <3> HIDE DEF obj, made
    <3>4. OneMore(made, m, obj)
      BY <1>1, <3>1, <3>2, <3>3, AddNewOK
    <3>5. \A n : n \in ObjectsOf(m, new) <=> n \in ObjectsOf(m, st) \/ n = m.next
      BY <1>1, <1>6, <1>7, <3>2 DEF ObjectsOf, NoMedium
    <3>6. from \in DOMAIN made.table
      BY <1>5, <3>4 DEF OneMore
    <3>7. new.fragmenter # NoMedium => new.are_currently_playing
      BY <1>7
    <3> HIDE DEF m, from
    <3>8. Accounted(made, s2)
      BY <1>1, <1>7, <3>4, <3>5, <3>7, ObjectAdded
    <3> QED
      BY <3>6, <3>8
  <2> QED
    BY <2>1, <2>2
<1> HIDE DEF made, s2, from, st
<1>10. Accounted(m2, s2)
  <2>1. TableOK(made) /\ \A i \in DOMAIN s2 : SameOwner(s2[i], s2[i])
    BY <1>9 DEF Accounted, SameOwner
  <2>2. SameObjects(m2, made)
    BY <1>9, <2>1, AskedInPlace
  <2> HIDE DEF m2
  <2> QED
    BY <1>8, <1>9, <2>1, <2>2, StillAccounted DEF SameObjects
<1>11. acc2.media = m2 /\ acc2.streams = s2
       /\ acc2 = [crashed |-> FALSE, media |-> acc2.media, streams |-> acc2.streams]
  BY <1>4
<1> HIDE DEF acc2, m2
<1>12. \A i \in DOMAIN streams :
         /\ s2[i].session = streams[i].session /\ s2[i].track = streams[i].track
         /\ s2[i].are_currently_playing =>
              \/ streams[i].are_currently_playing
              \/ streams[i].session = s /\ streams[i].track \in TracksWithin(url)
  BY <1>7, <1>8 DEF Going, st
<1>13. Going(acc2, s, url)
  BY <1>8, <1>10, <1>11, <1>12 DEF Going
<1> QED
  BY <1>13 DEF acc2

LEMMA StreamStarted ==
  ASSUME TokensInv, NEW s \in Sessions, client_sessions[s].status = "bound", NEW url,
         NEW survives \in BOOLEAN, NEW acc, acc.crashed \/ Going(acc, s, url),
         NEW track \in TrackIds, track \in TracksWithin(url)
  PROVE  LET acc2 == StartStream(s, survives, acc, track)
         IN  acc2.crashed \/ Going(acc2, s, url)
<1> DEFINE k == Token(s, track)
           ctl == WithRtcp(acc, k)
           st == ctl.streams[k]
           acc2 == StartStream(s, survives, acc, track)
           none == acc.crashed \/ k = NoStream \/ s \notin DOMAIN destinations[track]
           lost == destinations[track][s].is_tcp /\ st.sink # NoMedium /\ ~survives
           done == st.are_currently_playing \/ (st.sink = NoMedium /\ st.udp_sink = NoMedium)
<1>1. acc2 = IF none THEN acc
             ELSE IF lost THEN [acc EXCEPT !.crashed = TRUE]
             ELSE IF done THEN ctl ELSE StartSink(ctl, k)
  BY DEF StartStream
<1>2. k # NoStream => k \in DOMAIN streams /\ streams[k].track = track /\ streams[k].session = s
  BY DEF TokensInv, Token
<1> HIDE DEF acc2, k
<1>3. CASE none
  BY <1>1, <1>3 DEF acc2
<1>4. CASE ~none /\ lost
  <2>1. Going(acc, s, url) /\ acc2 = [acc EXCEPT !.crashed = TRUE]
    BY <1>1, <1>4
  <2>2. acc = [crashed |-> FALSE, media |-> acc.media, streams |-> acc.streams]
    BY <2>1 DEF Going
  <2>3. acc2.crashed
    BY <2>1, <2>2
  <2> QED
    BY <2>3 DEF acc2
<1>5. CASE ~none /\ ~lost
  <2>1. Going(acc, s, url) /\ k \in DOMAIN streams
    BY <1>2, <1>5
  <2>2. Going(ctl, s, url)
    BY <2>1, RtcpKeeps
  <2>3. CASE done
    BY <1>1, <1>5, <2>2, <2>3 DEF acc2
  <2>4. CASE ~done
    <3>1. acc2 = StartSink(ctl, k) /\ ~ctl.streams[k].are_currently_playing
      BY <1>1, <1>5, <2>4
    <3>2. streams[k].session = s /\ streams[k].track \in TracksWithin(url)
      BY <1>2, <1>5
    <3> HIDE DEF ctl
    <3>3. acc2.crashed \/ Going(acc2, s, url)
      BY <2>1, <2>2, <3>1, <3>2, SinkStarted
    <3> QED
      BY <3>3 DEF acc2
  <2> QED
    BY <2>3, <2>4
<1> QED
  BY <1>3, <1>4, <1>5

PlayStep(s, url, survives, acc, t) ==
  IF t \in TracksWithin(url) THEN StartStream(s, survives, acc, t) ELSE acc

PlayStart == [crashed |-> FALSE, media |-> media, streams |-> streams]

PlaysUpTo(f, s, url, survives, n) ==
  f = [t \in 0 .. n |-> IF t = 0 THEN PlayStart
                        ELSE PlayStep(s, url, survives, f[t - 1], t)]

LEMMA PlaySteps ==
  ASSUME NEW n \in Nat, NEW s, NEW url, NEW survives, NEW f, PlaysUpTo(f, s, url, survives, n)
  PROVE  /\ f[0] = PlayStart
         /\ \A t \in 1 .. n : f[t] = PlayStep(s, url, survives, f[t - 1], t)
<1> DEFINE F(t) == IF t = 0 THEN PlayStart
                   ELSE PlayStep(s, url, survives, f[t - 1], t)
<1>1. ASSUME NEW t \in 0 .. n PROVE f[t] = F(t)
  <2> DEFINE g == [j \in 0 .. n |-> F(j)]
  <2>1. f = g
    BY DEF PlaysUpTo
  <2>2. g[t] = F(t)
    OBVIOUS
  <2> HIDE DEF g, F
  <2> QED
    BY <2>1, <2>2
<1>2. 0 \in 0 .. n /\ \A t \in 1 .. n : t \in 0 .. n /\ t # 0
  OBVIOUS
<1> QED
  BY <1>1, <1>2

LEMMA PlayExists ==
  ASSUME NEW n \in Nat, NEW s, NEW url, NEW survives
  PROVE  \E f : PlaysUpTo(f, s, url, survives, n)
<1> DEFINE S == {m \in Nat : \E f : PlaysUpTo(f, s, url, survives, m)}
           Step(acc, t) == PlayStep(s, url, survives, acc, t)
<1>1. 0 \in S
  <2> DEFINE f == [t \in 0 .. 0 |-> PlayStart]
             F(t) == IF t = 0 THEN PlayStart ELSE Step(f[t - 1], t)
  <2>1. \A t \in 0 .. 0 : t = 0
    OBVIOUS
  <2>2. \A t \in 0 .. 0 : F(t) = PlayStart
    BY <2>1
  <2>3. f = [t \in 0 .. 0 |-> F(t)]
    <3> HIDE DEF F
    <3> QED
      BY <2>2
  <2>4. PlaysUpTo(f, s, url, survives, 0)
    BY <2>3 DEF PlaysUpTo
  <2> HIDE DEF f
  <2> QED
    BY <2>4
<1>2. ASSUME NEW i \in 1 .. n, i - 1 \in S PROVE i \in S
  <2>1. PICK f : PlaysUpTo(f, s, url, survives, i - 1)
    BY <1>2
  <2> DEFINE last == Step(f[i - 1], i)
             g == [t \in 0 .. i |-> IF t = i THEN last ELSE f[t]]
             G(t) == IF t = 0 THEN PlayStart ELSE Step(g[t - 1], t)
  <2>2. g[i] = last /\ (\A t \in 0 .. i - 1 : g[t] = f[t]) /\ g = [t \in 0 .. i |-> g[t]]
    OBVIOUS
  <2>3. f[0] = PlayStart /\ \A t \in 1 .. i - 1 : f[t] = Step(f[t - 1], t)
    <3>1. i - 1 \in Nat
      OBVIOUS
    <3> QED
      BY <2>1, <3>1, PlaySteps
  <2> HIDE DEF g
  <2>4. ASSUME NEW t \in 0 .. i PROVE g[t] = G(t)
    <3>1. CASE t = 0
      BY <2>2, <2>3, <3>1
    <3>2. CASE t \in 1 .. i - 1
      <4>1. t \in 0 .. i - 1 /\ t - 1 \in 0 .. i - 1 /\ t # 0
        BY <3>2
      <4>2. g[t] = f[t] /\ g[t - 1] = f[t - 1]
        BY <2>2, <4>1
      <4> QED
        BY <2>3, <3>2, <4>1, <4>2
    <3>3. CASE t = i
      <4>1. i - 1 \in 0 .. i - 1 /\ t # 0
        BY <3>3
      <4>2. g[i - 1] = f[i - 1]
        BY <2>2, <4>1
      <4> QED
        BY <2>2, <3>3, <4>1, <4>2
    <3> QED
      BY <3>1, <3>2, <3>3
  <2>5. g = [t \in 0 .. i |-> G(t)]
    <3> HIDE DEF G
    <3> QED
      BY <2>2, <2>4
  <2>6. PlaysUpTo(g, s, url, survives, i)
    BY <2>5 DEF PlaysUpTo
  <2> QED
    BY <2>6
<1>3. 0 .. n \subseteq S
  <2> HIDE DEF S
  <2> QED
    BY <1>1, <1>2, CountingUp
<1> QED
  BY <1>3

LEMMA AllStarted ==
  ASSUME IInv, NEW s \in Sessions, client_sessions[s].status = "bound", NEW url,
         NEW survives \in BOOLEAN
  PROVE  LET done == Started(s, url, survives)
         IN  done.crashed \/ Going(done, s, url)
<1> DEFINE n == NumTracks
           upto == CHOOSE f : PlaysUpTo(f, s, url, survives, n)
           S == {t \in 0 .. n : upto[t].crashed \/ Going(upto[t], s, url)}
<1>1. n \in Nat
  BY OnDemandAssumption
<1>2. PlaysUpTo(upto, s, url, survives, n)
  <2>1. \E f : PlaysUpTo(f, s, url, survives, n)
    BY <1>1, PlayExists
  <2> QED
    BY <2>1
<1>3. Started(s, url, survives) = upto[n]
  BY DEF Started, PlaysUpTo, PlayStep, PlayStart
<1> HIDE DEF upto
<1>4. /\ upto[0] = PlayStart
      /\ \A t \in 1 .. n : upto[t] = PlayStep(s, url, survives, upto[t - 1], t)
  BY <1>1, <1>2, PlaySteps
<1>5. 0 \in S
  <2>1. upto[0].media = media /\ upto[0].streams = streams
    BY <1>4 DEF PlayStart
  <2>2. Going(upto[0], s, url)
    BY <1>4, <2>1 DEF Going, IInv, PlayStart
  <2> QED
    BY <1>1, <2>2
<1>6. ASSUME NEW t \in 1 .. n, t - 1 \in S PROVE t \in S
  <2> DEFINE acc == upto[t - 1]
  <2>1. (acc.crashed \/ Going(acc, s, url)) /\ upto[t] = PlayStep(s, url, survives, acc, t)
    BY <1>4, <1>6
  <2>2. t \in TrackIds /\ t \in 0 .. n
    BY DEF TrackIds
  <2> HIDE DEF acc
  <2>3. upto[t].crashed \/ Going(upto[t], s, url)
    BY <2>1, <2>2, StreamStarted DEF PlayStep, IInv
  <2> QED
    BY <2>2, <2>3
<1>7. 0 .. n \subseteq S
  <2> HIDE DEF S
  <2> QED
    BY <1>1, <1>5, <1>6, CountingUp
<1> QED
  BY <1>1, <1>3, <1>7

LEMMA PlayKeeps ==
  ASSUME IInv, NEW s \in Sessions, NEW url, Play(s, url)
  PROVE  IInv'
<1>1. process = "running" /\ client_sessions[s].status = "bound"
  BY DEF Play
<1>2. PICK survives \in BOOLEAN :
        LET done == Started(s, url, survives)
        IN  IF done.crashed THEN Crash
            ELSE /\ media' = done.media /\ streams' = done.streams
                 /\ played' = played \cup {<<s, t>> : t \in TracksWithin(url)}
                 /\ UNCHANGED <<process, file, net, sdp_lines, last_stream_token,
                                client_sessions, destinations, told>>
  BY DEF Play
<1> DEFINE done == Started(s, url, survives)
<1>3. done.crashed \/ Going(done, s, url)
  BY <1>1, AllStarted
<1>4. CASE done.crashed
  <2>1. Crash
    BY <1>2, <1>4
  <2> QED
    BY <2>1, OthersUnchanged DEF Crash, IInv, SessionsTyped
<1>5. CASE ~done.crashed
  <2>1. /\ media' = done.media /\ streams' = done.streams
        /\ played' = played \cup {<<s, t>> : t \in TracksWithin(url)}
        /\ UNCHANGED <<process, file, net, client_sessions, destinations, told>>
    BY <1>2, <1>5
  <2>2. Going(done, s, url)
    BY <1>3, <1>5
  <2> HIDE DEF done
  <2>3. Accounted(media', streams') /\ DOMAIN streams' = DOMAIN streams
        /\ \A i \in DOMAIN streams :
             /\ streams'[i].session = streams[i].session /\ streams'[i].track = streams[i].track
             /\ streams'[i].are_currently_playing =>
                  \/ streams[i].are_currently_playing
                  \/ streams[i].session = s /\ streams[i].track \in TracksWithin(url)
    BY <2>1, <2>2 DEF Going
  <2>4. Accounted(media, streams)'
    BY <2>3 DEF Accounted, TableOK, StreamOK, FileOf, ObjectsOf
  <2>5. PlayedAsAsked'
    BY <2>1, <2>3 DEF IInv, PlayedAsAsked
  <2>6. TokensInv'
    BY <2>1, <2>3 DEF IInv, TokensInv
  <2>7. NetOK(net)' /\ ToldInv'
    <3>1. NetOK(net)'
      BY <2>1 DEF IInv, NetOK
    <3>2. ToldInv'
      BY <2>1 DEF IInv, ToldInv, HeldBy
    <3> QED
      BY <3>1, <3>2
  <2>8. SessionsTyped'
    BY <2>1 DEF IInv, SessionsTyped
  <2> QED
    BY <2>4, <2>5, <2>6, <2>7, <2>8 DEF IInv
<1> QED
  BY <1>4, <1>5

------------------------------------------------------------------------------
(* The end of a session, the loop and the world. *)

LEMMA ReclaimKeeps ==
  ASSUME IInv, NEW s \in Sessions, ReclaimStreamStates(s)
  PROVE  IInv'
<1> DEFINE new == [status |-> "ended", states |-> << >>]
           none == [t \in TrackIds |-> NoPorts]
<1>1. /\ client_sessions' = [client_sessions EXCEPT ![s] = new]
      /\ told' = [told EXCEPT ![s] = none]
      /\ UNCHANGED <<process, file, net, media, streams, destinations, played>>
  BY DEF ReclaimStreamStates
<1>2. /\ DOMAIN client_sessions = Sessions
      /\ client_sessions = [x \in Sessions |-> [status |-> client_sessions[x].status,
                                                states |-> client_sessions[x].states]]
      /\ told \in [Sessions -> [TrackIds -> [rtp : Nat, rtcp : Nat]]]
  BY DEF IInv, SessionsTyped
<1>3. none \in [TrackIds -> [rtp : Nat, rtcp : Nat]] /\ \A t \in TrackIds : none[t] = NoPorts
  BY DEF NoPorts
<1>4. new.status = "ended" /\ new.states = << >>
      /\ new = [status |-> new.status, states |-> new.states]
  OBVIOUS
<1> HIDE DEF new
<1>5. /\ DOMAIN client_sessions' = Sessions /\ client_sessions'[s] = new
      /\ \A x \in Sessions : x # s => client_sessions'[x] = client_sessions[x]
      /\ client_sessions' = [x \in Sessions |-> client_sessions'[x]]
  BY <1>1, <1>2
<1>6. /\ told' \in [Sessions -> [TrackIds -> [rtp : Nat, rtcp : Nat]]] /\ told'[s] = none
      /\ \A x \in Sessions : x # s => told'[x] = told[x]
  BY <1>1, <1>2, <1>3
<1>7. SessionsTyped'
  <2>1. \A x \in Sessions : client_sessions[x] = [status |-> client_sessions[x].status,
                                                  states |-> client_sessions[x].states]
    BY <1>2
  <2>2. \A x \in Sessions : client_sessions'[x] = [status |-> client_sessions'[x].status,
                                                   states |-> client_sessions'[x].states]
    BY <1>4, <1>5, <2>1
  <2>3. client_sessions' = [x \in Sessions |-> [status |-> client_sessions'[x].status,
                                                states |-> client_sessions'[x].states]]
    BY <1>5, <2>2
  <2>4. ASSUME NEW x \in Sessions
        PROVE  \/ /\ client_sessions'[x].status = "bound"
                  /\ client_sessions'[x].states \in [TrackIds -> TrackStates]
               \/ /\ client_sessions'[x].status \in {"new", "ended"}
                  /\ client_sessions'[x].states = << >> /\ told'[x] = none
    <3>1. CASE x = s
      BY <1>4, <1>5, <1>6, <3>1
    <3>2. CASE x # s
      BY <1>5, <1>6, <3>2 DEF IInv, SessionsTyped
    <3> QED
      BY <3>1, <3>2
  <2>5. destinations' \in [TrackIds -> Destinations] /\ process' \in {"running", "crashed"}
        /\ file' \in BOOLEAN
    BY <1>1 DEF IInv, SessionsTyped
  <2> QED
    BY <1>5, <1>6, <2>3, <2>4, <2>5 DEF SessionsTyped
<1>8. TokensInv'
  <2>1. ASSUME NEW x \in Sessions, client_sessions'[x].status = "bound"
        PROVE  client_sessions'[x] = client_sessions[x]
    BY <1>4, <1>5, <2>1
  <2> QED
    BY <1>1, <2>1 DEF IInv, TokensInv
<1>9. ToldInv'
  <2>1. ASSUME NEW x \in Sessions, NEW t \in TrackIds
        PROVE  HeldBy(net, told'[x][t], client_sessions'[x].states[t].token)
    <3>1. CASE x = s
      BY <1>3, <1>6, <3>1 DEF HeldBy, NoPorts
    <3>2. CASE x # s
      <4>1. told'[x] = told[x] /\ client_sessions'[x] = client_sessions[x]
        BY <1>5, <1>6, <3>2
      <4>2. HeldBy(net, told[x][t], client_sessions[x].states[t].token)
        BY DEF IInv, ToldInv
      <4> QED
        BY <4>1, <4>2
    <3> QED
      BY <3>1, <3>2
  <2> QED
    <3>1. net' = net
      BY <1>1
    <3>2. \A x \in Sessions, t \in TrackIds :
            HeldBy(net', told'[x][t], client_sessions'[x].states[t].token)
      BY <2>1, <3>1
    <3> QED
      BY <3>2 DEF ToldInv, HeldBy
<1>10. NetOK(net)' /\ Accounted(media, streams)'
  BY <1>1 DEF IInv, NetOK, Accounted, TableOK, StreamOK, FileOf, ObjectsOf
<1>11. PlayedAsAsked'
  BY <1>1 DEF IInv, PlayedAsAsked
<1> QED
  BY <1>7, <1>8, <1>9, <1>10, <1>11 DEF IInv

(* A step that changes an object in place, and what the streams say of it.   *)
LEMMA InPlaceKeeps ==
  ASSUME IInv, SameObjects(media', media), streams' \in Seq(StreamStates),
         DOMAIN streams' = DOMAIN streams,
         \A i \in DOMAIN streams :
           /\ SameOwner(streams'[i], streams[i])
           /\ streams'[i].are_currently_playing = streams[i].are_currently_playing
           /\ streams'[i].session = streams[i].session /\ streams'[i].track = streams[i].track,
         UNCHANGED <<process, file, net, client_sessions, destinations, told, played>>
  PROVE  IInv'
<1>1. Accounted(media', streams')
  <2>1. Accounted(media, streams)
    BY DEF IInv
  <2> QED
    BY <2>1, StillAccounted DEF SameObjects
<1>2. Accounted(media, streams)'
  BY <1>1 DEF Accounted, TableOK, StreamOK, FileOf, ObjectsOf
<1>3. NetOK(net)'
  BY DEF IInv, NetOK
<1>4. ToldInv'
  <2>1. /\ net'.bound = net.bound /\ told' = told /\ client_sessions' = client_sessions
    OBVIOUS
  <2>2. ASSUME NEW s \in Sessions, NEW t \in TrackIds
        PROVE  HeldBy(net', told'[s][t], client_sessions'[s].states[t].token)
    <3>1. HeldBy(net, told[s][t], client_sessions[s].states[t].token)
      BY DEF IInv, ToldInv
    <3> QED
      BY <2>1, <3>1 DEF HeldBy
  <2> QED
    BY <2>2 DEF ToldInv, HeldBy
<1>5. SessionsTyped'
  BY DEF IInv, SessionsTyped
<1>6. TokensInv'
  BY DEF IInv, TokensInv
<1>7. PlayedAsAsked'
  BY DEF IInv, PlayedAsAsked
<1> QED
  BY <1>2, <1>3, <1>4, <1>5, <1>6, <1>7 DEF IInv

LEMMA AskKeeps ==
  ASSUME IInv, NEW i, Ask(i)
  PROVE  IInv'
<1>1. i \in DOMAIN streams /\ media' = DoGetNextFrame(media, File(i))
      /\ UNCHANGED <<process, file, net, streams, client_sessions, destinations, told, played>>
  BY DEF Ask
<1>2. Accounted(media, streams) /\ TableOK(media) /\ streams \in Seq(StreamStates)
  BY DEF IInv, Accounted
<1>3. File(i) \in DOMAIN media.table
  BY <1>1, <1>2, ObjectsListed DEF File
<1>4. SameObjects(media', media)
  BY <1>1, <1>2, <1>3, AskedInPlace
<1>5. /\ streams' \in Seq(StreamStates) /\ DOMAIN streams' = DOMAIN streams
      /\ \A j \in DOMAIN streams :
           /\ SameOwner(streams'[j], streams[j])
           /\ streams'[j].are_currently_playing = streams[j].are_currently_playing
           /\ streams'[j].session = streams[j].session /\ streams'[j].track = streams[j].track
  BY <1>1, <1>2 DEF SameOwner
<1> QED
  BY <1>1, <1>4, <1>5, InPlaceKeeps

LEMMA ReadKeeps ==
  ASSUME IInv, NEW i, FileReadable(i)
  PROVE  IInv'
<1>1. i \in DOMAIN streams
      /\ UNCHANGED <<process, file, net, client_sessions, destinations, told, played>>
  BY DEF FileReadable
<1> DEFINE f == media.table[File(i)]
           ended == streams[i].ended \/ (f.awaiting /\ AtEnd(media, File(i)))
<1>2. PICK max_size \in 1 .. MaxRead :
        /\ media' = FileReadableHandler(media, File(i), max_size)
        /\ streams' = [streams EXCEPT ![i].ended = ended]
  BY DEF FileReadable
<1>3. Accounted(media, streams) /\ TableOK(media) /\ streams \in Seq(StreamStates)
  BY DEF IInv, Accounted
<1>4. File(i) \in DOMAIN media.table /\ streams[i] \in StreamStates
  BY <1>1, <1>3, ObjectsListed DEF File
<1>5. SameObjects(media', media)
  <2>1. max_size \in Nat
    BY OnDemandAssumption
  <2> QED
    BY <1>2, <1>3, <1>4, <2>1, ReadInPlace
<1> DEFINE new == [streams[i] EXCEPT !.ended = ended]
<1>6. ended \in BOOLEAN
  OBVIOUS
<1>7. streams' = [streams EXCEPT ![i] = new]
  BY <1>2
<1> HIDE DEF ended
<1>8. /\ new \in StreamStates /\ SameOwner(new, streams[i])
      /\ new.are_currently_playing = streams[i].are_currently_playing
      /\ new.session = streams[i].session /\ new.track = streams[i].track
  BY <1>4, <1>6 DEF StreamStates, SameOwner
<1> HIDE DEF new
<1>9. /\ streams' \in Seq(StreamStates) /\ DOMAIN streams' = DOMAIN streams
      /\ streams'[i] = new /\ \A j \in DOMAIN streams : j # i => streams'[j] = streams[j]
  BY <1>1, <1>3, <1>7, <1>8
<1>10. \A j \in DOMAIN streams :
         /\ SameOwner(streams'[j], streams[j])
         /\ streams'[j].are_currently_playing = streams[j].are_currently_playing
         /\ streams'[j].session = streams[j].session /\ streams'[j].track = streams[j].track
  BY <1>8, <1>9 DEF SameOwner
<1> QED
  BY <1>1, <1>5, <1>9, <1>10, InPlaceKeeps

(* What other programs do leaves the ports of the server alone. *)
LEMMA OtherPortsKeep ==
  ASSUME IInv, NetOK(net'),
         \A b \in net.bound : b.owner # Other => b \in net'.bound,
         UNCHANGED <<process, file, media, streams, client_sessions, destinations, told, played>>
  PROVE  IInv'
<1>1. NetOK(net)'
  BY DEF NetOK
<1>2. ToldInv'
  <2>1. ASSUME NEW s \in Sessions, NEW t \in TrackIds
        PROVE  HeldBy(net', told[s][t], client_sessions[s].states[t].token)
    <3>1. HeldBy(net, told[s][t], client_sessions[s].states[t].token)
      BY DEF IInv, ToldInv
    <3> QED
      BY <3>1 DEF HeldBy, NoStream, Other
  <2> QED
    BY <2>1 DEF ToldInv, HeldBy
<1>3. Accounted(media, streams)'
  BY DEF IInv, Accounted, TableOK, StreamOK, FileOf, ObjectsOf
<1>4. SessionsTyped'
  BY DEF IInv, SessionsTyped
<1>5. TokensInv' /\ PlayedAsAsked'
  BY DEF IInv, TokensInv, PlayedAsAsked
<1> QED
  BY <1>1, <1>2, <1>3, <1>4, <1>5 DEF IInv

LEMMA OtherBindsKeeps ==
  ASSUME IInv, NEW p, OtherBinds(p)
  PROVE  IInv'
<1>1. PICK reuse \in {Shared, Unshared} : MayBind(net, p, reuse) /\ net' = Bind(net, p, Other, reuse)
  BY DEF OtherBinds
<1> DEFINE new == [port |-> p, owner |-> Other, reuse |-> reuse]
<1>2. NetOK(net)
  BY DEF IInv
<1>3. net' = [priv |-> net.priv, bound |-> net.bound \cup {new}]
  BY <1>1, <1>2 DEF Bind, NetOK
<1>4. net'.bound = net.bound \cup {new} /\ net' = [priv |-> net'.priv, bound |-> net'.bound]
  BY <1>3
<1>5. \A b \in net.bound : b.port = p => b.owner = Other
  BY <1>1, <1>2 DEF MayBind, Bound, NetOK, Shared, Unshared
<1>6. new.port = p /\ new.owner = Other /\ Other # Sdp
  BY DEF Other, Sdp
<1> HIDE DEF new
<1>7. NetOK(net')
  BY <1>2, <1>4, <1>5, <1>6 DEF NetOK
<1>8. UNCHANGED <<process, file, media, streams, client_sessions, destinations, told, played>>
  BY DEF OtherBinds
<1> QED
  BY <1>4, <1>7, <1>8, OtherPortsKeep

LEMMA OtherReleasesKeeps ==
  ASSUME IInv, NEW p, OtherReleases(p)
  PROVE  IInv'
<1>1. NetOK(net)
  BY DEF IInv
<1>2. net' = [priv |-> net.priv, bound |-> {b \in net.bound : b.port # p \/ b.owner # Other}]
  BY <1>1 DEF OtherReleases, NetOK
<1>3. net'.bound = {b \in net.bound : b.port # p \/ b.owner # Other}
      /\ net' = [priv |-> net'.priv, bound |-> net'.bound]
  BY <1>2
<1>4. NetOK(net')
  BY <1>1, <1>3 DEF NetOK
<1>5. UNCHANGED <<process, file, media, streams, client_sessions, destinations, told, played>>
  BY DEF OtherReleases
<1> QED
  BY <1>3, <1>4, <1>5, OtherPortsKeep

------------------------------------------------------------------------------
(* All steps. *)

LEMMA InitIInv == Init => IInv
<1> SUFFICES ASSUME Init PROVE IInv
  OBVIOUS
<1> DEFINE table == [n \in Permanent |-> Medium(PermanentKind(n), NoMedium)]
<1>1. NumTracks \in Nat
  BY OnDemandAssumption
<1>2. media = [table |-> table, next |-> NumTracks + 3] /\ streams = << >>
  BY DEF Init, NewMediaTable
<1>3. media.table = table /\ media.next = NumTracks + 3
      /\ media = [table |-> media.table, next |-> media.next]
  BY <1>2
<1>4. \A n \in Permanent : Medium(PermanentKind(n), NoMedium) \in Objects
                           /\ Medium(PermanentKind(n), NoMedium).input = 0
  BY NewMediumTyped DEF PermanentKind, Kinds, NoMedium
<1>5. DOMAIN table = Permanent /\ table = [n \in DOMAIN table |-> table[n]]
      /\ \A n \in Permanent : table[n] \in Objects /\ table[n].input = 0
  BY <1>4
<1> HIDE DEF table
<1>6. TableOK(media)
  BY <1>1, <1>3, <1>5 DEF TableOK, Permanent
<1>7. Accounted(media, streams)
  <2>1. streams \in Seq(StreamStates) /\ DOMAIN streams = {}
    BY <1>2
  <2> QED
    BY <1>3, <1>5, <1>6, <2>1 DEF Accounted
<1>8. NetOK(net)
  BY DEF Init, NewNetwork, NetOK
<1>9. SessionsTyped
  <2>1. destinations \in [TrackIds -> Destinations]
    <3>1. << >> \in [{} -> [is_tcp : BOOLEAN]] /\ {} \in SUBSET Sessions
      OBVIOUS
    <3>2. << >> \in Destinations
      BY <3>1 DEF Destinations
    <3> QED
      BY <3>2 DEF Init
  <2>2. told \in [Sessions -> [TrackIds -> [rtp : Nat, rtcp : Nat]]]
        /\ \A s \in Sessions : told[s] = [t \in TrackIds |-> NoPorts]
    BY DEF Init, NoPorts
  <2>3. /\ DOMAIN client_sessions = Sessions
        /\ \A s \in Sessions : client_sessions[s].status = "new" /\ client_sessions[s].states = << >>
        /\ client_sessions = [s \in Sessions |->
             [status |-> client_sessions[s].status, states |-> client_sessions[s].states]]
    BY DEF Init
  <2>4. process \in {"running", "crashed"} /\ file \in BOOLEAN
    BY DEF Init
  <2> QED
    BY <2>1, <2>2, <2>3, <2>4 DEF SessionsTyped
<1>10. TokensInv
  BY DEF Init, TokensInv
<1>11. ToldInv
  BY DEF Init, ToldInv, HeldBy, NoPorts
<1>12. PlayedAsAsked
  BY <1>2 DEF PlayedAsAsked
<1> QED
  BY <1>7, <1>8, <1>9, <1>10, <1>11, <1>12 DEF IInv

LEMMA NextIInv == IInv /\ [Next]_vars => IInv'
<1> SUFFICES ASSUME IInv, [Next]_vars PROVE IInv'
  OBVIOUS
<1>1. process \in {"running", "crashed"} /\ file \in BOOLEAN
  BY DEF IInv, SessionsTyped
<1>2. CASE Describe
  BY <1>2, DescribeKeeps
<1>3. ASSUME NEW s \in Sessions, NEW url \in Urls, NEW t \in Transports, Setup(s, url, t)
      PROVE  IInv'
  BY <1>3, SetupKeeps
<1>4. ASSUME NEW s \in Sessions, NEW url \in Urls, Play(s, url) PROVE IInv'
  BY <1>4, PlayKeeps
<1>5. ASSUME NEW s \in Sessions, ReclaimStreamStates(s) PROVE IInv'
  BY <1>5, ReclaimKeeps
<1>6. ASSUME NEW i \in 1 .. MaxStreams, Ask(i) \/ FileReadable(i) PROVE IInv'
  BY <1>6, AskKeeps, ReadKeeps
<1>7. ASSUME NEW p \in OtherPorts, OtherBinds(p) \/ OtherReleases(p) PROVE IInv'
  BY <1>7, OtherBindsKeeps, OtherReleasesKeeps
<1>8. CASE FileChanges
  <2>1. process' = process /\ file' \in BOOLEAN /\ played \subseteq played'
        /\ UNCHANGED <<net, media, streams, client_sessions, destinations, told>>
    BY <1>8 DEF FileChanges
  <2> QED
    BY <1>1, <2>1, OthersUnchanged
<1>9. CASE UNCHANGED vars
  <2>1. process' = process /\ file' = file /\ played \subseteq played'
        /\ UNCHANGED <<net, media, streams, client_sessions, destinations, told>>
    BY <1>9 DEF vars
  <2> QED
    BY <1>1, <2>1, OthersUnchanged
<1> QED
  BY <1>2, <1>3, <1>4, <1>5, <1>6, <1>7, <1>8, <1>9 DEF Next

------------------------------------------------------------------------------
(* What the invariant says of the properties. *)

LEMMA ToldAreBound == IInv => ToldPortsBound
<1> SUFFICES ASSUME IInv, NEW s \in Sessions, NEW t \in TrackIds
             PROVE  LET ports == told[s][t]
                    IN  /\ \A p \in {ports.rtp, ports.rtcp} \ {0} :
                             \E b \in Bound(net, p) : b.owner = client_sessions[s].states[t].token
                        /\ ports.rtcp # 0 => ports.rtp % 2 = 0 /\ ports.rtcp = ports.rtp + 1
  BY DEF ToldPortsBound
<1> QED
  BY DEF IInv, ToldInv, HeldBy, Bound

LEMMA WellTyped == IInv => TypeOK
<1> SUFFICES ASSUME IInv PROVE TypeOK
  OBVIOUS
<1>1. process \in {"running", "crashed"}
  BY DEF IInv, SessionsTyped
<1>2. ASSUME NEW s \in Sessions, NEW t \in DOMAIN client_sessions[s].states
      PROVE  LET k == client_sessions[s].states[t].token
             IN  k # NoStream => /\ k \in DOMAIN streams /\ streams[k].track = t
                                 /\ s \in DOMAIN destinations[t]
  <2>1. client_sessions[s].status = "bound"
        /\ client_sessions[s].states \in [TrackIds -> TrackStates]
    BY DEF IInv, SessionsTyped
  <2>2. t \in TrackIds
    BY <2>1
  <2> QED
    BY <2>1, <2>2 DEF IInv, TokensInv
<1>3. \A n \in DOMAIN media.table : n < media.next /\ media.table[n].input < n
  BY DEF IInv, Accounted, TableOK
<1> QED
  BY <1>1, <1>2, <1>3 DEF TypeOK

LEMMA AllAccounted == IInv => MediaAccounted
BY WellTyped DEF IInv, Accounted, MediaAccounted

------------------------------------------------------------------------------
(* A port that the server binds for a stream is nobody else's: no other      *)
(* program has it, and no other stream, because a socket that forbids        *)
(* sharing is bound only when the port is free                               *)
(* (on_demand_server_media_subsession.c:412-461).                            *)
THEOREM PortsStayExclusive == Spec => []PortsExclusive
<1>1. IInv => PortsExclusive
  BY DEF IInv, NetOK, PortsExclusive
<1> QED
  BY <1>1, InitIInv, NextIInv, PTL DEF Spec

(* The server ports in the answer to the last SETUP of a track are bound by  *)
(* the stream that the session has for it until the session ends, and a pair *)
(* is an even port and the next one                                          *)
(* (on_demand_server_media_subsession.c:428).                                *)
THEOREM ToldPortsStayBound == Spec => []ToldPortsBound
BY ToldAreBound, InitIInv, NextIInv, PTL DEF Spec

(* The table of media names the permanent objects and those that a stream    *)
(* made so far holds, and no other: what a DESCRIBE makes it also closes,    *)
(* and what a SETUP or a PLAY makes it notes in the stream                   *)
(* (on_demand_server_media_subsession.c:306-331, 430-511).                   *)
THEOREM EveryMediumAccounted == Spec => []MediaAccounted
BY AllAccounted, InitIInv, NextIInv, PTL DEF Spec

(* A stream plays only after its own session asked to play its track: the    *)
(* token in the state of the session names the stream that the session set   *)
(* up, whatever other sessions do in between (rtsp_server.c:3186-3200).      *)
THEOREM OnlyAskedPlays == Spec => []PlayedAsAsked
<1>1. IInv => PlayedAsAsked
  BY DEF IInv
<1> QED
  BY <1>1, InitIInv, NextIInv, PTL DEF Spec
===============================================================================
