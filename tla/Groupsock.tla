------------------------------- MODULE Groupsock ------------------------------
(***************************************************************************)
(* Datagram sockets and the groupsocks around them (groupsock/             *)
(* groupsock_helper.c, net_interface.c, groupsock.c): opening a socket on  *)
(* a port, the flag that says whether ports may be shared, and what the    *)
(* constructor of a groupsock does with a socket it did not get.           *)
(*                                                                         *)
(* The network is a record: the private structure of the library, when it  *)
(* exists, and the ports that are bound, each with the one that bound it   *)
(* and whether it let others share the port.  An operation takes the       *)
(* network and returns the new one.  Nothing is sent here: writing,        *)
(* reading and adding a destination have no body.                          *)
(***************************************************************************)
EXTENDS Naturals

NoPriv == 2   \* usage_environment__groupsock_priv == NULL
Shared == 1
Unshared == 0

NewNetwork == [priv |-> NoPriv, bound |-> {}]

Bound(net, port) == {b \in net.bound : b.port = port}

(* The system's rule: a port is shared only if all who hold it said so.     *)
MayBind(net, port, reuse) ==
  \A b \in Bound(net, port) : reuse = Shared /\ b.reuse = Shared

Bind(net, port, owner, reuse) ==
  [net EXCEPT !.bound = @ \cup {[port |-> port, owner |-> owner, reuse |-> reuse]}]

(* The private structure, made on the first use; ports may be shared.       *)
GroupsockPriv(net) == IF net.priv = NoPriv THEN [net EXCEPT !.priv = Shared] ELSE net

ReclaimGroupsockPriv(net) == IF net.priv = Shared THEN [net EXCEPT !.priv = NoPriv] ELSE net

(* Mutant: the object that forbids sharing is gone before it is used. *)
NewNoReuseScoped(net) == ReclaimGroupsockPriv([GroupsockPriv(net) EXCEPT !.priv = Shared])

(* From here on no port is shared.  The callers never delete the object.    *)
NewNoReuse(net) == [GroupsockPriv(net) EXCEPT !.priv = Unshared]

(* Port zero leaves the socket unbound; a port that cannot be had leaves the *)
(* caller without a socket.                                                  *)
SetupDatagramSocket(net, port, owner) ==
  LET reuse == GroupsockPriv(net).priv
      ready == ReclaimGroupsockPriv(GroupsockPriv(net))
  IN  CASE port = 0                   -> [net |-> ready, socket |-> TRUE]
        [] port # 0 /\ MayBind(net, port, reuse)
                                      -> [net |-> Bind(ready, port, owner, reuse), socket |-> TRUE]
        [] OTHER                      -> [net |-> ready, socket |-> FALSE]

NewSocket(net, port, owner) ==
  LET s == SetupDatagramSocket(net, port, owner)
  IN  [net |-> s.net, socket |-> s.socket, port |-> port]

NewDestRecord(addr, port) == [addr |-> addr, port |-> port]

(* Joining the group asks libuv for the descriptor of the socket and does    *)
(* not look whether there is one.                                            *)
JoinsGroup(s) == s.socket

(* A groupsock with its first destination; "crashed" when there is no socket. *)
NewGroupsock(net, addr, port, owner) ==
  LET s == NewSocket(net, port, owner)
  IN  [net |-> s.net, crashed |-> ~JoinsGroup(s),
       gs |-> [port |-> port, socket |-> s.socket, dests |-> {NewDestRecord(addr, port)}]]

NoGroupsock == [port |-> 0, socket |-> FALSE, dests |-> {}]

RemoveAllDestinations(gs) == [gs EXCEPT !.dests = {}]

SocketReset(net, gs, owner) ==
  [net EXCEPT !.bound = {b \in @ : ~(gs.socket /\ b.port = gs.port /\ b.owner = owner)}]

DeleteGroupsock(net, gs, owner) == SocketReset(net, RemoveAllDestinations(gs), owner)
===============================================================================
