-------------------------- MODULE W5500NetworkStack --------------------------
(***************************************************************************)
(* The network stack of a WIZnet W5500 with its TCP clients, TCP servers,  *)
(* connection handlers and UDP sockets: who owns which hardware socket and *)
(* which port, over any sequence of make, bind, connect, listen, accept,   *)
(* shutdown, move and close calls, while connections come and go.          *)
(***************************************************************************)
EXTENDS W5500TcpClient, W5500TcpServer, W5500UdpSocket

vars == <<socketVars, client, serverVars, udp>>

Init == SocketsInit /\ ClientInit /\ ServerInit /\ UdpInit

Next ==
    \/ \E size \in BufferSizes : Initialize(size) /\ UNCHANGED <<client, serverVars, udp>>
    \/ \E i \in SocketIds : ChipStep(i) /\ UNCHANGED <<client, serverVars, udp>>
    \/ ClientNext /\ UNCHANGED <<serverVars, udp>>
    \/ ServerNext /\ UNCHANGED <<client, udp>>
    \/ UdpNext /\ UNCHANGED <<client, serverVars>>

Spec == Init /\ [][Next]_vars

TypeOK == SocketsTypeOK /\ ClientTypeOK /\ ServerTypeOK /\ UdpTypeOK

-----------------------------------------------------------------------------
(* Who uses a hardware socket.                                             *)

LiveClients == {c \in Clients : client[c].state # "UNINITIALIZED"}
LiveServers == {s \in Servers : server[s].state # "UNINITIALIZED"}
LiveHandlers == {h \in Handlers : handler[h].state # "UNINITIALIZED"}
LiveUdp == {u \in UdpSockets : udp[u].state # "UNINITIALIZED"}

Owners(i) ==
    {<<"client", c>> : c \in {d \in LiveClients : client[d].socket_id = i}}
    \cup {<<"server", s>> : s \in {t \in LiveServers : i \in Ids(t)}}
    \cup {<<"handler", h>> : h \in {g \in LiveHandlers : handler[g].socket_id = i /\ detached[i]}}
    \cup {<<"udp", u>> : u \in {v \in LiveUdp : udp[v].socket_id = i}}

(* An allocated hardware socket belongs to exactly one object that will    *)
(* give it back, and no object holds a socket that is not allocated: none  *)
(* leaks, none is used twice (Network_Stack::allocate_socket*,             *)
(* deallocate_socket, and the close() of every socket class); and the      *)
(* count of available sockets, which allocate_sockets() checks a backlog   *)
(* against, is the number of sockets that can be allocated.                *)
OneOwnerPerSocket ==
    /\ \A i \in SocketIds :
          IF status[i] = "ALLOCATED" THEN \E o \in Owners(i) : Owners(i) = {o}
                                     ELSE Owners(i) = {}
    /\ available = Cardinality(Free)

(* No expectation inside the library fails: a close() never gives back a   *)
(* socket that its owner or the network stack does not regard as lent.     *)
NoFault == ~fault

(* A connection handler and its server agree on who holds the socket: an   *)
(* attached handler uses a socket that its listening server has marked     *)
(* ALLOCATED, each such socket has one handler, and a socket is flagged as *)
(* detached exactly while a handler without a server uses it; then no      *)
(* close() of either fails an expectation of the other.                    *)
HandlersMatchServers ==
    /\ NoFault
    /\ \A h \in LiveHandlers : ~detached[handler[h].socket_id] =>
          /\ server[handler[h].server].state = "LISTENING"
          /\ handler[h].socket_id \in Ids(handler[h].server)
          /\ handler[h].socket_id \in server[handler[h].server].allocated
    /\ \A s \in LiveServers : \A i \in server[s].allocated :
          \E h \in LiveHandlers : handler[h].socket_id = i
    /\ \A g, h \in LiveHandlers : handler[g].socket_id = handler[h].socket_id => g = h
    /\ \A i \in SocketIds : detached[i] => \E h \in LiveHandlers : handler[h].socket_id = i

(* A socket that can be allocated carries nothing of its former owner over *)
(* to the next one: no protocol, port, option, interrupt mask, connection  *)
(* or detached flag.                                                       *)
FreeSocketsAreReset ==
    \A i \in Free :
        /\ sn_mr[i] = "NONE"
        /\ sn_port[i] = NoPort
        /\ sn_opt[i] = NoOption
        /\ sn_imr[i] = NoMask
        /\ sn_sr[i] = "CLOSED"
        /\ ~detached[i]

(* The ports an allocator has given out and not got back are exactly the   *)
(* ports in the registers of the sockets of its protocol: a port is        *)
(* released once, by the last socket that uses it, and never while one     *)
(* does (the close() of Client, Server, Server_Connection_Handler and      *)
(* UDP::Socket), so that an allocator that remembers ports and one that    *)
(* looks at the registers agree.  Two hardware sockets share a TCP port    *)
(* only when they are sockets of one server, or are both left over from a  *)
(* closed one.                                                             *)
PortsBalance ==
    /\ \A p \in {"TCP", "UDP"} :
          held[p] = {sn_port[i] : i \in {j \in SocketIds : sn_mr[j] = p}}
    /\ \A i, j \in SocketIds :
          (i # j /\ sn_mr[i] = "TCP" /\ sn_mr[j] = "TCP" /\ sn_port[i] = sn_port[j]) =>
              \/ \E s \in LiveServers : {i, j} \subseteq Ids(s)
              \/ detached[i] /\ detached[j]

(* The state an object keeps agrees with the state of its hardware socket: *)
(* a bound client's socket is not connected, a connected client's and a    *)
(* handler's socket has a connection, or had one, and was never reopened   *)
(* under it; a listening server's unallocated sockets are never idle; and  *)
(* all sockets of a server, those that listen() adds included, are         *)
(* configured alike, so that it does not matter which takes a connection.  *)
ObjectsMatchChip ==
    /\ \A c \in LiveClients : LET sr == sn_sr[client[c].socket_id] IN
          /\ client[c].state = "INITIALIZED" => sr = "CLOSED"
          /\ client[c].state = "BOUND" => sr = "INIT"
          /\ client[c].state = "CONNECTED" =>
                sr \in {"ESTABLISHED", "CLOSE_WAIT", "CLOSING", "CLOSED"}
    /\ \A h \in LiveHandlers :
          sn_sr[handler[h].socket_id] \in {"ESTABLISHED", "CLOSE_WAIT", "CLOSING", "CLOSED"}
    /\ \A s \in LiveServers : \A i \in Ids(s) \ server[s].allocated :
          /\ server[s].state = "BOUND" => sn_sr[i] = "INIT"
          /\ server[s].state = "LISTENING" => sn_sr[i] \in Acceptable \cup {"LISTEN", "OPENING"}
    /\ \A u \in LiveUdp : udp[u].state = "BOUND" <=> sn_sr[udp[u].socket_id] = "UDP"
    /\ \A s \in LiveServers : \A i, j \in Ids(s) :
          <<sn_mr[i], sn_port[i], sn_opt[i], sn_imr[i]>> = <<sn_mr[j], sn_port[j], sn_opt[j], sn_imr[j]>>

(* accept() reports WOULD_BLOCK only when no connection was there to be    *)
(* accepted when it was called, wherever the round robin starts and        *)
(* whatever the chip does during the scan.                                 *)
AcceptFindsWaiting ==
    (call # NoCall /\ call.n = Len(server[call.server].ids)) => call.waiting = {}

(* The round robin of accept() is fair: from the moment a connection waits *)
(* on one of a server's sockets, fewer connections of its other sockets    *)
(* are accepted first than the server has sockets.                         *)
AcceptIsFair ==
    \A s \in LiveServers : \A i \in Waiting(s) : passed[i] < Len(server[s].ids)

(* Closing (or moving) a server leaves the connections of its handlers     *)
(* alone: registers and port of their sockets do not change, and the port  *)
(* stays allocated.                                                        *)
ConnectionsOutliveServer ==
    [][\A s \in Servers :
         (server[s].state = "LISTENING" /\ server'[s].state = "UNINITIALIZED") =>
             \A i \in server[s].allocated :
                 /\ sn_sr'[i] = sn_sr[i]
                 /\ sn_port'[i] = sn_port[i]
                 /\ sn_port[i] \in held'["TCP"]]_vars

=============================================================================
