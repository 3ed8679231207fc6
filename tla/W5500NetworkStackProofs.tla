---------------------- MODULE W5500NetworkStackProofs ----------------------
(***************************************************************************)
(* Proofs about W5500NetworkStack, for any number of sockets, ports and    *)
(* objects.  First part: who owns which hardware socket.  Second part: the *)
(* registers of the hardware sockets, the ports, and the scan of accept(). *)
(*                                                                         *)
(* The inductive invariant of the first part is OwnersInv.  Its parts say, *)
(* of each kind of object, what the object may rely on: that its socket is *)
(* allocated, not detached, and nobody else's.  The properties the runs    *)
(* check say it of each socket instead, from which no step could be shown  *)
(* to keep it.  ~MoveWithHandlers is a hypothesis of the theorems: the run *)
(* that allows the move of a server that has connection handlers finds the *)
(* agreement of the two broken.                                            *)
(*                                                                         *)
(* Those of the second part are RegistersInv, what the registers of each   *)
(* socket are in each state of the object that has it, and AcceptInv, how  *)
(* far the scan in progress has come and how often it passed a connection. *)
(* Both rest on OwnersInv: a step of one object can be shown to leave the  *)
(* registers of another alone only because no two have the same socket.    *)
(***************************************************************************)
EXTENDS W5500NetworkStack, FiniteSetTheorems, TLAPS

-----------------------------------------------------------------------------
(* The invariant.                                                          *)

\* The network stack's own data: sockets beyond those initialize() found are
\* never available, the count is right, and no expectation has failed.
Pool ==
    /\ \A i \in SocketIds : status[i] = "NOT_AVAILABLE_FOR_USE" <=> i >= sockets
    /\ available = Cardinality(Free)
    /\ NoFault

\* A client that is not closed has a socket of its own.
ClientsOwn ==
    \A c \in Clients : client[c].state # "UNINITIALIZED" =>
        LET i == client[c].socket_id IN
        /\ status[i] = "ALLOCATED"
        /\ ~detached[i]
        /\ \A d \in Clients : client[d].state # "UNINITIALIZED" /\ client[d].socket_id = i => d = c
        /\ \A s \in Servers : server[s].state # "UNINITIALIZED" => i \notin Ids(s)
        /\ \A u \in UdpSockets : udp[u].state # "UNINITIALIZED" => udp[u].socket_id # i

\* ... and so has a UDP socket.
UdpSocketsOwn ==
    \A u \in UdpSockets : udp[u].state # "UNINITIALIZED" =>
        LET i == udp[u].socket_id IN
        /\ status[i] = "ALLOCATED"
        /\ ~detached[i]
        /\ \A v \in UdpSockets : udp[v].state # "UNINITIALIZED" /\ udp[v].socket_id = i => v = u
        /\ \A s \in Servers : server[s].state # "UNINITIALIZED" => i \notin Ids(s)
        /\ \A c \in Clients : client[c].state # "UNINITIALIZED" => client[c].socket_id # i

\* The sockets of a server are of no other server, and it has lent some of
\* them only while it listens.  That a client or UDP socket has none of them is
\* said above.
ServersOwn ==
    \A s \in Servers : server[s].state # "UNINITIALIZED" =>
        /\ \A i \in Ids(s) :
              /\ status[i] = "ALLOCATED"
              /\ ~detached[i]
              /\ \A t \in Servers : server[t].state # "UNINITIALIZED" /\ i \in Ids(t) => t = s
        /\ server[s].allocated \subseteq Ids(s)
        /\ server[s].state # "LISTENING" => server[s].allocated = {}

\* No socket is twice in a list, and the round robin points into it.
ServerLists ==
    \A s \in Servers :
        /\ \A j, k \in DOMAIN server[s].ids : server[s].ids[j] = server[s].ids[k] => j = k
        /\ server[s].state # "UNINITIALIZED" => server[s].accept_i < Len(server[s].ids)

\* A handler has a socket that its server, when it still has one, has lent to
\* it and to no other handler.
HandlersOwn ==
    \A h \in Handlers : handler[h].state # "UNINITIALIZED" =>
        LET i == handler[h].socket_id IN
        /\ status[i] = "ALLOCATED"
        /\ ~detached[i] => /\ server[handler[h].server].state = "LISTENING"
                           /\ i \in server[handler[h].server].allocated
        /\ \A g \in Handlers : handler[g].state # "UNINITIALIZED" /\ handler[g].socket_id = i => g = h

\* What is lent or detached is used by a handler.
LentAreUsed ==
    /\ \A s \in Servers : server[s].state # "UNINITIALIZED" =>
          \A i \in server[s].allocated :
              \E h \in Handlers : handler[h].state # "UNINITIALIZED" /\ handler[h].socket_id = i
    /\ \A i \in SocketIds : detached[i] =>
          \E h \in Handlers : handler[h].state # "UNINITIALIZED" /\ handler[h].socket_id = i

\* No allocated socket leaks.
AllocatedAreOwned ==
    \A i \in SocketIds : status[i] = "ALLOCATED" =>
        \/ \E c \in Clients : client[c].state # "UNINITIALIZED" /\ client[c].socket_id = i
        \/ \E s \in Servers : server[s].state # "UNINITIALIZED" /\ i \in Ids(s)
        \/ \E u \in UdpSockets : udp[u].state # "UNINITIALIZED" /\ udp[u].socket_id = i
        \/ detached[i]

\* accept() keeps a listening server and an unused handler.
CallInProgress ==
    call # NoCall =>
        /\ server[call.server].state = "LISTENING"
        /\ handler[call.handler].state = "UNINITIALIZED"
        /\ call.n <= Len(server[call.server].ids)

OwnersInv ==
    /\ Pool
    /\ ClientsOwn
    /\ UdpSocketsOwn
    /\ ServersOwn
    /\ ServerLists
    /\ HandlersOwn
    /\ LentAreUsed
    /\ AllocatedAreOwned
    /\ CallInProgress

-----------------------------------------------------------------------------
(* What steps that create, change and release objects do, and that they    *)
(* keep the invariant.                                                     *)

Elements(seq) == {seq[k] : k \in DOMAIN seq}

\* A step after which every object has the sockets it had.
OwnersStay ==
    /\ UNCHANGED <<stackVars, fault, handler>>
    /\ \A c \in Clients :
          /\ (client'[c].state = "UNINITIALIZED") = (client[c].state = "UNINITIALIZED")
          /\ client'[c].socket_id = client[c].socket_id
    /\ \A u \in UdpSockets :
          /\ (udp'[u].state = "UNINITIALIZED") = (udp[u].state = "UNINITIALIZED")
          /\ udp'[u].socket_id = udp[u].socket_id
    /\ \A s \in Servers :
          /\ (server'[s].state = "UNINITIALIZED") = (server[s].state = "UNINITIALIZED")
          /\ (server'[s].state = "LISTENING") = (server[s].state = "LISTENING")
          /\ server'[s].ids = server[s].ids
          /\ server'[s].allocated = server[s].allocated
          /\ server'[s].accept_i = server[s].accept_i \/ server'[s].accept_i < Len(server[s].ids)

LEMMA SocketIdsAreFinite ==
    /\ IsFiniteSet(SocketIds)
    /\ Cardinality(SocketIds) = SOCKETS
    /\ \A S \in SUBSET SocketIds : IsFiniteSet(S) /\ Cardinality(S) \in 0..SOCKETS
<1>1. IsFiniteSet(SocketIds) /\ Cardinality(SocketIds) = SOCKETS
    BY FS_Interval, SocketsAssumption DEF SocketIds
<1>2. ASSUME NEW S \in SUBSET SocketIds PROVE IsFiniteSet(S) /\ Cardinality(S) \in 0..SOCKETS
    BY <1>1, FS_Subset, FS_CardinalityType, SocketsAssumption
<1>. QED BY <1>1, <1>2

LEMMA IdListsAreSequences ==
    ASSUME NEW ids \in IdLists
    PROVE  ids \in Seq(SocketIds) /\ Len(ids) \in 0..SOCKETS /\ DOMAIN ids = 1..Len(ids)
<1>1. PICK n \in 0..SOCKETS : ids \in [1..n -> SocketIds]
    BY DEF IdLists
<1>. QED BY <1>1, SocketsAssumption

LEMMA SequencesAreIdLists ==
    ASSUME NEW ids \in Seq(SocketIds), Len(ids) <= SOCKETS
    PROVE  ids \in IdLists
<1>1. Len(ids) \in 0..SOCKETS /\ ids \in [1..Len(ids) -> SocketIds]
    BY SocketsAssumption
<1>. QED BY <1>1 DEF IdLists

\* A list of sockets in which none is twice is no longer than there are sockets.
LEMMA ListsAreShort ==
    ASSUME NEW ids \in Seq(SocketIds), \A j, k \in DOMAIN ids : ids[j] = ids[k] => j = k
    PROVE  Len(ids) <= SOCKETS
<1>1. ids \in Injection(1..Len(ids), SocketIds)
    BY DEF Injection, IsInjective
<1>2. Cardinality(1..Len(ids)) <= Cardinality(SocketIds)
    BY <1>1, FS_Injection, SocketIdsAreFinite
<1>. QED BY <1>2, FS_Interval, SocketIdsAreFinite

LEMMA AllocateCounts ==
    ASSUME SocketsTypeOK, available = Cardinality(Free), NEW S \in SUBSET Free, Allocate(S)
    PROVE  available' = Cardinality(Free') /\ available' \in 0..SOCKETS
<1>1. Free' = Free \ S
    BY DEF Allocate, Free, SocketsTypeOK
<1>2. Free \in SUBSET SocketIds /\ Free \ S \in SUBSET SocketIds /\ Free \cap S = S
    BY DEF Free
<1>3. Cardinality(Free \ S) = Cardinality(Free) - Cardinality(S)
    BY <1>2, FS_Difference, SocketIdsAreFinite
<1>. QED BY <1>1, <1>2, <1>3, SocketIdsAreFinite DEF Allocate

LEMMA DeallocateTypes ==
    ASSUME SocketsTypeOK, NEW S, NEW D, DeallocateAndDetach(S, D)
    PROVE  /\ sockets' = sockets
           /\ status' \in [SocketIds -> Socket_Status]
           /\ detached' \in [SocketIds -> BOOLEAN]
           /\ sn_mr' \in [SocketIds -> Protocols]
           /\ sn_port' \in [SocketIds -> Ports \cup {NoPort}]
           /\ sn_opt' \in [SocketIds -> Options \cup {NoOption}]
           /\ sn_imr' \in [SocketIds -> Masks \cup {NoMask}]
           /\ sn_sr' \in [SocketIds -> SN_SR]
           /\ fault' \in BOOLEAN
<1> USE DEF SocketsTypeOK, DeallocateAndDetach
<1>1. status' \in [SocketIds -> Socket_Status]
    BY DEF Socket_Status
<1>2. detached' \in [SocketIds -> BOOLEAN]
    BY DEF DetachedAfter
<1>3. sn_mr' \in [SocketIds -> Protocols]
    BY DEF Protocols
<1>4. sn_port' \in [SocketIds -> Ports \cup {NoPort}]
    OBVIOUS
<1>5. sn_opt' \in [SocketIds -> Options \cup {NoOption}]
    OBVIOUS
<1>6. sn_imr' \in [SocketIds -> Masks \cup {NoMask}]
    OBVIOUS
<1>7. sn_sr' \in [SocketIds -> SN_SR]
    BY DEF SN_SR
<1>. QED BY <1>1, <1>2, <1>3, <1>4, <1>5, <1>6, <1>7

LEMMA DeallocateCounts ==
    ASSUME SocketsTypeOK, available = Cardinality(Free), NEW S \in SUBSET SocketIds, NEW D,
           \A i \in S : status[i] = "ALLOCATED", DeallocateAndDetach(S, D)
    PROVE  available' = Cardinality(Free') /\ available' \in 0..SOCKETS
<1>1. Free' = Free \cup S
    BY DEF DeallocateAndDetach, Free, SocketsTypeOK
<1>2. Free \in SUBSET SocketIds /\ Free \cup S \in SUBSET SocketIds /\ Free \cap S = {}
    BY DEF Free
<1>3. Cardinality(Free \cup S) = Cardinality(Free) + Cardinality(S)
    <2>1. Cardinality(Free \cup S) = Cardinality(Free) + Cardinality(S) - Cardinality(Free \cap S)
        BY <1>2, FS_Union, SocketIdsAreFinite
    <2>. QED BY <2>1, <1>2, FS_EmptySet, SocketIdsAreFinite
<1>. QED BY <1>1, <1>2, <1>3, SocketIdsAreFinite DEF DeallocateAndDetach, AvailableAfter

\* Ids as a set of socket ids, and when it stays.
LEMMA IdsAreSocketIds ==
    ASSUME ServerTypeOK, NEW s \in Servers
    PROVE  /\ Ids(s) \subseteq SocketIds
           /\ \A k \in 1..Len(server[s].ids) : server[s].ids[k] \in Ids(s)
           /\ \A i \in Ids(s) : \E k \in 1..Len(server[s].ids) : i = server[s].ids[k]
<1>1. server[s].ids \in IdLists
    BY DEF ServerTypeOK
<1>. QED BY <1>1, IdListsAreSequences DEF Ids

LEMMA ServerStateChanges ==
    ASSUME ServerTypeOK, NEW s \in Servers, NEW state \in Server_State,
           server' = [server EXCEPT ![s].state = state]
    PROVE  server' \in [Servers -> [state : Server_State, ids : IdLists,
                                    allocated : SUBSET SocketIds, accept_i : SocketIds]]
<1> DEFINE L == IdLists
<1> HIDE DEF L
<1>1. server \in [Servers -> [state : Server_State, ids : L, allocated : SUBSET SocketIds, accept_i : SocketIds]]
    BY DEF ServerTypeOK, L
<1>2. server' \in [Servers -> [state : Server_State, ids : L, allocated : SUBSET SocketIds, accept_i : SocketIds]]
    BY <1>1
<1>. QED BY <1>2 DEF L

LEMMA OwnersStayKeepsOwners ==
    ASSUME TypeOK, OwnersInv, OwnersStay, CallInProgress' PROVE OwnersInv'
<1> USE DEF OwnersInv, OwnersStay, stackVars
<1>1. \A s \in Servers : Ids(s)' = Ids(s)
    BY DEF Ids
<1>2. Pool'
    BY DEF Pool, Free, NoFault
<1>3. ClientsOwn'
    BY <1>1 DEF ClientsOwn
<1>4. UdpSocketsOwn'
    BY <1>1 DEF UdpSocketsOwn
<1>5. ServersOwn'
    BY <1>1 DEF ServersOwn
<1>6. ServerLists'
    BY DEF ServerLists
<1>7. HandlersOwn'
    BY DEF HandlersOwn, TypeOK, ServerTypeOK
<1>8. LentAreUsed'
    BY DEF LentAreUsed
<1>9. AllocatedAreOwned'
    BY <1>1 DEF AllocatedAreOwned
<1>. QED BY <1>2, <1>3, <1>4, <1>5, <1>6, <1>7, <1>8, <1>9

LEMMA ClientStaysKeepsOwners ==
    ASSUME TypeOK, OwnersInv, UNCHANGED <<serverVars, udp>>,
           NEW c \in Clients,
           \/ \E option \in Options : ClientConfigure(c, option)
           \/ \E mask \in Masks : ClientSetInterrupts(c, mask)
           \/ \E port \in Ports : ClientBind(c, port)
           \/ ClientConnect(c) \/ ClientConnected(c) \/ ClientShutdown(c)
    PROVE  TypeOK' /\ OwnersInv'
<1> USE DEF TypeOK, SocketsTypeOK, ClientTypeOK, ServerTypeOK, UdpTypeOK, socketVars, stackVars,
        registers, serverVars
<1>1. TypeOK' /\ OwnersStay
    <2> USE DEF OwnersStay
    <2>1. CASE \E option \in Options : ClientConfigure(c, option)
        BY <2>1 DEF ClientConfigure
    <2>2. CASE \E mask \in Masks : ClientSetInterrupts(c, mask)
        BY <2>2 DEF ClientSetInterrupts
    <2>3. CASE \E port \in Ports : ClientBind(c, port)
        BY <2>3 DEF ClientBind, AllocatePort, Client_State, SN_SR, Protocols
    <2>4. CASE ClientConnect(c)
        BY <2>4 DEF ClientConnect, Client_State, SN_SR
    <2>5. CASE ClientConnected(c)
        BY <2>5 DEF ClientConnected, Client_State
    <2>6. CASE ClientShutdown(c)
        BY <2>6 DEF ClientShutdown, Disconnect, SN_SR
    <2>. QED BY <2>1, <2>2, <2>3, <2>4, <2>5, <2>6
<1>2. UNCHANGED <<call, server, handler>>
    BY DEF ClientConfigure, ClientSetInterrupts, ClientBind, ClientConnect, ClientConnected, ClientShutdown
<1>3. CallInProgress'
    BY <1>2 DEF CallInProgress, OwnersInv
<1>. QED BY <1>1, <1>3, OwnersStayKeepsOwners

LEMMA MakeClientKeepsOwners ==
    ASSUME TypeOK, OwnersInv, NEW c \in Clients, NEW i \in SocketIds,
           MakeClient(c, i) \/ MakeClientAt(c, i), UNCHANGED <<serverVars, udp>>
    PROVE  TypeOK' /\ OwnersInv'
<1> USE DEF TypeOK, OwnersInv
<1>1. /\ Idle
      /\ client[c].state = "UNINITIALIZED"
      /\ i \in Free
      /\ Allocate({i})
      /\ client' = [client EXCEPT ![c] = [state |-> "INITIALIZED", socket_id |-> i]]
      /\ UNCHANGED <<registers, held, call, fault, serverVars, udp>>
    BY DEF MakeClient, MakeClientAt, FirstAvailable
<1>2. status' = [status EXCEPT ![i] = "ALLOCATED"] /\ sockets' = sockets /\ detached' = detached
    BY <1>1 DEF Allocate, SocketsTypeOK
<1>3. available' = Cardinality(Free') /\ available' \in 0..SOCKETS
    BY <1>1, AllocateCounts DEF Pool
<1>4. TypeOK'
    BY <1>1, <1>2, <1>3 DEF SocketsTypeOK, ClientTypeOK, ServerTypeOK, UdpTypeOK, serverVars,
       registers, Socket_Status, Client_State
<1>5. \A s \in Servers : Ids(s)' = Ids(s) /\ server'[s] = server[s]
    BY <1>1 DEF serverVars, Ids
<1>6. status[i] = "AVAILABLE_FOR_ALLOCATION"
    BY <1>1 DEF Free
<1> USE DEF SocketsTypeOK, ClientTypeOK, ServerTypeOK, UdpTypeOK, serverVars
<1>7. Pool'
    BY <1>1, <1>2, <1>3, <1>6 DEF Pool, NoFault
<1>8. ClientsOwn'
    BY <1>1, <1>2, <1>5, <1>6 DEF ClientsOwn, ServersOwn, UdpSocketsOwn, LentAreUsed, HandlersOwn
<1>9. UdpSocketsOwn'
    BY <1>1, <1>2, <1>5, <1>6 DEF UdpSocketsOwn
<1>10. ServersOwn'
    BY <1>1, <1>2, <1>5, <1>6 DEF ServersOwn
<1>11. ServerLists'
    BY <1>1 DEF ServerLists
<1>12. HandlersOwn'
    BY <1>1, <1>2, <1>5, <1>6 DEF HandlersOwn
<1>13. LentAreUsed'
    BY <1>1, <1>2, <1>5, <1>6 DEF LentAreUsed
<1>14. AllocatedAreOwned'
    BY <1>1, <1>2, <1>5, <1>6 DEF AllocatedAreOwned
<1>15. CallInProgress'
    BY <1>1, <1>2 DEF CallInProgress, Idle
<1>. QED BY <1>4, <1>7, <1>8, <1>9, <1>10, <1>11, <1>12, <1>13, <1>14, <1>15

\* close(), and the first half of a move assignment.
LEMMA ReleaseClientSocketFrees ==
    ASSUME TypeOK, OwnersInv, NEW c \in Clients, client[c].state # "UNINITIALIZED",
           ReleaseClientSocket(c)
    PROVE  /\ SocketsTypeOK'
           /\ status' = [status EXCEPT ![client[c].socket_id] = "AVAILABLE_FOR_ALLOCATION"]
           /\ detached' = detached
           /\ sockets' = sockets
           /\ Pool'
<1> DEFINE i == client[c].socket_id
<1> USE DEF TypeOK, SocketsTypeOK, ClientTypeOK, OwnersInv
<1>1. i \in SocketIds /\ status[i] = "ALLOCATED" /\ ~detached[i]
    BY DEF ClientsOwn
<1>2. DeallocateAndDetach({i}, {}) /\ held' \in [{"TCP", "UDP"} -> SUBSET Ports]
    BY DEF ReleaseClientSocket, Deallocate, DeallocatePort
<1>3. available' = Cardinality(Free') /\ available' \in 0..SOCKETS
    BY <1>1, <1>2, DeallocateCounts DEF Pool
<1>4. /\ status' = [status EXCEPT ![i] = "AVAILABLE_FOR_ALLOCATION"]
      /\ sockets' = sockets
      /\ ~fault'
    BY <1>1, <1>2 DEF DeallocateAndDetach
<1>5. detached' = detached
    BY <1>1, <1>2 DEF DeallocateAndDetach, DetachedAfter
<1>6. SocketsTypeOK'
    BY <1>2, <1>3, <1>4, DeallocateTypes
<1>7. Pool'
    BY <1>1, <1>3, <1>4 DEF Pool, NoFault
<1>. QED BY <1>4, <1>5, <1>6, <1>7

\* Nothing else uses the socket of a client.
LEMMA ClientsSocketIsItsOwn ==
    ASSUME TypeOK, OwnersInv, NEW c \in Clients, client[c].state # "UNINITIALIZED"
    PROVE  LET i == client[c].socket_id IN
           /\ i \in SocketIds
           /\ status[i] = "ALLOCATED"
           /\ ~detached[i]
           /\ \A d \in Clients : client[d].state # "UNINITIALIZED" /\ client[d].socket_id = i => d = c
           /\ \A s \in Servers : server[s].state # "UNINITIALIZED" => i \notin Ids(s) /\ i \notin server[s].allocated
           /\ \A u \in UdpSockets : udp[u].state # "UNINITIALIZED" => udp[u].socket_id # i
           /\ \A h \in Handlers : handler[h].state # "UNINITIALIZED" => handler[h].socket_id # i
BY DEF TypeOK, ClientTypeOK, ServerTypeOK, OwnersInv, ClientsOwn, ServersOwn, HandlersOwn

LEMMA ClientStateChanges ==
    ASSUME ClientTypeOK, NEW c \in Clients, NEW state \in Client_State,
           client' = [client EXCEPT ![c].state = state]
    PROVE  ClientTypeOK'
BY DEF ClientTypeOK

LEMMA ClientCloseKeepsOwners ==
    ASSUME TypeOK, OwnersInv, NEW c \in Clients, ClientClose(c), UNCHANGED <<serverVars, udp>>
    PROVE  TypeOK' /\ OwnersInv'
<1> DEFINE i == client[c].socket_id
<1> USE DEF TypeOK, OwnersInv
<1>1. /\ Idle
      /\ client[c].state # "UNINITIALIZED"
      /\ client' = [client EXCEPT ![c].state = "UNINITIALIZED"]
      /\ UNCHANGED <<call, server, handler, passed, udp>>
    BY DEF ClientClose, serverVars
<1>2. /\ SocketsTypeOK'
      /\ status' = [status EXCEPT ![i] = "AVAILABLE_FOR_ALLOCATION"]
      /\ detached' = detached
      /\ sockets' = sockets
      /\ Pool'
    BY <1>1, ReleaseClientSocketFrees DEF ClientClose
<1>3. \A s \in Servers : Ids(s)' = Ids(s)
    BY <1>1 DEF Ids
<1> USE DEF SocketsTypeOK, ClientTypeOK, ServerTypeOK, UdpTypeOK
<1>4. TypeOK'
    <2>1. ClientTypeOK'
        <3>1. "UNINITIALIZED" \in Client_State
            BY DEF Client_State
        <3>. QED BY <1>1, <3>1, ClientStateChanges
    <2>. QED BY <1>1, <1>2, <2>1
<1>5. ClientsOwn'
    BY <1>1, <1>2, <1>3 DEF ClientsOwn
<1>6. UdpSocketsOwn'
    BY <1>1, <1>2, <1>3 DEF UdpSocketsOwn, ClientsOwn
<1>7. ServersOwn'
    BY <1>1, <1>2, <1>3 DEF ServersOwn, ClientsOwn
<1>8. ServerLists'
    BY <1>1 DEF ServerLists
<1>9. HandlersOwn'
    BY <1>1, <1>2, ClientsSocketIsItsOwn DEF HandlersOwn
<1>10. LentAreUsed'
    BY <1>1, <1>2 DEF LentAreUsed
<1>11. AllocatedAreOwned'
    BY <1>1, <1>2, <1>3 DEF AllocatedAreOwned, ClientsOwn
<1>12. CallInProgress'
    BY <1>1 DEF CallInProgress, Idle
<1>. QED BY <1>2, <1>4, <1>5, <1>6, <1>7, <1>8, <1>9, <1>10, <1>11, <1>12

LEMMA ClientMoveKeepsOwners ==
    ASSUME TypeOK, OwnersInv, NEW c \in Clients, NEW d \in Clients, ClientMove(c, d),
           UNCHANGED <<serverVars, udp>>
    PROVE  TypeOK' /\ OwnersInv'
<1> DEFINE i == client[c].socket_id
<1> USE DEF TypeOK, OwnersInv
<1>1. /\ Idle
      /\ c # d
      /\ client' = [client EXCEPT ![c] = client[d], ![d].state = "UNINITIALIZED"]
      /\ UNCHANGED <<call, server, handler, passed, udp>>
    BY DEF ClientMove, serverVars
<1>2. /\ SocketsTypeOK'
      /\ \A j \in SocketIds :
            status'[j] = IF client[c].state # "UNINITIALIZED" /\ j = i
                         THEN "AVAILABLE_FOR_ALLOCATION" ELSE status[j]
      /\ detached' = detached
      /\ sockets' = sockets
      /\ Pool'
    <2>1. CASE client[c].state = "UNINITIALIZED"
        BY <2>1 DEF ClientMove, stackVars, registers, SocketsTypeOK, Pool, NoFault, Free
    <2>2. CASE client[c].state # "UNINITIALIZED"
        BY <2>2, ReleaseClientSocketFrees DEF ClientMove, SocketsTypeOK, ClientTypeOK
    <2>. QED BY <2>1, <2>2
<1>3. \A s \in Servers : Ids(s)' = Ids(s)
    BY <1>1 DEF Ids
<1> USE DEF SocketsTypeOK, ClientTypeOK, ServerTypeOK, UdpTypeOK
<1>m. /\ client'[c] = client[d]
      /\ client'[d] = [state |-> "UNINITIALIZED", socket_id |-> client[d].socket_id]
      /\ \A e \in Clients \ {c, d} : client'[e] = client[e]
      /\ client' \in [Clients -> [state : Client_State, socket_id : SocketIds]]
    BY <1>1 DEF Client_State
<1>4. TypeOK'
    BY <1>1, <1>2, <1>m
<1>n. client[c].state # "UNINITIALIZED" =>
          /\ \A s \in Servers : server[s].state # "UNINITIALIZED" => i \notin Ids(s) /\ i \notin server[s].allocated
          /\ \A u \in UdpSockets : udp[u].state # "UNINITIALIZED" => udp[u].socket_id # i
          /\ \A h \in Handlers : handler[h].state # "UNINITIALIZED" => handler[h].socket_id # i
          /\ \A e \in Clients : client[e].state # "UNINITIALIZED" /\ client[e].socket_id = i => e = c
    BY ClientsSocketIsItsOwn
<1>o. \A e \in Clients : client'[e].state # "UNINITIALIZED" =>
          \E f \in Clients \ {c} : /\ client[f].state # "UNINITIALIZED"
                                 /\ client'[e].socket_id = client[f].socket_id
                                 /\ f = IF e = c THEN d ELSE e
    BY <1>1, <1>m
<1>5. ClientsOwn'
    <2> SUFFICES ASSUME NEW e \in Clients, client'[e].state # "UNINITIALIZED"
                 PROVE  LET j == client'[e].socket_id IN
                        /\ status'[j] = "ALLOCATED"
                        /\ ~detached'[j]
                        /\ \A g \in Clients : client'[g].state # "UNINITIALIZED" /\ client'[g].socket_id = j => g = e
                        /\ \A s \in Servers : server'[s].state # "UNINITIALIZED" => j \notin Ids(s)'
                        /\ \A u \in UdpSockets : udp'[u].state # "UNINITIALIZED" => udp'[u].socket_id # j
        BY DEF ClientsOwn
    <2>1. PICK f \in Clients \ {c} : /\ client[f].state # "UNINITIALIZED"
                                    /\ client'[e].socket_id = client[f].socket_id
                                    /\ f = IF e = c THEN d ELSE e
        BY <1>o
    <2>2. client[f].socket_id \in SocketIds
        OBVIOUS
    <2>3. status[client[f].socket_id] = "ALLOCATED" /\ ~detached[client[f].socket_id]
        BY <2>1 DEF ClientsOwn
    <2>4. client[c].state # "UNINITIALIZED" => client[f].socket_id # i
        BY <1>n, <2>1
    <2>5. \A g \in Clients : client'[g].state # "UNINITIALIZED" /\ client'[g].socket_id = client[f].socket_id => g = e
        BY <1>o, <1>1, <1>m, <2>1 DEF ClientsOwn
    <2>. QED BY <1>1, <1>2, <1>3, <2>1, <2>2, <2>3, <2>4, <2>5 DEF ClientsOwn
<1>6. UdpSocketsOwn'
    <2> SUFFICES ASSUME NEW u \in UdpSockets, udp'[u].state # "UNINITIALIZED"
                 PROVE  LET j == udp'[u].socket_id IN
                        /\ status'[j] = "ALLOCATED"
                        /\ ~detached'[j]
                        /\ \A v \in UdpSockets : udp'[v].state # "UNINITIALIZED" /\ udp'[v].socket_id = j => v = u
                        /\ \A s \in Servers : server'[s].state # "UNINITIALIZED" => j \notin Ids(s)'
                        /\ \A e \in Clients : client'[e].state # "UNINITIALIZED" => client'[e].socket_id # j
        BY DEF UdpSocketsOwn
    <2>1. udp[u].state # "UNINITIALIZED" /\ udp'[u].socket_id = udp[u].socket_id /\ udp[u].socket_id \in SocketIds
        BY <1>1
    <2>2. status'[udp[u].socket_id] = "ALLOCATED" /\ ~detached'[udp[u].socket_id]
        BY <1>2, <1>n, <2>1 DEF UdpSocketsOwn
    <2>3. \A e \in Clients : client'[e].state # "UNINITIALIZED" => client'[e].socket_id # udp[u].socket_id
        BY <1>5, <2>1 DEF ClientsOwn
    <2>4. \A v \in UdpSockets : udp'[v].state # "UNINITIALIZED" /\ udp'[v].socket_id = udp[u].socket_id => v = u
        BY <1>1, <2>1 DEF UdpSocketsOwn
    <2>5. \A s \in Servers : server'[s].state # "UNINITIALIZED" => udp[u].socket_id \notin Ids(s)'
        BY <1>1, <1>3, <2>1 DEF UdpSocketsOwn
    <2>. QED BY <2>1, <2>2, <2>3, <2>4, <2>5
<1>7. ServersOwn'
    BY <1>1, <1>2, <1>3, <1>n, IdsAreSocketIds DEF ServersOwn
<1>8. ServerLists'
    BY <1>1 DEF ServerLists
<1>9. HandlersOwn'
    BY <1>1, <1>2, <1>n DEF HandlersOwn
<1>10. LentAreUsed'
    BY <1>1, <1>2 DEF LentAreUsed
<1>11. AllocatedAreOwned'
    <2> SUFFICES ASSUME NEW j \in SocketIds, status'[j] = "ALLOCATED"
                 PROVE  \/ \E e \in Clients : client'[e].state # "UNINITIALIZED" /\ client'[e].socket_id = j
                        \/ \E s \in Servers : server'[s].state # "UNINITIALIZED" /\ j \in Ids(s)'
                        \/ \E u \in UdpSockets : udp'[u].state # "UNINITIALIZED" /\ udp'[u].socket_id = j
                        \/ detached'[j]
        BY DEF AllocatedAreOwned
    <2>1. status[j] = "ALLOCATED" /\ (client[c].state # "UNINITIALIZED" => j # i)
        BY <1>2
    <2>2. ASSUME NEW f \in Clients, client[f].state # "UNINITIALIZED", client[f].socket_id = j
          PROVE  \E e \in Clients : client'[e].state # "UNINITIALIZED" /\ client'[e].socket_id = j
        BY <2>1, <2>2, <1>m
    <2>3. \/ \E f \in Clients : client[f].state # "UNINITIALIZED" /\ client[f].socket_id = j
          \/ \E s \in Servers : server[s].state # "UNINITIALIZED" /\ j \in Ids(s)
          \/ \E u \in UdpSockets : udp[u].state # "UNINITIALIZED" /\ udp[u].socket_id = j
          \/ detached[j]
        BY <2>1 DEF AllocatedAreOwned
    <2>. QED BY <1>1, <1>2, <1>3, <2>2, <2>3
<1>12. CallInProgress'
    BY <1>1 DEF CallInProgress, Idle
<1>. QED BY <1>2, <1>4, <1>5, <1>6, <1>7, <1>8, <1>9, <1>10, <1>11, <1>12

LEMMA UdpStaysKeepsOwners ==
    ASSUME TypeOK, OwnersInv, UNCHANGED <<serverVars, client>>,
           NEW u \in UdpSockets,
           \/ \E option \in Options : UdpConfigure(u, option)
           \/ \E mask \in Masks : UdpSetInterrupts(u, mask)
           \/ \E port \in Ports : UdpBind(u, port)
    PROVE  TypeOK' /\ OwnersInv'
<1> USE DEF TypeOK, SocketsTypeOK, UdpTypeOK, ServerTypeOK, ClientTypeOK, socketVars, stackVars,
        registers, serverVars
<1>1. TypeOK' /\ OwnersStay
    <2> USE DEF OwnersStay
    <2>1. CASE \E option \in Options : UdpConfigure(u, option)
        BY <2>1 DEF UdpConfigure
    <2>2. CASE \E mask \in Masks : UdpSetInterrupts(u, mask)
        BY <2>2 DEF UdpSetInterrupts
    <2>3. CASE \E port \in Ports : UdpBind(u, port)
        BY <2>3 DEF UdpBind, AllocatePort, Udp_State, SN_SR, Protocols
    <2>. QED BY <2>1, <2>2, <2>3
<1>2. UNCHANGED <<call, server, handler>>
    BY DEF UdpConfigure, UdpSetInterrupts, UdpBind
<1>3. CallInProgress'
    BY <1>2 DEF CallInProgress, OwnersInv
<1>. QED BY <1>1, <1>3, OwnersStayKeepsOwners
LEMMA MakeUdpKeepsOwners ==
    ASSUME TypeOK, OwnersInv, NEW u \in UdpSockets, NEW i \in SocketIds,
           MakeUdp(u, i) \/ MakeUdpAt(u, i), UNCHANGED <<serverVars, client>>
    PROVE  TypeOK' /\ OwnersInv'
<1> USE DEF TypeOK, OwnersInv
<1>1. /\ Idle
      /\ udp[u].state = "UNINITIALIZED"
      /\ i \in Free
      /\ Allocate({i})
      /\ udp' = [udp EXCEPT ![u] = [state |-> "INITIALIZED", socket_id |-> i]]
      /\ UNCHANGED <<registers, held, call, fault, serverVars, client>>
    BY DEF MakeUdp, MakeUdpAt, FirstAvailable
<1>2. status' = [status EXCEPT ![i] = "ALLOCATED"] /\ sockets' = sockets /\ detached' = detached
    BY <1>1 DEF Allocate, SocketsTypeOK
<1>3. available' = Cardinality(Free') /\ available' \in 0..SOCKETS
    BY <1>1, AllocateCounts DEF Pool
<1>4. TypeOK'
    BY <1>1, <1>2, <1>3 DEF SocketsTypeOK, UdpTypeOK, ServerTypeOK, ClientTypeOK, serverVars,
       registers, Socket_Status, Udp_State
<1>5. \A s \in Servers : Ids(s)' = Ids(s) /\ server'[s] = server[s]
    BY <1>1 DEF serverVars, Ids
<1>6. status[i] = "AVAILABLE_FOR_ALLOCATION"
    BY <1>1 DEF Free
<1> USE DEF SocketsTypeOK, UdpTypeOK, ServerTypeOK, ClientTypeOK, serverVars
<1>7. Pool'
    BY <1>1, <1>2, <1>3, <1>6 DEF Pool, NoFault
<1>8. UdpSocketsOwn'
    BY <1>1, <1>2, <1>5, <1>6 DEF UdpSocketsOwn, ServersOwn, ClientsOwn, LentAreUsed, HandlersOwn
<1>9. ClientsOwn'
    BY <1>1, <1>2, <1>5, <1>6 DEF ClientsOwn
<1>10. ServersOwn'
    BY <1>1, <1>2, <1>5, <1>6 DEF ServersOwn
<1>11. ServerLists'
    BY <1>1 DEF ServerLists
<1>12. HandlersOwn'
    BY <1>1, <1>2, <1>5, <1>6 DEF HandlersOwn
<1>13. LentAreUsed'
    BY <1>1, <1>2, <1>5, <1>6 DEF LentAreUsed
<1>14. AllocatedAreOwned'
    BY <1>1, <1>2, <1>5, <1>6 DEF AllocatedAreOwned
<1>15. CallInProgress'
    BY <1>1, <1>2 DEF CallInProgress, Idle
<1>. QED BY <1>4, <1>7, <1>8, <1>9, <1>10, <1>11, <1>12, <1>13, <1>14, <1>15

\* close(), and the first half of a move assignment.
LEMMA ReleaseUdpSocketFrees ==
    ASSUME TypeOK, OwnersInv, NEW u \in UdpSockets, udp[u].state # "UNINITIALIZED",
           ReleaseUdpSocket(u)
    PROVE  /\ SocketsTypeOK'
           /\ status' = [status EXCEPT ![udp[u].socket_id] = "AVAILABLE_FOR_ALLOCATION"]
           /\ detached' = detached
           /\ sockets' = sockets
           /\ Pool'
<1> DEFINE i == udp[u].socket_id
<1> USE DEF TypeOK, SocketsTypeOK, UdpTypeOK, OwnersInv
<1>1. i \in SocketIds /\ status[i] = "ALLOCATED" /\ ~detached[i]
    BY DEF UdpSocketsOwn
<1>2. DeallocateAndDetach({i}, {}) /\ held' \in [{"TCP", "UDP"} -> SUBSET Ports]
    BY DEF ReleaseUdpSocket, Deallocate, DeallocatePort
<1>3. available' = Cardinality(Free') /\ available' \in 0..SOCKETS
    BY <1>1, <1>2, DeallocateCounts DEF Pool
<1>4. /\ status' = [status EXCEPT ![i] = "AVAILABLE_FOR_ALLOCATION"]
      /\ sockets' = sockets
      /\ ~fault'
    BY <1>1, <1>2 DEF DeallocateAndDetach
<1>5. detached' = detached
    BY <1>1, <1>2 DEF DeallocateAndDetach, DetachedAfter
<1>6. SocketsTypeOK'
    BY <1>2, <1>3, <1>4, DeallocateTypes
<1>7. Pool'
    BY <1>1, <1>3, <1>4 DEF Pool, NoFault
<1>. QED BY <1>4, <1>5, <1>6, <1>7

\* Nothing else uses the socket of a udp.
LEMMA UdpSocketIsItsOwn ==
    ASSUME TypeOK, OwnersInv, NEW u \in UdpSockets, udp[u].state # "UNINITIALIZED"
    PROVE  LET i == udp[u].socket_id IN
           /\ i \in SocketIds
           /\ status[i] = "ALLOCATED"
           /\ ~detached[i]
           /\ \A v \in UdpSockets : udp[v].state # "UNINITIALIZED" /\ udp[v].socket_id = i => v = u
           /\ \A s \in Servers : server[s].state # "UNINITIALIZED" => i \notin Ids(s) /\ i \notin server[s].allocated
           /\ \A c \in Clients : client[c].state # "UNINITIALIZED" => client[c].socket_id # i
           /\ \A h \in Handlers : handler[h].state # "UNINITIALIZED" => handler[h].socket_id # i
BY DEF TypeOK, UdpTypeOK, ServerTypeOK, OwnersInv, UdpSocketsOwn, ServersOwn, HandlersOwn

LEMMA UdpStateChanges ==
    ASSUME UdpTypeOK, NEW u \in UdpSockets, NEW state \in Udp_State,
           udp' = [udp EXCEPT ![u].state = state]
    PROVE  UdpTypeOK'
BY DEF UdpTypeOK

LEMMA UdpCloseKeepsOwners ==
    ASSUME TypeOK, OwnersInv, NEW u \in UdpSockets, UdpClose(u), UNCHANGED <<serverVars, client>>
    PROVE  TypeOK' /\ OwnersInv'
<1> DEFINE i == udp[u].socket_id
<1> USE DEF TypeOK, OwnersInv
<1>1. /\ Idle
      /\ udp[u].state # "UNINITIALIZED"
      /\ udp' = [udp EXCEPT ![u].state = "UNINITIALIZED"]
      /\ UNCHANGED <<call, server, handler, passed, client>>
    BY DEF UdpClose, serverVars
<1>2. /\ SocketsTypeOK'
      /\ status' = [status EXCEPT ![i] = "AVAILABLE_FOR_ALLOCATION"]
      /\ detached' = detached
      /\ sockets' = sockets
      /\ Pool'
    BY <1>1, ReleaseUdpSocketFrees DEF UdpClose
<1>3. \A s \in Servers : Ids(s)' = Ids(s)
    BY <1>1 DEF Ids
<1> USE DEF SocketsTypeOK, UdpTypeOK, ServerTypeOK, ClientTypeOK
<1>4. TypeOK'
    <2>1. UdpTypeOK'
        <3>1. "UNINITIALIZED" \in Udp_State
            BY DEF Udp_State
        <3>. QED BY <1>1, <3>1, UdpStateChanges
    <2>. QED BY <1>1, <1>2, <2>1
<1>5. UdpSocketsOwn'
    BY <1>1, <1>2, <1>3 DEF UdpSocketsOwn
<1>6. ClientsOwn'
    BY <1>1, <1>2, <1>3 DEF ClientsOwn, UdpSocketsOwn
<1>7. ServersOwn'
    BY <1>1, <1>2, <1>3 DEF ServersOwn, UdpSocketsOwn
<1>8. ServerLists'
    BY <1>1 DEF ServerLists
<1>9. HandlersOwn'
    BY <1>1, <1>2, UdpSocketIsItsOwn DEF HandlersOwn
<1>10. LentAreUsed'
    BY <1>1, <1>2 DEF LentAreUsed
<1>11. AllocatedAreOwned'
    BY <1>1, <1>2, <1>3 DEF AllocatedAreOwned, UdpSocketsOwn
<1>12. CallInProgress'
    BY <1>1 DEF CallInProgress, Idle
<1>. QED BY <1>2, <1>4, <1>5, <1>6, <1>7, <1>8, <1>9, <1>10, <1>11, <1>12

LEMMA UdpMoveKeepsOwners ==
    ASSUME TypeOK, OwnersInv, NEW u \in UdpSockets, NEW v \in UdpSockets, UdpMove(u, v),
           UNCHANGED <<serverVars, client>>
    PROVE  TypeOK' /\ OwnersInv'
<1> DEFINE i == udp[u].socket_id
<1> USE DEF TypeOK, OwnersInv
<1>1. /\ Idle
      /\ u # v
      /\ udp' = [udp EXCEPT ![u] = udp[v], ![v].state = "UNINITIALIZED"]
      /\ UNCHANGED <<call, server, handler, passed, client>>
    BY DEF UdpMove, serverVars
<1>2. /\ SocketsTypeOK'
      /\ \A j \in SocketIds :
            status'[j] = IF udp[u].state # "UNINITIALIZED" /\ j = i
                         THEN "AVAILABLE_FOR_ALLOCATION" ELSE status[j]
      /\ detached' = detached
      /\ sockets' = sockets
      /\ Pool'
    <2>1. CASE udp[u].state = "UNINITIALIZED"
        BY <2>1 DEF UdpMove, stackVars, registers, SocketsTypeOK, Pool, NoFault, Free
    <2>2. CASE udp[u].state # "UNINITIALIZED"
        BY <2>2, ReleaseUdpSocketFrees DEF UdpMove, SocketsTypeOK, UdpTypeOK
    <2>. QED BY <2>1, <2>2
<1>3. \A s \in Servers : Ids(s)' = Ids(s)
    BY <1>1 DEF Ids
<1> USE DEF SocketsTypeOK, UdpTypeOK, ServerTypeOK, ClientTypeOK
<1>m. /\ udp'[u] = udp[v]
      /\ udp'[v] = [state |-> "UNINITIALIZED", socket_id |-> udp[v].socket_id]
      /\ \A e \in UdpSockets \ {u, v} : udp'[e] = udp[e]
      /\ udp' \in [UdpSockets -> [state : Udp_State, socket_id : SocketIds]]
    BY <1>1 DEF Udp_State
<1>4. TypeOK'
    BY <1>1, <1>2, <1>m
<1>n. udp[u].state # "UNINITIALIZED" =>
          /\ \A s \in Servers : server[s].state # "UNINITIALIZED" => i \notin Ids(s) /\ i \notin server[s].allocated
          /\ \A c \in Clients : client[c].state # "UNINITIALIZED" => client[c].socket_id # i
          /\ \A h \in Handlers : handler[h].state # "UNINITIALIZED" => handler[h].socket_id # i
          /\ \A e \in UdpSockets : udp[e].state # "UNINITIALIZED" /\ udp[e].socket_id = i => e = u
    BY UdpSocketIsItsOwn
<1>o. \A e \in UdpSockets : udp'[e].state # "UNINITIALIZED" =>
          \E f \in UdpSockets \ {u} : /\ udp[f].state # "UNINITIALIZED"
                                 /\ udp'[e].socket_id = udp[f].socket_id
                                 /\ f = IF e = u THEN v ELSE e
    BY <1>1, <1>m
<1>5. UdpSocketsOwn'
    <2> SUFFICES ASSUME NEW e \in UdpSockets, udp'[e].state # "UNINITIALIZED"
                 PROVE  LET j == udp'[e].socket_id IN
                        /\ status'[j] = "ALLOCATED"
                        /\ ~detached'[j]
                        /\ \A g \in UdpSockets : udp'[g].state # "UNINITIALIZED" /\ udp'[g].socket_id = j => g = e
                        /\ \A s \in Servers : server'[s].state # "UNINITIALIZED" => j \notin Ids(s)'
                        /\ \A c \in Clients : client'[c].state # "UNINITIALIZED" => client'[c].socket_id # j
        BY DEF UdpSocketsOwn
    <2>1. PICK f \in UdpSockets \ {u} : /\ udp[f].state # "UNINITIALIZED"
                                    /\ udp'[e].socket_id = udp[f].socket_id
                                    /\ f = IF e = u THEN v ELSE e
        BY <1>o
    <2>2. udp[f].socket_id \in SocketIds
        OBVIOUS
    <2>3. status[udp[f].socket_id] = "ALLOCATED" /\ ~detached[udp[f].socket_id]
        BY <2>1 DEF UdpSocketsOwn
    <2>4. udp[u].state # "UNINITIALIZED" => udp[f].socket_id # i
        BY <1>n, <2>1
    <2>5. \A g \in UdpSockets : udp'[g].state # "UNINITIALIZED" /\ udp'[g].socket_id = udp[f].socket_id => g = e
        BY <1>o, <1>1, <1>m, <2>1 DEF UdpSocketsOwn
    <2>. QED BY <1>1, <1>2, <1>3, <2>1, <2>2, <2>3, <2>4, <2>5 DEF UdpSocketsOwn
<1>6. ClientsOwn'
    <2> SUFFICES ASSUME NEW c \in Clients, client'[c].state # "UNINITIALIZED"
                 PROVE  LET j == client'[c].socket_id IN
                        /\ status'[j] = "ALLOCATED"
                        /\ ~detached'[j]
                        /\ \A d \in Clients : client'[d].state # "UNINITIALIZED" /\ client'[d].socket_id = j => d = c
                        /\ \A s \in Servers : server'[s].state # "UNINITIALIZED" => j \notin Ids(s)'
                        /\ \A e \in UdpSockets : udp'[e].state # "UNINITIALIZED" => udp'[e].socket_id # j
        BY DEF ClientsOwn
    <2>1. client[c].state # "UNINITIALIZED" /\ client'[c].socket_id = client[c].socket_id /\ client[c].socket_id \in SocketIds
        BY <1>1
    <2>2. status'[client[c].socket_id] = "ALLOCATED" /\ ~detached'[client[c].socket_id]
        BY <1>2, <1>n, <2>1 DEF ClientsOwn
    <2>3. \A e \in UdpSockets : udp'[e].state # "UNINITIALIZED" => udp'[e].socket_id # client[c].socket_id
        BY <1>5, <2>1 DEF UdpSocketsOwn
    <2>4. \A d \in Clients : client'[d].state # "UNINITIALIZED" /\ client'[d].socket_id = client[c].socket_id => d = c
        BY <1>1, <2>1 DEF ClientsOwn
    <2>5. \A s \in Servers : server'[s].state # "UNINITIALIZED" => client[c].socket_id \notin Ids(s)'
        BY <1>1, <1>3, <2>1 DEF ClientsOwn
    <2>. QED BY <2>1, <2>2, <2>3, <2>4, <2>5
<1>7. ServersOwn'
    BY <1>1, <1>2, <1>3, <1>n, IdsAreSocketIds DEF ServersOwn
<1>8. ServerLists'
    BY <1>1 DEF ServerLists
<1>9. HandlersOwn'
    BY <1>1, <1>2, <1>n DEF HandlersOwn
<1>10. LentAreUsed'
    BY <1>1, <1>2 DEF LentAreUsed
<1>11. AllocatedAreOwned'
    <2> SUFFICES ASSUME NEW j \in SocketIds, status'[j] = "ALLOCATED"
                 PROVE  \/ \E e \in UdpSockets : udp'[e].state # "UNINITIALIZED" /\ udp'[e].socket_id = j
                        \/ \E s \in Servers : server'[s].state # "UNINITIALIZED" /\ j \in Ids(s)'
                        \/ \E c \in Clients : client'[c].state # "UNINITIALIZED" /\ client'[c].socket_id = j
                        \/ detached'[j]
        BY DEF AllocatedAreOwned
    <2>1. status[j] = "ALLOCATED" /\ (udp[u].state # "UNINITIALIZED" => j # i)
        BY <1>2
    <2>2. ASSUME NEW f \in UdpSockets, udp[f].state # "UNINITIALIZED", udp[f].socket_id = j
          PROVE  \E e \in UdpSockets : udp'[e].state # "UNINITIALIZED" /\ udp'[e].socket_id = j
        BY <2>1, <2>2, <1>m
    <2>3. \/ \E f \in UdpSockets : udp[f].state # "UNINITIALIZED" /\ udp[f].socket_id = j
          \/ \E s \in Servers : server[s].state # "UNINITIALIZED" /\ j \in Ids(s)
          \/ \E c \in Clients : client[c].state # "UNINITIALIZED" /\ client[c].socket_id = j
          \/ detached[j]
        BY <2>1 DEF AllocatedAreOwned
    <2>. QED BY <1>1, <1>2, <1>3, <2>2, <2>3
<1>12. CallInProgress'
    BY <1>1 DEF CallInProgress, Idle
<1>. QED BY <1>2, <1>4, <1>5, <1>6, <1>7, <1>8, <1>9, <1>10, <1>11, <1>12


-----------------------------------------------------------------------------
(* The owner of a socket of a server, and of a handler.                    *)

\* Nothing but a server, and the handlers it lent them to, uses its sockets.
LEMMA ServersSocketsAreItsOwn ==
    ASSUME TypeOK, OwnersInv, NEW s \in Servers, server[s].state # "UNINITIALIZED", NEW i \in Ids(s)
    PROVE  /\ i \in SocketIds
           /\ status[i] = "ALLOCATED"
           /\ ~detached[i]
           /\ \A c \in Clients : client[c].state # "UNINITIALIZED" => client[c].socket_id # i
           /\ \A u \in UdpSockets : udp[u].state # "UNINITIALIZED" => udp[u].socket_id # i
           /\ \A t \in Servers : server[t].state # "UNINITIALIZED" /\ t # s => i \notin Ids(t) /\ i \notin server[t].allocated
           /\ \A h \in Handlers : handler[h].state # "UNINITIALIZED" /\ handler[h].socket_id = i =>
                 i \in server[s].allocated /\ handler[h].server = s
<1>1. i \in SocketIds
    BY IdsAreSocketIds DEF TypeOK
<1>. QED BY <1>1 DEF TypeOK, ServerTypeOK, OwnersInv, ClientsOwn, UdpSocketsOwn, ServersOwn, HandlersOwn

LEMMA ServerStaysKeepsOwners ==
    ASSUME TypeOK, OwnersInv, UNCHANGED <<client, udp>>,
           NEW s \in Servers,
           \/ \E option \in Options : ServerConfigure(s, option)
           \/ \E mask \in Masks : ServerSetInterrupts(s, mask)
           \/ \E port \in Ports : ServerBind(s, port)
    PROVE  TypeOK' /\ OwnersInv'
<1> USE DEF TypeOK, SocketsTypeOK, ClientTypeOK, ServerTypeOK, UdpTypeOK, stackVars, registers, serverVars
<1>1. TypeOK' /\ OwnersStay
    <2> USE DEF OwnersStay
    <2>1. CASE \E option \in Options : ServerConfigure(s, option)
        BY <2>1 DEF ServerConfigure
    <2>2. CASE \E mask \in Masks : ServerSetInterrupts(s, mask)
        BY <2>2 DEF ServerSetInterrupts
    <2>3. ASSUME NEW port \in Ports, ServerBind(s, port) PROVE TypeOK' /\ OwnersStay
        <3>1. SocketsTypeOK'
            BY <2>3 DEF ServerBind, AllocatePort, SN_SR, Protocols
        <3>2. server' \in [Servers -> [state : Server_State, ids : IdLists,
                                       allocated : SUBSET SocketIds, accept_i : SocketIds]]
            <4>1. server' = [server EXCEPT ![s].state = "BOUND"] /\ "BOUND" \in Server_State
                BY <2>3 DEF ServerBind, Server_State
            <4>. QED BY <4>1, ServerStateChanges
        <3>3. OwnersStay
            BY <2>3 DEF ServerBind
        <3>. QED BY <2>3, <3>1, <3>2, <3>3 DEF ServerBind
    <2>. QED BY <2>1, <2>2, <2>3
<1>2. UNCHANGED <<call, handler>> /\ Idle
    BY DEF ServerConfigure, ServerSetInterrupts, ServerBind
<1>3. CallInProgress'
    BY <1>2 DEF CallInProgress, Idle
<1>. QED BY <1>1, <1>3, OwnersStayKeepsOwners

\* make_tcp_server(), for any sockets that are free.
LEMMA MakingAServerKeepsOwners ==
    ASSUME TypeOK, OwnersInv, NEW s \in Servers, NEW ids \in IdLists,
           Idle, server[s].state = "UNINITIALIZED", ids # <<>>,
           \A k \in DOMAIN ids : ids[k] \in Free,
           \A j, k \in DOMAIN ids : ids[j] = ids[k] => j = k,
           Allocate({ids[k] : k \in DOMAIN ids}),
           server' = [server EXCEPT ![s] = [NoServer EXCEPT !.state = "INITIALIZED", !.ids = ids]],
           UNCHANGED <<registers, held, call, fault, handler, passed, client, udp>>
    PROVE  TypeOK' /\ OwnersInv'
<1> DEFINE new == {ids[k] : k \in DOMAIN ids}
<1> USE DEF TypeOK, OwnersInv
<1>0. UNCHANGED <<client, udp, handler, call>>
    OBVIOUS
<1>1. new \in SUBSET Free /\ new \subseteq SocketIds
    BY DEF Free
<1>2. /\ sockets' = sockets
      /\ detached' = detached
      /\ status' \in [SocketIds -> Socket_Status]
      /\ \A i \in SocketIds : status'[i] = IF i \in new THEN "ALLOCATED" ELSE status[i]
      /\ \A i \in new : status[i] = "AVAILABLE_FOR_ALLOCATION"
    BY <1>1 DEF Allocate, SocketsTypeOK, Socket_Status, Free
<1>3. available' = Cardinality(Free') /\ available' \in 0..SOCKETS
    BY <1>1, AllocateCounts DEF Pool
<1>4. /\ server'[s].state = "INITIALIZED" /\ server'[s].ids = ids
      /\ server'[s].allocated = {} /\ server'[s].accept_i = 0
      /\ \A t \in Servers \ {s} : server'[t] = server[t]
      /\ server' \in [Servers -> [state : Server_State, ids : IdLists,
                                  allocated : SUBSET SocketIds, accept_i : SocketIds]]
    <2>1. 0 \in SocketIds /\ "INITIALIZED" \in Server_State
        BY SocketsAssumption DEF SocketIds, Server_State
    <2>2. [NoServer EXCEPT !.state = "INITIALIZED", !.ids = ids]
            \in [state : Server_State, ids : IdLists, allocated : SUBSET SocketIds, accept_i : SocketIds]
        BY <2>1 DEF NoServer
    <2>3. /\ server'[s].state = "INITIALIZED" /\ server'[s].ids = ids
          /\ server'[s].allocated = {} /\ server'[s].accept_i = 0
        BY DEF ServerTypeOK, NoServer
    <2>. QED BY <2>2, <2>3 DEF ServerTypeOK
<1>5. SocketsTypeOK'
    BY <1>2, <1>3 DEF SocketsTypeOK, registers
<1>6. TypeOK'
    BY <1>4, <1>5 DEF ClientTypeOK, ServerTypeOK, UdpTypeOK
<1>7. Ids(s)' = new /\ \A t \in Servers \ {s} : Ids(t)' = Ids(t)
    BY <1>4 DEF Ids
<1>8. Pool'
    BY <1>2, <1>3 DEF Pool, NoFault
<1>9. /\ \A c \in Clients : client[c].state # "UNINITIALIZED" => client[c].socket_id \notin new
      /\ \A u \in UdpSockets : udp[u].state # "UNINITIALIZED" => udp[u].socket_id \notin new
      /\ \A t \in Servers : server[t].state # "UNINITIALIZED" => \A i \in Ids(t) : i \notin new
      /\ \A i \in new : ~detached[i]
    BY <1>1, <1>2 DEF ClientsOwn, UdpSocketsOwn, ServersOwn, LentAreUsed, HandlersOwn
<1>10. ClientsOwn'
    BY <1>0, <1>2, <1>4, <1>7, <1>9 DEF ClientsOwn, ClientTypeOK
<1>11. UdpSocketsOwn'
    BY <1>0, <1>2, <1>4, <1>7, <1>9 DEF UdpSocketsOwn, UdpTypeOK
<1>12. ServersOwn'
    <2>1. \A i \in new : \A t \in Servers : server'[t].state # "UNINITIALIZED" /\ i \in Ids(t)' => t = s
        BY <1>4, <1>7, <1>9
    <2>2. \A t \in Servers \ {s} : Ids(t) \subseteq SocketIds
        BY IdsAreSocketIds
    <2>. QED BY <1>1, <1>2, <1>4, <1>7, <1>9, <2>1, <2>2 DEF ServersOwn
<1>13. ServerLists'
    BY <1>4, IdListsAreSequences DEF ServerLists
<1>14. HandlersOwn'
    BY <1>0, <1>2, <1>4, <1>9 DEF HandlersOwn, ServerTypeOK
<1>15. LentAreUsed'
    BY <1>0, <1>2, <1>4 DEF LentAreUsed
<1>16. AllocatedAreOwned'
    BY <1>0, <1>2, <1>4, <1>7 DEF AllocatedAreOwned
<1>17. CallInProgress'
    BY <1>0 DEF CallInProgress, Idle
<1>. QED BY <1>6, <1>8, <1>10, <1>11, <1>12, <1>13, <1>14, <1>15, <1>16, <1>17

LEMMA MakeServerKeepsOwners ==
    ASSUME TypeOK, OwnersInv, NEW s \in Servers, UNCHANGED <<client, udp>>,
           \/ \E i \in SocketIds : MakeServer(s, i)
           \/ \E ids \in IdLists : MakeServerWith(s, ids)
    PROVE  TypeOK' /\ OwnersInv'
<1>1. ASSUME NEW i \in SocketIds, MakeServer(s, i) PROVE TypeOK' /\ OwnersInv'
    <2>1. <<i>> \in IdLists /\ <<i>> # <<>> /\ DOMAIN <<i>> = {1} /\ <<i>>[1] = i
        <3>1. <<i>> \in Seq(SocketIds) /\ Len(<<i>>) = 1
            OBVIOUS
        <3>2. <<i>> \in IdLists
            <4>1. Len(<<i>>) <= SOCKETS
                BY <3>1, SocketsAssumption
            <4>. QED BY <3>1, <4>1, SequencesAreIdLists
        <3>. QED BY <3>2
    <2>2. {<<i>>[k] : k \in DOMAIN <<i>>} = {i}
        BY <2>1
    <2>. QED BY <1>1, <2>1, <2>2, MakingAServerKeepsOwners DEF MakeServer, FirstAvailable
<1>2. ASSUME NEW ids \in IdLists, MakeServerWith(s, ids) PROVE TypeOK' /\ OwnersInv'
    BY <1>2, MakingAServerKeepsOwners DEF MakeServerWith
<1>. QED BY <1>1, <1>2

\* The list of sockets after listen(): what was there, and what is new.
LEMMA ListenExtends ==
    ASSUME TypeOK, OwnersInv, NEW s \in Servers, server[s].state # "UNINITIALIZED", NEW n \in Nat,
           NEW more \in FirstAvailableSequences(n)
    PROVE  /\ Elements(more) \in SUBSET Free
           /\ server[s].ids \o more \in IdLists
           /\ Len(server[s].ids \o more) = Len(server[s].ids) + n
           /\ \A k \in 1..Len(server[s].ids) : (server[s].ids \o more)[k] = server[s].ids[k]
           /\ \A j, k \in DOMAIN (server[s].ids \o more) :
                 (server[s].ids \o more)[j] = (server[s].ids \o more)[k] => j = k
           /\ Elements(server[s].ids \o more) = Ids(s) \cup Elements(more)
<1> DEFINE ids == server[s].ids
           new == Elements(more)
<1> USE DEF TypeOK, OwnersInv, Elements
<1>1. /\ more \in [1..n -> Free]
      /\ \A j, k \in 1..n : j < k => more[j] < more[k]
      /\ Free \subseteq SocketIds /\ SocketIds \subseteq Int
    BY DEF FirstAvailableSequences, Free, SocketIds
<1>2. more \in Seq(SocketIds) /\ Len(more) = n /\ DOMAIN more = 1..n
    <2>1. more \in [1..n -> SocketIds]
        BY <1>1
    <2>. QED BY <2>1
<1>3. \A j, k \in 1..n : more[j] = more[k] => j = k
    <2> SUFFICES ASSUME NEW j \in 1..n, NEW k \in 1..n, j # k PROVE more[j] # more[k]
        OBVIOUS
    <2>1. more[j] \in Int /\ more[k] \in Int
        BY <1>1
    <2>. QED BY <1>1, <2>1
<1>4. ids \in Seq(SocketIds) /\ DOMAIN ids = 1..Len(ids) /\ Len(ids) \in Nat
    BY IdListsAreSequences DEF ServerTypeOK
<1>5. new \in SUBSET Free
    BY <1>1
<1>6. \A j \in 1..Len(ids), k \in 1..n : ids[j] # more[k]
    BY <1>1, IdsAreSocketIds DEF ServersOwn, Free
<1>7. /\ ids \o more \in Seq(SocketIds)
      /\ Len(ids \o more) = Len(ids) + n
      /\ DOMAIN (ids \o more) = 1..(Len(ids) + n)
      /\ \A k \in 1..Len(ids) : (ids \o more)[k] = ids[k]
      /\ \A k \in (Len(ids) + 1)..(Len(ids) + n) : (ids \o more)[k] = more[k - Len(ids)]
    BY <1>2, <1>4
<1>8. \A j, k \in DOMAIN (ids \o more) : (ids \o more)[j] = (ids \o more)[k] => j = k
    <2> SUFFICES ASSUME NEW j \in 1..(Len(ids) + n), NEW k \in 1..(Len(ids) + n),
                        (ids \o more)[j] = (ids \o more)[k]
                 PROVE  j = k
        BY <1>7
    <2>1. CASE j \in 1..Len(ids) /\ k \in 1..Len(ids)
        BY <2>1, <1>4, <1>7 DEF ServerLists
    <2>2. CASE j \notin 1..Len(ids) /\ k \notin 1..Len(ids)
        <3>1. j - Len(ids) \in 1..n
            BY <2>2, <1>4
        <3>3. k - Len(ids) \in 1..n
            BY <2>2, <1>4
        <3>2. more[j - Len(ids)] = more[k - Len(ids)]
            BY <2>2, <1>4, <1>7
        <3>4. j - Len(ids) = k - Len(ids)
            BY <3>1, <3>2, <3>3, <1>3
        <3>5. j \in Int /\ k \in Int
            BY <1>4
        <3>. QED BY <3>4, <3>5, <1>4
    <2>3. CASE j \in 1..Len(ids) /\ k \notin 1..Len(ids)
        <3>1. k - Len(ids) \in 1..n
            BY <2>3, <1>4
        <3>. QED BY <2>3, <3>1, <1>4, <1>6, <1>7
    <2>4. CASE j \notin 1..Len(ids) /\ k \in 1..Len(ids)
        <3>1. j - Len(ids) \in 1..n
            BY <2>4, <1>4
        <3>. QED BY <2>4, <3>1, <1>4, <1>6, <1>7
    <2>. QED BY <2>1, <2>2, <2>3, <2>4
<1>9. ids \o more \in IdLists
    BY <1>7, <1>8, ListsAreShort, SequencesAreIdLists
<1>10. Elements(ids \o more) = Ids(s) \cup new
    <2>1. ASSUME NEW i \in {(ids \o more)[k] : k \in DOMAIN (ids \o more)} PROVE i \in Ids(s) \cup new
        <3>1. PICK k \in 1..(Len(ids) + n) : i = (ids \o more)[k]
            BY <1>7
        <3>2. CASE k \in 1..Len(ids)
            BY <3>1, <3>2, <1>7, IdsAreSocketIds
        <3>3. CASE k \notin 1..Len(ids)
            <4>1. k - Len(ids) \in 1..n /\ i = more[k - Len(ids)]
                BY <3>1, <3>3, <1>4, <1>7
            <4>. QED BY <4>1, <1>2
        <3>. QED BY <3>2, <3>3
    <2>2. ASSUME NEW i \in Ids(s) PROVE i \in {(ids \o more)[k] : k \in DOMAIN (ids \o more)}
        <3>1. PICK k \in 1..Len(ids) : i = ids[k]
            BY IdsAreSocketIds
        <3>2. k \in DOMAIN (ids \o more) /\ (ids \o more)[k] = i
            BY <3>1, <1>4, <1>7
        <3>. QED BY <3>2
    <2>3. ASSUME NEW i \in new PROVE i \in {(ids \o more)[k] : k \in DOMAIN (ids \o more)}
        <3>1. PICK k \in 1..n : i = more[k]
            BY <1>2
        <3>2. Len(ids) + k \in DOMAIN (ids \o more) /\ (ids \o more)[Len(ids) + k] = i
            BY <3>1, <1>4, <1>7
        <3>. QED BY <3>2
    <2>. QED BY <2>1, <2>2, <2>3
<1>. QED BY <1>5, <1>7, <1>8, <1>9, <1>10

LEMMA ServerListenDoes ==
    ASSUME TypeOK, OwnersInv, NEW s \in Servers, NEW backlog \in 0..SOCKETS, ServerListen(s, backlog)
    PROVE  \E new \in SUBSET Free, all \in IdLists :
           /\ Idle /\ server[s].state = "BOUND" /\ UNCHANGED <<held, call, fault, handler, passed>>
           /\ Allocate(new)
           /\ sn_mr' = LikeFront(sn_mr, new, server[s].ids[1])
           /\ sn_port' = LikeFront(sn_port, new, server[s].ids[1])
           /\ sn_opt' = LikeFront(sn_opt, new, server[s].ids[1])
           /\ sn_imr' = LikeFront(sn_imr, new, server[s].ids[1])
           /\ sn_sr' = [i \in SocketIds |-> IF i \in Ids(s) \cup new THEN "LISTEN" ELSE sn_sr[i]]
           /\ server[s].ids[1] \in Ids(s)
           /\ Len(server[s].ids) <= Len(all) /\ Len(server[s].ids) \in Nat /\ Len(all) \in Nat
           /\ \A j, k \in DOMAIN all : all[j] = all[k] => j = k
           /\ server'[s].state = "LISTENING" /\ server'[s].ids = all
           /\ server'[s].allocated = server[s].allocated /\ server'[s].accept_i = server[s].accept_i
           /\ \A t \in Servers \ {s} : server'[t] = server[t]
           /\ server' \in [Servers -> [state : Server_State, ids : IdLists,
                                       allocated : SUBSET SocketIds, accept_i : SocketIds]]
           /\ Ids(s)' = Ids(s) \cup new
           /\ \A t \in Servers \ {s} : Ids(t)' = Ids(t)
<1> DEFINE ids == server[s].ids
<1> USE DEF TypeOK, OwnersInv
<1>0. Len(ids) \in Nat /\ backlog \in Nat
    BY IdListsAreSequences, SocketsAssumption DEF ServerTypeOK
<1> DEFINE n == IF backlog > Len(ids) THEN backlog - Len(ids) ELSE 0
<1>1. n \in Nat
    BY <1>0
<1>2. PICK more \in FirstAvailableSequences(n) :
        LET new == Elements(more) IN
        /\ Allocate(new)
        /\ sn_mr' = LikeFront(sn_mr, new, ids[1])
        /\ sn_port' = LikeFront(sn_port, new, ids[1])
        /\ sn_opt' = LikeFront(sn_opt, new, ids[1])
        /\ sn_imr' = LikeFront(sn_imr, new, ids[1])
        /\ sn_sr' = [i \in SocketIds |-> IF i \in Ids(s) \cup new THEN "LISTEN" ELSE sn_sr[i]]
        /\ server' = [server EXCEPT ![s].state = "LISTENING", ![s].ids = ids \o more]
    BY <1>1 DEF ServerListen, Elements
<1> DEFINE new == Elements(more)
<1> HIDE DEF n
<1>3. Idle /\ server[s].state = "BOUND" /\ UNCHANGED <<held, call, fault, handler, passed>>
    BY DEF ServerListen
<1>4. /\ new \in SUBSET Free
      /\ ids \o more \in IdLists
      /\ Len(ids \o more) = Len(ids) + n
      /\ \A j, k \in DOMAIN (ids \o more) : (ids \o more)[j] = (ids \o more)[k] => j = k
      /\ Elements(ids \o more) = Ids(s) \cup new
    <2>1. server[s].state # "UNINITIALIZED"
        BY <1>3
    <2> HIDE DEF n
    <2>. QED BY <1>1, <2>1, ListenExtends
<1>7. /\ server'[s].state = "LISTENING" /\ server'[s].ids = ids \o more
      /\ server'[s].allocated = server[s].allocated /\ server'[s].accept_i = server[s].accept_i
      /\ \A t \in Servers \ {s} : server'[t] = server[t]
      /\ server' \in [Servers -> [state : Server_State, ids : IdLists,
                                  allocated : SUBSET SocketIds, accept_i : SocketIds]]
    <2>1. server' = [server EXCEPT ![s] = [server[s] EXCEPT !.state = "LISTENING", !.ids = ids \o more]]
        BY <1>2 DEF ServerTypeOK
    <2>2. server[s] \in [state : Server_State, ids : IdLists,
                         allocated : SUBSET SocketIds, accept_i : SocketIds]
        BY DEF ServerTypeOK
    <2>3. [server[s] EXCEPT !.state = "LISTENING", !.ids = ids \o more]
            \in [state : Server_State, ids : IdLists, allocated : SUBSET SocketIds, accept_i : SocketIds]
        BY <2>2, <1>4 DEF Server_State
    <2>4. /\ server'[s] = [server[s] EXCEPT !.state = "LISTENING", !.ids = ids \o more]
          /\ \A t \in Servers \ {s} : server'[t] = server[t]
        BY <2>1 DEF ServerTypeOK
    <2>5. server' \in [Servers -> [state : Server_State, ids : IdLists,
                                  allocated : SUBSET SocketIds, accept_i : SocketIds]]
        BY <2>1, <2>3 DEF ServerTypeOK
    <2>. QED BY <2>2, <2>4, <2>5
<1>8. ids[1] \in Ids(s)
    <2>1. server[s].accept_i < Len(ids) /\ server[s].accept_i \in Nat
        BY <1>3 DEF ServerLists, ServerTypeOK, SocketIds
    <2>. QED BY <2>1, <1>0, IdsAreSocketIds
<1>11. Ids(s)' = Ids(s) \cup new /\ \A t \in Servers \ {s} : Ids(t)' = Ids(t)
    <2>1. Ids(s)' = Elements(server'[s].ids)
        BY DEF Ids, Elements
    <2>2. Ids(s)' = Ids(s) \cup new
        BY <1>4, <1>7, <2>1
    <2>3. \A t \in Servers \ {s} : Ids(t)' = Ids(t)
        BY <1>7 DEF Ids
    <2>. QED BY <2>2, <2>3
<1>12. Len(ids) <= Len(ids \o more) /\ Len(ids \o more) \in Nat
    BY <1>0, <1>1, <1>4
<1>. QED BY <1>0, <1>2, <1>3, <1>4, <1>7, <1>8, <1>11, <1>12

LEMMA ServerListenKeepsOwners ==
    ASSUME TypeOK, OwnersInv, NEW s \in Servers, NEW backlog \in 0..SOCKETS,
           ServerListen(s, backlog), UNCHANGED <<client, udp>>
    PROVE  TypeOK' /\ OwnersInv'
<1>0. PICK new \in SUBSET Free, all \in IdLists :
           /\ Idle /\ server[s].state = "BOUND" /\ UNCHANGED <<held, call, fault, handler, passed>>
           /\ Allocate(new)
           /\ sn_mr' = LikeFront(sn_mr, new, server[s].ids[1])
           /\ sn_port' = LikeFront(sn_port, new, server[s].ids[1])
           /\ sn_opt' = LikeFront(sn_opt, new, server[s].ids[1])
           /\ sn_imr' = LikeFront(sn_imr, new, server[s].ids[1])
           /\ sn_sr' = [i \in SocketIds |-> IF i \in Ids(s) \cup new THEN "LISTEN" ELSE sn_sr[i]]
           /\ server[s].ids[1] \in Ids(s)
           /\ Len(server[s].ids) <= Len(all) /\ Len(server[s].ids) \in Nat /\ Len(all) \in Nat
           /\ \A j, k \in DOMAIN all : all[j] = all[k] => j = k
           /\ server'[s].state = "LISTENING" /\ server'[s].ids = all
           /\ server'[s].allocated = server[s].allocated /\ server'[s].accept_i = server[s].accept_i
           /\ \A t \in Servers \ {s} : server'[t] = server[t]
           /\ server' \in [Servers -> [state : Server_State, ids : IdLists,
                                       allocated : SUBSET SocketIds, accept_i : SocketIds]]
           /\ Ids(s)' = Ids(s) \cup new
           /\ \A t \in Servers \ {s} : Ids(t)' = Ids(t)
    BY ServerListenDoes
<1> USE DEF TypeOK, OwnersInv
<1>1. /\ sn_mr' = LikeFront(sn_mr, new, server[s].ids[1])
      /\ sn_port' = LikeFront(sn_port, new, server[s].ids[1])
      /\ sn_opt' = LikeFront(sn_opt, new, server[s].ids[1])
      /\ sn_imr' = LikeFront(sn_imr, new, server[s].ids[1])
      /\ sn_sr' = [i \in SocketIds |-> IF i \in Ids(s) \cup new THEN "LISTEN" ELSE sn_sr[i]]
    BY <1>0
<1>2. Allocate(new)
    BY <1>0
<1>3. Idle /\ server[s].state = "BOUND" /\ UNCHANGED <<held, call, fault, handler, passed, client, udp>>
    BY <1>0
<1>4. /\ \A j, k \in DOMAIN all : all[j] = all[k] => j = k
      /\ Len(server[s].ids) <= Len(all) /\ Len(server[s].ids) \in Nat /\ Len(all) \in Nat
    BY <1>0
<1>5. /\ sockets' = sockets
      /\ detached' = detached
      /\ status' \in [SocketIds -> Socket_Status]
      /\ \A i \in SocketIds : status'[i] = IF i \in new THEN "ALLOCATED" ELSE status[i]
      /\ \A i \in new : status[i] = "AVAILABLE_FOR_ALLOCATION"
      /\ new \subseteq SocketIds
    BY <1>2 DEF Allocate, SocketsTypeOK, Socket_Status, Free
<1>6. available' = Cardinality(Free') /\ available' \in 0..SOCKETS
    BY <1>2, AllocateCounts DEF Pool
<1>7. /\ server'[s].state = "LISTENING" /\ server'[s].ids = all
      /\ server'[s].allocated = server[s].allocated /\ server'[s].accept_i = server[s].accept_i
      /\ \A t \in Servers \ {s} : server'[t] = server[t]
      /\ server' \in [Servers -> [state : Server_State, ids : IdLists,
                                  allocated : SUBSET SocketIds, accept_i : SocketIds]]
    BY <1>0
<1>8. server[s].ids[1] \in SocketIds
    BY <1>0, IdsAreSocketIds
<1>9. SocketsTypeOK'
    <2>1. sn_mr' \in [SocketIds -> Protocols] /\ sn_port' \in [SocketIds -> Ports \cup {NoPort}]
        BY <1>1, <1>8 DEF SocketsTypeOK, LikeFront
    <2>2. sn_opt' \in [SocketIds -> Options \cup {NoOption}] /\ sn_imr' \in [SocketIds -> Masks \cup {NoMask}]
        BY <1>1, <1>8 DEF SocketsTypeOK, LikeFront
    <2>3. sn_sr' \in [SocketIds -> SN_SR]
        BY <1>1 DEF SocketsTypeOK, SN_SR
    <2>. QED BY <1>3, <1>5, <1>6, <2>1, <2>2, <2>3 DEF SocketsTypeOK
<1>10. TypeOK'
    BY <1>3, <1>7, <1>9 DEF ClientTypeOK, ServerTypeOK, UdpTypeOK
<1>11. Ids(s)' = Ids(s) \cup new /\ \A t \in Servers \ {s} : Ids(t)' = Ids(t)
    BY <1>0
<1>12. Pool'
    BY <1>3, <1>5, <1>6 DEF Pool, NoFault
<1>13. /\ \A c \in Clients : client[c].state # "UNINITIALIZED" => client[c].socket_id \notin new
       /\ \A u \in UdpSockets : udp[u].state # "UNINITIALIZED" => udp[u].socket_id \notin new
       /\ \A t \in Servers : server[t].state # "UNINITIALIZED" => \A i \in Ids(t) : i \notin new
       /\ \A i \in new : ~detached[i]
    BY <1>4, <1>5 DEF ClientsOwn, UdpSocketsOwn, ServersOwn, LentAreUsed, HandlersOwn
<1>14. ClientsOwn'
    BY <1>3, <1>5, <1>7, <1>11, <1>13 DEF ClientsOwn, ClientTypeOK
<1>15. UdpSocketsOwn'
    BY <1>3, <1>5, <1>7, <1>11, <1>13 DEF UdpSocketsOwn, UdpTypeOK
<1>16. ServersOwn'
    <2> SUFFICES ASSUME NEW t \in Servers, server'[t].state # "UNINITIALIZED"
                 PROVE  /\ \A i \in Ids(t)' :
                              /\ status'[i] = "ALLOCATED"
                              /\ ~detached'[i]
                              /\ \A r \in Servers : server'[r].state # "UNINITIALIZED" /\ i \in Ids(r)' => r = t
                        /\ server'[t].allocated \subseteq Ids(t)'
                        /\ server'[t].state # "LISTENING" => server'[t].allocated = {}
        BY DEF ServersOwn
    <2>1. server[t].state # "UNINITIALIZED" /\ server'[t].allocated = server[t].allocated /\ Ids(t) \subseteq Ids(t)'
        BY <1>3, <1>7, <1>11
    <2>2. ASSUME NEW i \in Ids(t)' PROVE status'[i] = "ALLOCATED" /\ ~detached'[i]
        <3>1. CASE i \in new
            BY <3>1, <1>5, <1>13
        <3>2. CASE i \notin new
            <4>1. i \in Ids(t) /\ i \in SocketIds
                BY <3>2, <2>2, <1>11, IdsAreSocketIds
            <4>2. status[i] = "ALLOCATED" /\ ~detached[i]
                BY <2>1, <4>1 DEF ServersOwn
            <4>. QED BY <3>2, <4>1, <4>2, <1>5
        <3>. QED BY <3>1, <3>2
    <2>3. ASSUME NEW i \in Ids(t)', NEW r \in Servers, server'[r].state # "UNINITIALIZED", i \in Ids(r)'
          PROVE  r = t
        <3>1. server[r].state # "UNINITIALIZED"
            BY <2>3, <1>3, <1>7
        <3>2. CASE i \in new
            BY <2>1, <2>3, <3>1, <3>2, <1>11, <1>13
        <3>3. CASE i \notin new
            <4>1. i \in Ids(t) /\ i \in Ids(r)
                BY <2>3, <3>3, <1>11
            <4>. QED BY <2>1, <3>1, <4>1 DEF ServersOwn
        <3>. QED BY <3>2, <3>3
    <2>4. /\ server'[t].allocated \subseteq Ids(t)'
          /\ server'[t].state # "LISTENING" => server'[t].allocated = {}
        BY <1>7, <2>1 DEF ServersOwn
    <2>. QED BY <2>2, <2>3, <2>4
<1>17. ServerLists'
    <2> SUFFICES ASSUME NEW t \in Servers
                 PROVE  /\ \A j, k \in DOMAIN server'[t].ids : server'[t].ids[j] = server'[t].ids[k] => j = k
                        /\ server'[t].state # "UNINITIALIZED" => server'[t].accept_i < Len(server'[t].ids)
        BY DEF ServerLists
    <2>1. CASE t = s
        <3>1. server[s].accept_i \in Int /\ server[s].accept_i < Len(server[s].ids)
            BY <1>3 DEF ServerLists, ServerTypeOK, SocketIds
        <3>2. server'[s].accept_i < Len(all)
            BY <1>4, <1>7, <3>1
        <3>. QED BY <2>1, <3>2, <1>4, <1>7
    <2>2. CASE t # s
        BY <2>2, <1>7 DEF ServerLists
    <2>. QED BY <2>1, <2>2
<1>18. HandlersOwn'
    <2>1. \A h \in Handlers : handler[h].state # "UNINITIALIZED" => status'[handler[h].socket_id] = "ALLOCATED"
        BY <1>5 DEF HandlersOwn, ServerTypeOK
    <2>2. \A h \in Handlers : handler[h].state # "UNINITIALIZED" /\ ~detached[handler[h].socket_id] =>
              handler[h].server \in Servers \ {s}
        BY <1>3 DEF HandlersOwn, ServerTypeOK
    <2>. QED BY <1>3, <1>5, <1>7, <2>1, <2>2 DEF HandlersOwn
<1>19. LentAreUsed'
    BY <1>3, <1>5, <1>7 DEF LentAreUsed
<1>20. AllocatedAreOwned'
    <2> SUFFICES ASSUME NEW i \in SocketIds, status'[i] = "ALLOCATED"
                 PROVE  \/ \E c \in Clients : client[c].state # "UNINITIALIZED" /\ client[c].socket_id = i
                        \/ \E t \in Servers : server'[t].state # "UNINITIALIZED" /\ i \in Ids(t)'
                        \/ \E u \in UdpSockets : udp[u].state # "UNINITIALIZED" /\ udp[u].socket_id = i
                        \/ detached[i]
        BY <1>3, <1>5 DEF AllocatedAreOwned
    <2>1. CASE i \in new
        BY <2>1, <1>7, <1>11
    <2>2. CASE i \notin new
        <3>1. status[i] = "ALLOCATED"
            BY <2>2, <1>5
        <3>. QED BY <3>1, <1>3, <1>7, <1>11 DEF AllocatedAreOwned
    <2>. QED BY <2>1, <2>2
<1>21. CallInProgress'
    BY <1>3 DEF CallInProgress, Idle
<1>. QED BY <1>10, <1>12, <1>14, <1>15, <1>16, <1>17, <1>18, <1>19, <1>20, <1>21

-----------------------------------------------------------------------------
(* accept().                                                               *)

LEMMA NextIndexIsNext ==
    ASSUME TypeOK, OwnersInv, NEW s \in Servers, server[s].state # "UNINITIALIZED"
    PROVE  /\ server[s].accept_i \in 0..(Len(server[s].ids) - 1)
           /\ Len(server[s].ids) \in 1..SOCKETS
           /\ NextIndex(s) = IF server[s].accept_i + 1 = Len(server[s].ids) THEN 0 ELSE server[s].accept_i + 1
           /\ NextIndex(s) \in 0..(Len(server[s].ids) - 1)
           /\ NextIndex(s) \in SocketIds
           /\ server[s].ids[server[s].accept_i + 1] \in Ids(s)
<1> DEFINE a == server[s].accept_i
           n == Len(server[s].ids)
<1>1. n \in 0..SOCKETS /\ a \in Nat /\ a < n
    BY IdListsAreSequences DEF TypeOK, ServerTypeOK, OwnersInv, ServerLists, SocketIds
<1>2. (a + 1) % n = IF a + 1 = n THEN 0 ELSE a + 1
    <2> HIDE DEF a, n
    <2>1. CASE a + 1 = n
        BY <1>1, <2>1, SocketsAssumption
    <2>2. CASE a + 1 # n
        BY <1>1, <2>2, SocketsAssumption
    <2>. QED BY <2>1, <2>2
<1>3. n >= 1 /\ NextIndex(s) \in 0..(n - 1) /\ NextIndex(s) \in SocketIds
    <2>1. NextIndex(s) = IF a + 1 = n THEN 0 ELSE a + 1
        BY <1>2 DEF NextIndex
    <2> HIDE DEF a, n
    <2>. QED BY <1>1, <2>1, SocketsAssumption DEF SocketIds
<1>4. a + 1 \in 1..n
    BY <1>1
<1>5. server[s].ids[a + 1] \in Ids(s)
    BY <1>4, IdsAreSocketIds DEF TypeOK
<1>6. NextIndex(s) = IF a + 1 = n THEN 0 ELSE a + 1
    BY <1>2 DEF NextIndex
<1>7. a \in 0..(n - 1) /\ n \in 1..SOCKETS
    BY <1>1, <1>3, SocketsAssumption
<1>. QED BY <1>3, <1>5, <1>6, <1>7

LEMMA AcceptBeginKeepsOwners ==
    ASSUME TypeOK, OwnersInv, NEW s \in Servers, NEW h \in Handlers, AcceptBegin(s, h),
           UNCHANGED <<client, udp>>
    PROVE  TypeOK' /\ OwnersInv'
<1> USE DEF TypeOK
<1>1. OwnersStay
    BY DEF OwnersStay, AcceptBegin, serverVars
<1>2. Waiting(s) \subseteq SocketIds
    BY IdsAreSocketIds DEF Waiting
<1>3. /\ call' = [server |-> s, handler |-> h, n |-> 0, waiting |-> Waiting(s)]
      /\ UNCHANGED <<stackVars, registers, held, fault, serverVars, client, udp>>
      /\ server[s].state = "LISTENING" /\ handler[h].state = "UNINITIALIZED"
    BY DEF AcceptBegin
<1>4. call' \in [server : Servers, handler : Handlers, n : 0..SOCKETS, waiting : SUBSET SocketIds]
    BY <1>2, <1>3, SocketsAssumption
<1>5. TypeOK'
    BY <1>3, <1>4 DEF SocketsTypeOK, ClientTypeOK, ServerTypeOK, UdpTypeOK, stackVars, registers, serverVars
<1>6. Len(server[s].ids) \in 0..SOCKETS
    BY IdListsAreSequences DEF ServerTypeOK
<1>7. call'.server = s /\ call'.handler = h /\ call'.n = 0 /\ server' = server /\ handler' = handler
    BY <1>3 DEF serverVars
<1>8. CallInProgress'
    BY <1>3, <1>6, <1>7 DEF CallInProgress
<1>. QED BY <1>1, <1>5, <1>8, OwnersStayKeepsOwners

LEMMA AcceptWouldBlockKeepsOwners ==
    ASSUME TypeOK, OwnersInv, AcceptWouldBlock, UNCHANGED <<client, udp>>
    PROVE  TypeOK' /\ OwnersInv'
<1> USE DEF AcceptWouldBlock, stackVars, registers, serverVars
<1>1. OwnersStay
    BY DEF OwnersStay
<1>2. TypeOK'
    BY DEF TypeOK, SocketsTypeOK, ClientTypeOK, ServerTypeOK, UdpTypeOK
<1>3. CallInProgress'
    BY DEF CallInProgress
<1>. QED BY <1>1, <1>2, <1>3, OwnersStayKeepsOwners

\* What a step of accept() does: i is the socket it looks at.
LEMMA AcceptStepDoes ==
    ASSUME TypeOK, OwnersInv, AcceptStep,
           NEW s, s = call.server, NEW h, h = call.handler, NEW i, i = server[s].ids[server[s].accept_i + 1]
    PROVE  /\ s \in Servers /\ h \in Handlers /\ i \in Ids(s) /\ i \in SocketIds
           /\ call # NoCall
           /\ call \in [server : Servers, handler : Handlers, n : 0..SOCKETS, waiting : SUBSET SocketIds]
           /\ server[s].state = "LISTENING" /\ handler[h].state = "UNINITIALIZED"
           /\ call.n < Len(server[s].ids)
           /\ UNCHANGED <<stackVars, registers, held, fault>>
           /\ server' \in [Servers -> [state : Server_State, ids : IdLists,
                                       allocated : SUBSET SocketIds, accept_i : SocketIds]]
           /\ \A t \in Servers : /\ Ids(t)' = Ids(t)
                                 /\ server'[t].ids = server[t].ids
                                 /\ server'[t].state = server[t].state
                                 /\ t # s => server'[t] = server[t]
           /\ server'[s].accept_i = NextIndex(s)
           /\ i \in Waiting(s) =>
                 /\ i \notin server[s].allocated
                 /\ server'[s].allocated = server[s].allocated \cup {i}
                 /\ handler' \in [Handlers -> [state : Handler_State, server : Servers, socket_id : SocketIds]]
                 /\ handler'[h].state = "CONNECTED" /\ handler'[h].server = s /\ handler'[h].socket_id = i
                 /\ \A g \in Handlers \ {h} : handler'[g] = handler[g]
                 /\ passed' = [j \in SocketIds |-> IF j \in Waiting(s) \ {i} THEN passed[j] + 1
                                                   ELSE IF j \in Ids(s) THEN 0 ELSE passed[j]]
                 /\ call' = NoCall
           /\ i \notin Waiting(s) =>
                 /\ server'[s].allocated = server[s].allocated
                 /\ UNCHANGED <<handler, passed>>
                 /\ call' \in [server : Servers, handler : Handlers, n : 0..SOCKETS, waiting : SUBSET SocketIds]
                 /\ call'.server = s /\ call'.handler = h /\ call'.n = call.n + 1
                 /\ call'.waiting = call.waiting
<1>1. /\ call # NoCall
      /\ s \in Servers /\ h \in Handlers /\ call.n \in 0..SOCKETS /\ call.waiting \subseteq SocketIds
      /\ call \in [server : Servers, handler : Handlers, n : 0..SOCKETS, waiting : SUBSET SocketIds]
      /\ server[s].state = "LISTENING" /\ handler[h].state = "UNINITIALIZED"
    BY DEF AcceptStep, TypeOK, ServerTypeOK, OwnersInv, CallInProgress
<1>2. call.n < Len(server[s].ids) /\ UNCHANGED <<stackVars, registers, held, fault>>
    BY DEF AcceptStep
<1>3. /\ Len(server[s].ids) \in 1..SOCKETS
      /\ NextIndex(s) \in 0..(Len(server[s].ids) - 1)
      /\ NextIndex(s) \in SocketIds
      /\ i \in Ids(s)
    BY <1>1, NextIndexIsNext
<1>4. server[s] \in [state : Server_State, ids : IdLists, allocated : SUBSET SocketIds, accept_i : SocketIds]
    BY <1>1 DEF TypeOK, ServerTypeOK
<1>5. i \in SocketIds
    BY <1>1, <1>3, IdsAreSocketIds DEF TypeOK
<1>6. CASE i \notin Waiting(s)
    <2>1. /\ server' = [server EXCEPT ![s] = PassedBy(s)]
          /\ call' = [call EXCEPT !.n = @ + 1]
          /\ UNCHANGED <<handler, passed>>
        BY <1>6 DEF AcceptStep
    <2>2. /\ PassedBy(s) \in [state : Server_State, ids : IdLists, allocated : SUBSET SocketIds, accept_i : SocketIds]
          /\ PassedBy(s).state = server[s].state /\ PassedBy(s).ids = server[s].ids
          /\ PassedBy(s).allocated = server[s].allocated /\ PassedBy(s).accept_i = NextIndex(s)
        BY <1>3, <1>4 DEF PassedBy
    <2>3. /\ server'[s] = PassedBy(s)
          /\ \A t \in Servers \ {s} : server'[t] = server[t]
          /\ server' \in [Servers -> [state : Server_State, ids : IdLists,
                                      allocated : SUBSET SocketIds, accept_i : SocketIds]]
        BY <1>1, <2>1, <2>2 DEF TypeOK, ServerTypeOK
    <2>4. \A t \in Servers : /\ Ids(t)' = Ids(t)
                             /\ server'[t].ids = server[t].ids
                             /\ server'[t].state = server[t].state
                             /\ t # s => server'[t] = server[t]
        <3>1. \A t \in Servers : server'[t].ids = server[t].ids /\ server'[t].state = server[t].state
            BY <2>2, <2>3
        <3>. QED BY <2>3, <3>1 DEF Ids
    <2>5. call.n + 1 \in 0..SOCKETS
        BY <1>1, <1>2, <1>3, SocketsAssumption
    <2>6. /\ call'.server = s /\ call'.handler = h /\ call'.n = call.n + 1 /\ call'.waiting = call.waiting
          /\ call' \in [server : Servers, handler : Handlers, n : 0..SOCKETS, waiting : SUBSET SocketIds]
        BY <1>1, <2>1, <2>5
    <2>. QED BY <1>1, <1>2, <1>3, <1>5, <1>6, <2>1, <2>2, <2>3, <2>4, <2>6
<1>7. CASE i \in Waiting(s)
    <2>1. /\ server' = [server EXCEPT ![s] = Lent(s, i)]
          /\ handler' = [handler EXCEPT ![h] = [state |-> "CONNECTED", server |-> s, socket_id |-> i]]
          /\ passed' = [j \in SocketIds |-> IF j \in Waiting(s) \ {i} THEN passed[j] + 1
                                            ELSE IF j \in Ids(s) THEN 0 ELSE passed[j]]
          /\ call' = NoCall
        BY <1>7 DEF AcceptStep
    <2>2. i \notin server[s].allocated
        BY <1>7 DEF Waiting
    <2>3. /\ Lent(s, i) \in [state : Server_State, ids : IdLists, allocated : SUBSET SocketIds, accept_i : SocketIds]
          /\ Lent(s, i).state = server[s].state /\ Lent(s, i).ids = server[s].ids
          /\ Lent(s, i).allocated = server[s].allocated \cup {i} /\ Lent(s, i).accept_i = NextIndex(s)
        BY <1>3, <1>4, <1>5 DEF Lent
    <2>4. /\ server'[s] = Lent(s, i)
          /\ \A t \in Servers \ {s} : server'[t] = server[t]
          /\ server' \in [Servers -> [state : Server_State, ids : IdLists,
                                      allocated : SUBSET SocketIds, accept_i : SocketIds]]
        BY <1>1, <2>1, <2>3 DEF TypeOK, ServerTypeOK
    <2>5. \A t \in Servers : /\ Ids(t)' = Ids(t)
                             /\ server'[t].ids = server[t].ids
                             /\ server'[t].state = server[t].state
                             /\ t # s => server'[t] = server[t]
        <3>1. \A t \in Servers : server'[t].ids = server[t].ids /\ server'[t].state = server[t].state
            BY <2>3, <2>4
        <3>. QED BY <2>4, <3>1 DEF Ids
    <2>6. /\ handler' \in [Handlers -> [state : Handler_State, server : Servers, socket_id : SocketIds]]
          /\ handler'[h].state = "CONNECTED" /\ handler'[h].server = s /\ handler'[h].socket_id = i
          /\ \A g \in Handlers \ {h} : handler'[g] = handler[g]
        BY <1>1, <1>5, <2>1 DEF TypeOK, ServerTypeOK, Handler_State
    <2>. QED BY <1>1, <1>2, <1>3, <1>5, <1>7, <2>1, <2>2, <2>3, <2>4, <2>5, <2>6
<1>. QED BY <1>6, <1>7

LEMMA AcceptStepKeepsOwners ==
    ASSUME TypeOK, OwnersInv, AcceptStep, UNCHANGED <<client, udp>>
    PROVE  TypeOK' /\ OwnersInv'
<1>1. PICK s : s = call.server
    OBVIOUS
<1>2. PICK h : h = call.handler
    OBVIOUS
<1>3. PICK i : i = server[s].ids[server[s].accept_i + 1]
    OBVIOUS
<1>4. /\ s \in Servers /\ h \in Handlers /\ i \in Ids(s) /\ i \in SocketIds
      /\ call # NoCall
      /\ server[s].state = "LISTENING" /\ handler[h].state = "UNINITIALIZED"
      /\ call.n < Len(server[s].ids)
      /\ UNCHANGED <<stackVars, registers, held, fault>>
      /\ server' \in [Servers -> [state : Server_State, ids : IdLists,
                                  allocated : SUBSET SocketIds, accept_i : SocketIds]]
      /\ \A t \in Servers : /\ Ids(t)' = Ids(t)
                            /\ server'[t].ids = server[t].ids
                            /\ server'[t].state = server[t].state
                            /\ t # s => server'[t] = server[t]
      /\ server'[s].accept_i = NextIndex(s)
    BY <1>1, <1>2, <1>3, AcceptStepDoes
<1>5. NextIndex(s) \in 0..(Len(server[s].ids) - 1) /\ Len(server[s].ids) \in 1..SOCKETS
    BY <1>4, NextIndexIsNext
<1>6. SocketsTypeOK'
    BY <1>4 DEF TypeOK, SocketsTypeOK, stackVars, registers
<1>7. CASE i \notin Waiting(s)
    <2>1. /\ server'[s].allocated = server[s].allocated
          /\ UNCHANGED <<handler, passed>>
          /\ call' \in [server : Servers, handler : Handlers, n : 0..SOCKETS, waiting : SUBSET SocketIds]
          /\ call'.server = s /\ call'.handler = h /\ call'.n = call.n + 1
        BY <1>1, <1>2, <1>3, <1>7, AcceptStepDoes
    <2>2. OwnersStay
        BY <1>4, <1>5, <2>1 DEF OwnersStay
    <2>3. TypeOK'
        BY <1>4, <1>6, <2>1 DEF TypeOK, ClientTypeOK, UdpTypeOK, ServerTypeOK
    <2>4. call.n \in 0..SOCKETS
        BY <1>4 DEF TypeOK, ServerTypeOK
    <2>5. CallInProgress'
        BY <1>4, <1>5, <2>1, <2>4 DEF CallInProgress
    <2>. QED BY <2>2, <2>3, <2>5, OwnersStayKeepsOwners
<1>8. CASE i \in Waiting(s)
    <2>1. /\ i \notin server[s].allocated
          /\ server'[s].allocated = server[s].allocated \cup {i}
          /\ handler' \in [Handlers -> [state : Handler_State, server : Servers, socket_id : SocketIds]]
          /\ handler'[h].state = "CONNECTED" /\ handler'[h].server = s /\ handler'[h].socket_id = i
          /\ \A g \in Handlers \ {h} : handler'[g] = handler[g]
          /\ passed' = [j \in SocketIds |-> IF j \in Waiting(s) \ {i} THEN passed[j] + 1
                                            ELSE IF j \in Ids(s) THEN 0 ELSE passed[j]]
          /\ call' = NoCall
        BY <1>1, <1>2, <1>3, <1>8, AcceptStepDoes
    <2>2. \A g \in Handlers : handler[g].state # "UNINITIALIZED" => handler[g].socket_id # i
        BY <1>4, <2>1, ServersSocketsAreItsOwn
    <2>3. status[i] = "ALLOCATED" /\ ~detached[i]
        BY <1>4, ServersSocketsAreItsOwn
    <2>4. passed' \in [SocketIds -> Nat]
        BY <2>1 DEF TypeOK, ServerTypeOK
    <2>5. TypeOK'
        BY <1>4, <1>6, <2>1, <2>4 DEF TypeOK, ClientTypeOK, ServerTypeOK, UdpTypeOK
    <2> USE DEF OwnersInv
    <2>6. UNCHANGED <<client, udp, status, detached, sockets, available, fault>>
        BY <1>4 DEF stackVars
    <2>7. Pool'
        BY <2>6 DEF Pool, NoFault, Free
    <2>8. ClientsOwn' /\ UdpSocketsOwn'
        BY <1>4, <2>6 DEF ClientsOwn, UdpSocketsOwn
    <2>a. \A t \in Servers : server'[t].allocated = IF t = s THEN server[s].allocated \cup {i}
                                                             ELSE server[t].allocated
        BY <1>4, <2>1
    <2>9. ServersOwn'
        <3>1. /\ \A t \in Servers : server'[t].state = server[t].state /\ Ids(t)' = Ids(t)
              /\ UNCHANGED <<status, detached>>
              /\ s \in Servers /\ i \in Ids(s) /\ server[s].state = "LISTENING"
            BY <1>4, <2>6
        <3>. QED BY ONLY OwnersInv, <2>a, <3>1 DEF OwnersInv, ServersOwn
    <2>10. ServerLists'
        BY <1>5, <2>1, <1>4 DEF ServerLists
    <2>11. HandlersOwn'
        <3> SUFFICES ASSUME NEW g \in Handlers, handler'[g].state # "UNINITIALIZED"
                     PROVE  /\ status'[handler'[g].socket_id] = "ALLOCATED"
                            /\ ~detached'[handler'[g].socket_id] =>
                                  /\ server'[handler'[g].server].state = "LISTENING"
                                  /\ handler'[g].socket_id \in server'[handler'[g].server].allocated
                            /\ \A f \in Handlers : handler'[f].state # "UNINITIALIZED"
                                    /\ handler'[f].socket_id = handler'[g].socket_id => f = g
            BY DEF HandlersOwn
        <3>1. CASE g = h
            BY <1>4, <2>1, <2>2, <2>3, <2>6, <3>1
        <3>2. CASE g # h
            <4>1. handler'[g] = handler[g] /\ handler[g].server \in Servers
                BY <2>1, <3>2 DEF TypeOK, ServerTypeOK
            <4>2. \A t \in Servers : server[t].allocated \subseteq server'[t].allocated
                BY <2>a
            <4>. QED BY <2>2, <2>1, <1>4, <2>6, <3>2, <4>1, <4>2 DEF HandlersOwn
        <3>. QED BY <3>1, <3>2
    <2>12. LentAreUsed'
        <3>1. \A g \in Handlers : handler[g].state # "UNINITIALIZED" => g # h
            BY <1>4
        <3>2. \A f \in Handlers : handler[f].state # "UNINITIALIZED" =>
                  handler'[f].state # "UNINITIALIZED" /\ handler'[f].socket_id = handler[f].socket_id
            BY <2>1, <3>1
        <3>3. \A t \in Servers : server'[t].state = server[t].state
            BY <1>4
        <3>4. handler'[h].state # "UNINITIALIZED" /\ handler'[h].socket_id = i /\ h \in Handlers
            BY <1>4, <2>1
        <3>5. /\ LentAreUsed /\ detached' = detached
              /\ s \in Servers /\ server[s].state = "LISTENING"
            BY <1>4, <2>6
        <3>. QED BY ONLY <2>a, <3>2, <3>3, <3>4, <3>5 DEF LentAreUsed
    <2>13. AllocatedAreOwned'
        BY <1>4, <2>6 DEF AllocatedAreOwned
    <2>14. CallInProgress'
        BY <2>1 DEF CallInProgress
    <2>. QED BY <2>5, <2>7, <2>8, <2>9, <2>10, <2>11, <2>12, <2>13, <2>14
<1>. QED BY <1>7, <1>8

-----------------------------------------------------------------------------
(* Connection handlers.                                                    *)

LEMMA HandlerShutdownKeepsOwners ==
    ASSUME TypeOK, OwnersInv, NEW h \in Handlers, HandlerShutdown(h), UNCHANGED <<client, udp>>
    PROVE  TypeOK' /\ OwnersInv'
<1> USE DEF HandlerShutdown, stackVars, serverVars
<1>1. OwnersStay
    BY DEF OwnersStay
<1>2. TypeOK'
    BY DEF TypeOK, SocketsTypeOK, ClientTypeOK, ServerTypeOK, UdpTypeOK, Disconnect, SN_SR
<1>3. CallInProgress'
    BY DEF CallInProgress, Idle
<1>. QED BY <1>1, <1>2, <1>3, OwnersStayKeepsOwners

\* Nothing else uses the socket of a detached handler, and nothing but its
\* server that of an attached one.
LEMMA HandlersSocketIsItsOwn ==
    ASSUME TypeOK, OwnersInv, NEW h \in Handlers, handler[h].state # "UNINITIALIZED"
    PROVE  LET i == handler[h].socket_id IN
           /\ i \in SocketIds
           /\ handler[h].server \in Servers
           /\ status[i] = "ALLOCATED"
           /\ \A c \in Clients : client[c].state # "UNINITIALIZED" => client[c].socket_id # i
           /\ \A u \in UdpSockets : udp[u].state # "UNINITIALIZED" => udp[u].socket_id # i
           /\ \A g \in Handlers : handler[g].state # "UNINITIALIZED" /\ handler[g].socket_id = i => g = h
           /\ detached[i] => \A s \in Servers : server[s].state # "UNINITIALIZED" =>
                                 i \notin Ids(s) /\ i \notin server[s].allocated
           /\ ~detached[i] => /\ server[handler[h].server].state = "LISTENING"
                              /\ i \in server[handler[h].server].allocated
                              /\ i \in Ids(handler[h].server)
                              /\ \A t \in Servers : server[t].state # "UNINITIALIZED" /\ t # handler[h].server =>
                                    i \notin Ids(t) /\ i \notin server[t].allocated
<1> DEFINE i == handler[h].socket_id
           s == handler[h].server
<1>1. i \in SocketIds /\ s \in Servers
    BY DEF TypeOK, ServerTypeOK
<1>2. \A g \in Handlers : handler[g].state # "UNINITIALIZED" /\ handler[g].socket_id = i => g = h
    BY DEF OwnersInv, HandlersOwn
<1>3. CASE detached[i]
    <2>1. status[i] = "ALLOCATED"
        BY DEF OwnersInv, HandlersOwn
    <2>. QED BY <1>1, <1>2, <1>3, <2>1 DEF OwnersInv, ClientsOwn, UdpSocketsOwn, ServersOwn
<1>4. CASE ~detached[i]
    <2>1. server[s].state = "LISTENING" /\ i \in server[s].allocated
        BY <1>4 DEF OwnersInv, HandlersOwn
    <2>2. i \in Ids(s)
        BY <1>1, <2>1 DEF OwnersInv, ServersOwn
    <2>. QED BY <1>1, <1>2, <1>4, <2>1, <2>2, ServersSocketsAreItsOwn
<1>. QED BY <1>3, <1>4

\* What close() of a handler does to the pool and to the servers.
LEMMA ReleaseHandlerSocketFrees ==
    ASSUME TypeOK, OwnersInv, NEW h \in Handlers, handler[h].state # "UNINITIALIZED",
           ReleaseHandlerSocket(h)
    PROVE  LET i == handler[h].socket_id IN
           /\ SocketsTypeOK'
           /\ server' \in [Servers -> [state : Server_State, ids : IdLists,
                                       allocated : SUBSET SocketIds, accept_i : SocketIds]]
           /\ Pool'
           /\ \A j \in SocketIds :
                 /\ status'[j] = IF detached[i] /\ j = i THEN "AVAILABLE_FOR_ALLOCATION" ELSE status[j]
                 /\ detached'[j] = (detached[j] /\ j # i)
           /\ \A t \in Servers :
                 /\ server'[t].state = server[t].state
                 /\ server'[t].ids = server[t].ids
                 /\ server'[t].accept_i = server[t].accept_i
                 /\ server[t].state # "UNINITIALIZED" => server'[t].allocated = server[t].allocated \ {i}
<1> DEFINE i == handler[h].socket_id
           s == handler[h].server
<1> USE DEF TypeOK, OwnersInv
<1>1. /\ i \in SocketIds /\ s \in Servers
      /\ status[i] = "ALLOCATED"
      /\ detached[i] => \A t \in Servers : server[t].state # "UNINITIALIZED" => i \notin server[t].allocated
      /\ ~detached[i] => /\ i \in server[s].allocated
                         /\ i \in Ids(s)
                         /\ \A t \in Servers : server[t].state # "UNINITIALIZED" /\ t # s => i \notin server[t].allocated
    BY HandlersSocketIsItsOwn
<1> HIDE DEF i, s
<1>2. CASE detached[i]
    <2>1. ReleaseDetachedSocket(i)
        BY <1>2 DEF ReleaseHandlerSocket, i
    <2>2. DeallocateAndDetach({i}, {}) /\ server' = server /\ held' \in [{"TCP", "UDP"} -> SUBSET Ports]
        BY <2>1 DEF ReleaseDetachedSocket, Deallocate, DeallocatePort, SocketsTypeOK
    <2>3. available' = Cardinality(Free') /\ available' \in 0..SOCKETS
        BY <1>1, <2>2, DeallocateCounts DEF Pool
    <2>4. SocketsTypeOK'
        BY <2>2, <2>3, DeallocateTypes DEF SocketsTypeOK
    <2>5. /\ \A j \in SocketIds : status'[j] = IF j = i THEN "AVAILABLE_FOR_ALLOCATION" ELSE status[j]
          /\ sockets' = sockets
          /\ ~fault'
        BY <1>1, <2>2 DEF DeallocateAndDetach
    <2>6. \A j \in SocketIds : detached'[j] = (detached[j] /\ j # i)
        BY <2>2 DEF DeallocateAndDetach, DetachedAfter, SocketsTypeOK
    <2>7. Pool'
        BY <1>1, <2>3, <2>5 DEF Pool, NoFault
    <2>. QED BY <1>1, <1>2, <2>2, <2>4, <2>5, <2>6, <2>7 DEF ServerTypeOK, i
<1>3. CASE ~detached[i]
    <2>1. ServerDeallocateSocket(s, i)
        BY <1>3 DEF ReleaseHandlerSocket, i, s
    <2>2. /\ sn_sr' = [sn_sr EXCEPT ![i] = "LISTEN"]
          /\ server' = [server EXCEPT ![s].allocated = @ \ {i}]
          /\ fault' = FALSE
          /\ UNCHANGED <<stackVars, sn_mr, sn_port, sn_opt, sn_imr, held>>
        BY <1>1, <1>3, <2>1 DEF ServerDeallocateSocket
    <2>3. SocketsTypeOK'
        BY <2>2 DEF SocketsTypeOK, stackVars, SN_SR
    <2>4. Pool'
        BY <2>2 DEF Pool, NoFault, stackVars, Free
    <2>5. server' \in [Servers -> [state : Server_State, ids : IdLists,
                                   allocated : SUBSET SocketIds, accept_i : SocketIds]]
        BY <1>1, <2>2 DEF ServerTypeOK
    <2>6. /\ server'[s].state = server[s].state /\ server'[s].ids = server[s].ids
          /\ server'[s].accept_i = server[s].accept_i
          /\ server'[s].allocated = server[s].allocated \ {i}
          /\ \A t \in Servers \ {s} : server'[t] = server[t]
        BY <1>1, <2>2 DEF ServerTypeOK
    <2>7. \A t \in Servers : server[t].state # "UNINITIALIZED" => server'[t].allocated = server[t].allocated \ {i}
        BY <1>1, <1>3, <2>6
    <2>8. \A j \in SocketIds : status'[j] = status[j] /\ detached'[j] = (detached[j] /\ j # i)
        BY <1>3, <2>2 DEF stackVars, SocketsTypeOK
    <2>. QED BY <1>3, <2>3, <2>4, <2>5, <2>6, <2>7, <2>8 DEF i
<1>. QED BY <1>2, <1>3

\* The handlers after g gave its socket back: the others keep theirs, under
\* whatever name.
OthersKeep(g) ==
    /\ handler' \in [Handlers -> [state : Handler_State, server : Servers, socket_id : SocketIds]]
    /\ \A e \in Handlers : handler'[e].state # "UNINITIALIZED" =>
          \E f \in Handlers \ {g} : /\ handler[f].state # "UNINITIALIZED"
                                    /\ handler'[e].socket_id = handler[f].socket_id
                                    /\ handler'[e].server = handler[f].server
    /\ \A e, f \in Handlers :
          (handler'[e].state # "UNINITIALIZED" /\ handler'[f].state # "UNINITIALIZED"
              /\ handler'[e].socket_id = handler'[f].socket_id) => e = f
    /\ \A f \in Handlers \ {g} : handler[f].state # "UNINITIALIZED" =>
          \E e \in Handlers : /\ handler'[e].state # "UNINITIALIZED"
                              /\ handler'[e].socket_id = handler[f].socket_id

HandlerReleased(g) ==
    IF handler[g].state # "UNINITIALIZED" THEN ReleaseHandlerSocket(g)
    ELSE UNCHANGED <<stackVars, registers, held, fault, server>>

LEMMA HandlerReleasedFrees ==
    ASSUME TypeOK, OwnersInv, NEW g \in Handlers, HandlerReleased(g)
    PROVE  LET i == handler[g].socket_id
               live == handler[g].state # "UNINITIALIZED"
           IN
           /\ SocketsTypeOK'
           /\ server' \in [Servers -> [state : Server_State, ids : IdLists,
                                       allocated : SUBSET SocketIds, accept_i : SocketIds]]
           /\ Pool'
           /\ \A j \in SocketIds :
                 /\ status'[j] = IF live /\ detached[i] /\ j = i THEN "AVAILABLE_FOR_ALLOCATION" ELSE status[j]
                 /\ detached'[j] = (detached[j] /\ ~(live /\ j = i))
           /\ \A t \in Servers :
                 /\ server'[t].state = server[t].state
                 /\ server'[t].ids = server[t].ids
                 /\ server'[t].accept_i = server[t].accept_i
                 /\ server[t].state # "UNINITIALIZED" =>
                       server'[t].allocated = server[t].allocated \ {j \in {i} : live}
<1>1. CASE handler[g].state # "UNINITIALIZED"
    BY <1>1, ReleaseHandlerSocketFrees DEF HandlerReleased
<1>2. CASE handler[g].state = "UNINITIALIZED"
    <2>1. UNCHANGED <<stackVars, registers, held, fault, server>>
        BY <1>2 DEF HandlerReleased
    <2>. QED BY <1>2, <2>1 DEF TypeOK, OwnersInv, stackVars, registers, SocketsTypeOK, ServerTypeOK,
                Pool, NoFault, Free
<1>. QED BY <1>1, <1>2

LEMMA HandlerReleaseKeepsOwners ==
    ASSUME TypeOK, OwnersInv, NEW g \in Handlers, HandlerReleased(g), OthersKeep(g),
           Idle, UNCHANGED <<client, udp, call, passed>>
    PROVE  TypeOK' /\ OwnersInv'
<1> DEFINE live == handler[g].state # "UNINITIALIZED"
           i == handler[g].socket_id
<1> USE DEF TypeOK, OwnersInv
<1>1. /\ SocketsTypeOK'
      /\ server' \in [Servers -> [state : Server_State, ids : IdLists,
                                  allocated : SUBSET SocketIds, accept_i : SocketIds]]
      /\ Pool'
    BY HandlerReleasedFrees
<1>2. \A j \in SocketIds : status'[j] = "ALLOCATED" <=> (status[j] = "ALLOCATED" /\ ~(live /\ detached[i] /\ j = i))
    BY HandlerReleasedFrees
<1>d. \A j \in SocketIds : detached'[j] = (detached[j] /\ ~(live /\ j = i))
    BY HandlerReleasedFrees
<1>t. \A t \in Servers : /\ server'[t].state = server[t].state
                          /\ server'[t].ids = server[t].ids
                          /\ server'[t].accept_i = server[t].accept_i
    BY HandlerReleasedFrees
<1>a. \A t \in Servers, j \in SocketIds : server[t].state # "UNINITIALIZED" =>
          (j \in server'[t].allocated <=> (j \in server[t].allocated /\ ~(live /\ j = i)))
    BY HandlerReleasedFrees
<1>h. /\ i \in SocketIds
      /\ \A t \in Servers : server[t].allocated \subseteq SocketIds /\ server'[t].allocated \subseteq SocketIds
    BY <1>1 DEF ServerTypeOK
<1> HIDE DEF live, i
<1>3. live => /\ \A c \in Clients : client[c].state # "UNINITIALIZED" => client[c].socket_id # i
              /\ \A u \in UdpSockets : udp[u].state # "UNINITIALIZED" => udp[u].socket_id # i
              /\ \A f \in Handlers \ {g} : handler[f].state # "UNINITIALIZED" => handler[f].socket_id # i
              /\ detached[i] => \A s \in Servers : server[s].state # "UNINITIALIZED" => i \notin Ids(s)
    BY HandlersSocketIsItsOwn DEF live, i
<1>4. TypeOK'
    BY <1>1 DEF ClientTypeOK, ServerTypeOK, UdpTypeOK, OthersKeep
<1>5. \A t \in Servers : Ids(t)' = Ids(t) /\ Ids(t) \subseteq SocketIds
    BY <1>t, IdsAreSocketIds DEF Ids
<1>6. ClientsOwn'
    BY <1>2, <1>3, <1>5, <1>d, <1>t DEF ClientsOwn, ClientTypeOK
<1>7. UdpSocketsOwn'
    BY <1>2, <1>3, <1>5, <1>d, <1>t DEF UdpSocketsOwn, UdpTypeOK
<1>8. ServersOwn'
    <2> SUFFICES ASSUME NEW t \in Servers, server'[t].state # "UNINITIALIZED"
                 PROVE  /\ \A j \in Ids(t)' :
                              /\ status'[j] = "ALLOCATED"
                              /\ ~detached'[j]
                              /\ \A r \in Servers : server'[r].state # "UNINITIALIZED" /\ j \in Ids(r)' => r = t
                        /\ server'[t].allocated \subseteq Ids(t)'
                        /\ server'[t].state # "LISTENING" => server'[t].allocated = {}
        BY DEF ServersOwn
    <2>1. server[t].state # "UNINITIALIZED"
        BY <1>t
    <2>2. \A j \in Ids(t) : status[j] = "ALLOCATED" /\ ~detached[j]
        BY <2>1 DEF ServersOwn
    <2>3. \A j \in Ids(t) : status'[j] = "ALLOCATED" /\ ~detached'[j]
        BY <2>1, <2>2, <1>2, <1>3, <1>5, <1>d
    <2>4. \A j \in Ids(t), r \in Servers : server'[r].state # "UNINITIALIZED" /\ j \in Ids(r)' => r = t
        BY <2>1, <1>t, <1>5 DEF ServersOwn
    <2>5. server'[t].allocated \subseteq server[t].allocated
        BY <2>1, <1>a, <1>h
    <2>6. server[t].allocated \subseteq Ids(t) /\ (server[t].state # "LISTENING" => server[t].allocated = {})
        BY <2>1 DEF ServersOwn
    <2>. QED BY <1>t, <1>5, <2>3, <2>4, <2>5, <2>6
<1>9. ServerLists'
    BY <1>t DEF ServerLists
<1>10. HandlersOwn'
    <2> SUFFICES ASSUME NEW e \in Handlers, handler'[e].state # "UNINITIALIZED"
                 PROVE  /\ status'[handler'[e].socket_id] = "ALLOCATED"
                        /\ ~detached'[handler'[e].socket_id] =>
                              /\ server'[handler'[e].server].state = "LISTENING"
                              /\ handler'[e].socket_id \in server'[handler'[e].server].allocated
                        /\ \A f \in Handlers : handler'[f].state # "UNINITIALIZED"
                                /\ handler'[f].socket_id = handler'[e].socket_id => f = e
        BY DEF HandlersOwn
    <2>1. PICK f \in Handlers \ {g} : /\ handler[f].state # "UNINITIALIZED"
                                      /\ handler'[e].socket_id = handler[f].socket_id
                                      /\ handler'[e].server = handler[f].server
        BY DEF OthersKeep
    <2>2. handler[f].socket_id \in SocketIds /\ handler[f].server \in Servers
        BY DEF ServerTypeOK
    <2>3. live => handler[f].socket_id # i
        BY <1>3, <2>1
    <2>4. /\ status[handler[f].socket_id] = "ALLOCATED"
          /\ ~detached[handler[f].socket_id] =>
                /\ server[handler[f].server].state = "LISTENING"
                /\ handler[f].socket_id \in server[handler[f].server].allocated
        BY <2>1 DEF HandlersOwn
    <2>5. status'[handler[f].socket_id] = "ALLOCATED"
        BY <1>2, <2>2, <2>3, <2>4
    <2>6. ~detached'[handler[f].socket_id] =>
                /\ server'[handler[f].server].state = "LISTENING"
                /\ handler[f].socket_id \in server'[handler[f].server].allocated
        BY <1>d, <1>t, <1>a, <2>2, <2>3, <2>4 DEF SocketsTypeOK
    <2>7. \A k \in Handlers : handler'[k].state # "UNINITIALIZED" /\ handler'[k].socket_id = handler'[e].socket_id => k = e
        BY DEF OthersKeep
    <2>. QED BY <2>1, <2>5, <2>6, <2>7
<1>11. LentAreUsed'
    <2>1. ASSUME NEW t \in Servers, server'[t].state # "UNINITIALIZED", NEW j \in server'[t].allocated
          PROVE  \E e \in Handlers : handler'[e].state # "UNINITIALIZED" /\ handler'[e].socket_id = j
        <3>1. j \in server[t].allocated /\ server[t].state # "UNINITIALIZED" /\ (live => j # i)
            BY <2>1, <1>t, <1>a, <1>h
        <3>2. PICK f \in Handlers : handler[f].state # "UNINITIALIZED" /\ handler[f].socket_id = j
            BY <3>1 DEF LentAreUsed
        <3>3. f # g
            BY <3>1, <3>2 DEF live, i
        <3>. QED BY <3>2, <3>3 DEF OthersKeep
    <2>2. ASSUME NEW j \in SocketIds, detached'[j]
          PROVE  \E e \in Handlers : handler'[e].state # "UNINITIALIZED" /\ handler'[e].socket_id = j
        <3>1. detached[j] /\ (live => j # i)
            BY <2>2, <1>d DEF SocketsTypeOK
        <3>2. PICK f \in Handlers : handler[f].state # "UNINITIALIZED" /\ handler[f].socket_id = j
            BY <3>1 DEF LentAreUsed
        <3>3. f # g
            BY <3>1, <3>2 DEF live, i
        <3>. QED BY <3>2, <3>3 DEF OthersKeep
    <2>. QED BY <2>1, <2>2 DEF LentAreUsed
<1>12. AllocatedAreOwned'
    <2> SUFFICES ASSUME NEW j \in SocketIds, status'[j] = "ALLOCATED"
                 PROVE  \/ \E c \in Clients : client'[c].state # "UNINITIALIZED" /\ client'[c].socket_id = j
                        \/ \E s \in Servers : server'[s].state # "UNINITIALIZED" /\ j \in Ids(s)'
                        \/ \E u \in UdpSockets : udp'[u].state # "UNINITIALIZED" /\ udp'[u].socket_id = j
                        \/ detached'[j]
        BY DEF AllocatedAreOwned
    <2>1. status[j] = "ALLOCATED" /\ ~(live /\ detached[i] /\ j = i)
        BY <1>2
    <2>2. \/ \E c \in Clients : client[c].state # "UNINITIALIZED" /\ client[c].socket_id = j
          \/ \E s \in Servers : server[s].state # "UNINITIALIZED" /\ j \in Ids(s)
          \/ \E u \in UdpSockets : udp[u].state # "UNINITIALIZED" /\ udp[u].socket_id = j
          \/ detached[j]
        BY <2>1 DEF AllocatedAreOwned
    <2>3. detached[j] => detached'[j]
        BY <1>d, <2>1
    <2>. QED BY <1>t, <1>5, <2>2, <2>3
<1>13. CallInProgress'
    BY DEF CallInProgress, Idle
<1>. QED BY <1>1, <1>4, <1>6, <1>7, <1>8, <1>9, <1>10, <1>11, <1>12, <1>13

LEMMA HandlerCloseReleases ==
    ASSUME TypeOK, OwnersInv, NEW g \in Handlers, HandlerClose(g)
    PROVE  Idle /\ HandlerReleased(g) /\ OthersKeep(g) /\ UNCHANGED <<call, passed>>
<1>1. /\ Idle /\ handler[g].state = "CONNECTED" /\ HandlerReleased(g)
      /\ handler' = [handler EXCEPT ![g].state = "UNINITIALIZED"]
      /\ UNCHANGED <<call, passed>>
    BY DEF HandlerClose, HandlerReleased
<1>2. /\ handler \in [Handlers -> [state : Handler_State, server : Servers, socket_id : SocketIds]]
      /\ handler' \in [Handlers -> [state : Handler_State, server : Servers, socket_id : SocketIds]]
      /\ handler'[g].state = "UNINITIALIZED"
      /\ \A f \in Handlers \ {g} : handler'[f] = handler[f]
    BY <1>1 DEF TypeOK, ServerTypeOK, Handler_State
<1>3. \A e, f \in Handlers :
          (handler[e].state # "UNINITIALIZED" /\ handler[f].state # "UNINITIALIZED"
              /\ handler[e].socket_id = handler[f].socket_id) => e = f
    BY DEF OwnersInv, HandlersOwn
<1>4. \A e, f \in Handlers :
          (handler'[e].state # "UNINITIALIZED" /\ handler'[f].state # "UNINITIALIZED"
              /\ handler'[e].socket_id = handler'[f].socket_id) => e = f
    BY <1>2, <1>3
<1>5. \A e \in Handlers : handler'[e].state # "UNINITIALIZED" =>
          \E f \in Handlers \ {g} : /\ handler[f].state # "UNINITIALIZED"
                                    /\ handler'[e].socket_id = handler[f].socket_id
                                    /\ handler'[e].server = handler[f].server
    BY <1>2
<1>6. \A f \in Handlers \ {g} : handler[f].state # "UNINITIALIZED" =>
          \E e \in Handlers : /\ handler'[e].state # "UNINITIALIZED"
                              /\ handler'[e].socket_id = handler[f].socket_id
    BY <1>2
<1>7. OthersKeep(g)
    BY <1>2, <1>4, <1>5, <1>6 DEF OthersKeep
<1>. QED BY <1>1, <1>7

LEMMA HandlerMoveReleases ==
    ASSUME TypeOK, OwnersInv, NEW g \in Handlers, NEW h \in Handlers, HandlerMove(g, h)
    PROVE  Idle /\ HandlerReleased(g) /\ OthersKeep(g) /\ UNCHANGED <<call, passed>>
<1>1. /\ Idle /\ g # h
      /\ HandlerReleased(g)
      /\ handler' = [handler EXCEPT ![g] = handler[h], ![h].state = "UNINITIALIZED"]
      /\ UNCHANGED <<call, passed>>
    BY DEF HandlerMove, HandlerReleased
<1>2. /\ handler \in [Handlers -> [state : Handler_State, server : Servers, socket_id : SocketIds]]
      /\ handler' \in [Handlers -> [state : Handler_State, server : Servers, socket_id : SocketIds]]
      /\ handler'[h].state = "UNINITIALIZED"
      /\ handler'[g] = handler[h]
      /\ \A f \in Handlers \ {g, h} : handler'[f] = handler[f]
    BY <1>1 DEF TypeOK, ServerTypeOK, Handler_State
<1>3. \A e, f \in Handlers :
          (handler[e].state # "UNINITIALIZED" /\ handler[f].state # "UNINITIALIZED"
              /\ handler[e].socket_id = handler[f].socket_id) => e = f
    BY DEF OwnersInv, HandlersOwn
<1>4. \A e, f \in Handlers :
          (handler'[e].state # "UNINITIALIZED" /\ handler'[f].state # "UNINITIALIZED"
              /\ handler'[e].socket_id = handler'[f].socket_id) => e = f
    BY <1>2, <1>3
<1>5. \A e \in Handlers : handler'[e].state # "UNINITIALIZED" =>
          \E f \in Handlers \ {g} : /\ handler[f].state # "UNINITIALIZED"
                                    /\ handler'[e].socket_id = handler[f].socket_id
                                    /\ handler'[e].server = handler[f].server
    BY <1>1, <1>2
<1>6. \A f \in Handlers \ {g} : handler[f].state # "UNINITIALIZED" =>
          \E e \in Handlers : /\ handler'[e].state # "UNINITIALIZED"
                              /\ handler'[e].socket_id = handler[f].socket_id
    BY <1>1, <1>2
<1>7. OthersKeep(g)
    BY <1>2, <1>4, <1>5, <1>6 DEF OthersKeep
<1>. QED BY <1>1, <1>7

LEMMA HandlerCloseKeepsOwners ==
    ASSUME TypeOK, OwnersInv, NEW g \in Handlers,
           HandlerClose(g) \/ \E h \in Handlers : HandlerMove(g, h), UNCHANGED <<client, udp>>
    PROVE  TypeOK' /\ OwnersInv'
<1>1. Idle /\ HandlerReleased(g) /\ OthersKeep(g) /\ UNCHANGED <<call, passed>>
    BY HandlerCloseReleases, HandlerMoveReleases
<1>. QED BY <1>1, HandlerReleaseKeepsOwners

-----------------------------------------------------------------------------
(* close() and move assignment of a server.                                *)

\* The servers after s gave its sockets back: the others keep theirs, under
\* whatever name, and under the same name while a handler refers to it.
OtherServersKeep(s) ==
    /\ server' \in [Servers -> [state : Server_State, ids : IdLists,
                                allocated : SUBSET SocketIds, accept_i : SocketIds]]
    /\ \A t \in Servers : server'[t].state # "UNINITIALIZED" =>
          \E r \in Servers \ {s} : server[r].state # "UNINITIALIZED" /\ server'[t] = server[r]
    /\ \A t, r \in Servers :
          (server'[t].state # "UNINITIALIZED" /\ server'[r].state # "UNINITIALIZED" /\ Ids(t)' \cap Ids(r)' # {}) => t = r
    /\ \A r \in Servers \ {s} : server[r].state # "UNINITIALIZED" =>
          \E t \in Servers : server'[t].state # "UNINITIALIZED" /\ server'[t] = server[r]
    /\ \A t \in Servers : server'[t].ids = <<>> \/ \E r \in Servers : server'[t].ids = server[r].ids
    /\ \A t \in Servers \ {s} : (server[t].state = "LISTENING" /\ server[t].allocated # {}) => server'[t] = server[t]

ServerReleased(s) ==
    IF server[s].state # "UNINITIALIZED" THEN ReleaseServerSockets(s)
    ELSE UNCHANGED <<stackVars, registers, held, fault, passed>>

LEMMA ServerReleasedFrees ==
    ASSUME TypeOK, OwnersInv, NEW s \in Servers, ServerReleased(s)
    PROVE  LET live == server[s].state # "UNINITIALIZED" IN
           /\ SocketsTypeOK'
           /\ passed' \in [SocketIds -> Nat]
           /\ Pool'
           /\ \A j \in SocketIds :
                 /\ status'[j] = "ALLOCATED" <=>
                       (status[j] = "ALLOCATED" /\ ~(live /\ j \in Ids(s) /\ j \notin server[s].allocated))
                 /\ detached'[j] = (detached[j] \/ (live /\ j \in server[s].allocated))
<1> USE DEF TypeOK, OwnersInv
<1>1. CASE server[s].state # "UNINITIALIZED"
    <2> DEFINE S == Ids(s) \ server[s].allocated
    <2>1. /\ DeallocateAndDetach(S, server[s].allocated)
          /\ held' \in [{"TCP", "UDP"} -> SUBSET Ports]
          /\ passed' = [i \in SocketIds |-> IF i \in Ids(s) THEN 0 ELSE passed[i]]
        BY <1>1 DEF ServerReleased, ReleaseServerSockets, DeallocatePort, SocketsTypeOK
    <2>2. /\ S \in SUBSET SocketIds
          /\ \A i \in S : status[i] = "ALLOCATED" /\ ~detached[i]
          /\ server[s].allocated \subseteq SocketIds
        BY <1>1, IdsAreSocketIds DEF ServersOwn
    <2> HIDE DEF S
    <2>3. available' = Cardinality(Free') /\ available' \in 0..SOCKETS
        BY <2>1, <2>2, DeallocateCounts DEF Pool
    <2>4. SocketsTypeOK'
        BY <2>1, <2>3, DeallocateTypes DEF SocketsTypeOK
    <2>5. passed' \in [SocketIds -> Nat]
        BY <2>1 DEF ServerTypeOK
    <2>6. /\ \A j \in SocketIds : status'[j] = IF j \in S THEN "AVAILABLE_FOR_ALLOCATION" ELSE status[j]
          /\ sockets' = sockets
          /\ ~fault'
        BY <2>1, <2>2 DEF DeallocateAndDetach
    <2>7. \A j \in SocketIds : detached'[j] = (j \notin S /\ (j \in server[s].allocated \/ detached[j]))
        BY <2>1 DEF DeallocateAndDetach, DetachedAfter
    <2>8. Pool'
        BY <2>2, <2>3, <2>6 DEF Pool, NoFault
    <2>9. \A j \in SocketIds : detached'[j] = (detached[j] \/ j \in server[s].allocated)
        BY <2>2, <2>7 DEF S, SocketsTypeOK
    <2>10. \A j \in SocketIds : status'[j] = "ALLOCATED" <=> (status[j] = "ALLOCATED" /\ j \notin S)
        BY <2>6
    <2>. QED BY <1>1, <2>4, <2>5, <2>8, <2>9, <2>10 DEF S
<1>2. CASE server[s].state = "UNINITIALIZED"
    <2>1. UNCHANGED <<stackVars, registers, held, fault, passed>>
        BY <1>2 DEF ServerReleased
    <2>. QED BY <1>2, <2>1 DEF stackVars, registers, SocketsTypeOK, ServerTypeOK, Pool, NoFault, Free
<1>. QED BY <1>1, <1>2

LEMMA ServerReleaseKeepsOwners ==
    ASSUME TypeOK, OwnersInv, NEW s \in Servers, ServerReleased(s), OtherServersKeep(s),
           Idle, UNCHANGED <<client, udp, call, handler>>
    PROVE  TypeOK' /\ OwnersInv'
<1> DEFINE live == server[s].state # "UNINITIALIZED"
<1> USE DEF TypeOK, OwnersInv
<1>1. SocketsTypeOK' /\ passed' \in [SocketIds -> Nat] /\ Pool'
    BY ServerReleasedFrees
<1>2. \A j \in SocketIds : status'[j] = "ALLOCATED" <=>
          (status[j] = "ALLOCATED" /\ ~(live /\ j \in Ids(s) /\ j \notin server[s].allocated))
    BY ServerReleasedFrees
<1>3. \A j \in SocketIds : detached'[j] = (detached[j] \/ (live /\ j \in server[s].allocated))
    BY ServerReleasedFrees
<1>4. TypeOK'
    BY <1>1 DEF ClientTypeOK, ServerTypeOK, UdpTypeOK, OtherServersKeep
<1>5. \A t, r \in Servers : server'[t].ids = server[r].ids => Ids(t)' = Ids(r)
    BY DEF Ids
<1>6. \A t \in Servers : Ids(t) \subseteq SocketIds /\ server[t].allocated \subseteq SocketIds
    BY IdsAreSocketIds DEF ServerTypeOK
<1>7. live => server[s].allocated \subseteq Ids(s)
    BY DEF ServersOwn
<1>8. \A t \in Servers : server'[t].state # "UNINITIALIZED" =>
          \E r \in Servers \ {s} : /\ server[r].state # "UNINITIALIZED"
                                   /\ server'[t] = server[r]
                                   /\ Ids(t)' = Ids(r)
    BY <1>5 DEF OtherServersKeep
<1>9. \A r \in Servers \ {s} : server[r].state # "UNINITIALIZED" => Ids(r) \cap Ids(s) = {} \/ ~live
    BY DEF ServersOwn
<1> HIDE DEF live
<1>10. ClientsOwn'
    <2> SUFFICES ASSUME NEW c \in Clients, client'[c].state # "UNINITIALIZED"
                 PROVE  LET j == client'[c].socket_id IN
                        /\ status'[j] = "ALLOCATED"
                        /\ ~detached'[j]
                        /\ \A d \in Clients : client'[d].state # "UNINITIALIZED" /\ client'[d].socket_id = j => d = c
                        /\ \A t \in Servers : server'[t].state # "UNINITIALIZED" => j \notin Ids(t)'
                        /\ \A u \in UdpSockets : udp'[u].state # "UNINITIALIZED" => udp'[u].socket_id # j
        BY DEF ClientsOwn
    <2> DEFINE j == client[c].socket_id
    <2>1. /\ j \in SocketIds
          /\ status[j] = "ALLOCATED"
          /\ ~detached[j]
          /\ \A d \in Clients : client[d].state # "UNINITIALIZED" /\ client[d].socket_id = j => d = c
          /\ \A t \in Servers : server[t].state # "UNINITIALIZED" => j \notin Ids(t)
          /\ \A u \in UdpSockets : udp[u].state # "UNINITIALIZED" => udp[u].socket_id # j
        BY ClientsSocketIsItsOwn
    <2>2. live => j \notin Ids(s) /\ j \notin server[s].allocated
        BY <2>1, <1>7 DEF live
    <2>3. status'[j] = "ALLOCATED" /\ ~detached'[j]
        BY <2>1, <2>2, <1>2, <1>3
    <2>4. \A t \in Servers : server'[t].state # "UNINITIALIZED" => j \notin Ids(t)'
        BY <2>1, <1>8
    <2>. QED BY <2>1, <2>3, <2>4
<1>11. UdpSocketsOwn'
    <2> SUFFICES ASSUME NEW u \in UdpSockets, udp'[u].state # "UNINITIALIZED"
                 PROVE  LET j == udp'[u].socket_id IN
                        /\ status'[j] = "ALLOCATED"
                        /\ ~detached'[j]
                        /\ \A v \in UdpSockets : udp'[v].state # "UNINITIALIZED" /\ udp'[v].socket_id = j => v = u
                        /\ \A t \in Servers : server'[t].state # "UNINITIALIZED" => j \notin Ids(t)'
                        /\ \A c \in Clients : client'[c].state # "UNINITIALIZED" => client'[c].socket_id # j
        BY DEF UdpSocketsOwn
    <2> DEFINE j == udp[u].socket_id
    <2>1. /\ j \in SocketIds
          /\ status[j] = "ALLOCATED"
          /\ ~detached[j]
          /\ \A v \in UdpSockets : udp[v].state # "UNINITIALIZED" /\ udp[v].socket_id = j => v = u
          /\ \A t \in Servers : server[t].state # "UNINITIALIZED" => j \notin Ids(t)
          /\ \A c \in Clients : client[c].state # "UNINITIALIZED" => client[c].socket_id # j
        BY UdpSocketIsItsOwn
    <2>2. live => j \notin Ids(s) /\ j \notin server[s].allocated
        BY <2>1, <1>7 DEF live
    <2>3. status'[j] = "ALLOCATED" /\ ~detached'[j]
        BY <2>1, <2>2, <1>2, <1>3
    <2>4. \A t \in Servers : server'[t].state # "UNINITIALIZED" => j \notin Ids(t)'
        BY <2>1, <1>8
    <2>. QED BY <2>1, <2>3, <2>4
<1>12. ServersOwn'
    <2> SUFFICES ASSUME NEW t \in Servers, server'[t].state # "UNINITIALIZED"
                 PROVE  /\ \A j \in Ids(t)' :
                              /\ status'[j] = "ALLOCATED"
                              /\ ~detached'[j]
                              /\ \A r \in Servers : server'[r].state # "UNINITIALIZED" /\ j \in Ids(r)' => r = t
                        /\ server'[t].allocated \subseteq Ids(t)'
                        /\ server'[t].state # "LISTENING" => server'[t].allocated = {}
        BY DEF ServersOwn
    <2>1. PICK r \in Servers \ {s} : /\ server[r].state # "UNINITIALIZED"
                                     /\ server'[t] = server[r]
                                     /\ Ids(t)' = Ids(r)
        BY <1>8
    <2>2. ASSUME NEW j \in Ids(r) PROVE status'[j] = "ALLOCATED" /\ ~detached'[j]
        <3>1. j \in SocketIds /\ status[j] = "ALLOCATED" /\ ~detached[j] /\ (live => j \notin Ids(s))
            BY <2>1, <1>6, <1>9 DEF ServersOwn
        <3>. QED BY <3>1, <1>2, <1>3, <1>7
    <2>3. \A j \in Ids(t)', x \in Servers : server'[x].state # "UNINITIALIZED" /\ j \in Ids(x)' => x = t
        BY DEF OtherServersKeep
    <2>4. server[r].allocated \subseteq Ids(r) /\ (server[r].state # "LISTENING" => server[r].allocated = {})
        BY <2>1 DEF ServersOwn
    <2>. QED BY <2>1, <2>2, <2>3, <2>4
<1>13. ServerLists'
    <2>1. ASSUME NEW t \in Servers, NEW j \in DOMAIN server'[t].ids, NEW k \in DOMAIN server'[t].ids,
                 server'[t].ids[j] = server'[t].ids[k]
          PROVE  j = k
        <3>1. server'[t].ids = <<>> \/ \E r \in Servers : server'[t].ids = server[r].ids
            BY DEF OtherServersKeep
        <3>. QED BY <2>1, <3>1 DEF ServerLists
    <2>2. \A t \in Servers : server'[t].state # "UNINITIALIZED" => server'[t].accept_i < Len(server'[t].ids)
        BY <1>8 DEF ServerLists
    <2>. QED BY <2>1, <2>2 DEF ServerLists
<1>14. HandlersOwn'
    <2> SUFFICES ASSUME NEW h \in Handlers, handler'[h].state # "UNINITIALIZED"
                 PROVE  LET i == handler'[h].socket_id IN
                        /\ status'[i] = "ALLOCATED"
                        /\ ~detached'[i] => /\ server'[handler'[h].server].state = "LISTENING"
                                            /\ i \in server'[handler'[h].server].allocated
                        /\ \A g \in Handlers : handler'[g].state # "UNINITIALIZED" /\ handler'[g].socket_id = i => g = h
        BY DEF HandlersOwn
    <2> DEFINE i == handler[h].socket_id
               t == handler[h].server
    <2>1. /\ i \in SocketIds /\ t \in Servers /\ status[i] = "ALLOCATED"
          /\ \A g \in Handlers : handler[g].state # "UNINITIALIZED" /\ handler[g].socket_id = i => g = h
          /\ detached[i] => (live => i \notin Ids(s))
          /\ ~detached[i] => /\ server[t].state = "LISTENING"
                             /\ i \in server[t].allocated
                             /\ t # s => (live => i \notin Ids(s))
        BY HandlersSocketIsItsOwn DEF live
    <2> HIDE DEF i, t
    <2>2. handler'[h].socket_id = i /\ handler'[h].server = t
        BY DEF i, t
    <2>3. CASE live /\ i \in server[s].allocated
        BY <2>1, <2>2, <2>3, <1>2, <1>3 DEF i
    <2>4. CASE ~(live /\ i \in server[s].allocated) /\ detached[i]
        BY <2>1, <2>2, <2>4, <1>2, <1>3 DEF i
    <2>5. CASE ~(live /\ i \in server[s].allocated) /\ ~detached[i]
        <3>1. t # s
            BY <2>1, <2>5 DEF live
        <3>2. server'[t] = server[t]
            BY <2>1, <2>5, <3>1 DEF OtherServersKeep
        <3>3. status'[i] = "ALLOCATED"
            BY <2>1, <2>5, <3>1, <1>2
        <3>. QED BY <2>1, <2>2, <2>5, <3>2, <3>3 DEF i
    <2>. QED BY <2>3, <2>4, <2>5
<1>15. LentAreUsed'
    <2>1. ASSUME NEW t \in Servers, server'[t].state # "UNINITIALIZED", NEW j \in server'[t].allocated
          PROVE  \E h \in Handlers : handler'[h].state # "UNINITIALIZED" /\ handler'[h].socket_id = j
        <3>1. PICK r \in Servers : server[r].state # "UNINITIALIZED" /\ j \in server[r].allocated
            BY <2>1, <1>8
        <3>. QED BY <3>1 DEF LentAreUsed
    <2>2. ASSUME NEW j \in SocketIds, detached'[j]
          PROVE  \E h \in Handlers : handler'[h].state # "UNINITIALIZED" /\ handler'[h].socket_id = j
        <3>1. detached[j] \/ (server[s].state # "UNINITIALIZED" /\ j \in server[s].allocated)
            BY <2>2, <1>3 DEF live
        <3>. QED BY <3>1 DEF LentAreUsed
    <2>. QED BY <2>1, <2>2 DEF LentAreUsed
<1>16. AllocatedAreOwned'
    <2> SUFFICES ASSUME NEW j \in SocketIds, status'[j] = "ALLOCATED"
                 PROVE  \/ \E c \in Clients : client'[c].state # "UNINITIALIZED" /\ client'[c].socket_id = j
                        \/ \E t \in Servers : server'[t].state # "UNINITIALIZED" /\ j \in Ids(t)'
                        \/ \E u \in UdpSockets : udp'[u].state # "UNINITIALIZED" /\ udp'[u].socket_id = j
                        \/ detached'[j]
        BY DEF AllocatedAreOwned
    <2>1. status[j] = "ALLOCATED" /\ (live /\ j \in Ids(s) => j \in server[s].allocated)
        BY <1>2
    <2>2. \/ \E c \in Clients : client[c].state # "UNINITIALIZED" /\ client[c].socket_id = j
          \/ \E t \in Servers : server[t].state # "UNINITIALIZED" /\ j \in Ids(t)
          \/ \E u \in UdpSockets : udp[u].state # "UNINITIALIZED" /\ udp[u].socket_id = j
          \/ detached[j]
        BY <2>1 DEF AllocatedAreOwned
    <2>3. ASSUME NEW r \in Servers, server[r].state # "UNINITIALIZED", j \in Ids(r)
          PROVE  detached'[j] \/ \E t \in Servers : server'[t].state # "UNINITIALIZED" /\ j \in Ids(t)'
        <3>1. CASE r = s
            BY <2>1, <2>3, <3>1, <1>3 DEF live
        <3>2. CASE r # s
            BY <2>3, <3>2, <1>5 DEF OtherServersKeep
        <3>. QED BY <3>1, <3>2
    <2>4. detached[j] => detached'[j]
        BY <1>3
    <2>. QED BY <2>2, <2>3, <2>4
<1>17. CallInProgress'
    BY DEF CallInProgress, Idle
<1>. QED BY <1>1, <1>4, <1>10, <1>11, <1>12, <1>13, <1>14, <1>15, <1>16, <1>17

LEMMA ServerCloseReleases ==
    ASSUME TypeOK, OwnersInv, NEW s \in Servers, ServerClose(s)
    PROVE  Idle /\ ServerReleased(s) /\ OtherServersKeep(s) /\ UNCHANGED <<call, handler>>
<1>1. /\ Idle /\ server[s].state # "UNINITIALIZED" /\ ServerReleased(s)
      /\ server' = [server EXCEPT ![s].state = "UNINITIALIZED"]
      /\ UNCHANGED <<call, handler>>
    BY DEF ServerClose, ServerReleased
<1>2. /\ server' \in [Servers -> [state : Server_State, ids : IdLists,
                                  allocated : SUBSET SocketIds, accept_i : SocketIds]]
      /\ server'[s].state = "UNINITIALIZED" /\ server'[s].ids = server[s].ids
      /\ \A t \in Servers \ {s} : server'[t] = server[t]
    <2>1. "UNINITIALIZED" \in Server_State /\ ServerTypeOK
        BY DEF Server_State, TypeOK
    <2>2. server' \in [Servers -> [state : Server_State, ids : IdLists,
                                   allocated : SUBSET SocketIds, accept_i : SocketIds]]
        BY <1>1, <2>1, ServerStateChanges
    <2>. QED BY <1>1, <2>1, <2>2 DEF ServerTypeOK
<1>3. \A t \in Servers : Ids(t)' = Ids(t)
    BY <1>2 DEF Ids
<1>4. \A t, r \in Servers :
          (server[t].state # "UNINITIALIZED" /\ server[r].state # "UNINITIALIZED" /\ Ids(t) \cap Ids(r) # {}) => t = r
    BY DEF OwnersInv, ServersOwn
<1>5. OtherServersKeep(s)
    BY <1>2, <1>3, <1>4 DEF OtherServersKeep
<1>. QED BY <1>1, <1>5

LEMMA ServerMoveReleases ==
    ASSUME TypeOK, OwnersInv, ~MoveWithHandlers, NEW s \in Servers, NEW t \in Servers, ServerMove(s, t)
    PROVE  Idle /\ ServerReleased(s) /\ OtherServersKeep(s) /\ UNCHANGED <<call, handler>>
<1>1. /\ Idle /\ s # t /\ ServerReleased(s)
      /\ server[t].state # "LISTENING" \/ server[t].allocated = {}
      /\ server' = [server EXCEPT ![s] = server[t],
                                  ![t] = [@ EXCEPT !.state = "UNINITIALIZED",
                                                   !.ids = <<>>, !.allocated = {}]]
      /\ UNCHANGED <<call, handler>>
    BY DEF ServerMove, ServerReleased
<1>2. <<>> \in IdLists
    <2>1. <<>> \in Seq(SocketIds) /\ Len(<<>>) = 0 /\ 0 <= SOCKETS
        BY SocketsAssumption
    <2>. QED BY <2>1, SequencesAreIdLists
<1>3. server[t] \in [state : Server_State, ids : IdLists, allocated : SUBSET SocketIds, accept_i : SocketIds]
    BY DEF TypeOK, ServerTypeOK
<1>4. PICK empty : empty = [server[t] EXCEPT !.state = "UNINITIALIZED", !.ids = <<>>, !.allocated = {}]
    OBVIOUS
<1>5. /\ empty \in [state : Server_State, ids : IdLists, allocated : SUBSET SocketIds, accept_i : SocketIds]
      /\ empty.state = "UNINITIALIZED" /\ empty.ids = <<>>
    BY <1>2, <1>3, <1>4 DEF Server_State
<1>6. server' = [server EXCEPT ![s] = server[t], ![t] = empty]
    BY <1>1, <1>4 DEF TypeOK, ServerTypeOK
<1>7. /\ server' \in [Servers -> [state : Server_State, ids : IdLists,
                                  allocated : SUBSET SocketIds, accept_i : SocketIds]]
      /\ server'[s] = server[t] /\ server'[t] = empty
      /\ \A r \in Servers \ {s, t} : server'[r] = server[r]
    <2> DEFINE R == [state : Server_State, ids : IdLists, allocated : SUBSET SocketIds, accept_i : SocketIds]
    <2>1. server \in [Servers -> R] /\ server[t] \in R /\ empty \in R
        BY <1>3, <1>5 DEF TypeOK, ServerTypeOK
    <2> HIDE DEF R
    <2>2. /\ server' \in [Servers -> R]
          /\ server'[s] = server[t] /\ server'[t] = empty
          /\ \A r \in Servers \ {s, t} : server'[r] = server[r]
        BY <1>1, <1>6, <2>1
    <2>. QED BY <2>2 DEF R
<1>8. /\ Ids(s)' = Ids(t)
      /\ \A r \in Servers \ {s, t} : Ids(r)' = Ids(r)
    BY <1>7 DEF Ids
<1>9. \A q, r \in Servers :
          (server[q].state # "UNINITIALIZED" /\ server[r].state # "UNINITIALIZED" /\ Ids(q) \cap Ids(r) # {}) => q = r
    BY DEF OwnersInv, ServersOwn
<1>10. OtherServersKeep(s)
    <2>1. \A q \in Servers : server'[q].state # "UNINITIALIZED" =>
              \E r \in Servers \ {s} : server[r].state # "UNINITIALIZED" /\ server'[q] = server[r]
        BY <1>1, <1>5, <1>7
    <2>2. \A q, r \in Servers :
              (server'[q].state # "UNINITIALIZED" /\ server'[r].state # "UNINITIALIZED" /\ Ids(q)' \cap Ids(r)' # {}) => q = r
        BY <1>1, <1>5, <1>7, <1>8, <1>9
    <2>3. \A r \in Servers \ {s} : server[r].state # "UNINITIALIZED" =>
              \E q \in Servers : server'[q].state # "UNINITIALIZED" /\ server'[q] = server[r]
        BY <1>7
    <2>4. \A q \in Servers : server'[q].ids = <<>> \/ \E r \in Servers : server'[q].ids = server[r].ids
        BY <1>5, <1>7
    <2>5. \A r \in Servers \ {s} : (server[r].state = "LISTENING" /\ server[r].allocated # {}) => server'[r] = server[r]
        BY <1>1, <1>7
    <2>. QED BY <1>7, <2>1, <2>2, <2>3, <2>4, <2>5 DEF OtherServersKeep
<1>. QED BY <1>1, <1>10

LEMMA ServerCloseKeepsOwners ==
    ASSUME TypeOK, OwnersInv, ~MoveWithHandlers, NEW s \in Servers,
           ServerClose(s) \/ \E t \in Servers : ServerMove(s, t), UNCHANGED <<client, udp>>
    PROVE  TypeOK' /\ OwnersInv'
<1>1. Idle /\ ServerReleased(s) /\ OtherServersKeep(s) /\ UNCHANGED <<call, handler>>
    BY ServerCloseReleases, ServerMoveReleases
<1>. QED BY <1>1, ServerReleaseKeepsOwners

-----------------------------------------------------------------------------
(* initialize(), what the chip does, and the whole program.                *)

LEMMA InitializeKeepsOwners ==
    ASSUME TypeOK, OwnersInv, NEW size \in BufferSizes, Initialize(size),
           UNCHANGED <<client, serverVars, udp>>
    PROVE  TypeOK' /\ OwnersInv'
<1> USE DEF TypeOK, OwnersInv
<1>1. PICK n \in 1..SOCKETS : n = MEMORY \div size
    BY BufferSizesAssumption
<1>2. /\ Idle /\ sockets = 0 /\ sockets' = n /\ available' = n
      /\ status' = [i \in SocketIds |-> IF i < n THEN "AVAILABLE_FOR_ALLOCATION" ELSE status[i]]
      /\ UNCHANGED <<detached, registers, held, call, fault, client, server, handler, passed, udp>>
    BY <1>1 DEF Initialize, serverVars
<1>3. \A i \in SocketIds : i >= 0 /\ status[i] = "NOT_AVAILABLE_FOR_USE"
    BY <1>2, SocketsAssumption DEF Pool, SocketIds
<1>4. /\ \A i \in SocketIds : status'[i] = IF i < n THEN "AVAILABLE_FOR_ALLOCATION" ELSE "NOT_AVAILABLE_FOR_USE"
      /\ status' \in [SocketIds -> Socket_Status]
    BY <1>2, <1>3 DEF SocketsTypeOK, Socket_Status
<1>5. Free' = 0..(n - 1) /\ Cardinality(0..(n - 1)) = n
    <2>1. Free' = 0..(n - 1)
        BY <1>4, SocketsAssumption DEF Free, SocketIds
    <2>. QED BY <2>1, FS_Interval, SocketsAssumption
<1>6. TypeOK'
    BY <1>2, <1>4, SocketsAssumption DEF SocketsTypeOK, registers, ClientTypeOK, ServerTypeOK, UdpTypeOK
<1>7. Pool'
    BY <1>2, <1>4, <1>5 DEF Pool, NoFault, SocketIds
<1>8. \A s \in Servers : Ids(s)' = Ids(s)
    BY <1>2 DEF Ids
<1>9. /\ \A c \in Clients : client'[c].state = "UNINITIALIZED"
      /\ \A u \in UdpSockets : udp'[u].state = "UNINITIALIZED"
      /\ \A h \in Handlers : handler'[h].state = "UNINITIALIZED"
    BY <1>2, <1>3 DEF ClientsOwn, UdpSocketsOwn, HandlersOwn, ClientTypeOK, UdpTypeOK, ServerTypeOK
<1>10. \A s \in Servers : server'[s].state = "UNINITIALIZED"
    <2> SUFFICES ASSUME NEW s \in Servers, server[s].state # "UNINITIALIZED" PROVE FALSE
        BY <1>2
    <2>1. server[s].ids[server[s].accept_i + 1] \in Ids(s)
        <3>1. server[s].accept_i \in 0..(Len(server[s].ids) - 1) /\ Len(server[s].ids) \in Nat
            BY IdListsAreSequences, SocketsAssumption DEF ServerLists, ServerTypeOK, SocketIds
        <3>. QED BY <3>1, IdsAreSocketIds
    <2>. QED BY <2>1, <1>3, IdsAreSocketIds DEF ServersOwn
<1>11. \A i \in SocketIds : ~detached'[i]
    BY <1>2, <1>9 DEF LentAreUsed
<1>12. CallInProgress'
    BY <1>2 DEF CallInProgress, Idle
<1>13. ServerLists'
    BY <1>2 DEF ServerLists
<1>14. ClientsOwn' /\ UdpSocketsOwn' /\ ServersOwn' /\ HandlersOwn' /\ LentAreUsed'
    BY <1>9, <1>10, <1>11 DEF ClientsOwn, UdpSocketsOwn, ServersOwn, HandlersOwn, LentAreUsed
<1>15. AllocatedAreOwned'
    BY <1>4 DEF AllocatedAreOwned
<1>. QED BY <1>6, <1>7, <1>12, <1>13, <1>14, <1>15

LEMMA ChipStepKeepsOwners ==
    ASSUME TypeOK, OwnersInv, NEW i \in SocketIds, ChipStep(i), UNCHANGED <<client, serverVars, udp>>
    PROVE  TypeOK' /\ OwnersInv'
<1>1. TypeOK' /\ OwnersStay
    BY DEF ChipStep, TypeOK, SocketsTypeOK, ClientTypeOK, ServerTypeOK, UdpTypeOK, serverVars, stackVars, OwnersStay
<1>2. CallInProgress'
    BY DEF ChipStep, CallInProgress, OwnersInv, serverVars
<1>. QED BY <1>1, <1>2, OwnersStayKeepsOwners

LEMMA StutterKeepsOwners ==
    ASSUME TypeOK, OwnersInv, UNCHANGED vars
    PROVE  TypeOK' /\ OwnersInv'
<1> USE DEF vars, socketVars, stackVars, registers, serverVars
<1>1. TypeOK' /\ OwnersStay
    BY DEF TypeOK, SocketsTypeOK, ClientTypeOK, ServerTypeOK, UdpTypeOK, OwnersStay
<1>2. CallInProgress'
    BY DEF CallInProgress, OwnersInv
<1>. QED BY <1>1, <1>2, OwnersStayKeepsOwners

LEMMA ClientNextKeepsOwners ==
    ASSUME TypeOK, OwnersInv, ClientNext, UNCHANGED <<serverVars, udp>>
    PROVE  TypeOK' /\ OwnersInv'
<1>1. PICK c \in Clients :
        \/ \E i \in SocketIds : MakeClient(c, i) \/ MakeClientAt(c, i)
        \/ \/ \E option \in Options : ClientConfigure(c, option)
           \/ \E mask \in Masks : ClientSetInterrupts(c, mask)
           \/ \E port \in Ports : ClientBind(c, port)
           \/ ClientConnect(c) \/ ClientConnected(c) \/ ClientShutdown(c)
        \/ ClientClose(c)
        \/ \E d \in Clients : ClientMove(c, d)
    BY DEF ClientNext
<1>. QED BY <1>1, MakeClientKeepsOwners, ClientStaysKeepsOwners, ClientCloseKeepsOwners, ClientMoveKeepsOwners

LEMMA UdpNextKeepsOwners ==
    ASSUME TypeOK, OwnersInv, UdpNext, UNCHANGED <<client, serverVars>>
    PROVE  TypeOK' /\ OwnersInv'
<1>1. PICK u \in UdpSockets :
        \/ \E i \in SocketIds : MakeUdp(u, i) \/ MakeUdpAt(u, i)
        \/ \/ \E option \in Options : UdpConfigure(u, option)
           \/ \E mask \in Masks : UdpSetInterrupts(u, mask)
           \/ \E port \in Ports : UdpBind(u, port)
        \/ UdpClose(u)
        \/ \E v \in UdpSockets : UdpMove(u, v)
    BY DEF UdpNext
<1>. QED BY <1>1, MakeUdpKeepsOwners, UdpStaysKeepsOwners, UdpCloseKeepsOwners, UdpMoveKeepsOwners

LEMMA ServerNextKeepsOwners ==
    ASSUME TypeOK, OwnersInv, ~MoveWithHandlers, ServerNext, UNCHANGED <<client, udp>>
    PROVE  TypeOK' /\ OwnersInv'
<1>1. ASSUME NEW s \in Servers,
             \/ \E i \in SocketIds : MakeServer(s, i)
             \/ \E ids \in IdLists : MakeServerWith(s, ids)
             \/ \E option \in Options : ServerConfigure(s, option)
             \/ \E mask \in Masks : ServerSetInterrupts(s, mask)
             \/ \E port \in Ports : ServerBind(s, port)
             \/ \E backlog \in 0..SOCKETS : ServerListen(s, backlog)
             \/ \E h \in Handlers : AcceptBegin(s, h)
             \/ ServerClose(s)
             \/ \E t \in Servers : ServerMove(s, t)
      PROVE  TypeOK' /\ OwnersInv'
    BY <1>1, MakeServerKeepsOwners, ServerStaysKeepsOwners, ServerListenKeepsOwners,
       AcceptBeginKeepsOwners, ServerCloseKeepsOwners
<1>2. ASSUME NEW h \in Handlers,
             HandlerShutdown(h) \/ HandlerClose(h) \/ \E g \in Handlers : HandlerMove(g, h)
      PROVE  TypeOK' /\ OwnersInv'
    BY <1>2, HandlerShutdownKeepsOwners, HandlerCloseKeepsOwners
<1>. QED BY <1>1, <1>2, AcceptStepKeepsOwners, AcceptWouldBlockKeepsOwners DEF ServerNext

LEMMA InitHasOwners == Init => TypeOK /\ OwnersInv
<1> SUFFICES ASSUME Init PROVE TypeOK /\ OwnersInv
    OBVIOUS
<1> USE DEF Init, SocketsInit, ClientInit, ServerInit, UdpInit
<1>0. 0 \in SocketIds /\ 0 \in 0..SOCKETS
    BY SocketsAssumption DEF SocketIds
<1>1. SocketsTypeOK
    BY <1>0 DEF SocketsTypeOK, Socket_Status, Protocols, SN_SR
<1>2. ClientTypeOK /\ UdpTypeOK
    BY <1>0 DEF ClientTypeOK, UdpTypeOK, Client_State, Udp_State
<1>3. <<>> \in IdLists
    <2>1. <<>> \in Seq(SocketIds) /\ Len(<<>>) = 0 /\ 0 <= SOCKETS
        BY SocketsAssumption
    <2>. QED BY <2>1, SequencesAreIdLists
<1>4. ServerTypeOK
    <2>1. NoServer \in [state : Server_State, ids : IdLists, allocated : SUBSET SocketIds, accept_i : SocketIds]
        BY <1>0, <1>3 DEF NoServer, Server_State
    <2>2. \A s \in Servers : [state |-> "UNINITIALIZED", server |-> s, socket_id |-> 0]
              \in [state : Handler_State, server : Servers, socket_id : SocketIds]
        BY <1>0 DEF Handler_State
    <2>. QED BY <2>1, <2>2 DEF ServerTypeOK
<1>5. /\ \A c \in Clients : client[c].state = "UNINITIALIZED"
      /\ \A u \in UdpSockets : udp[u].state = "UNINITIALIZED"
      /\ \A s \in Servers : server[s].state = "UNINITIALIZED" /\ server[s].ids = <<>>
      /\ \A h \in Handlers : handler[h].state = "UNINITIALIZED"
      /\ \A i \in SocketIds : ~detached[i] /\ status[i] = "NOT_AVAILABLE_FOR_USE" /\ i >= 0
    BY SocketsAssumption DEF NoServer, SocketIds
<1>6. Pool
    <2>1. Free = {}
        BY <1>5 DEF Free
    <2>. QED BY <2>1, <1>5, FS_EmptySet DEF Pool, NoFault
<1>7. ClientsOwn /\ UdpSocketsOwn /\ ServersOwn /\ HandlersOwn /\ LentAreUsed /\ AllocatedAreOwned
    BY <1>5 DEF ClientsOwn, UdpSocketsOwn, ServersOwn, HandlersOwn, LentAreUsed, AllocatedAreOwned
<1>8. ServerLists /\ CallInProgress
    BY <1>5 DEF ServerLists, CallInProgress
<1>. QED BY <1>1, <1>2, <1>4, <1>6, <1>7, <1>8 DEF TypeOK, OwnersInv

LEMMA NextKeepsOwners ==
    ASSUME TypeOK, OwnersInv, ~MoveWithHandlers, [Next]_vars
    PROVE  TypeOK' /\ OwnersInv'
<1>1. CASE \E size \in BufferSizes : Initialize(size) /\ UNCHANGED <<client, serverVars, udp>>
    BY <1>1, InitializeKeepsOwners
<1>2. CASE \E i \in SocketIds : ChipStep(i) /\ UNCHANGED <<client, serverVars, udp>>
    BY <1>2, ChipStepKeepsOwners
<1>3. CASE ClientNext /\ UNCHANGED <<serverVars, udp>>
    BY <1>3, ClientNextKeepsOwners
<1>4. CASE ServerNext /\ UNCHANGED <<client, udp>>
    BY <1>4, ServerNextKeepsOwners
<1>5. CASE UdpNext /\ UNCHANGED <<client, serverVars>>
    BY <1>5, UdpNextKeepsOwners
<1>6. CASE UNCHANGED vars
    BY <1>6, StutterKeepsOwners
<1>. QED BY <1>1, <1>2, <1>3, <1>4, <1>5, <1>6 DEF Next

-----------------------------------------------------------------------------
(* The theorems.  A server that is moved while connection handlers refer   *)
(* to it is the exclusion the model checker shows to be necessary.         *)

(* Every variable stays in its range, whatever the number of sockets,      *)
(* ports, clients, servers, handlers and UDP sockets; and the facts about  *)
(* ownership above hold in every reachable state.                          *)
THEOREM OwnershipIsInvariant ==
    ASSUME ~MoveWithHandlers PROVE Spec => [](TypeOK /\ OwnersInv)
<1>1. Init => TypeOK /\ OwnersInv
    BY InitHasOwners
<1>2. TypeOK /\ OwnersInv /\ [Next]_vars => (TypeOK /\ OwnersInv)'
    BY NextKeepsOwners
<1>. QED BY <1>1, <1>2, PTL DEF Spec

LEMMA OwnersAreSingle == TypeOK /\ OwnersInv => OneOwnerPerSocket
<1> SUFFICES ASSUME TypeOK, OwnersInv, NEW i \in SocketIds
             PROVE  IF status[i] = "ALLOCATED" THEN \E o \in Owners(i) : Owners(i) = {o}
                                               ELSE Owners(i) = {}
    BY DEF OneOwnerPerSocket, OwnersInv, Pool
<1> DEFINE C == {<<"client", c>> : c \in {d \in LiveClients : client[d].socket_id = i}}
           S == {<<"server", s>> : s \in {t \in LiveServers : i \in Ids(t)}}
           H == {<<"handler", h>> : h \in {g \in LiveHandlers : handler[g].socket_id = i /\ detached[i]}}
           U == {<<"udp", u>> : u \in {v \in LiveUdp : udp[v].socket_id = i}}
<1>1. Owners(i) = C \cup S \cup H \cup U
    BY DEF Owners
<1>2. \A c \in Clients : (client[c].state # "UNINITIALIZED" /\ client[c].socket_id = i) =>
          (status[i] = "ALLOCATED" /\ C = {<<"client", c>>} /\ S = {} /\ H = {} /\ U = {})
    BY DEF OwnersInv, ClientsOwn, LiveClients, LiveServers, LiveHandlers, LiveUdp
<1>3. \A s \in Servers : (server[s].state # "UNINITIALIZED" /\ i \in Ids(s)) =>
          (status[i] = "ALLOCATED" /\ C = {} /\ S = {<<"server", s>>} /\ H = {} /\ U = {})
    BY DEF OwnersInv, ServersOwn, ClientsOwn, UdpSocketsOwn, LiveClients, LiveServers, LiveHandlers, LiveUdp
<1>4. \A u \in UdpSockets : (udp[u].state # "UNINITIALIZED" /\ udp[u].socket_id = i) =>
          (status[i] = "ALLOCATED" /\ C = {} /\ S = {} /\ H = {} /\ U = {<<"udp", u>>})
    BY DEF OwnersInv, UdpSocketsOwn, LiveClients, LiveServers, LiveHandlers, LiveUdp
<1>5. \A h \in Handlers : (handler[h].state # "UNINITIALIZED" /\ handler[h].socket_id = i /\ detached[i]) =>
          (status[i] = "ALLOCATED" /\ C = {} /\ S = {} /\ H = {<<"handler", h>>} /\ U = {})
    BY DEF OwnersInv, HandlersOwn, ClientsOwn, ServersOwn, UdpSocketsOwn,
           LiveClients, LiveServers, LiveHandlers, LiveUdp
<1>6. status[i] = "ALLOCATED" =>
          \/ \E c \in Clients : client[c].state # "UNINITIALIZED" /\ client[c].socket_id = i
          \/ \E s \in Servers : server[s].state # "UNINITIALIZED" /\ i \in Ids(s)
          \/ \E u \in UdpSockets : udp[u].state # "UNINITIALIZED" /\ udp[u].socket_id = i
          \/ \E h \in Handlers : handler[h].state # "UNINITIALIZED" /\ handler[h].socket_id = i /\ detached[i]
    BY DEF OwnersInv, AllocatedAreOwned, LentAreUsed
<1>7. CASE status[i] = "ALLOCATED"
    <2> HIDE DEF C, S, H, U
    <2>1. PICK o : C \cup S \cup H \cup U = {o}
        BY <1>2, <1>3, <1>4, <1>5, <1>6, <1>7
    <2>. QED BY <1>1, <1>7, <2>1
<1>8. CASE status[i] # "ALLOCATED"
    <2>1. C = {} /\ S = {} /\ H = {} /\ U = {}
        BY <1>2, <1>3, <1>4, <1>5, <1>8 DEF LiveClients, LiveServers, LiveHandlers, LiveUdp
    <2>. QED BY <1>1, <1>8, <2>1
<1>. QED BY <1>7, <1>8

(* An allocated hardware socket has exactly one owner, one that is not     *)
(* allocated has none, and the network stack's count of available sockets  *)
(* is right: allocate_socket*(), deallocate_socket() and every close() and *)
(* move assignment, in any order, with any number of objects.              *)
THEOREM SocketsHaveOneOwner ==
    ASSUME ~MoveWithHandlers PROVE Spec => []OneOwnerPerSocket
<1>1. Spec => [](TypeOK /\ OwnersInv)
    BY OwnershipIsInvariant
<1>. QED BY <1>1, OwnersAreSingle, PTL

(* Server and connection handler agree on who holds a socket, so that no   *)
(* close() of either fails an expectation of the other.                    *)
THEOREM HandlersAndServersAgree ==
    ASSUME ~MoveWithHandlers PROVE Spec => []HandlersMatchServers
<1>1. TypeOK /\ OwnersInv => HandlersMatchServers
    <2> SUFFICES ASSUME TypeOK, OwnersInv PROVE HandlersMatchServers
        OBVIOUS
    <2>1. \A h \in LiveHandlers : ~detached[handler[h].socket_id] =>
              /\ server[handler[h].server].state = "LISTENING"
              /\ handler[h].socket_id \in Ids(handler[h].server)
              /\ handler[h].socket_id \in server[handler[h].server].allocated
        BY DEF TypeOK, ServerTypeOK, OwnersInv, HandlersOwn, ServersOwn, LiveHandlers
    <2>2. NoFault
        BY DEF OwnersInv, Pool
    <2>3. /\ \A s \in LiveServers : \A i \in server[s].allocated :
                \E h \in LiveHandlers : handler[h].socket_id = i
          /\ \A i \in SocketIds : detached[i] => \E h \in LiveHandlers : handler[h].socket_id = i
        BY DEF OwnersInv, LentAreUsed, LiveHandlers, LiveServers
    <2>4. \A g, h \in LiveHandlers : handler[g].socket_id = handler[h].socket_id => g = h
        BY DEF OwnersInv, HandlersOwn, LiveHandlers
    <2>. QED BY <2>1, <2>2, <2>3, <2>4 DEF HandlersMatchServers
<1>2. Spec => [](TypeOK /\ OwnersInv)
    BY OwnershipIsInvariant
<1>. QED BY <1>1, <1>2, PTL

-----------------------------------------------------------------------------
(* The registers of the sockets and the ports.                             *)

\* As initialize() and deallocate_socket() leave a socket.
Reset(i) ==
    /\ sn_mr[i] = "NONE"
    /\ sn_port[i] = NoPort
    /\ sn_sr[i] = "CLOSED"

Bound(i, protocol) == sn_mr[i] = protocol /\ sn_port[i] \in Ports

\* A socket that is not allocated is as initialize() found it.
UnusedIsReset(i) ==
    status[i] # "ALLOCATED" =>
        /\ Reset(i)
        /\ sn_opt[i] = NoOption
        /\ sn_imr[i] = NoMask
        /\ ~detached[i]

\* A connection, or what is left of one.
Connected == {"ESTABLISHED", "CLOSE_WAIT", "CLOSING", "CLOSED"}

\* The registers of an object's sockets fit its state.
ClientFits(c) ==
    LET i == client[c].socket_id IN
    /\ client[c].state = "INITIALIZED" => Reset(i)
    /\ client[c].state \in {"BOUND", "CONNECTING", "CONNECTED"} => Bound(i, "TCP")
    /\ client[c].state = "BOUND" => sn_sr[i] = "INIT"
    /\ client[c].state = "CONNECTING" => sn_sr[i] \in {"OPENING", "ESTABLISHED", "CLOSE_WAIT", "CLOSED"}
    /\ client[c].state = "CONNECTED" => sn_sr[i] \in Connected

UdpFits(u) ==
    LET i == udp[u].socket_id IN
    /\ udp[u].state = "INITIALIZED" => Reset(i)
    /\ udp[u].state = "BOUND" => Bound(i, "UDP") /\ sn_sr[i] = "UDP"

SameRegisters(i, j) ==
    /\ sn_mr[i] = sn_mr[j]
    /\ sn_port[i] = sn_port[j]
    /\ sn_opt[i] = sn_opt[j]
    /\ sn_imr[i] = sn_imr[j]

ServerFits(s) ==
    /\ server[s].state = "INITIALIZED" => \A i \in Ids(s) : Reset(i)
    /\ server[s].state \in {"BOUND", "LISTENING"} => \A i \in Ids(s) : Bound(i, "TCP")
    /\ server[s].state = "BOUND" => \A i \in Ids(s) : sn_sr[i] = "INIT"
    /\ server[s].state = "LISTENING" =>
          \A i \in Ids(s) \ server[s].allocated : sn_sr[i] \in Acceptable \cup {"LISTEN", "OPENING"}
    /\ server[s].state # "UNINITIALIZED" => \A i, j \in Ids(s) : SameRegisters(i, j)

HandlerFits(h) ==
    handler[h].state # "UNINITIALIZED" =>
        /\ Bound(handler[h].socket_id, "TCP")
        /\ sn_sr[handler[h].socket_id] \in Connected

\* The ports that are held are those in use, and who may share one.
HeldInUse ==
    \A protocol \in {"TCP", "UDP"}, port \in Ports \cup {NoPort} :
        port \in held[protocol] <=> port_is_in_use(protocol, port)

SharedByServer ==
    \A i, j \in SocketIds :
        (i # j /\ sn_mr[i] = "TCP" /\ sn_mr[j] = "TCP" /\ sn_port[i] = sn_port[j]) =>
            \/ \E s \in Servers : server[s].state # "UNINITIALIZED" /\ i \in Ids(s) /\ j \in Ids(s)
            \/ detached[i] /\ detached[j]

UdpPortsDiffer ==
    \A i, j \in SocketIds :
        (sn_mr[i] = "UDP" /\ sn_mr[j] = "UDP" /\ sn_port[i] = sn_port[j]) => i = j

PortsInv == HeldInUse /\ SharedByServer /\ UdpPortsDiffer

RegistersInv ==
    /\ \A i \in SocketIds : UnusedIsReset(i)
    /\ \A c \in Clients : ClientFits(c)
    /\ \A u \in UdpSockets : UdpFits(u)
    /\ \A s \in Servers : ServerFits(s)
    /\ \A h \in Handlers : HandlerFits(h)
    /\ PortsInv

-----------------------------------------------------------------------------
\* A step touches no socket but those of T.
TouchesOnly(T) ==
    \A j \in SocketIds \ T :
        /\ sn_mr'[j] = sn_mr[j]
        /\ sn_port'[j] = sn_port[j]
        /\ sn_opt'[j] = sn_opt[j]
        /\ sn_imr'[j] = sn_imr[j]
        /\ sn_sr'[j] = sn_sr[j]
        /\ (status'[j] = "ALLOCATED") = (status[j] = "ALLOCATED")
        /\ detached'[j] = detached[j]

LEMMA UntouchedFit ==
    ASSUME TypeOK, RegistersInv, NEW T \in SUBSET SocketIds, TouchesOnly(T)
    PROVE  /\ \A j \in SocketIds \ T : UnusedIsReset(j)'
           /\ \A c, d \in Clients :
                 (client'[c] = client[d] /\ client[d].socket_id \notin T) => ClientFits(c)'
           /\ \A u, v \in UdpSockets :
                 (udp'[u] = udp[v] /\ udp[v].socket_id \notin T) => UdpFits(u)'
           /\ \A g, h \in Handlers :
                 (handler'[g].socket_id = handler[h].socket_id /\ handler[h].state # "UNINITIALIZED"
                     /\ handler[h].socket_id \notin T) => HandlerFits(g)'
<1> USE DEF RegistersInv, Reset, Bound, TouchesOnly
<1>1. \A j \in SocketIds \ T : UnusedIsReset(j)'
    BY DEF UnusedIsReset
<1>2. ASSUME NEW c \in Clients, NEW d \in Clients, client'[c] = client[d], client[d].socket_id \notin T
      PROVE  ClientFits(c)'
    <2>1. client[d].socket_id \in SocketIds \ T
        BY <1>2 DEF TypeOK, ClientTypeOK
    <2>. QED BY <1>2, <2>1 DEF ClientFits
<1>3. ASSUME NEW u \in UdpSockets, NEW v \in UdpSockets, udp'[u] = udp[v], udp[v].socket_id \notin T
      PROVE  UdpFits(u)'
    <2>1. udp[v].socket_id \in SocketIds \ T
        BY <1>3 DEF TypeOK, UdpTypeOK
    <2>. QED BY <1>3, <2>1 DEF UdpFits
<1>4. ASSUME NEW g \in Handlers, NEW h \in Handlers, handler'[g].socket_id = handler[h].socket_id,
             handler[h].state # "UNINITIALIZED", handler[h].socket_id \notin T
      PROVE  HandlerFits(g)'
    <2>1. handler[h].socket_id \in SocketIds \ T
        BY <1>4 DEF TypeOK, ServerTypeOK
    <2>. QED BY <1>4, <2>1 DEF HandlerFits
<1>. QED BY <1>1, <1>2, <1>3, <1>4

\* accept() and the move of a server change what the fit does not depend on.
LEMMA UntouchedServerFits ==
    ASSUME TypeOK, RegistersInv, NEW T \in SUBSET SocketIds, TouchesOnly(T),
           NEW s \in Servers, NEW t \in Servers, Ids(t) \cap T = {},
           server'[s].state = server[t].state, server'[s].ids = server[t].ids,
           server[t].allocated \subseteq server'[s].allocated
    PROVE  ServerFits(s)'
<1>1. Ids(s)' = Ids(t)
    BY DEF Ids
<1>2. Ids(t) \subseteq SocketIds \ T
    BY IdsAreSocketIds DEF TypeOK
<1>3. ServerFits(t)
    BY DEF RegistersInv
<1> USE DEF TouchesOnly, Reset, Bound, SameRegisters
<1>4. server'[s].state = "INITIALIZED" => \A i \in Ids(s)' : Reset(i)'
    BY <1>1, <1>2, <1>3 DEF ServerFits
<1>5. server'[s].state \in {"BOUND", "LISTENING"} => \A i \in Ids(s)' : Bound(i, "TCP")'
    BY <1>1, <1>2, <1>3 DEF ServerFits
<1>6. server'[s].state = "BOUND" => \A i \in Ids(s)' : sn_sr'[i] = "INIT"
    BY <1>1, <1>2, <1>3 DEF ServerFits
<1>7. server'[s].state = "LISTENING" =>
          \A i \in Ids(s)' \ server'[s].allocated : sn_sr'[i] \in Acceptable \cup {"LISTEN", "OPENING"}
    BY <1>1, <1>2, <1>3 DEF ServerFits
<1>8. server'[s].state # "UNINITIALIZED" => \A i, j \in Ids(s)' : SameRegisters(i, j)'
    BY <1>1, <1>2, <1>3 DEF ServerFits
<1>. QED BY <1>4, <1>5, <1>6, <1>7, <1>8 DEF ServerFits

LEMMA PortsStay ==
    ASSUME TypeOK, PortsInv, UNCHANGED <<sn_mr, sn_port, held>>,
           \A j \in SocketIds : detached[j] => detached'[j],
           \A s \in Servers : server[s].state # "UNINITIALIZED" =>
               \/ \E t \in Servers : server'[t].state # "UNINITIALIZED" /\ Ids(s) \subseteq Ids(t)'
               \/ \A j \in Ids(s) : detached'[j]
    PROVE  PortsInv'
<1>1. HeldInUse'
    BY DEF PortsInv, HeldInUse, port_is_in_use
<1>2. SharedByServer'
    BY DEF PortsInv, SharedByServer
<1>3. UdpPortsDiffer'
    BY DEF PortsInv, UdpPortsDiffer
<1>. QED BY <1>1, <1>2, <1>3 DEF PortsInv

\* Every object fits after the step, or is one that fitted before and whose
\* sockets the step does not touch, under whatever name.
ClientsFit(T) == \A c \in Clients : ClientFits(c)' \/ \E d \in Clients :
    /\ client'[c] = client[d]
    /\ client[d].state # "UNINITIALIZED" => client[d].socket_id \notin T

UdpSocketsFit(T) == \A u \in UdpSockets : UdpFits(u)' \/ \E v \in UdpSockets :
    /\ udp'[u] = udp[v]
    /\ udp[v].state # "UNINITIALIZED" => udp[v].socket_id \notin T

ServersFit(T) == \A s \in Servers : ServerFits(s)' \/ \E t \in Servers :
    /\ server'[s].state = server[t].state
    /\ server'[s].ids = server[t].ids
    /\ server[t].allocated \subseteq server'[s].allocated
    /\ server[t].state # "UNINITIALIZED" => Ids(t) \cap T = {}

HandlersFit(T) == \A h \in Handlers : HandlerFits(h)' \/ \E g \in Handlers :
    /\ handler[g].state # "UNINITIALIZED"
    /\ handler'[h].socket_id = handler[g].socket_id
    /\ handler[g].socket_id \notin T

LEMMA HandlersStayFit ==
    ASSUME NEW T, handler' = handler,
           \A h \in Handlers : handler[h].state # "UNINITIALIZED" => handler[h].socket_id \notin T
    PROVE  HandlersFit(T)
<1> SUFFICES ASSUME NEW h \in Handlers
             PROVE  HandlerFits(h)' \/ \E g \in Handlers :
                        /\ handler[g].state # "UNINITIALIZED"
                        /\ handler'[h].socket_id = handler[g].socket_id
                        /\ handler[g].socket_id \notin T
    BY DEF HandlersFit
<1>1. CASE handler[h].state = "UNINITIALIZED"
    BY <1>1 DEF HandlerFits
<1>2. CASE handler[h].state # "UNINITIALIZED"
    BY <1>2
<1>. QED BY <1>1, <1>2

LEMMA StepKeepsRegisters ==
    ASSUME TypeOK, RegistersInv, NEW T \in SUBSET SocketIds, TouchesOnly(T),
           \A i \in T : UnusedIsReset(i)',
           ClientsFit(T), UdpSocketsFit(T), ServersFit(T), HandlersFit(T), PortsInv'
    PROVE  RegistersInv'
<1>1. \A j \in SocketIds : UnusedIsReset(j)'
    BY UntouchedFit
<1>2. ASSUME NEW c \in Clients PROVE ClientFits(c)'
    <2>1. ASSUME NEW d \in Clients, client'[c] = client[d],
                 client[d].state # "UNINITIALIZED" => client[d].socket_id \notin T
          PROVE  ClientFits(c)'
        <3>1. CASE client[d].state = "UNINITIALIZED"
            BY <2>1, <3>1 DEF ClientFits
        <3>2. CASE client[d].state # "UNINITIALIZED"
            BY <2>1, <3>2, UntouchedFit
        <3>. QED BY <3>1, <3>2
    <2>. QED BY <2>1 DEF ClientsFit
<1>3. ASSUME NEW u \in UdpSockets PROVE UdpFits(u)'
    <2>1. ASSUME NEW v \in UdpSockets, udp'[u] = udp[v],
                 udp[v].state # "UNINITIALIZED" => udp[v].socket_id \notin T
          PROVE  UdpFits(u)'
        <3>1. CASE udp[v].state = "UNINITIALIZED"
            BY <2>1, <3>1 DEF UdpFits
        <3>2. CASE udp[v].state # "UNINITIALIZED"
            BY <2>1, <3>2, UntouchedFit
        <3>. QED BY <3>1, <3>2
    <2>. QED BY <2>1 DEF UdpSocketsFit
<1>4. ASSUME NEW s \in Servers PROVE ServerFits(s)'
    <2>1. ASSUME NEW t \in Servers, server'[s].state = server[t].state, server'[s].ids = server[t].ids,
                 server[t].allocated \subseteq server'[s].allocated,
                 server[t].state # "UNINITIALIZED" => Ids(t) \cap T = {}
          PROVE  ServerFits(s)'
        <3>1. CASE server[t].state = "UNINITIALIZED"
            BY <2>1, <3>1 DEF ServerFits
        <3>2. CASE server[t].state # "UNINITIALIZED"
            BY <2>1, <3>2, UntouchedServerFits
        <3>. QED BY <3>1, <3>2
    <2>. QED BY <2>1 DEF ServersFit
<1>5. ASSUME NEW h \in Handlers PROVE HandlerFits(h)'
    BY UntouchedFit DEF HandlersFit
<1>. QED BY <1>1, <1>2, <1>3, <1>4, <1>5 DEF RegistersInv

-----------------------------------------------------------------------------
(* The ports: binding a set of sockets to a port, releasing a set of       *)
(* sockets with or without their port.                                     *)

LEMMA BindKeepsPorts ==
    ASSUME TypeOK, PortsInv, NEW protocol \in {"TCP", "UDP"}, NEW port \in Ports,
           AllocatePort(protocol, port), NEW T \in SUBSET SocketIds, T # {},
           \A i \in T : sn_mr[i] = "NONE",
           \A i \in SocketIds : /\ sn_mr'[i] = IF i \in T THEN protocol ELSE sn_mr[i]
                                /\ sn_port'[i] = IF i \in T THEN port ELSE sn_port[i],
           detached' = detached,
           \A s \in Servers : /\ (server'[s].state = "UNINITIALIZED") = (server[s].state = "UNINITIALIZED")
                              /\ server'[s].ids = server[s].ids,
           (\E i \in SocketIds : T = {i}) \/
           (protocol = "TCP" /\ \E s \in Servers : server[s].state # "UNINITIALIZED" /\ T = Ids(s))
    PROVE  PortsInv'
<1> USE DEF PortsInv
<1>1. /\ \A s \in Servers : Ids(s)' = Ids(s)
      /\ held' = [held EXCEPT ![protocol] = @ \cup {port}]
      /\ \A i \in SocketIds : ~(sn_mr[i] = protocol /\ sn_port[i] = port)
    BY DEF Ids, AllocatePort, port_is_in_use
<1>2. HeldInUse'
    <2> SUFFICES ASSUME NEW p \in {"TCP", "UDP"}, NEW q \in Ports \cup {NoPort}
                 PROVE  q \in held'[p] <=> \E i \in SocketIds : sn_mr'[i] = p /\ sn_port'[i] = q
        BY DEF HeldInUse, port_is_in_use
    <2>1. q \in held[p] <=> \E i \in SocketIds : sn_mr[i] = p /\ sn_port[i] = q
        BY DEF HeldInUse, port_is_in_use
    <2>2. CASE p = protocol /\ q = port
        BY <2>2, <1>1 DEF TypeOK, SocketsTypeOK
    <2>3. CASE ~(p = protocol /\ q = port)
        <3>1. q \in held'[p] <=> q \in held[p]
            BY <2>3, <1>1 DEF TypeOK, SocketsTypeOK
        <3>. QED BY <3>1, <2>1, <2>3
    <2>. QED BY <2>2, <2>3
<1>3. UdpPortsDiffer'
    BY <1>1 DEF UdpPortsDiffer
<1>4. SharedByServer'
    <2> SUFFICES ASSUME NEW i \in SocketIds, NEW j \in SocketIds, i # j,
                        sn_mr'[i] = "TCP", sn_mr'[j] = "TCP", sn_port'[i] = sn_port'[j]
                 PROVE  \/ \E s \in Servers : server'[s].state # "UNINITIALIZED" /\ i \in Ids(s)' /\ j \in Ids(s)'
                        \/ detached'[i] /\ detached'[j]
        BY DEF SharedByServer
    <2>1. CASE i \in T /\ j \in T
        BY <2>1, <1>1
    <2>2. CASE i \notin T /\ j \notin T
        BY <2>2, <1>1 DEF SharedByServer
    <2>3. CASE (i \in T) # (j \in T)
        BY <2>3, <1>1
    <2>. QED BY <2>1, <2>2, <2>3
<1>. QED BY <1>2, <1>3, <1>4

\* The sockets of T are given back; the others are used as before.
GivenBack(T) ==
    /\ \A i \in SocketIds : /\ sn_mr'[i] = IF i \in T THEN "NONE" ELSE sn_mr[i]
                            /\ i \notin T => sn_port'[i] = sn_port[i]
                            /\ i \notin T => (detached[i] => detached'[i])
    /\ \A s \in Servers : server[s].state # "UNINITIALIZED" =>
           \/ \E t \in Servers : server'[t].state # "UNINITIALIZED" /\ Ids(s) \ T \subseteq Ids(t)'
           \/ \A i \in Ids(s) \ T : detached'[i]

LEMMA GivingBackKeepsSharing ==
    ASSUME PortsInv, NEW T, GivenBack(T) PROVE SharedByServer' /\ UdpPortsDiffer'
<1>1. SharedByServer'
    <2> SUFFICES ASSUME NEW i \in SocketIds, NEW j \in SocketIds, i # j,
                        sn_mr'[i] = "TCP", sn_mr'[j] = "TCP", sn_port'[i] = sn_port'[j]
                 PROVE  \/ \E s \in Servers : server'[s].state # "UNINITIALIZED" /\ i \in Ids(s)' /\ j \in Ids(s)'
                        \/ detached'[i] /\ detached'[j]
        BY DEF SharedByServer
    <2>1. /\ i \notin T /\ sn_mr[i] = "TCP"
          /\ j \notin T /\ sn_mr[j] = "TCP" /\ sn_port[i] = sn_port[j]
        BY DEF GivenBack
    <2>2. CASE detached[i] /\ detached[j]
        BY <2>1, <2>2 DEF GivenBack
    <2>3. ASSUME NEW s \in Servers, server[s].state # "UNINITIALIZED", i \in Ids(s), j \in Ids(s)
          PROVE  \/ \E t \in Servers : server'[t].state # "UNINITIALIZED" /\ i \in Ids(t)' /\ j \in Ids(t)'
                 \/ detached'[i] /\ detached'[j]
        BY <2>1, <2>3 DEF GivenBack
    <2>. QED BY <2>1, <2>2, <2>3 DEF PortsInv, SharedByServer
<1>2. UdpPortsDiffer'
    BY DEF GivenBack, PortsInv, UdpPortsDiffer
<1>. QED BY <1>1, <1>2

\* ... and their port is kept, because they have none or another uses it,
LEMMA GivingBackWithoutPort ==
    ASSUME TypeOK, PortsInv, NEW T \in SUBSET SocketIds, GivenBack(T), held' = held,
           \A i \in T : sn_mr[i] # "NONE" =>
               \E j \in SocketIds \ T : sn_mr[j] = sn_mr[i] /\ sn_port[j] = sn_port[i]
    PROVE  PortsInv'
<1> SUFFICES ASSUME NEW p \in {"TCP", "UDP"}, NEW q \in Ports \cup {NoPort}
             PROVE  q \in held[p] <=> \E i \in SocketIds : sn_mr'[i] = p /\ sn_port'[i] = q
    BY GivingBackKeepsSharing DEF PortsInv, HeldInUse, port_is_in_use
<1>1. q \in held[p] <=> \E i \in SocketIds : sn_mr[i] = p /\ sn_port[i] = q
    BY DEF PortsInv, HeldInUse, port_is_in_use
<1>2. (\E i \in SocketIds : sn_mr[i] = p /\ sn_port[i] = q)
          <=> \E i \in SocketIds \ T : sn_mr[i] = p /\ sn_port[i] = q
    OBVIOUS
<1>. QED BY <1>1, <1>2 DEF GivenBack

\* ... or it is given back, because nobody else uses it.
LEMMA GivingBackWithPort ==
    ASSUME TypeOK, PortsInv, NEW T \in SUBSET SocketIds, GivenBack(T), T # {},
           NEW protocol \in {"TCP", "UDP"}, NEW port, DeallocatePort(protocol, port),
           \A i \in T : sn_mr[i] = protocol /\ sn_port[i] = port,
           \A j \in SocketIds \ T : ~(sn_mr[j] = protocol /\ sn_port[j] = port)
    PROVE  PortsInv'
<1> SUFFICES ASSUME NEW p \in {"TCP", "UDP"}, NEW q \in Ports \cup {NoPort}
             PROVE  q \in held'[p] <=> \E i \in SocketIds : sn_mr'[i] = p /\ sn_port'[i] = q
    BY GivingBackKeepsSharing DEF PortsInv, HeldInUse, port_is_in_use
<1>1. q \in held[p] <=> \E i \in SocketIds : sn_mr[i] = p /\ sn_port[i] = q
    BY DEF PortsInv, HeldInUse, port_is_in_use
<1>2. q \in held'[p] <=> q \in held[p] /\ ~(p = protocol /\ q = port)
    BY DEF DeallocatePort, TypeOK, SocketsTypeOK
<1>3. (\E i \in SocketIds : sn_mr'[i] = p /\ sn_port'[i] = q)
          <=> \E i \in SocketIds \ T : sn_mr[i] = p /\ sn_port[i] = q
    BY DEF GivenBack
<1>. QED BY <1>1, <1>2, <1>3

-----------------------------------------------------------------------------
(* The client.                                                             *)

\* A step of one client, on its own socket.
LEMMA ClientStepKeepsRegisters ==
    ASSUME TypeOK, OwnersInv, RegistersInv, NEW c \in Clients, client[c].state # "UNINITIALIZED",
           NEW i \in SocketIds, i = client[c].socket_id,
           TouchesOnly({i}), UNCHANGED <<server, handler, udp>>,
           \A d \in Clients \ {c} : client'[d] = client[d],
           UnusedIsReset(i)', ClientFits(c)', PortsInv'
    PROVE  RegistersInv'
<1> DEFINE T == {i}
<1>1. /\ i \in SocketIds
      /\ \A d \in Clients : client[d].state # "UNINITIALIZED" /\ client[d].socket_id = i => d = c
      /\ \A s \in Servers : server[s].state # "UNINITIALIZED" => i \notin Ids(s)
      /\ \A u \in UdpSockets : udp[u].state # "UNINITIALIZED" => udp[u].socket_id # i
      /\ \A h \in Handlers : handler[h].state # "UNINITIALIZED" => handler[h].socket_id # i
    BY ClientsSocketIsItsOwn
<1>2. T \in SUBSET SocketIds /\ TouchesOnly(T)
    BY <1>1
<1>3. \A j \in T : UnusedIsReset(j)'
    BY DEF UnusedIsReset
<1>4. ClientsFit(T)
    BY <1>1 DEF ClientsFit
<1>5. UdpSocketsFit(T)
    BY <1>1 DEF UdpSocketsFit
<1>6. ServersFit(T)
    BY <1>1 DEF ServersFit
<1>7. HandlersFit(T)
    BY <1>1, HandlersStayFit
<1> HIDE DEF T
<1>. QED BY <1>2, <1>3, <1>4, <1>5, <1>6, <1>7, StepKeepsRegisters

LEMMA PortsUnchanged ==
    ASSUME PortsInv, UNCHANGED <<sn_mr, sn_port, held, detached>>,
           \A s \in Servers : /\ (server'[s].state = "UNINITIALIZED") = (server[s].state = "UNINITIALIZED")
                              /\ server'[s].ids = server[s].ids
    PROVE  PortsInv'
<1>1. \A s \in Servers : Ids(s)' = Ids(s)
    BY DEF Ids
<1>. QED BY <1>1 DEF PortsInv, HeldInUse, SharedByServer, UdpPortsDiffer, port_is_in_use

LEMMA ClientStaysKeepsRegisters ==
    ASSUME TypeOK, OwnersInv, RegistersInv, UNCHANGED <<serverVars, udp>>,
           NEW c \in Clients,
           \/ \E option \in Options : ClientConfigure(c, option)
           \/ \E mask \in Masks : ClientSetInterrupts(c, mask)
           \/ \E port \in Ports : ClientBind(c, port)
           \/ ClientConnect(c) \/ ClientConnected(c) \/ ClientShutdown(c)
    PROVE  RegistersInv'
<1>1. PICK i : i = client[c].socket_id
    OBVIOUS
<1>2. /\ client[c].state # "UNINITIALIZED"
      /\ UNCHANGED <<status, detached, server, handler, udp>>
      /\ i \in SocketIds
    BY <1>1 DEF ClientConfigure, ClientSetInterrupts, ClientBind, ClientConnect, ClientConnected, ClientShutdown,
           stackVars, socketVars, serverVars, TypeOK, ClientTypeOK
<1>3. status[i] = "ALLOCATED" /\ ~detached[i]
    BY <1>1, <1>2, ClientsSocketIsItsOwn
<1>4. UnusedIsReset(i)'
    BY <1>2, <1>3 DEF UnusedIsReset
<1>5. ClientFits(c)
    BY DEF RegistersInv
<1>6. client \in [Clients -> [state : Client_State, socket_id : SocketIds]]
    BY DEF TypeOK, ClientTypeOK
<1>7. TouchesOnly({i}) /\ (\A d \in Clients \ {c} : client'[d] = client[d]) /\ ClientFits(c)' /\ PortsInv'
    <2> USE DEF TypeOK, SocketsTypeOK, TouchesOnly, ClientFits, Reset, Bound, stackVars, Client_State
    <2>1. CASE \E option \in Options : ClientConfigure(c, option)
        <3>1. PortsInv'
            BY <1>2, <2>1, PortsUnchanged DEF ClientConfigure, RegistersInv
        <3>. QED BY <3>1, <2>1, <1>1, <1>2, <1>5, <1>6 DEF ClientConfigure
    <2>2. CASE \E mask \in Masks : ClientSetInterrupts(c, mask)
        <3>1. PortsInv'
            BY <1>2, <2>2, PortsUnchanged DEF ClientSetInterrupts, RegistersInv
        <3>. QED BY <3>1, <2>2, <1>1, <1>2, <1>5, <1>6 DEF ClientSetInterrupts
    <2>3. CASE \E port \in Ports : ClientBind(c, port)
        <3>1. PICK port \in Ports : ClientBind(c, port)
            BY <2>3
        <3>2. /\ AllocatePort("TCP", port)
              /\ client[c].state = "INITIALIZED"
              /\ sn_port' = [sn_port EXCEPT ![i] = port]
              /\ sn_mr' = [sn_mr EXCEPT ![i] = "TCP"]
              /\ sn_sr' = [sn_sr EXCEPT ![i] = "INIT"]
              /\ client' = [client EXCEPT ![c].state = "BOUND"]
              /\ UNCHANGED <<sn_opt, sn_imr>>
            BY <1>1, <3>1 DEF ClientBind
        <3>3. PortsInv'
            <4> DEFINE T == {i}
            <4>1. \A j \in SocketIds : /\ sn_mr'[j] = IF j \in T THEN "TCP" ELSE sn_mr[j]
                                       /\ sn_port'[j] = IF j \in T THEN port ELSE sn_port[j]
                BY <3>2, <1>2
            <4>2. \A j \in T : sn_mr[j] = "NONE"
                BY <1>1, <1>5, <3>2
            <4>3. T \in SUBSET SocketIds /\ T # {} /\ \E j \in SocketIds : T = {j}
                BY <1>2
            <4>4. \A s \in Servers : /\ (server'[s].state = "UNINITIALIZED") = (server[s].state = "UNINITIALIZED")
                                     /\ server'[s].ids = server[s].ids
                BY <1>2
            <4> HIDE DEF T
            <4>5. detached' = detached /\ AllocatePort("TCP", port) /\ PortsInv /\ TypeOK
                BY <3>2, <1>2 DEF RegistersInv
            <4>. QED BY ONLY <4>1, <4>2, <4>3, <4>4, <4>5, BindKeepsPorts
        <3>4. client'[c].state = "BOUND" /\ client'[c].socket_id = i /\ \A d \in Clients \ {c} : client'[d] = client[d]
            BY <3>2, <1>1, <1>6
        <3>. QED BY <3>2, <3>3, <3>4, <1>2
    <2>4. CASE ClientConnect(c)
        <3>1. PortsInv'
            BY <1>2, <2>4, PortsUnchanged DEF ClientConnect, RegistersInv
        <3>. QED BY <3>1, <2>4, <1>1, <1>2, <1>5, <1>6 DEF ClientConnect
    <2>5. CASE ClientConnected(c)
        <3>1. PortsInv'
            BY <1>2, <2>5, PortsUnchanged DEF ClientConnected, RegistersInv, socketVars, registers
        <3>. QED BY <3>1, <2>5, <1>1, <1>2, <1>5, <1>6 DEF ClientConnected, socketVars, registers, Connected
    <2>6. CASE ClientShutdown(c)
        <3>1. PortsInv'
            BY <1>2, <2>6, PortsUnchanged DEF ClientShutdown, RegistersInv
        <3>. QED BY <3>1, <2>6, <1>1, <1>2, <1>5, <1>6 DEF ClientShutdown, Disconnect, Connected
    <2>. QED BY <2>1, <2>2, <2>3, <2>4, <2>5, <2>6
<1>. QED BY <1>1, <1>2, <1>4, <1>7, ClientStepKeepsRegisters

LEMMA MakeClientKeepsRegisters ==
    ASSUME TypeOK, OwnersInv, RegistersInv, NEW c \in Clients, NEW i \in SocketIds,
           MakeClient(c, i) \/ MakeClientAt(c, i), UNCHANGED <<serverVars, udp>>
    PROVE  RegistersInv'
<1> DEFINE T == {i}
<1>1. /\ i \in Free
      /\ Allocate({i})
      /\ client' = [client EXCEPT ![c] = [state |-> "INITIALIZED", socket_id |-> i]]
      /\ UNCHANGED <<registers, held, server, handler, udp>>
    BY DEF MakeClient, MakeClientAt, FirstAvailable, serverVars
<1>2. /\ client'[c].state = "INITIALIZED" /\ client'[c].socket_id = i
      /\ \A d \in Clients \ {c} : client'[d] = client[d]
    BY <1>1 DEF TypeOK, ClientTypeOK
<1>3. /\ T \in SUBSET SocketIds /\ TouchesOnly(T)
      /\ status'[i] = "ALLOCATED"
      /\ detached' = detached
    BY <1>1 DEF Allocate, registers, TouchesOnly, TypeOK, SocketsTypeOK
<1>4. Reset(i)
    BY <1>1 DEF RegistersInv, UnusedIsReset, Free
<1>5. ClientFits(c)'
    BY <1>1, <1>2, <1>4 DEF ClientFits, Reset, registers
<1>6. \A j \in T : UnusedIsReset(j)'
    BY <1>3 DEF UnusedIsReset
<1>7. PortsInv'
    BY <1>1, <1>3, PortsUnchanged DEF RegistersInv, registers
<1>8. ClientsFit(T)
    BY <1>1, <1>2, <1>5 DEF ClientsFit, OwnersInv, ClientsOwn, Free
<1>9. UdpSocketsFit(T)
    BY <1>1 DEF UdpSocketsFit, OwnersInv, UdpSocketsOwn, Free
<1>10. ServersFit(T)
    BY <1>1 DEF ServersFit, OwnersInv, ServersOwn, Free
<1>11. HandlersFit(T)
    BY <1>1, HandlersStayFit DEF OwnersInv, HandlersOwn, Free
<1> HIDE DEF T
<1>. QED BY <1>3, <1>6, <1>7, <1>8, <1>9, <1>10, <1>11, StepKeepsRegisters

\* close() and the move assignment: the client's socket is given back, if it
\* has one, and the other clients keep theirs, under whatever name.
ClientReleased(c) ==
    IF client[c].state # "UNINITIALIZED" THEN ReleaseClientSocket(c)
                                         ELSE UNCHANGED <<stackVars, registers, held, fault>>

OtherClientsKeep(c) ==
    \A d \in Clients : \/ client'[d].state = "UNINITIALIZED"
                       \/ \E e \in Clients \ {c} : client'[d] = client[e]

LEMMA ClientReleaseKeepsRegisters ==
    ASSUME TypeOK, OwnersInv, RegistersInv, NEW c \in Clients, ClientReleased(c), OtherClientsKeep(c),
           UNCHANGED <<server, handler, udp>>
    PROVE  RegistersInv'
<1>1. CASE client[c].state = "UNINITIALIZED"
    <2> DEFINE T == {}
    <2>1. UNCHANGED <<stackVars, registers, held>>
        BY <1>1 DEF ClientReleased
    <2>2. T \in SUBSET SocketIds /\ TouchesOnly(T) /\ \A i \in T : UnusedIsReset(i)'
        BY <2>1 DEF TouchesOnly, stackVars, registers
    <2>3. PortsInv'
        BY <2>1, PortsUnchanged DEF RegistersInv, stackVars, registers
    <2>4. ClientsFit(T)
        BY <1>1 DEF ClientsFit, OtherClientsKeep, ClientFits
    <2>5. UdpSocketsFit(T) /\ ServersFit(T) /\ HandlersFit(T)
        BY HandlersStayFit DEF UdpSocketsFit, ServersFit
    <2> HIDE DEF T
    <2>. QED BY <2>2, <2>3, <2>4, <2>5, StepKeepsRegisters
<1>2. CASE client[c].state # "UNINITIALIZED"
    <2>1. PICK i : i = client[c].socket_id
        OBVIOUS
    <2> DEFINE T == {i}
    <2>2. /\ i \in SocketIds
          /\ ~detached[i]
          /\ \A d \in Clients : client[d].state # "UNINITIALIZED" /\ client[d].socket_id = i => d = c
          /\ \A s \in Servers : server[s].state # "UNINITIALIZED" => i \notin Ids(s)
          /\ \A u \in UdpSockets : udp[u].state # "UNINITIALIZED" => udp[u].socket_id # i
          /\ \A h \in Handlers : handler[h].state # "UNINITIALIZED" => handler[h].socket_id # i
          /\ status[i] = "ALLOCATED"
        BY <1>2, <2>1, ClientsSocketIsItsOwn
    <2>3. /\ IF client[c].state = "INITIALIZED" THEN UNCHANGED held ELSE DeallocatePort("TCP", sn_port[i])
          /\ DeallocateAndDetach(T, {})
        BY <1>2, <2>1 DEF ClientReleased, ReleaseClientSocket, Deallocate
    <2>4. T \in SUBSET SocketIds /\ TouchesOnly(T)
        BY <2>2, <2>3 DEF TouchesOnly, DeallocateAndDetach, DetachedAfter, TypeOK, SocketsTypeOK
    <2>5. \A j \in T : UnusedIsReset(j)'
        BY <2>2, <2>3 DEF UnusedIsReset, Reset, DeallocateAndDetach, DetachedAfter
    <2>6. GivenBack(T)
        <3>1. \A s \in Servers : Ids(s)' = Ids(s)
            BY DEF Ids
        <3>2. \A j \in SocketIds : /\ sn_mr'[j] = IF j \in T THEN "NONE" ELSE sn_mr[j]
                                   /\ j \notin T => sn_port'[j] = sn_port[j]
                                   /\ j \notin T => (detached[j] => detached'[j])
            BY <2>2, <2>3 DEF DeallocateAndDetach, DetachedAfter
        <3>. QED BY <3>1, <3>2 DEF GivenBack
    <2>7. PortsInv'
        <3>1. ClientFits(c) /\ PortsInv
            BY DEF RegistersInv
        <3>2. CASE client[c].state = "INITIALIZED"
            <4>1. held' = held /\ \A j \in T : sn_mr[j] = "NONE"
                BY <2>1, <2>3, <3>1, <3>2 DEF ClientFits, Reset
            <4> HIDE DEF T
            <4>. QED BY <4>1, <2>4, <2>6, <3>1, GivingBackWithoutPort
        <3>3. CASE client[c].state # "INITIALIZED"
            <4>1. DeallocatePort("TCP", sn_port[i])
                BY <2>3, <3>3
            <4>2. \A j \in T : sn_mr[j] = "TCP" /\ sn_port[j] = sn_port[i]
                BY <1>2, <2>1, <3>1, <3>3 DEF ClientFits, Bound, TypeOK, ClientTypeOK, Client_State
            <4>3. \A j \in SocketIds \ T : ~(sn_mr[j] = "TCP" /\ sn_port[j] = sn_port[i])
                BY <2>2, <4>2, <3>1 DEF PortsInv, SharedByServer
            <4>4. T # {}
                OBVIOUS
            <4> HIDE DEF T
            <4>. QED BY <4>1, <4>2, <4>3, <4>4, <2>4, <2>6, <3>1, GivingBackWithPort
        <3>. QED BY <3>2, <3>3
    <2>8. ClientsFit(T)
        BY <2>2 DEF ClientsFit, OtherClientsKeep, ClientFits
    <2>9. UdpSocketsFit(T) /\ ServersFit(T) /\ HandlersFit(T)
        BY <2>2, HandlersStayFit DEF UdpSocketsFit, ServersFit
    <2> HIDE DEF T
    <2>. QED BY <2>4, <2>5, <2>7, <2>8, <2>9, StepKeepsRegisters
<1>. QED BY <1>1, <1>2

LEMMA ClientNextKeepsRegisters ==
    ASSUME TypeOK, OwnersInv, RegistersInv, ClientNext, UNCHANGED <<serverVars, udp>>
    PROVE  RegistersInv'
<1>1. PICK c \in Clients :
        \/ \E i \in SocketIds : MakeClient(c, i) \/ MakeClientAt(c, i)
        \/ \/ \E option \in Options : ClientConfigure(c, option)
           \/ \E mask \in Masks : ClientSetInterrupts(c, mask)
           \/ \E port \in Ports : ClientBind(c, port)
           \/ ClientConnect(c) \/ ClientConnected(c) \/ ClientShutdown(c)
        \/ ClientClose(c)
        \/ \E d \in Clients : ClientMove(c, d)
    BY DEF ClientNext
<1>2. CASE ClientClose(c)
    <2>1. ClientReleased(c) /\ client' = [client EXCEPT ![c].state = "UNINITIALIZED"]
        BY <1>2 DEF ClientClose, ClientReleased
    <2>2. OtherClientsKeep(c)
        BY <2>1 DEF OtherClientsKeep, TypeOK, ClientTypeOK
    <2>. QED BY <2>1, <2>2, ClientReleaseKeepsRegisters DEF serverVars
<1>3. ASSUME NEW d \in Clients, ClientMove(c, d) PROVE RegistersInv'
    <2>1. /\ ClientReleased(c) /\ c # d
          /\ client' = [client EXCEPT ![c] = client[d], ![d].state = "UNINITIALIZED"]
        BY <1>3 DEF ClientMove, ClientReleased
    <2>2. /\ client'[c] = client[d]
          /\ client'[d].state = "UNINITIALIZED"
          /\ \A e \in Clients \ {c, d} : client'[e] = client[e]
        BY <2>1 DEF TypeOK, ClientTypeOK
    <2>3. OtherClientsKeep(c)
        BY <2>1, <2>2 DEF OtherClientsKeep
    <2>. QED BY <2>1, <2>3, ClientReleaseKeepsRegisters DEF serverVars
<1>. QED BY <1>1, <1>2, <1>3, MakeClientKeepsRegisters, ClientStaysKeepsRegisters

-----------------------------------------------------------------------------
(* The UDP socket, along the same lines.                                   *)

LEMMA UdpStepKeepsRegisters ==
    ASSUME TypeOK, OwnersInv, RegistersInv, NEW u \in UdpSockets, udp[u].state # "UNINITIALIZED",
           NEW i \in SocketIds, i = udp[u].socket_id,
           TouchesOnly({i}), UNCHANGED <<server, handler, client>>,
           \A v \in UdpSockets \ {u} : udp'[v] = udp[v],
           UnusedIsReset(i)', UdpFits(u)', PortsInv'
    PROVE  RegistersInv'
<1> DEFINE T == {i}
<1>1. /\ i \in SocketIds
      /\ \A v \in UdpSockets : udp[v].state # "UNINITIALIZED" /\ udp[v].socket_id = i => v = u
      /\ \A s \in Servers : server[s].state # "UNINITIALIZED" => i \notin Ids(s)
      /\ \A c \in Clients : client[c].state # "UNINITIALIZED" => client[c].socket_id # i
      /\ \A h \in Handlers : handler[h].state # "UNINITIALIZED" => handler[h].socket_id # i
    BY UdpSocketIsItsOwn
<1>2. T \in SUBSET SocketIds /\ TouchesOnly(T)
    BY <1>1
<1>3. \A j \in T : UnusedIsReset(j)'
    BY DEF UnusedIsReset
<1>4. UdpSocketsFit(T)
    BY <1>1 DEF UdpSocketsFit
<1>5. ClientsFit(T)
    BY <1>1 DEF ClientsFit
<1>6. ServersFit(T)
    BY <1>1 DEF ServersFit
<1>7. HandlersFit(T)
    BY <1>1, HandlersStayFit
<1> HIDE DEF T
<1>. QED BY <1>2, <1>3, <1>4, <1>5, <1>6, <1>7, StepKeepsRegisters

LEMMA UdpStaysKeepsRegisters ==
    ASSUME TypeOK, OwnersInv, RegistersInv, UNCHANGED <<serverVars, client>>,
           NEW u \in UdpSockets,
           \/ \E option \in Options : UdpConfigure(u, option)
           \/ \E mask \in Masks : UdpSetInterrupts(u, mask)
           \/ \E port \in Ports : UdpBind(u, port)
    PROVE  RegistersInv'
<1>1. PICK i : i = udp[u].socket_id
    OBVIOUS
<1>2. /\ udp[u].state # "UNINITIALIZED"
      /\ UNCHANGED <<status, detached, server, handler, client>>
      /\ i \in SocketIds
    BY <1>1 DEF UdpConfigure, UdpSetInterrupts, UdpBind,
           stackVars, socketVars, serverVars, TypeOK, UdpTypeOK
<1>3. status[i] = "ALLOCATED" /\ ~detached[i]
    BY <1>1, <1>2, UdpSocketIsItsOwn
<1>4. UnusedIsReset(i)'
    BY <1>2, <1>3 DEF UnusedIsReset
<1>5. UdpFits(u)
    BY DEF RegistersInv
<1>6. udp \in [UdpSockets -> [state : Udp_State, socket_id : SocketIds]]
    BY DEF TypeOK, UdpTypeOK
<1>7. TouchesOnly({i}) /\ (\A v \in UdpSockets \ {u} : udp'[v] = udp[v]) /\ UdpFits(u)' /\ PortsInv'
    <2> USE DEF TypeOK, SocketsTypeOK, TouchesOnly, UdpFits, Reset, Bound, stackVars, Udp_State
    <2>1. CASE \E option \in Options : UdpConfigure(u, option)
        <3>1. PortsInv'
            BY <1>2, <2>1, PortsUnchanged DEF UdpConfigure, RegistersInv
        <3>. QED BY <3>1, <2>1, <1>1, <1>2, <1>5, <1>6 DEF UdpConfigure
    <2>2. CASE \E mask \in Masks : UdpSetInterrupts(u, mask)
        <3>1. PortsInv'
            BY <1>2, <2>2, PortsUnchanged DEF UdpSetInterrupts, RegistersInv
        <3>. QED BY <3>1, <2>2, <1>1, <1>2, <1>5, <1>6 DEF UdpSetInterrupts
    <2>3. CASE \E port \in Ports : UdpBind(u, port)
        <3>1. PICK port \in Ports : UdpBind(u, port)
            BY <2>3
        <3>2. /\ AllocatePort("UDP", port)
              /\ udp[u].state = "INITIALIZED"
              /\ sn_port' = [sn_port EXCEPT ![i] = port]
              /\ sn_mr' = [sn_mr EXCEPT ![i] = "UDP"]
              /\ sn_sr' = [sn_sr EXCEPT ![i] = "UDP"]
              /\ udp' = [udp EXCEPT ![u].state = "BOUND"]
              /\ UNCHANGED <<sn_opt, sn_imr>>
            BY <1>1, <3>1 DEF UdpBind
        <3>3. PortsInv'
            <4> DEFINE T == {i}
            <4>1. \A j \in SocketIds : /\ sn_mr'[j] = IF j \in T THEN "UDP" ELSE sn_mr[j]
                                       /\ sn_port'[j] = IF j \in T THEN port ELSE sn_port[j]
                BY <3>2, <1>2
            <4>2. \A j \in T : sn_mr[j] = "NONE"
                BY <1>1, <1>5, <3>2
            <4>3. T \in SUBSET SocketIds /\ T # {} /\ \E j \in SocketIds : T = {j}
                BY <1>2
            <4>4. \A s \in Servers : /\ (server'[s].state = "UNINITIALIZED") = (server[s].state = "UNINITIALIZED")
                                     /\ server'[s].ids = server[s].ids
                BY <1>2
            <4> HIDE DEF T
            <4>5. detached' = detached /\ AllocatePort("UDP", port) /\ PortsInv /\ TypeOK
                BY <3>2, <1>2 DEF RegistersInv
            <4>. QED BY ONLY <4>1, <4>2, <4>3, <4>4, <4>5, BindKeepsPorts
        <3>4. udp'[u].state = "BOUND" /\ udp'[u].socket_id = i /\ \A v \in UdpSockets \ {u} : udp'[v] = udp[v]
            BY <3>2, <1>1, <1>6
        <3>. QED BY <3>2, <3>3, <3>4, <1>2
    <2>. QED BY <2>1, <2>2, <2>3
<1>. QED BY <1>1, <1>2, <1>4, <1>7, UdpStepKeepsRegisters

LEMMA MakeUdpKeepsRegisters ==
    ASSUME TypeOK, OwnersInv, RegistersInv, NEW u \in UdpSockets, NEW i \in SocketIds,
           MakeUdp(u, i) \/ MakeUdpAt(u, i), UNCHANGED <<serverVars, client>>
    PROVE  RegistersInv'
<1> DEFINE T == {i}
<1>1. /\ i \in Free
      /\ Allocate({i})
      /\ udp' = [udp EXCEPT ![u] = [state |-> "INITIALIZED", socket_id |-> i]]
      /\ UNCHANGED <<registers, held, server, handler, client>>
    BY DEF MakeUdp, MakeUdpAt, FirstAvailable, serverVars
<1>2. /\ udp'[u].state = "INITIALIZED" /\ udp'[u].socket_id = i
      /\ \A v \in UdpSockets \ {u} : udp'[v] = udp[v]
    BY <1>1 DEF TypeOK, UdpTypeOK
<1>3. /\ T \in SUBSET SocketIds /\ TouchesOnly(T)
      /\ status'[i] = "ALLOCATED"
      /\ detached' = detached
    BY <1>1 DEF Allocate, registers, TouchesOnly, TypeOK, SocketsTypeOK
<1>4. Reset(i)
    BY <1>1 DEF RegistersInv, UnusedIsReset, Free
<1>5. UdpFits(u)'
    BY <1>1, <1>2, <1>4 DEF UdpFits, Reset, registers
<1>6. \A j \in T : UnusedIsReset(j)'
    BY <1>3 DEF UnusedIsReset
<1>7. PortsInv'
    BY <1>1, <1>3, PortsUnchanged DEF RegistersInv, registers
<1>8. UdpSocketsFit(T)
    BY <1>1, <1>2, <1>5 DEF UdpSocketsFit, OwnersInv, UdpSocketsOwn, Free
<1>9. ClientsFit(T)
    BY <1>1 DEF ClientsFit, OwnersInv, ClientsOwn, Free
<1>10. ServersFit(T)
    BY <1>1 DEF ServersFit, OwnersInv, ServersOwn, Free
<1>11. HandlersFit(T)
    BY <1>1, HandlersStayFit DEF OwnersInv, HandlersOwn, Free
<1> HIDE DEF T
<1>. QED BY <1>3, <1>6, <1>7, <1>8, <1>9, <1>10, <1>11, StepKeepsRegisters

\* close() and the move assignment: the udp's socket is given back, if it
\* has one, and the other UDP sockets keep theirs, under whatever name.
UdpReleased(u) ==
    IF udp[u].state # "UNINITIALIZED" THEN ReleaseUdpSocket(u)
                                         ELSE UNCHANGED <<stackVars, registers, held, fault>>

OtherUdpsKeep(u) ==
    \A v \in UdpSockets : \/ udp'[v].state = "UNINITIALIZED"
                       \/ \E e \in UdpSockets \ {u} : udp'[v] = udp[e]

LEMMA UdpReleaseKeepsRegisters ==
    ASSUME TypeOK, OwnersInv, RegistersInv, NEW u \in UdpSockets, UdpReleased(u), OtherUdpsKeep(u),
           UNCHANGED <<server, handler, client>>
    PROVE  RegistersInv'
<1>1. CASE udp[u].state = "UNINITIALIZED"
    <2> DEFINE T == {}
    <2>1. UNCHANGED <<stackVars, registers, held>>
        BY <1>1 DEF UdpReleased
    <2>2. T \in SUBSET SocketIds /\ TouchesOnly(T) /\ \A i \in T : UnusedIsReset(i)'
        BY <2>1 DEF TouchesOnly, stackVars, registers
    <2>3. PortsInv'
        BY <2>1, PortsUnchanged DEF RegistersInv, stackVars, registers
    <2>4. UdpSocketsFit(T)
        BY <1>1 DEF UdpSocketsFit, OtherUdpsKeep, UdpFits
    <2>5. ClientsFit(T) /\ ServersFit(T) /\ HandlersFit(T)
        BY HandlersStayFit DEF ClientsFit, ServersFit
    <2> HIDE DEF T
    <2>. QED BY <2>2, <2>3, <2>4, <2>5, StepKeepsRegisters
<1>2. CASE udp[u].state # "UNINITIALIZED"
    <2>1. PICK i : i = udp[u].socket_id
        OBVIOUS
    <2> DEFINE T == {i}
    <2>2. /\ i \in SocketIds
          /\ ~detached[i]
          /\ \A v \in UdpSockets : udp[v].state # "UNINITIALIZED" /\ udp[v].socket_id = i => v = u
          /\ \A s \in Servers : server[s].state # "UNINITIALIZED" => i \notin Ids(s)
          /\ \A c \in Clients : client[c].state # "UNINITIALIZED" => client[c].socket_id # i
          /\ \A h \in Handlers : handler[h].state # "UNINITIALIZED" => handler[h].socket_id # i
          /\ status[i] = "ALLOCATED"
        BY <1>2, <2>1, UdpSocketIsItsOwn
    <2>3. /\ IF udp[u].state = "BOUND" THEN DeallocatePort("UDP", sn_port[i]) ELSE UNCHANGED held
          /\ DeallocateAndDetach(T, {})
        BY <1>2, <2>1 DEF UdpReleased, ReleaseUdpSocket, Deallocate
    <2>4. T \in SUBSET SocketIds /\ TouchesOnly(T)
        BY <2>2, <2>3 DEF TouchesOnly, DeallocateAndDetach, DetachedAfter, TypeOK, SocketsTypeOK
    <2>5. \A j \in T : UnusedIsReset(j)'
        BY <2>2, <2>3 DEF UnusedIsReset, Reset, DeallocateAndDetach, DetachedAfter
    <2>6. GivenBack(T)
        <3>1. \A s \in Servers : Ids(s)' = Ids(s)
            BY DEF Ids
        <3>2. \A j \in SocketIds : /\ sn_mr'[j] = IF j \in T THEN "NONE" ELSE sn_mr[j]
                                   /\ j \notin T => sn_port'[j] = sn_port[j]
                                   /\ j \notin T => (detached[j] => detached'[j])
            BY <2>2, <2>3 DEF DeallocateAndDetach, DetachedAfter
        <3>. QED BY <3>1, <3>2 DEF GivenBack
    <2>7. PortsInv'
        <3>1. UdpFits(u) /\ PortsInv
            BY DEF RegistersInv
        <3>2. CASE udp[u].state # "BOUND"
            <4>1. held' = held /\ \A j \in T : sn_mr[j] = "NONE"
                BY <1>2, <2>1, <2>3, <3>1, <3>2 DEF UdpFits, Reset, TypeOK, UdpTypeOK, Udp_State
            <4> HIDE DEF T
            <4>. QED BY <4>1, <2>4, <2>6, <3>1, GivingBackWithoutPort
        <3>3. CASE udp[u].state = "BOUND"
            <4>1. DeallocatePort("UDP", sn_port[i])
                BY <2>3, <3>3
            <4>2. \A j \in T : sn_mr[j] = "UDP" /\ sn_port[j] = sn_port[i]
                BY <1>2, <2>1, <3>1, <3>3 DEF UdpFits, Bound, TypeOK, UdpTypeOK, Udp_State
            <4>3. \A j \in SocketIds \ T : ~(sn_mr[j] = "UDP" /\ sn_port[j] = sn_port[i])
                BY <2>2, <4>2, <3>1 DEF PortsInv, UdpPortsDiffer
            <4>4. T # {}
                OBVIOUS
            <4> HIDE DEF T
            <4>. QED BY <4>1, <4>2, <4>3, <4>4, <2>4, <2>6, <3>1, GivingBackWithPort
        <3>. QED BY <3>2, <3>3
    <2>8. UdpSocketsFit(T)
        BY <2>2 DEF UdpSocketsFit, OtherUdpsKeep, UdpFits
    <2>9. ClientsFit(T) /\ ServersFit(T) /\ HandlersFit(T)
        BY <2>2, HandlersStayFit DEF ClientsFit, ServersFit
    <2> HIDE DEF T
    <2>. QED BY <2>4, <2>5, <2>7, <2>8, <2>9, StepKeepsRegisters
<1>. QED BY <1>1, <1>2

LEMMA UdpNextKeepsRegisters ==
    ASSUME TypeOK, OwnersInv, RegistersInv, UdpNext, UNCHANGED <<serverVars, client>>
    PROVE  RegistersInv'
<1>1. PICK u \in UdpSockets :
        \/ \E i \in SocketIds : MakeUdp(u, i) \/ MakeUdpAt(u, i)
        \/ \/ \E option \in Options : UdpConfigure(u, option)
           \/ \E mask \in Masks : UdpSetInterrupts(u, mask)
           \/ \E port \in Ports : UdpBind(u, port)
        \/ UdpClose(u)
        \/ \E v \in UdpSockets : UdpMove(u, v)
    BY DEF UdpNext
<1>2. CASE UdpClose(u)
    <2>1. UdpReleased(u) /\ udp' = [udp EXCEPT ![u].state = "UNINITIALIZED"]
        BY <1>2 DEF UdpClose, UdpReleased
    <2>2. OtherUdpsKeep(u)
        BY <2>1 DEF OtherUdpsKeep, TypeOK, UdpTypeOK
    <2>. QED BY <2>1, <2>2, UdpReleaseKeepsRegisters DEF serverVars
<1>3. ASSUME NEW v \in UdpSockets, UdpMove(u, v) PROVE RegistersInv'
    <2>1. /\ UdpReleased(u) /\ u # v
          /\ udp' = [udp EXCEPT ![u] = udp[v], ![v].state = "UNINITIALIZED"]
        BY <1>3 DEF UdpMove, UdpReleased
    <2>2. /\ udp'[u] = udp[v]
          /\ udp'[v].state = "UNINITIALIZED"
          /\ \A e \in UdpSockets \ {u, v} : udp'[e] = udp[e]
        BY <2>1 DEF TypeOK, UdpTypeOK
    <2>3. OtherUdpsKeep(u)
        BY <2>1, <2>2 DEF OtherUdpsKeep
    <2>. QED BY <2>1, <2>3, UdpReleaseKeepsRegisters DEF serverVars
<1>. QED BY <1>1, <1>2, <1>3, MakeUdpKeepsRegisters, UdpStaysKeepsRegisters

-----------------------------------------------------------------------------
(* The server, up to listen().                                             *)

LEMMA ServerStaysKeepsRegisters ==
    ASSUME TypeOK, OwnersInv, RegistersInv, UNCHANGED <<client, udp>>,
           NEW s \in Servers,
           \/ \E option \in Options : ServerConfigure(s, option)
           \/ \E mask \in Masks : ServerSetInterrupts(s, mask)
           \/ \E port \in Ports : ServerBind(s, port)
    PROVE  RegistersInv'
<1>1. PICK T : T = Ids(s)
    OBVIOUS
<1>2. /\ server[s].state # "UNINITIALIZED"
      /\ UNCHANGED <<status, detached, handler, client, udp>>
      /\ \A t \in Servers \ {s} : server'[t] = server[t]
      /\ server'[s].ids = server[s].ids /\ server'[s].allocated = server[s].allocated
      /\ server'[s].state # "UNINITIALIZED"
    BY DEF ServerConfigure, ServerSetInterrupts, ServerBind, stackVars, serverVars, TypeOK, ServerTypeOK
<1>3. \A t \in Servers : Ids(t)' = Ids(t)
    BY <1>2 DEF Ids
<1>4. T \in SUBSET SocketIds
    BY <1>1, IdsAreSocketIds DEF TypeOK
<1>5. \A i \in T : /\ status[i] = "ALLOCATED"
                   /\ \A c \in Clients : client[c].state # "UNINITIALIZED" => client[c].socket_id # i
                   /\ \A u \in UdpSockets : udp[u].state # "UNINITIALIZED" => udp[u].socket_id # i
                   /\ \A t \in Servers : server[t].state # "UNINITIALIZED" /\ t # s => i \notin Ids(t)
                   /\ \A h \in Handlers : handler[h].state # "UNINITIALIZED" /\ handler[h].socket_id = i =>
                         i \in server[s].allocated
    BY <1>1, <1>2, ServersSocketsAreItsOwn
<1>6. \A i \in T : UnusedIsReset(i)'
    BY <1>2, <1>5 DEF UnusedIsReset
<1>7. ClientsFit(T) /\ UdpSocketsFit(T)
    BY <1>2, <1>5 DEF ClientsFit, UdpSocketsFit
<1>8. \A t \in Servers \ {s} : server[t].state # "UNINITIALIZED" => Ids(t) \cap T = {}
    BY <1>5
<1>9. ServerFits(s)
    BY DEF RegistersInv
<1>10. server[s].state # "LISTENING" => \A h \in Handlers :
           handler[h].state # "UNINITIALIZED" => handler[h].socket_id \notin T
    BY <1>2, <1>5 DEF OwnersInv, ServersOwn
<1>11. CASE \E option \in Options : ServerConfigure(s, option)
    <2>1. PICK option \in Options : ServerConfigure(s, option)
        BY <1>11
    <2>2. /\ sn_opt' = [i \in SocketIds |-> IF i \in T THEN option ELSE sn_opt[i]]
          /\ UNCHANGED <<sn_mr, sn_port, sn_imr, sn_sr, held, server>>
          /\ server[s].state = "INITIALIZED"
        BY <1>1, <2>1 DEF ServerConfigure, serverVars
    <2>3. TouchesOnly(T)
        BY <1>2, <2>2 DEF TouchesOnly
    <2>4. ServerFits(s)'
        BY <1>1, <1>3, <1>4, <1>9, <2>2 DEF ServerFits, Reset, SameRegisters
    <2>5. ServersFit(T)
        BY <1>2, <1>8, <2>4 DEF ServersFit
    <2>6. HandlersFit(T)
        BY <1>2, <1>10, <2>2, HandlersStayFit
    <2>7. PortsInv'
        BY <1>2, <2>2, PortsUnchanged DEF RegistersInv
    <2>. QED BY <1>4, <1>6, <1>7, <2>3, <2>5, <2>6, <2>7, StepKeepsRegisters
<1>12. CASE \E mask \in Masks : ServerSetInterrupts(s, mask)
    <2>1. PICK mask \in Masks : ServerSetInterrupts(s, mask)
        BY <1>12
    <2>2. /\ sn_imr' = [i \in SocketIds |-> IF i \in T THEN mask ELSE sn_imr[i]]
          /\ UNCHANGED <<sn_mr, sn_port, sn_opt, sn_sr, held, server>>
        BY <1>1, <2>1 DEF ServerSetInterrupts, serverVars
    <2>3. TouchesOnly(T)
        BY <1>2, <2>2 DEF TouchesOnly
    <2>4. ServerFits(s)'
        BY <1>1, <1>3, <1>4, <1>9, <2>2 DEF ServerFits, Reset, Bound, SameRegisters
    <2>5. ServersFit(T)
        BY <1>2, <1>8, <2>4 DEF ServersFit
    <2>6. HandlersFit(T)
        BY <1>2, <2>2 DEF HandlersFit, HandlerFits, Bound, RegistersInv
    <2>7. PortsInv'
        BY <1>2, <2>2, PortsUnchanged DEF RegistersInv
    <2>. QED BY <1>4, <1>6, <1>7, <2>3, <2>5, <2>6, <2>7, StepKeepsRegisters
<1>13. CASE \E port \in Ports : ServerBind(s, port)
    <2>1. PICK port \in Ports : ServerBind(s, port)
        BY <1>13
    <2>2. /\ sn_port' = [i \in SocketIds |-> IF i \in T THEN port ELSE sn_port[i]]
          /\ sn_mr' = [i \in SocketIds |-> IF i \in T THEN "TCP" ELSE sn_mr[i]]
          /\ sn_sr' = [i \in SocketIds |-> IF i \in T THEN "INIT" ELSE sn_sr[i]]
          /\ UNCHANGED <<sn_opt, sn_imr>>
          /\ server[s].state = "INITIALIZED" /\ AllocatePort("TCP", port)
          /\ server' = [server EXCEPT ![s].state = "BOUND"]
        BY <1>1, <2>1 DEF ServerBind
    <2>3. TouchesOnly(T)
        BY <1>2, <2>2 DEF TouchesOnly
    <2>4. server'[s].state = "BOUND"
        BY <2>2 DEF TypeOK, ServerTypeOK
    <2>5. ServerFits(s)'
        BY <1>1, <1>2, <1>3, <1>4, <1>9, <2>2, <2>4 DEF ServerFits, Reset, Bound, SameRegisters
    <2>6. ServersFit(T)
        BY <1>2, <1>8, <2>5 DEF ServersFit
    <2>7. HandlersFit(T)
        BY <1>2, <1>10, <2>2, HandlersStayFit
    <2>8. PortsInv'
        <3>1. \A i \in SocketIds : /\ sn_mr'[i] = IF i \in T THEN "TCP" ELSE sn_mr[i]
                                   /\ sn_port'[i] = IF i \in T THEN port ELSE sn_port[i]
            BY <2>2
        <3>2. \A i \in T : sn_mr[i] = "NONE"
            BY <1>1, <1>9, <2>2 DEF ServerFits, Reset
        <3>3. T # {}
            BY <1>1, <1>2, NextIndexIsNext
        <3>4. \E t \in Servers : server[t].state # "UNINITIALIZED" /\ T = Ids(t)
            BY <1>1, <1>2
        <3>5. \A t \in Servers : /\ (server'[t].state = "UNINITIALIZED") = (server[t].state = "UNINITIALIZED")
                                 /\ server'[t].ids = server[t].ids
            BY <1>2
        <3>6. detached' = detached /\ AllocatePort("TCP", port) /\ PortsInv
            BY <1>2, <2>2 DEF RegistersInv
        <3>. QED BY ONLY TypeOK, <1>4, <3>1, <3>2, <3>3, <3>4, <3>5, <3>6, BindKeepsPorts
    <2>. QED BY <1>4, <1>6, <1>7, <2>3, <2>6, <2>7, <2>8, StepKeepsRegisters
<1>. QED BY <1>11, <1>12, <1>13

LEMMA MakingAServerKeepsRegisters ==
    ASSUME TypeOK, OwnersInv, RegistersInv, NEW s \in Servers, NEW T \in SUBSET Free,
           server[s].state = "UNINITIALIZED", Allocate(T),
           \A t \in Servers \ {s} : server'[t] = server[t],
           server'[s].state = "INITIALIZED", Elements(server'[s].ids) = T,
           UNCHANGED <<registers, held, handler, client, udp>>
    PROVE  RegistersInv'
<1>1. /\ T \in SUBSET SocketIds
      /\ \A i \in T : status[i] = "AVAILABLE_FOR_ALLOCATION"
    BY DEF Free
<1>2. Ids(s)' = T /\ \A t \in Servers \ {s} : Ids(t)' = Ids(t)
    BY DEF Ids, Elements
<1>3. /\ TouchesOnly(T)
      /\ \A i \in T : status'[i] = "ALLOCATED"
      /\ detached' = detached
    BY <1>1 DEF Allocate, registers, TouchesOnly, TypeOK, SocketsTypeOK
<1>4. \A i \in T : Reset(i) /\ sn_opt[i] = NoOption /\ sn_imr[i] = NoMask
    BY <1>1 DEF RegistersInv, UnusedIsReset
<1>5. ServerFits(s)'
    BY <1>2, <1>4 DEF ServerFits, Reset, SameRegisters, registers
<1>6. \A i \in T : UnusedIsReset(i)'
    BY <1>3 DEF UnusedIsReset
<1>7. PortsInv'
    <2>1. \A t \in Servers : server[t].state # "UNINITIALIZED" =>
              \/ \E r \in Servers : server'[r].state # "UNINITIALIZED" /\ Ids(t) \subseteq Ids(r)'
              \/ \A j \in Ids(t) : detached'[j]
        BY <1>2
    <2>. QED BY <1>3, <2>1, PortsStay DEF RegistersInv, registers
<1>8. ClientsFit(T)
    BY <1>1 DEF ClientsFit, OwnersInv, ClientsOwn
<1>9. UdpSocketsFit(T)
    BY <1>1 DEF UdpSocketsFit, OwnersInv, UdpSocketsOwn
<1>10. ServersFit(T)
    BY <1>1, <1>5 DEF ServersFit, OwnersInv, ServersOwn
<1>11. HandlersFit(T)
    BY <1>1, HandlersStayFit DEF OwnersInv, HandlersOwn
<1>. QED BY <1>1, <1>3, <1>6, <1>7, <1>8, <1>9, <1>10, <1>11, StepKeepsRegisters

LEMMA MakeServerKeepsRegisters ==
    ASSUME TypeOK, OwnersInv, RegistersInv, NEW s \in Servers, UNCHANGED <<client, udp>>,
           \/ \E i \in SocketIds : MakeServer(s, i)
           \/ \E ids \in IdLists : MakeServerWith(s, ids)
    PROVE  RegistersInv'
<1>1. ASSUME NEW ids, Elements(ids) \in SUBSET Free, server[s].state = "UNINITIALIZED", Allocate(Elements(ids)),
             server' = [server EXCEPT ![s] = [NoServer EXCEPT !.state = "INITIALIZED", !.ids = ids]],
             UNCHANGED <<registers, held, handler>>
      PROVE  RegistersInv'
    <2>1. /\ server'[s].state = "INITIALIZED" /\ server'[s].ids = ids
          /\ \A t \in Servers \ {s} : server'[t] = server[t]
        BY <1>1 DEF TypeOK, ServerTypeOK, NoServer
    <2>. QED BY <1>1, <2>1, MakingAServerKeepsRegisters
<1>2. ASSUME NEW i \in SocketIds, MakeServer(s, i) PROVE RegistersInv'
    <2>1. Elements(<<i>>) = {i}
        BY DEF Elements
    <2>. QED BY <1>1, <1>2, <2>1 DEF MakeServer, FirstAvailable
<1>3. ASSUME NEW ids \in IdLists, MakeServerWith(s, ids) PROVE RegistersInv'
    <2>1. Elements(ids) \in SUBSET Free /\ Allocate(Elements(ids))
        <3>1. /\ \A k \in DOMAIN ids : ids[k] \in Free
              /\ Allocate({ids[k] : k \in DOMAIN ids})
            BY <1>3 DEF MakeServerWith
        <3>. QED BY <3>1 DEF Elements
    <2>. QED BY <1>1, <1>3, <2>1 DEF MakeServerWith
<1>. QED BY <1>2, <1>3

LEMMA ServerListenKeepsRegisters ==
    ASSUME TypeOK, OwnersInv, RegistersInv, NEW s \in Servers, NEW backlog \in 0..SOCKETS,
           ServerListen(s, backlog), UNCHANGED <<client, udp>>
    PROVE  RegistersInv'
<1>1. PICK new \in SUBSET Free :
          /\ server[s].state = "BOUND" /\ UNCHANGED <<held, handler>>
          /\ Allocate(new)
          /\ sn_mr' = LikeFront(sn_mr, new, server[s].ids[1])
          /\ sn_port' = LikeFront(sn_port, new, server[s].ids[1])
          /\ sn_opt' = LikeFront(sn_opt, new, server[s].ids[1])
          /\ sn_imr' = LikeFront(sn_imr, new, server[s].ids[1])
          /\ sn_sr' = [i \in SocketIds |-> IF i \in Ids(s) \cup new THEN "LISTEN" ELSE sn_sr[i]]
          /\ server[s].ids[1] \in Ids(s)
          /\ server'[s].state = "LISTENING"
          /\ server'[s].allocated = server[s].allocated
          /\ \A t \in Servers \ {s} : server'[t] = server[t]
          /\ Ids(s)' = Ids(s) \cup new
          /\ \A t \in Servers \ {s} : Ids(t)' = Ids(t)
    BY ServerListenDoes
<1>2. PICK front : front = server[s].ids[1]
    OBVIOUS
<1>3. PICK T : T = Ids(s) \cup new
    OBVIOUS
<1>4. /\ \A i \in SocketIds : /\ sn_mr'[i] = IF i \in new THEN sn_mr[front] ELSE sn_mr[i]
                              /\ sn_port'[i] = IF i \in new THEN sn_port[front] ELSE sn_port[i]
                              /\ sn_opt'[i] = IF i \in new THEN sn_opt[front] ELSE sn_opt[i]
                              /\ sn_imr'[i] = IF i \in new THEN sn_imr[front] ELSE sn_imr[i]
                              /\ sn_sr'[i] = IF i \in T THEN "LISTEN" ELSE sn_sr[i]
      /\ front \in Ids(s)
      /\ server[s].state = "BOUND"
      /\ UNCHANGED <<held, handler>>
    BY <1>1, <1>2, <1>3 DEF LikeFront
<1>5. /\ Ids(s)' = T
      /\ server'[s].state = "LISTENING"
      /\ server'[s].allocated = server[s].allocated
      /\ \A t \in Servers \ {s} : server'[t] = server[t] /\ Ids(t)' = Ids(t)
    BY <1>1, <1>3
<1>6. /\ detached' = detached
      /\ \A i \in SocketIds : status'[i] = IF i \in new THEN "ALLOCATED" ELSE status[i]
      /\ \A i \in new : i \in SocketIds /\ status[i] = "AVAILABLE_FOR_ALLOCATION"
    BY <1>1 DEF Allocate, TypeOK, SocketsTypeOK, Free
<1>7. /\ Ids(s) \subseteq SocketIds
      /\ \A i \in Ids(s) :
            /\ status[i] = "ALLOCATED"
            /\ ~detached[i]
            /\ \A c \in Clients : client[c].state # "UNINITIALIZED" => client[c].socket_id # i
            /\ \A u \in UdpSockets : udp[u].state # "UNINITIALIZED" => udp[u].socket_id # i
            /\ \A t \in Servers : server[t].state # "UNINITIALIZED" /\ t # s => i \notin Ids(t)
            /\ \A h \in Handlers : handler[h].state # "UNINITIALIZED" => handler[h].socket_id # i
    <2>1. server[s].state # "UNINITIALIZED" /\ server[s].allocated = {}
        BY <1>4 DEF OwnersInv, ServersOwn
    <2>. QED BY <2>1, ServersSocketsAreItsOwn
<1>8. T \in SUBSET SocketIds
    BY <1>3, <1>6, <1>7
<1>9. TouchesOnly(T)
    BY <1>3, <1>4, <1>6 DEF TouchesOnly
<1>10. \A i \in T : UnusedIsReset(i)'
    BY <1>3, <1>6, <1>7 DEF UnusedIsReset
<1>11. ServerFits(s)
    BY DEF RegistersInv
<1>12. \A i \in Ids(s) : Bound(i, "TCP") /\ SameRegisters(i, front)
    BY <1>4, <1>11 DEF ServerFits
<1>13. \A i \in T : /\ sn_mr'[i] = sn_mr[front] /\ sn_port'[i] = sn_port[front]
                    /\ sn_opt'[i] = sn_opt[front] /\ sn_imr'[i] = sn_imr[front]
                    /\ sn_sr'[i] = "LISTEN"
    BY <1>3, <1>4, <1>8, <1>12 DEF SameRegisters
<1>14. ServerFits(s)'
    BY <1>4, <1>5, <1>12, <1>13 DEF ServerFits, Bound, SameRegisters
<1>15. ServersFit(T)
    <2>1. \A t \in Servers \ {s} : server[t].state # "UNINITIALIZED" => Ids(t) \cap T = {}
        BY <1>3, <1>6, <1>7 DEF OwnersInv, ServersOwn
    <2>. QED BY <1>5, <1>14, <2>1 DEF ServersFit
<1>16. ClientsFit(T)
    BY <1>3, <1>6, <1>7 DEF ClientsFit, OwnersInv, ClientsOwn
<1>17. UdpSocketsFit(T)
    BY <1>3, <1>6, <1>7 DEF UdpSocketsFit, OwnersInv, UdpSocketsOwn
<1>18. HandlersFit(T)
    BY <1>3, <1>4, <1>6, <1>7, HandlersStayFit DEF OwnersInv, HandlersOwn
<1>19. PortsInv'
    <2>1. PortsInv /\ sn_mr[front] = "TCP" /\ \A i \in new : sn_mr[i] = "NONE" /\ ~detached[i]
        BY <1>4, <1>6, <1>12 DEF RegistersInv, UnusedIsReset, Reset, Bound
    <2>2. HeldInUse'
        <3> SUFFICES ASSUME NEW p \in {"TCP", "UDP"}, NEW q \in Ports \cup {NoPort}
                     PROVE  q \in held[p] <=> \E i \in SocketIds : sn_mr'[i] = p /\ sn_port'[i] = q
            BY <1>4 DEF HeldInUse, port_is_in_use
        <3>1. q \in held[p] <=> \E i \in SocketIds : sn_mr[i] = p /\ sn_port[i] = q
            BY <2>1 DEF PortsInv, HeldInUse, port_is_in_use
        <3>2. \A i \in SocketIds : (sn_mr[i] = p /\ sn_port[i] = q) => (sn_mr'[i] = p /\ sn_port'[i] = q)
            BY <1>4, <2>1
        <3>3. \A i \in SocketIds : (sn_mr'[i] = p /\ sn_port'[i] = q) =>
                  \E j \in SocketIds : sn_mr[j] = p /\ sn_port[j] = q
            BY <1>4, <1>7
        <3>. QED BY <3>1, <3>2, <3>3
    <2>3. UdpPortsDiffer'
        BY <1>4, <2>1 DEF PortsInv, UdpPortsDiffer
    <2>4. SharedByServer'
        <3> SUFFICES ASSUME NEW i \in SocketIds, NEW j \in SocketIds, i # j,
                            sn_mr'[i] = "TCP", sn_mr'[j] = "TCP", sn_port'[i] = sn_port'[j]
                     PROVE  \/ \E t \in Servers : server'[t].state # "UNINITIALIZED" /\ i \in Ids(t)' /\ j \in Ids(t)'
                            \/ detached'[i] /\ detached'[j]
            BY DEF SharedByServer
        <3>1. CASE i \in T /\ j \in T
            BY <3>1, <1>5
        <3>2. CASE i \notin T /\ j \notin T
            <4>1. sn_mr[i] = "TCP" /\ sn_mr[j] = "TCP" /\ sn_port[i] = sn_port[j]
                BY <3>2, <1>3, <1>4
            <4>2. ASSUME NEW t \in Servers, server[t].state # "UNINITIALIZED", i \in Ids(t), j \in Ids(t)
                  PROVE  server'[t].state # "UNINITIALIZED" /\ i \in Ids(t)' /\ j \in Ids(t)'
                BY <4>2, <1>5, <1>3, <3>2
            <4>. QED BY <4>1, <4>2, <2>1, <1>6 DEF PortsInv, SharedByServer
        <3>3. ASSUME NEW k \in SocketIds, NEW l \in SocketIds, k \in T, l \notin T,
                     sn_mr'[l] = "TCP", sn_port'[k] = sn_port'[l]
              PROVE  FALSE
            <4>1. sn_mr[l] = "TCP" /\ sn_port[l] = sn_port[front] /\ l # front /\ front \in SocketIds /\ ~detached[front]
                BY <3>3, <1>3, <1>4, <1>7, <1>13
            <4>2. PICK t \in Servers : server[t].state # "UNINITIALIZED" /\ front \in Ids(t) /\ l \in Ids(t)
                BY <4>1, <2>1 DEF PortsInv, SharedByServer
            <4>. QED BY <4>2, <3>3, <1>3, <1>4, <1>7
        <3>. QED BY <3>1, <3>2, <3>3
    <2>. QED BY <2>2, <2>3, <2>4 DEF PortsInv
<1>. QED BY <1>8, <1>9, <1>10, <1>15, <1>16, <1>17, <1>18, <1>19, StepKeepsRegisters

-----------------------------------------------------------------------------
(* accept().                                                               *)

LEMMA AcceptKeepsRegisters ==
    ASSUME TypeOK, OwnersInv, RegistersInv, UNCHANGED <<client, udp>>,
           AcceptStep \/ AcceptWouldBlock \/ \E s \in Servers, h \in Handlers : AcceptBegin(s, h)
    PROVE  RegistersInv'
<1> DEFINE T == {}
<1>1. UNCHANGED <<stackVars, registers, held>>
    BY DEF AcceptStep, AcceptWouldBlock, AcceptBegin
<1>2. T \in SUBSET SocketIds /\ TouchesOnly(T) /\ \A i \in T : UnusedIsReset(i)'
    BY <1>1 DEF TouchesOnly, stackVars, registers
<1>3. ClientsFit(T) /\ UdpSocketsFit(T)
    BY DEF ClientsFit, UdpSocketsFit
<1> HIDE DEF T
<1>4. CASE AcceptWouldBlock \/ \E s \in Servers, h \in Handlers : AcceptBegin(s, h)
    <2>1. UNCHANGED <<server, handler>>
        BY <1>4 DEF AcceptWouldBlock, AcceptBegin, serverVars
    <2>2. ServersFit(T) /\ HandlersFit(T)
        BY <2>1, HandlersStayFit DEF ServersFit, T
    <2>3. PortsInv'
        BY <1>1, <2>1, PortsUnchanged DEF RegistersInv, stackVars, registers
    <2>. QED BY <1>2, <1>3, <2>2, <2>3, StepKeepsRegisters
<1>5. CASE AcceptStep
    <2>1. PICK s : s = call.server
        OBVIOUS
    <2>2. PICK h : h = call.handler
        OBVIOUS
    <2>3. PICK i : i = server[s].ids[server[s].accept_i + 1]
        OBVIOUS
    <2>4. /\ s \in Servers /\ h \in Handlers /\ i \in Ids(s) /\ server[s].state = "LISTENING"
          /\ \A t \in Servers : /\ server'[t].ids = server[t].ids
                                /\ server'[t].state = server[t].state
                                /\ t # s => server'[t] = server[t]
          /\ i \in Waiting(s) =>
                 /\ server'[s].allocated = server[s].allocated \cup {i}
                 /\ handler'[h].socket_id = i
                 /\ \A g \in Handlers \ {h} : handler'[g] = handler[g]
          /\ i \notin Waiting(s) =>
                 /\ server'[s].allocated = server[s].allocated
                 /\ handler' = handler
        BY <1>5, <2>1, <2>2, <2>3, AcceptStepDoes
    <2>5. PortsInv'
        BY <1>1, <2>4, PortsUnchanged DEF RegistersInv, stackVars, registers
    <2>6. ServersFit(T)
        <3>1. \A t \in Servers : server[t].allocated \subseteq server'[t].allocated
            BY <2>4
        <3>. QED BY <2>4, <3>1 DEF ServersFit, T
    <2>7. CASE i \notin Waiting(s)
        <3>1. HandlersFit(T)
            BY <2>4, <2>7, HandlersStayFit DEF T
        <3>. QED BY <1>2, <1>3, <2>5, <2>6, <3>1, StepKeepsRegisters
    <2>8. CASE i \in Waiting(s)
        <3>1. ServerFits(s)
            BY <2>4 DEF RegistersInv
        <3>2. Bound(i, "TCP") /\ sn_sr[i] \in Connected
            BY <2>4, <2>8, <3>1 DEF ServerFits, Waiting, Acceptable, Connected
        <3>3. HandlerFits(h)'
            BY <1>1, <2>4, <2>8, <3>2 DEF HandlerFits, Bound, registers
        <3>4. HandlersFit(T)
            <4> SUFFICES ASSUME NEW g \in Handlers PROVE HandlerFits(g)' \/ \E f \in Handlers :
                             /\ handler[f].state # "UNINITIALIZED"
                             /\ handler'[g].socket_id = handler[f].socket_id
                             /\ handler[f].socket_id \notin T
                BY DEF HandlersFit
            <4>1. CASE g = h
                BY <3>3, <4>1
            <4>2. CASE g # h /\ handler[g].state = "UNINITIALIZED"
                BY <2>4, <2>8, <4>2 DEF HandlerFits
            <4>3. CASE g # h /\ handler[g].state # "UNINITIALIZED"
                BY <2>4, <2>8, <4>3 DEF T
            <4>. QED BY <4>1, <4>2, <4>3
        <3>. QED BY <1>2, <1>3, <2>5, <2>6, <3>4, StepKeepsRegisters
    <2>. QED BY <2>7, <2>8
<1>. QED BY <1>4, <1>5


-----------------------------------------------------------------------------
(* The chip, the connection handlers and the release of a server.          *)

\* Whatever happens to the connection of one socket of a listening server,
\* as long as a socket that is not lent never becomes idle.
LEMMA ListeningServerStillFits ==
    ASSUME TypeOK, RegistersInv, NEW i \in SocketIds, NEW s \in Servers,
           UNCHANGED <<sn_mr, sn_port, sn_opt, sn_imr>>,
           \A j \in SocketIds \ {i} : sn_sr'[j] = sn_sr[j],
           server[s].state = "LISTENING", server'[s].state = "LISTENING",
           server'[s].ids = server[s].ids,
           server[s].allocated \subseteq server'[s].allocated \cup {i},
           i \notin server'[s].allocated => sn_sr'[i] \in Acceptable \cup {"LISTEN", "OPENING"}
    PROVE  ServerFits(s)'
<1>1. Ids(s)' = Ids(s) /\ Ids(s) \subseteq SocketIds
    BY IdsAreSocketIds DEF TypeOK, Ids
<1>2. ServerFits(s)
    BY DEF RegistersInv
<1>3. \A j \in Ids(s) : Bound(j, "TCP")'
    BY <1>1, <1>2 DEF ServerFits, Bound
<1>4. \A j \in Ids(s) \ server'[s].allocated : sn_sr'[j] \in Acceptable \cup {"LISTEN", "OPENING"}
    BY <1>1, <1>2 DEF ServerFits
<1>5. \A j, k \in Ids(s) : SameRegisters(j, k)'
    BY <1>1, <1>2 DEF ServerFits, SameRegisters
<1>. QED BY <1>1, <1>3, <1>4, <1>5 DEF ServerFits

\* A step that changes SN_SR of one socket, and perhaps who holds it.
LEMMA ConnectionStepKeepsRegisters ==
    ASSUME TypeOK, OwnersInv, RegistersInv, NEW i \in SocketIds, status[i] = "ALLOCATED",
           UNCHANGED <<stackVars, sn_mr, sn_port, sn_opt, sn_imr, held, client, udp>>,
           \A j \in SocketIds \ {i} : sn_sr'[j] = sn_sr[j],
           \A s \in Servers : /\ server'[s].state = server[s].state
                              /\ server'[s].ids = server[s].ids
                              /\ server[s].state # "UNINITIALIZED" =>
                                    server[s].allocated \subseteq server'[s].allocated \cup {i},
           \A c \in Clients : (client[c].state # "UNINITIALIZED" /\ client[c].socket_id = i) => ClientFits(c)',
           \A u \in UdpSockets : udp[u].state # "UNINITIALIZED" => udp[u].socket_id # i,
           \A s \in Servers : (server[s].state # "UNINITIALIZED" /\ i \in Ids(s)) =>
               /\ server[s].state = "LISTENING"
               /\ i \notin server'[s].allocated => sn_sr'[i] \in Acceptable \cup {"LISTEN", "OPENING"},
           \A h \in Handlers : HandlerFits(h)' \/ \E g \in Handlers :
               /\ handler[g].state # "UNINITIALIZED"
               /\ handler'[h].socket_id = handler[g].socket_id
               /\ handler[g].socket_id # i
    PROVE  RegistersInv'
<1> DEFINE T == {i}
<1>1. T \in SUBSET SocketIds /\ TouchesOnly(T)
    BY DEF TouchesOnly, stackVars
<1>2. \A j \in T : UnusedIsReset(j)'
    BY DEF UnusedIsReset, stackVars
<1>3. ClientsFit(T) /\ UdpSocketsFit(T) /\ HandlersFit(T)
    BY DEF ClientsFit, UdpSocketsFit, HandlersFit
<1>4. ServersFit(T)
    <2> SUFFICES ASSUME NEW s \in Servers
                 PROVE  ServerFits(s)' \/ \E t \in Servers :
                            /\ server'[s].state = server[t].state
                            /\ server'[s].ids = server[t].ids
                            /\ server[t].allocated \subseteq server'[s].allocated
                            /\ server[t].state # "UNINITIALIZED" => Ids(t) \cap T = {}
        BY DEF ServersFit
    <2>1. CASE server[s].state = "UNINITIALIZED"
        BY <2>1 DEF ServerFits
    <2>2. CASE server[s].state # "UNINITIALIZED" /\ i \in Ids(s)
        BY <2>2, ListeningServerStillFits
    <2>3. CASE server[s].state # "UNINITIALIZED" /\ i \notin Ids(s)
        <3>1. server[s].allocated \subseteq server'[s].allocated
            BY <2>3 DEF OwnersInv, ServersOwn
        <3>. QED BY <2>3, <3>1
    <2>. QED BY <2>1, <2>2, <2>3
<1>5. PortsInv'
    BY PortsUnchanged DEF RegistersInv, stackVars
<1> HIDE DEF T
<1>. QED BY <1>1, <1>2, <1>3, <1>4, <1>5, StepKeepsRegisters

LEMMA ChipStepKeepsRegisters ==
    ASSUME TypeOK, OwnersInv, RegistersInv, NEW i \in SocketIds, ChipStep(i), UNCHANGED <<client, serverVars, udp>>
    PROVE  RegistersInv'
<1>1. PICK sr \in SN_SR : <<sn_sr[i], sr>> \in Connection_Steps /\ sn_sr' = [sn_sr EXCEPT ![i] = sr]
    BY DEF ChipStep
<1>2. /\ sn_mr[i] = "TCP"
      /\ UNCHANGED <<stackVars, sn_mr, sn_port, sn_opt, sn_imr, held, client, server, handler, udp>>
    BY DEF ChipStep, serverVars
<1>3. sn_sr'[i] = sr /\ \A j \in SocketIds \ {i} : sn_sr'[j] = sn_sr[j]
    BY <1>1 DEF TypeOK, SocketsTypeOK
<1>4. /\ sn_sr[i] \in Connected => sr \in Connected
      /\ sn_sr[i] \in {"OPENING", "ESTABLISHED", "CLOSE_WAIT", "CLOSED"} => sr \in {"OPENING", "ESTABLISHED", "CLOSE_WAIT", "CLOSED"}
      /\ sn_sr[i] \in Acceptable \cup {"LISTEN", "OPENING"} => sr \in Acceptable \cup {"LISTEN", "OPENING"}
      /\ sn_sr[i] # "INIT"
    BY <1>1 DEF Connection_Steps, Connected, Acceptable
<1>5. status[i] = "ALLOCATED"
    BY <1>2 DEF RegistersInv, UnusedIsReset, Reset
<1>6. ASSUME NEW c \in Clients, client[c].state # "UNINITIALIZED", client[c].socket_id = i PROVE ClientFits(c)'
    BY <1>2, <1>3, <1>4, <1>6 DEF RegistersInv, ClientFits, Reset, Bound
<1>7. \A u \in UdpSockets : udp[u].state # "UNINITIALIZED" => udp[u].socket_id # i
    BY <1>2 DEF RegistersInv, UdpFits, Reset, Bound, TypeOK, UdpTypeOK, Udp_State
<1>8. \A s \in Servers : (server[s].state # "UNINITIALIZED" /\ i \in Ids(s)) =>
          /\ server[s].state = "LISTENING"
          /\ i \notin server'[s].allocated => sn_sr'[i] \in Acceptable \cup {"LISTEN", "OPENING"}
    <2> SUFFICES ASSUME NEW s \in Servers, server[s].state # "UNINITIALIZED", i \in Ids(s)
                 PROVE  /\ server[s].state = "LISTENING"
                        /\ i \notin server'[s].allocated => sn_sr'[i] \in Acceptable \cup {"LISTEN", "OPENING"}
        OBVIOUS
    <2>1. ServerFits(s) /\ server[s].state \in Server_State
        BY DEF RegistersInv, TypeOK, ServerTypeOK
    <2>2. server[s].state = "LISTENING"
        BY <1>2, <1>4, <2>1 DEF ServerFits, Reset, Server_State
    <2>. QED BY <1>2, <1>3, <1>4, <2>1, <2>2 DEF ServerFits
<1>9. \A h \in Handlers : HandlerFits(h)' \/ \E g \in Handlers :
          /\ handler[g].state # "UNINITIALIZED"
          /\ handler'[h].socket_id = handler[g].socket_id
          /\ handler[g].socket_id # i
    BY <1>2, <1>3, <1>4 DEF RegistersInv, HandlerFits, Bound
<1>. QED BY <1>2, <1>3, <1>5, <1>6, <1>7, <1>8, <1>9, ConnectionStepKeepsRegisters

LEMMA HandlerShutdownKeepsRegisters ==
    ASSUME TypeOK, OwnersInv, RegistersInv, NEW h \in Handlers, HandlerShutdown(h), UNCHANGED <<client, udp>>
    PROVE  RegistersInv'
<1>1. PICK i : i = handler[h].socket_id
    OBVIOUS
<1>2. /\ handler[h].state # "UNINITIALIZED"
      /\ sn_sr' = [sn_sr EXCEPT ![i] = IF @ \in {"ESTABLISHED", "CLOSE_WAIT"} THEN "CLOSING" ELSE @]
      /\ UNCHANGED <<stackVars, sn_mr, sn_port, sn_opt, sn_imr, held, client, server, handler, udp>>
    BY <1>1 DEF HandlerShutdown, Disconnect, serverVars
<1>3. /\ i \in SocketIds
      /\ status[i] = "ALLOCATED"
      /\ \A c \in Clients : client[c].state # "UNINITIALIZED" => client[c].socket_id # i
      /\ \A u \in UdpSockets : udp[u].state # "UNINITIALIZED" => udp[u].socket_id # i
      /\ \A s \in Servers : (server[s].state # "UNINITIALIZED" /\ i \in Ids(s)) => i \in server[s].allocated
    BY <1>1, <1>2, HandlersSocketIsItsOwn, ServersSocketsAreItsOwn DEF OwnersInv, HandlersOwn
<1>4. \A s \in Servers : (server[s].state # "UNINITIALIZED" /\ i \in server[s].allocated) => server[s].state = "LISTENING"
    BY DEF OwnersInv, ServersOwn
<1>5. \A j \in SocketIds \ {i} : sn_sr'[j] = sn_sr[j]
    BY <1>2, <1>3 DEF TypeOK, SocketsTypeOK
<1>6. sn_sr[i] \in Connected => sn_sr'[i] \in Connected
    BY <1>2, <1>3 DEF Connected, TypeOK, SocketsTypeOK
<1>7. \A g \in Handlers : HandlerFits(g)' \/ \E f \in Handlers :
          /\ handler[f].state # "UNINITIALIZED"
          /\ handler'[g].socket_id = handler[f].socket_id
          /\ handler[f].socket_id # i
    BY <1>2, <1>6 DEF RegistersInv, HandlerFits, Bound
<1>. QED BY <1>2, <1>3, <1>4, <1>5, <1>7, ConnectionStepKeepsRegisters

\* A handler gives its socket back: to its server, or to the network stack.
LEMMA HandlerReleaseKeepsRegisters ==
    ASSUME TypeOK, OwnersInv, RegistersInv, NEW g \in Handlers, HandlerReleased(g), OthersKeep(g),
           UNCHANGED <<client, udp>>
    PROVE  RegistersInv'
<1>1. CASE handler[g].state = "UNINITIALIZED"
    <2> DEFINE T == {}
    <2>1. UNCHANGED <<stackVars, registers, held, server>>
        BY <1>1 DEF HandlerReleased
    <2>2. T \in SUBSET SocketIds /\ TouchesOnly(T) /\ \A i \in T : UnusedIsReset(i)'
        BY <2>1 DEF TouchesOnly, stackVars, registers
    <2>3. PortsInv'
        BY <2>1, PortsUnchanged DEF RegistersInv, stackVars, registers
    <2>4. ClientsFit(T) /\ UdpSocketsFit(T) /\ ServersFit(T)
        BY <2>1 DEF ClientsFit, UdpSocketsFit, ServersFit
    <2>5. HandlersFit(T)
        BY DEF HandlersFit, OthersKeep, HandlerFits
    <2> HIDE DEF T
    <2>. QED BY <2>2, <2>3, <2>4, <2>5, StepKeepsRegisters
<1>2. CASE handler[g].state # "UNINITIALIZED"
    <2>1. PICK i : i = handler[g].socket_id
        OBVIOUS
    <2>2. PICK s : s = handler[g].server
        OBVIOUS
    <2>3. /\ i \in SocketIds /\ s \in Servers
          /\ status[i] = "ALLOCATED"
          /\ \A c \in Clients : client[c].state # "UNINITIALIZED" => client[c].socket_id # i
          /\ \A u \in UdpSockets : udp[u].state # "UNINITIALIZED" => udp[u].socket_id # i
          /\ \A f \in Handlers : handler[f].state # "UNINITIALIZED" /\ handler[f].socket_id = i => f = g
          /\ detached[i] => \A t \in Servers : server[t].state # "UNINITIALIZED" => i \notin Ids(t)
          /\ ~detached[i] => /\ i \in server[s].allocated
                             /\ i \in Ids(s)
                             /\ server[s].state = "LISTENING"
                             /\ \A t \in Servers : server[t].state # "UNINITIALIZED" /\ t # s => i \notin Ids(t)
        BY <1>2, <2>1, <2>2, HandlersSocketIsItsOwn, ServersSocketsAreItsOwn DEF OwnersInv, HandlersOwn
    <2>4. \A h \in Handlers : HandlerFits(h)' \/ \E f \in Handlers :
              /\ handler[f].state # "UNINITIALIZED"
              /\ handler'[h].socket_id = handler[f].socket_id
              /\ handler[f].socket_id # i
        BY <2>3 DEF OthersKeep, HandlerFits
    <2>5. CASE ~detached[i]
        <3>1. ServerDeallocateSocket(s, i)
            BY <1>2, <2>1, <2>2, <2>5 DEF HandlerReleased, ReleaseHandlerSocket
        <3>2. /\ sn_sr' = [sn_sr EXCEPT ![i] = "LISTEN"]
              /\ server' = [server EXCEPT ![s].allocated = @ \ {i}]
              /\ UNCHANGED <<stackVars, sn_mr, sn_port, sn_opt, sn_imr, held>>
            BY <2>3, <2>5, <3>1 DEF ServerDeallocateSocket
        <3>3. /\ sn_sr'[i] = "LISTEN"
              /\ \A j \in SocketIds \ {i} : sn_sr'[j] = sn_sr[j]
            BY <2>3, <3>2 DEF TypeOK, SocketsTypeOK
        <3>4. \A t \in Servers : /\ server'[t].state = server[t].state
                                 /\ server'[t].ids = server[t].ids
                                 /\ server[t].state # "UNINITIALIZED" =>
                                       server[t].allocated \subseteq server'[t].allocated \cup {i}
            BY <3>2 DEF TypeOK, ServerTypeOK
        <3>5. \A t \in Servers : (server[t].state # "UNINITIALIZED" /\ i \in Ids(t)) =>
                  /\ server[t].state = "LISTENING"
                  /\ i \notin server'[t].allocated => sn_sr'[i] \in Acceptable \cup {"LISTEN", "OPENING"}
            BY <2>3, <2>5, <3>3
        <3>. QED BY <2>3, <2>4, <3>2, <3>3, <3>4, <3>5, ConnectionStepKeepsRegisters
    <2>6. CASE detached[i]
        <3> DEFINE T == {i}
        <3>1. /\ IF \E j \in SocketIds : j < sockets /\ j # i /\ sn_mr[j] = "TCP" /\ sn_port[j] = sn_port[i]
                 THEN UNCHANGED held ELSE DeallocatePort("TCP", sn_port[i])
              /\ DeallocateAndDetach(T, {})
              /\ server' = server
            BY <1>2, <2>1, <2>6 DEF HandlerReleased, ReleaseHandlerSocket, ReleaseDetachedSocket, Deallocate
        <3>2. T \in SUBSET SocketIds /\ TouchesOnly(T)
            BY <2>3, <3>1 DEF TouchesOnly, DeallocateAndDetach, DetachedAfter, TypeOK, SocketsTypeOK
        <3>3. \A j \in T : UnusedIsReset(j)'
            BY <2>3, <3>1 DEF UnusedIsReset, Reset, DeallocateAndDetach, DetachedAfter
        <3>4. GivenBack(T)
            <4>1. \A t \in Servers : Ids(t)' = Ids(t) /\ server'[t] = server[t]
                BY <3>1 DEF Ids
            <4>2. \A j \in SocketIds : /\ sn_mr'[j] = IF j \in T THEN "NONE" ELSE sn_mr[j]
                                       /\ j \notin T => sn_port'[j] = sn_port[j]
                                       /\ j \notin T => (detached[j] => detached'[j])
                BY <2>3, <3>1 DEF DeallocateAndDetach, DetachedAfter
            <4>. QED BY <4>1, <4>2 DEF GivenBack
        <3>5. Bound(i, "TCP") /\ PortsInv
            BY <1>2, <2>1 DEF RegistersInv, HandlerFits
        <3>6. PortsInv'
            <4>1. CASE \E j \in SocketIds : j < sockets /\ j # i /\ sn_mr[j] = "TCP" /\ sn_port[j] = sn_port[i]
                <5>1. /\ held' = held
                      /\ \A k \in T : \E j \in SocketIds \ T : sn_mr[j] = sn_mr[k] /\ sn_port[j] = sn_port[k]
                    BY <3>1, <3>5, <4>1 DEF Bound
                <5> HIDE DEF T
                <5>. QED BY <5>1, <3>2, <3>4, <3>5, GivingBackWithoutPort
            <4>2. CASE ~\E j \in SocketIds : j < sockets /\ j # i /\ sn_mr[j] = "TCP" /\ sn_port[j] = sn_port[i]
                <5>1. DeallocatePort("TCP", sn_port[i])
                    BY <3>1, <4>2
                <5>2. \A j \in SocketIds : j >= sockets => sn_mr[j] = "NONE"
                    BY DEF OwnersInv, Pool, RegistersInv, UnusedIsReset, Reset
                <5>3. \A j \in SocketIds \ T : ~(sn_mr[j] = "TCP" /\ sn_port[j] = sn_port[i])
                    <6>1. \A j \in SocketIds : j \in Int /\ sockets \in Int
                        BY SocketsAssumption DEF SocketIds, TypeOK, SocketsTypeOK
                    <6>. QED BY <4>2, <5>2, <6>1
                <5>4. T # {} /\ \A j \in T : sn_mr[j] = "TCP" /\ sn_port[j] = sn_port[i]
                    BY <3>5 DEF Bound
                <5> HIDE DEF T
                <5>. QED BY <5>1, <5>3, <5>4, <3>2, <3>4, <3>5, GivingBackWithPort
            <4>. QED BY <4>1, <4>2
        <3>7. ClientsFit(T) /\ UdpSocketsFit(T)
            BY <2>3 DEF ClientsFit, UdpSocketsFit
        <3>8. ServersFit(T)
            BY <2>3, <2>6, <3>1 DEF ServersFit
        <3>9. HandlersFit(T)
            BY <2>4 DEF HandlersFit
        <3> HIDE DEF T
        <3>. QED BY <3>2, <3>3, <3>6, <3>7, <3>8, <3>9, StepKeepsRegisters
    <2>. QED BY <2>5, <2>6
<1>. QED BY <1>1, <1>2

\* A server gives back the sockets that are not lent.
LEMMA ServerReleaseKeepsRegisters ==
    ASSUME TypeOK, OwnersInv, RegistersInv, NEW s \in Servers, ServerReleased(s), OtherServersKeep(s),
           UNCHANGED <<client, handler, udp>>
    PROVE  RegistersInv'
<1>1. \A t \in Servers : server'[t].state # "UNINITIALIZED" =>
          \E r \in Servers \ {s} : server[r].state # "UNINITIALIZED" /\ server'[t] = server[r]
    BY DEF OtherServersKeep
<1>2. \A r \in Servers \ {s} : server[r].state # "UNINITIALIZED" =>
          \E t \in Servers : server'[t].state # "UNINITIALIZED" /\ Ids(t)' = Ids(r)
    BY DEF OtherServersKeep, Ids
<1>3. CASE server[s].state = "UNINITIALIZED"
    <2> DEFINE T == {}
    <2>1. UNCHANGED <<stackVars, registers, held>>
        BY <1>3 DEF ServerReleased
    <2>2. T \in SUBSET SocketIds /\ TouchesOnly(T) /\ \A i \in T : UnusedIsReset(i)'
        BY <2>1 DEF TouchesOnly, stackVars, registers
    <2>3. ClientsFit(T) /\ UdpSocketsFit(T) /\ HandlersFit(T)
        BY HandlersStayFit DEF ClientsFit, UdpSocketsFit
    <2>4. ServersFit(T)
        BY <1>1 DEF ServersFit, ServerFits
    <2>5. PortsInv'
        <3>1. \A t \in Servers : server[t].state # "UNINITIALIZED" =>
                  \E r \in Servers : server'[r].state # "UNINITIALIZED" /\ Ids(t) \subseteq Ids(r)'
            BY <1>2, <1>3
        <3>. QED BY <2>1, <3>1, PortsStay DEF RegistersInv, stackVars, registers
    <2> HIDE DEF T
    <2>. QED BY <2>2, <2>3, <2>4, <2>5, StepKeepsRegisters
<1>4. CASE server[s].state # "UNINITIALIZED"
    <2>1. PICK A : A = server[s].allocated
        OBVIOUS
    <2>2. PICK T : T = Ids(s)
        OBVIOUS
    <2>3. PICK S : S = T \ A
        OBVIOUS
    <2>4. PICK front : front = server[s].ids[1]
        OBVIOUS
    <2>5. /\ IF server[s].state = "INITIALIZED" \/ A # {} THEN UNCHANGED held
             ELSE DeallocatePort("TCP", sn_port[front])
          /\ DeallocateAndDetach(S, A)
        BY <1>4, <2>1, <2>2, <2>3, <2>4 DEF ServerReleased, ReleaseServerSockets
    <2>6. /\ T \subseteq SocketIds /\ A \subseteq T /\ S \subseteq T
          /\ front \in T
          /\ server[s].state # "LISTENING" => A = {}
        <3>1. front \in T
            BY <1>4, <2>2, <2>4, NextIndexIsNext, IdsAreSocketIds DEF TypeOK
        <3>. QED BY <1>4, <2>1, <2>2, <2>3, <3>1, IdsAreSocketIds DEF TypeOK, OwnersInv, ServersOwn
    <2>7. \A i \in T :
              /\ status[i] = "ALLOCATED"
              /\ ~detached[i]
              /\ \A c \in Clients : client[c].state # "UNINITIALIZED" => client[c].socket_id # i
              /\ \A u \in UdpSockets : udp[u].state # "UNINITIALIZED" => udp[u].socket_id # i
              /\ \A t \in Servers : server[t].state # "UNINITIALIZED" /\ t # s => i \notin Ids(t)
              /\ \A h \in Handlers : handler[h].state # "UNINITIALIZED" /\ handler[h].socket_id = i => i \in A
        BY <1>4, <2>1, <2>2, ServersSocketsAreItsOwn
    <2>8. \A j \in SocketIds :
              /\ status'[j] = IF j \in S THEN "AVAILABLE_FOR_ALLOCATION" ELSE status[j]
              /\ detached'[j] = (j \notin S /\ (j \in A \/ detached[j]))
              /\ sn_mr'[j] = IF j \in S THEN "NONE" ELSE sn_mr[j]
              /\ sn_port'[j] = IF j \in S THEN NoPort ELSE sn_port[j]
              /\ sn_opt'[j] = IF j \in S THEN NoOption ELSE sn_opt[j]
              /\ sn_imr'[j] = IF j \in S THEN NoMask ELSE sn_imr[j]
              /\ sn_sr'[j] = IF j \in S THEN "CLOSED" ELSE sn_sr[j]
        BY <2>5 DEF DeallocateAndDetach, DetachedAfter
    <2>9. T \in SUBSET SocketIds /\ TouchesOnly(T)
        <3>1. \A j \in SocketIds \ T : detached'[j] = detached[j]
            BY <2>6, <2>8 DEF TypeOK, SocketsTypeOK
        <3>. QED BY <2>6, <2>8, <3>1 DEF TouchesOnly
    <2>10. \A i \in T : UnusedIsReset(i)'
        BY <2>6, <2>7, <2>8 DEF UnusedIsReset, Reset
    <2>11. ClientsFit(T) /\ UdpSocketsFit(T)
        BY <2>7 DEF ClientsFit, UdpSocketsFit
    <2>12. ServersFit(T)
        BY <1>1, <2>7 DEF ServersFit, ServerFits
    <2>13. HandlersFit(T)
        <3> SUFFICES ASSUME NEW h \in Handlers
                     PROVE  HandlerFits(h)' \/ \E g \in Handlers :
                                /\ handler[g].state # "UNINITIALIZED"
                                /\ handler'[h].socket_id = handler[g].socket_id
                                /\ handler[g].socket_id \notin T
            BY DEF HandlersFit
        <3>1. CASE handler[h].state = "UNINITIALIZED"
            BY <3>1 DEF HandlerFits
        <3>2. CASE handler[h].state # "UNINITIALIZED" /\ handler[h].socket_id \notin T
            BY <3>2
        <3>3. CASE handler[h].state # "UNINITIALIZED" /\ handler[h].socket_id \in T
            <4>1. handler[h].socket_id \in SocketIds /\ handler[h].socket_id \notin S
                BY <2>3, <2>6, <2>7, <3>3
            <4>2. HandlerFits(h)
                BY DEF RegistersInv
            <4>. QED BY <2>8, <3>3, <4>1, <4>2 DEF HandlerFits, Bound
        <3>. QED BY <3>1, <3>2, <3>3
    <2>14. GivenBack(S)
        <3>1. \A j \in SocketIds : /\ sn_mr'[j] = IF j \in S THEN "NONE" ELSE sn_mr[j]
                                   /\ j \notin S => sn_port'[j] = sn_port[j]
                                   /\ j \notin S => (detached[j] => detached'[j])
            BY <2>8
        <3>2. \A j \in Ids(s) \ S : detached'[j]
            BY <2>2, <2>3, <2>6, <2>8
        <3>. QED BY <1>2, <3>1, <3>2 DEF GivenBack
    <2>15. PortsInv /\ ServerFits(s)
        BY DEF RegistersInv
    <2>16. S \in SUBSET SocketIds
        BY <2>6
    <2>17. CASE server[s].state = "INITIALIZED"
        <3>1. held' = held /\ \A i \in S : sn_mr[i] = "NONE"
            BY <2>2, <2>5, <2>6, <2>15, <2>17 DEF ServerFits, Reset
        <3>2. PortsInv'
            BY <3>1, <2>14, <2>15, <2>16, GivingBackWithoutPort
        <3>. QED BY <2>9, <2>10, <2>11, <2>12, <2>13, <3>2, StepKeepsRegisters
    <2>18. CASE server[s].state # "INITIALIZED"
        <3>1. \A i \in T : sn_mr[i] = "TCP" /\ sn_port[i] = sn_port[front]
            <4>1. server[s].state \in {"BOUND", "LISTENING"}
                BY <1>4, <2>18 DEF TypeOK, ServerTypeOK, Server_State
            <4>. QED BY <1>4, <4>1, <2>2, <2>6, <2>15 DEF ServerFits, Bound, SameRegisters
        <3>2. CASE A # {}
            <4>1. held' = held
                BY <2>5, <3>2
            <4>2. \A i \in S : \E j \in SocketIds \ S : sn_mr[j] = sn_mr[i] /\ sn_port[j] = sn_port[i]
                BY <2>3, <2>6, <3>1, <3>2
            <4>3. PortsInv'
                BY <4>1, <4>2, <2>14, <2>15, <2>16, GivingBackWithoutPort
            <4>. QED BY <2>9, <2>10, <2>11, <2>12, <2>13, <4>3, StepKeepsRegisters
        <3>3. CASE A = {}
            <4>1. DeallocatePort("TCP", sn_port[front]) /\ S = T
                BY <2>3, <2>5, <2>18, <3>3
            <4>2. \A j \in SocketIds \ S : ~(sn_mr[j] = "TCP" /\ sn_port[j] = sn_port[front])
                <5> SUFFICES ASSUME NEW j \in SocketIds, j \notin T, sn_mr[j] = "TCP", sn_port[j] = sn_port[front]
                             PROVE  FALSE
                    BY <4>1
                <5>1. j # front /\ front \in SocketIds /\ sn_mr[front] = "TCP" /\ ~detached[front]
                    BY <2>6, <2>7, <3>1
                <5>2. PICK t \in Servers : server[t].state # "UNINITIALIZED" /\ j \in Ids(t) /\ front \in Ids(t)
                    BY <5>1, <2>15 DEF PortsInv, SharedByServer
                <5>. QED BY <5>2, <2>2, <2>6, <2>7
            <4>3. S # {} /\ \A i \in S : sn_mr[i] = "TCP" /\ sn_port[i] = sn_port[front]
                BY <4>1, <2>6, <3>1
            <4>4. PortsInv'
                BY <4>1, <4>2, <4>3, <2>14, <2>15, <2>16, GivingBackWithPort
            <4>. QED BY <2>9, <2>10, <2>11, <2>12, <2>13, <4>4, StepKeepsRegisters
        <3>. QED BY <3>2, <3>3
    <2>. QED BY <2>17, <2>18
<1>. QED BY <1>3, <1>4

LEMMA ServerNextKeepsRegisters ==
    ASSUME TypeOK, OwnersInv, RegistersInv, ~MoveWithHandlers, ServerNext, UNCHANGED <<client, udp>>
    PROVE  RegistersInv'
<1>1. ASSUME NEW s \in Servers,
             \/ \E i \in SocketIds : MakeServer(s, i)
             \/ \E ids \in IdLists : MakeServerWith(s, ids)
      PROVE  RegistersInv'
    BY <1>1, MakeServerKeepsRegisters
<1>2. ASSUME NEW s \in Servers,
             \/ \E option \in Options : ServerConfigure(s, option)
             \/ \E mask \in Masks : ServerSetInterrupts(s, mask)
             \/ \E port \in Ports : ServerBind(s, port)
      PROVE  RegistersInv'
    BY <1>2, ServerStaysKeepsRegisters
<1>3. ASSUME NEW s \in Servers, NEW backlog \in 0..SOCKETS, ServerListen(s, backlog) PROVE RegistersInv'
    BY <1>3, ServerListenKeepsRegisters
<1>4. CASE AcceptStep \/ AcceptWouldBlock \/ \E s \in Servers, h \in Handlers : AcceptBegin(s, h)
    BY <1>4, AcceptKeepsRegisters
<1>5. ASSUME NEW s \in Servers, ServerClose(s) PROVE RegistersInv'
    BY <1>5, ServerCloseReleases, ServerReleaseKeepsRegisters
<1>6. ASSUME NEW s \in Servers, NEW t \in Servers, ServerMove(s, t) PROVE RegistersInv'
    BY <1>6, ServerMoveReleases, ServerReleaseKeepsRegisters
<1>7. ASSUME NEW h \in Handlers, HandlerShutdown(h) PROVE RegistersInv'
    BY <1>7, HandlerShutdownKeepsRegisters
<1>8. ASSUME NEW h \in Handlers, HandlerClose(h) PROVE RegistersInv'
    BY <1>8, HandlerCloseReleases, HandlerReleaseKeepsRegisters
<1>9. ASSUME NEW h \in Handlers, NEW g \in Handlers, HandlerMove(g, h) PROVE RegistersInv'
    BY <1>9, HandlerMoveReleases, HandlerReleaseKeepsRegisters
<1>. QED BY <1>1, <1>2, <1>3, <1>4, <1>5, <1>6, <1>7, <1>8, <1>9 DEF ServerNext

LEMMA InitializeKeepsRegisters ==
    ASSUME TypeOK, OwnersInv, RegistersInv, NEW size \in BufferSizes, Initialize(size),
           UNCHANGED <<client, serverVars, udp>>
    PROVE  RegistersInv'
<1>1. PICK n \in 1..SOCKETS : n = MEMORY \div size
    BY BufferSizesAssumption
<1>2. /\ sockets = 0
      /\ status' = [i \in SocketIds |-> IF i < n THEN "AVAILABLE_FOR_ALLOCATION" ELSE status[i]]
      /\ UNCHANGED <<detached, registers, held, client, server, handler, udp>>
    BY <1>1 DEF Initialize, serverVars
<1>3. \A i \in SocketIds : status[i] # "ALLOCATED" /\ status'[i] # "ALLOCATED"
    BY <1>2, SocketsAssumption DEF OwnersInv, Pool, SocketIds
<1> DEFINE T == {}
<1>4. T \in SUBSET SocketIds /\ TouchesOnly(T) /\ \A i \in T : UnusedIsReset(i)'
    BY <1>2, <1>3 DEF TouchesOnly, registers
<1>5. ClientsFit(T) /\ UdpSocketsFit(T) /\ ServersFit(T) /\ HandlersFit(T)
    BY <1>2, HandlersStayFit DEF ClientsFit, UdpSocketsFit, ServersFit
<1>6. PortsInv'
    BY <1>2, PortsUnchanged DEF RegistersInv, registers
<1> HIDE DEF T
<1>. QED BY <1>4, <1>5, <1>6, StepKeepsRegisters

LEMMA StutterKeepsRegisters ==
    ASSUME TypeOK, OwnersInv, RegistersInv, UNCHANGED vars
    PROVE  RegistersInv'
<1> DEFINE T == {}
<1>1. UNCHANGED <<stackVars, registers, held, client, server, handler, udp>>
    BY DEF vars, socketVars, serverVars
<1>2. T \in SUBSET SocketIds /\ TouchesOnly(T) /\ \A i \in T : UnusedIsReset(i)'
    BY <1>1 DEF TouchesOnly, registers, stackVars
<1>3. ClientsFit(T) /\ UdpSocketsFit(T) /\ ServersFit(T) /\ HandlersFit(T)
    BY <1>1, HandlersStayFit DEF ClientsFit, UdpSocketsFit, ServersFit
<1>4. PortsInv'
    BY <1>1, PortsUnchanged DEF RegistersInv, registers, stackVars
<1> HIDE DEF T
<1>. QED BY <1>2, <1>3, <1>4, StepKeepsRegisters

LEMMA InitFitsRegisters == Init => RegistersInv
<1> SUFFICES ASSUME Init PROVE RegistersInv
    OBVIOUS
<1>1. /\ \A i \in SocketIds : sn_mr[i] = "NONE" /\ sn_port[i] = NoPort /\ sn_opt[i] = NoOption
                              /\ sn_imr[i] = NoMask /\ sn_sr[i] = "CLOSED" /\ ~detached[i]
      /\ \A c \in Clients : client[c].state = "UNINITIALIZED"
      /\ \A u \in UdpSockets : udp[u].state = "UNINITIALIZED"
      /\ \A s \in Servers : server[s].state = "UNINITIALIZED"
      /\ \A h \in Handlers : handler[h].state = "UNINITIALIZED"
      /\ held["TCP"] = {} /\ held["UDP"] = {}
    BY DEF Init, SocketsInit, ClientInit, ServerInit, UdpInit, NoServer
<1>2. PortsInv
    BY <1>1 DEF PortsInv, HeldInUse, SharedByServer, UdpPortsDiffer, port_is_in_use
<1>. QED BY <1>1, <1>2 DEF RegistersInv, UnusedIsReset, Reset, ClientFits, UdpFits, ServerFits, HandlerFits

LEMMA NextKeepsRegisters ==
    ASSUME TypeOK, OwnersInv, RegistersInv, ~MoveWithHandlers, [Next]_vars
    PROVE  RegistersInv'
<1>1. CASE \E size \in BufferSizes : Initialize(size) /\ UNCHANGED <<client, serverVars, udp>>
    BY <1>1, InitializeKeepsRegisters
<1>2. CASE \E i \in SocketIds : ChipStep(i) /\ UNCHANGED <<client, serverVars, udp>>
    BY <1>2, ChipStepKeepsRegisters
<1>3. CASE ClientNext /\ UNCHANGED <<serverVars, udp>>
    BY <1>3, ClientNextKeepsRegisters
<1>4. CASE ServerNext /\ UNCHANGED <<client, udp>>
    BY <1>4, ServerNextKeepsRegisters
<1>5. CASE UdpNext /\ UNCHANGED <<client, serverVars>>
    BY <1>5, UdpNextKeepsRegisters
<1>6. CASE UNCHANGED vars
    BY <1>6, StutterKeepsRegisters
<1>. QED BY <1>1, <1>2, <1>3, <1>4, <1>5, <1>6 DEF Next

-----------------------------------------------------------------------------
(* Every object and the chip agree, in every reachable state and for any   *)
(* number of sockets, ports and objects.                                   *)
THEOREM RegistersAreInvariant ==
    ASSUME ~MoveWithHandlers PROVE Spec => [](TypeOK /\ OwnersInv /\ RegistersInv)
<1>1. Init => TypeOK /\ OwnersInv /\ RegistersInv
    BY InitHasOwners, InitFitsRegisters
<1>2. TypeOK /\ OwnersInv /\ RegistersInv /\ [Next]_vars => (TypeOK /\ OwnersInv /\ RegistersInv)'
    BY NextKeepsOwners, NextKeepsRegisters
<1>. QED BY <1>1, <1>2, PTL DEF Spec

(* A socket that can be allocated carries nothing of its former owner over *)
(* to the next: deallocate_socket() after any close() or move assignment.  *)
THEOREM SocketsAreGivenBackReset ==
    ASSUME ~MoveWithHandlers PROVE Spec => []FreeSocketsAreReset
<1>1. TypeOK /\ OwnersInv /\ RegistersInv => FreeSocketsAreReset
    BY DEF FreeSocketsAreReset, Free, RegistersInv, UnusedIsReset, Reset
<1>2. Spec => [](TypeOK /\ OwnersInv /\ RegistersInv)
    BY RegistersAreInvariant
<1>. QED BY <1>1, <1>2, PTL

(* A port is released once, by the last socket that uses it, and never     *)
(* while one does; and only the sockets of one server, or those it left    *)
(* behind, share a port (bind(), listen() and every close()).              *)
THEOREM PortsAreBalanced ==
    ASSUME ~MoveWithHandlers PROVE Spec => []PortsBalance
<1>1. TypeOK /\ OwnersInv /\ RegistersInv => PortsBalance
    <2> SUFFICES ASSUME TypeOK, RegistersInv PROVE PortsBalance
        OBVIOUS
    <2>1. ASSUME NEW p \in {"TCP", "UDP"} PROVE held[p] = {sn_port[i] : i \in {j \in SocketIds : sn_mr[j] = p}}
        <3>1. held[p] \subseteq Ports /\ \A i \in SocketIds : sn_port[i] \in Ports \cup {NoPort}
            BY DEF TypeOK, SocketsTypeOK
        <3>2. \A q \in Ports \cup {NoPort} : q \in held[p] <=> \E i \in SocketIds : sn_mr[i] = p /\ sn_port[i] = q
            BY DEF RegistersInv, PortsInv, HeldInUse, port_is_in_use
        <3>. QED BY <3>1, <3>2
    <2>2. ASSUME NEW i \in SocketIds, NEW j \in SocketIds, i # j, sn_mr[i] = "TCP", sn_mr[j] = "TCP",
                 sn_port[i] = sn_port[j]
          PROVE  (\E s \in LiveServers : {i, j} \subseteq Ids(s)) \/ (detached[i] /\ detached[j])
        BY <2>2 DEF RegistersInv, PortsInv, SharedByServer, LiveServers
    <2>. QED BY <2>1, <2>2 DEF PortsBalance
<1>2. Spec => [](TypeOK /\ OwnersInv /\ RegistersInv)
    BY RegistersAreInvariant
<1>. QED BY <1>1, <1>2, PTL

(* The state that a client, server, connection handler or UDP socket keeps *)
(* agrees with its hardware socket, and the sockets of a server are        *)
(* configured alike, those that listen() adds included.                    *)
THEOREM ObjectsAgreeWithChip ==
    ASSUME ~MoveWithHandlers PROVE Spec => []ObjectsMatchChip
<1>1. TypeOK /\ OwnersInv /\ RegistersInv => ObjectsMatchChip
    <2> SUFFICES ASSUME TypeOK, RegistersInv PROVE ObjectsMatchChip
        OBVIOUS
    <2>1. ASSUME NEW c \in LiveClients
          PROVE  /\ client[c].state = "INITIALIZED" => sn_sr[client[c].socket_id] = "CLOSED"
                 /\ client[c].state = "BOUND" => sn_sr[client[c].socket_id] = "INIT"
                 /\ client[c].state = "CONNECTED" => sn_sr[client[c].socket_id] \in Connected
        BY DEF LiveClients, RegistersInv, ClientFits, Reset
    <2>2. ASSUME NEW h \in LiveHandlers PROVE sn_sr[handler[h].socket_id] \in Connected
        BY DEF LiveHandlers, RegistersInv, HandlerFits
    <2>3. ASSUME NEW s \in LiveServers, NEW i \in Ids(s) \ server[s].allocated
          PROVE  /\ server[s].state = "BOUND" => sn_sr[i] = "INIT"
                 /\ server[s].state = "LISTENING" => sn_sr[i] \in Acceptable \cup {"LISTEN", "OPENING"}
        BY DEF LiveServers, RegistersInv, ServerFits
    <2>4. ASSUME NEW u \in LiveUdp PROVE udp[u].state = "BOUND" <=> sn_sr[udp[u].socket_id] = "UDP"
        BY DEF LiveUdp, RegistersInv, UdpFits, Reset, TypeOK, UdpTypeOK, Udp_State
    <2>5. ASSUME NEW s \in LiveServers, NEW i \in Ids(s), NEW j \in Ids(s)
          PROVE  <<sn_mr[i], sn_port[i], sn_opt[i], sn_imr[i]>> = <<sn_mr[j], sn_port[j], sn_opt[j], sn_imr[j]>>
        <3>1. SameRegisters(i, j)
            BY DEF LiveServers, RegistersInv, ServerFits
        <3>. QED BY <3>1 DEF SameRegisters
    <2>. QED BY <2>1, <2>2, <2>3, <2>4, <2>5 DEF ObjectsMatchChip, Connected
<1>2. Spec => [](TypeOK /\ OwnersInv /\ RegistersInv)
    BY RegistersAreInvariant
<1>. QED BY <1>1, <1>2, PTL

\* The only steps that end a listening server are its close() and a move
\* assignment to it or, when it has lent no socket, from it.
LEMMA ListeningEndsByRelease ==
    ASSUME TypeOK, OwnersInv, ~MoveWithHandlers, Next, NEW s \in Servers,
           server[s].state = "LISTENING", server'[s].state = "UNINITIALIZED"
    PROVE  server[s].allocated = {} \/ ServerReleased(s)
<1>1. CASE UNCHANGED server
    BY <1>1
<1>2. CASE ServerNext
    <2>1. ASSUME NEW t \in Servers,
                 \/ \E i \in SocketIds : MakeServer(t, i)
                 \/ \E ids \in IdLists : MakeServerWith(t, ids)
          PROVE  FALSE
        BY <2>1 DEF MakeServer, MakeServerWith, TypeOK, ServerTypeOK
    <2>2. ASSUME NEW t \in Servers,
                 \/ \E option \in Options : ServerConfigure(t, option)
                 \/ \E mask \in Masks : ServerSetInterrupts(t, mask)
                 \/ \E port \in Ports : ServerBind(t, port)
                 \/ \E backlog \in 0..SOCKETS : ServerListen(t, backlog)
                 \/ \E h \in Handlers : AcceptBegin(t, h)
          PROVE  FALSE
        BY <2>2 DEF ServerConfigure, ServerSetInterrupts, ServerBind, ServerListen, AcceptBegin, serverVars,
                    TypeOK, ServerTypeOK
    <2>3. CASE AcceptStep
        BY <2>3, AcceptStepDoes
    <2>4. CASE AcceptWouldBlock \/ \E h \in Handlers : HandlerShutdown(h)
        BY <2>4 DEF AcceptWouldBlock, HandlerShutdown, serverVars
    <2>5. ASSUME NEW h \in Handlers, HandlerClose(h) \/ \E g \in Handlers : HandlerMove(g, h) PROVE FALSE
        BY <2>5, HandlerCloseReleases, HandlerMoveReleases, HandlerReleasedFrees
    <2>6. ASSUME NEW t \in Servers, ServerClose(t) PROVE t = s /\ ServerReleased(s)
        BY <2>6 DEF ServerClose, ServerReleased, TypeOK, ServerTypeOK
    <2>7. ASSUME NEW t \in Servers, NEW r \in Servers, ServerMove(t, r)
          PROVE  server[s].allocated = {} \/ ServerReleased(s)
        <3>1. CASE s = t
            BY <2>7, <3>1 DEF ServerMove, ServerReleased
        <3>2. CASE s = r
            BY <2>7, <3>2 DEF ServerMove
        <3>3. CASE s # t /\ s # r
            BY <2>7, <3>3 DEF ServerMove, TypeOK, ServerTypeOK
        <3>. QED BY <3>1, <3>2, <3>3
    <2>. QED BY <1>2, <2>1, <2>2, <2>3, <2>4, <2>5, <2>6, <2>7 DEF ServerNext
<1>. QED BY <1>1, <1>2 DEF Next, serverVars

(* Closing a server, or moving another one into it, leaves the connections *)
(* of its handlers alone, and their port stays allocated (close() and the  *)
(* move assignment of Server, detach_tcp_server_connection_handler()).     *)
THEOREM ConnectionsSurviveTheirServer ==
    ASSUME ~MoveWithHandlers PROVE Spec => ConnectionsOutliveServer
<1>1. Spec => [](TypeOK /\ OwnersInv /\ RegistersInv)
    BY RegistersAreInvariant
<1>2. TypeOK /\ OwnersInv /\ RegistersInv /\ RegistersInv' /\ [Next]_vars =>
          [\A s \in Servers :
             (server[s].state = "LISTENING" /\ server'[s].state = "UNINITIALIZED") =>
                 \A i \in server[s].allocated :
                     /\ sn_sr'[i] = sn_sr[i]
                     /\ sn_port'[i] = sn_port[i]
                     /\ sn_port[i] \in held'["TCP"]]_vars
    <2> SUFFICES ASSUME TypeOK, OwnersInv, RegistersInv, RegistersInv', Next,
                        NEW s \in Servers, server[s].state = "LISTENING", server'[s].state = "UNINITIALIZED",
                        NEW i \in server[s].allocated
                 PROVE  /\ sn_sr'[i] = sn_sr[i]
                        /\ sn_port'[i] = sn_port[i]
                        /\ sn_port[i] \in held'["TCP"]
        OBVIOUS
    <2>1. DeallocateAndDetach(Ids(s) \ server[s].allocated, server[s].allocated)
        BY ListeningEndsByRelease DEF ServerReleased, ReleaseServerSockets
    <2>2. i \in SocketIds /\ i \in Ids(s) /\ i \notin Ids(s) \ server[s].allocated
        BY DEF OwnersInv, ServersOwn, TypeOK, ServerTypeOK
    <2>3. sn_sr'[i] = sn_sr[i] /\ sn_port'[i] = sn_port[i] /\ sn_mr'[i] = sn_mr[i]
        BY <2>1, <2>2 DEF DeallocateAndDetach
    <2>4. sn_mr[i] = "TCP" /\ sn_port[i] \in Ports
        BY <2>2 DEF RegistersInv, ServerFits, Bound
    <2>5. sn_port[i] \in held'["TCP"]
        BY <2>2, <2>3, <2>4 DEF RegistersInv, PortsInv, HeldInUse, port_is_in_use
    <2>. QED BY <2>3, <2>5
<1>. QED BY <1>1, <1>2, PTL DEF Spec, ConnectionsOutliveServer

-----------------------------------------------------------------------------
(* The round robin of accept().                                            *)

\* A list of n sockets, of which a is looked at next: how many steps ago, if
\* the scan was that long, j was looked at, and in how many steps it will be.
Behind(a, n, j) == IF j < a THEN a - j ELSE a - j + n
Ahead(a, n, j) == IF j < a THEN j - a + n ELSE j - a

\* The scan in progress: what waited when it began still waits, and is none
\* of the sockets that it looked at.
ScanFinds ==
    call # NoCall =>
        LET ids == server[call.server].ids
            a == server[call.server].accept_i
        IN
        /\ call.waiting \subseteq Waiting(call.server)
        /\ \A j \in 0..(Len(ids) - 1) : Behind(a, Len(ids), j) <= call.n => ids[j + 1] \notin call.waiting

\* A socket is passed over less often than there are sockets between it and
\* the one looked at next.
PassedInTurn ==
    \A s \in Servers : server[s].state = "LISTENING" =>
        \A j \in 0..(Len(server[s].ids) - 1) :
            passed[server[s].ids[j + 1]] + Ahead(server[s].accept_i, Len(server[s].ids), j) < Len(server[s].ids)

\* Only a connection that waits is passed over.
WaitingWhenPassed ==
    \A i \in SocketIds : passed[i] # 0 => \E s \in Servers : server[s].state = "LISTENING" /\ i \in Waiting(s)

TurnsInv == PassedInTurn /\ WaitingWhenPassed

AcceptInv == ScanFinds /\ TurnsInv

LEMMA RoundRobin ==
    ASSUME NEW n \in Nat, NEW a \in 0..(n - 1), NEW j \in 0..(n - 1),
           NEW b, b = IF a + 1 = n THEN 0 ELSE a + 1
    PROVE  /\ Ahead(a, n, j) \in 0..(n - 1)
           /\ Behind(a, n, j) \in 1..n
           /\ j # a => Ahead(b, n, j) = Ahead(a, n, j) - 1
           /\ j # a => Behind(b, n, j) = Behind(a, n, j) + 1
           /\ b \in 0..(n - 1)
BY DEF Ahead, Behind

LEMMA AcceptIndexInRange ==
    ASSUME NEW ids \in IdLists, NEW a \in SocketIds, a < Len(ids)
    PROVE  Len(ids) \in Nat /\ a \in 0..(Len(ids) - 1)
BY IdListsAreSequences, SocketsAssumption DEF SocketIds

\* The sockets of a listening server are of no other server.
LEMMA ListeningServersDiffer ==
    ASSUME OwnersInv, NEW s \in Servers, NEW t \in Servers, NEW i \in Ids(s), i \in Ids(t),
           server[s].state # "UNINITIALIZED", server[t].state # "UNINITIALIZED"
    PROVE  s = t
BY DEF OwnersInv, ServersOwn

\* A step that accepts nothing: the listening servers go on with the lists
\* they have, or have sockets that were not passed over; and a connection that
\* was passed over still waits.
LEMMA QuietStepKeepsTurns ==
    ASSUME TypeOK, TypeOK', OwnersInv', TurnsInv,
           \A i \in SocketIds : passed'[i] = passed[i] \/ passed'[i] = 0,
           \A t \in Servers : server'[t].state = "LISTENING" =>
               \/ \A i \in Ids(t)' : passed'[i] = 0
               \/ \E r \in Servers : /\ server[r].state = "LISTENING"
                                     /\ server'[t].ids = server[r].ids
                                     /\ server'[t].accept_i = server[r].accept_i,
           \A r \in Servers : server[r].state = "LISTENING" =>
               \A i \in Waiting(r) : passed'[i] = 0 \/
                   \E t \in Servers : server'[t].state = "LISTENING" /\ i \in Waiting(t)'
    PROVE  TurnsInv'
<1>1. PassedInTurn'
    <2> SUFFICES ASSUME NEW t \in Servers, server'[t].state = "LISTENING",
                        NEW j \in 0..(Len(server'[t].ids) - 1)
                 PROVE  passed'[server'[t].ids[j + 1]] + Ahead(server'[t].accept_i, Len(server'[t].ids), j)
                            < Len(server'[t].ids)
        BY DEF PassedInTurn
    <2>1. PICK n : n = Len(server'[t].ids)
        OBVIOUS
    <2>2. PICK a : a = server'[t].accept_i
        OBVIOUS
    <2>3. PICK i : i = server'[t].ids[j + 1]
        OBVIOUS
    <2>4. n \in Nat /\ a \in 0..(n - 1)
        BY <2>1, <2>2, AcceptIndexInRange DEF OwnersInv, ServerLists, TypeOK, ServerTypeOK
    <2>5. Ahead(a, n, j) \in 0..(n - 1)
        BY <2>1, <2>4, RoundRobin
    <2>6. i \in Ids(t)' /\ i \in SocketIds
        <3>1. server'[t].ids \in IdLists
            BY DEF TypeOK, ServerTypeOK
        <3>2. j + 1 \in 1..n /\ 1..n = DOMAIN server'[t].ids
            BY <2>1, <2>4, <3>1, IdListsAreSequences
        <3>3. server'[t].ids \in Seq(SocketIds)
            BY <3>1, IdListsAreSequences
        <3>. QED BY <2>1, <2>3, <3>2, <3>3 DEF Ids
    <2>7. CASE passed'[i] = 0
        BY <2>1, <2>2, <2>3, <2>4, <2>5, <2>7
    <2>8. CASE passed'[i] = passed[i] /\ passed'[i] # 0
        <3>1. PICK r \in Servers : /\ server[r].state = "LISTENING"
                                   /\ server'[t].ids = server[r].ids
                                   /\ server'[t].accept_i = server[r].accept_i
            BY <2>6, <2>8
        <3>2. passed[server[r].ids[j + 1]] + Ahead(server[r].accept_i, Len(server[r].ids), j) < Len(server[r].ids)
            BY <3>1 DEF TurnsInv, PassedInTurn
        <3>. QED BY <2>3, <2>8, <3>1, <3>2
    <2>. QED BY <2>6, <2>7, <2>8
<1>2. WaitingWhenPassed'
    <2> SUFFICES ASSUME NEW i \in SocketIds, passed'[i] # 0
                 PROVE  \E t \in Servers : server'[t].state = "LISTENING" /\ i \in Waiting(t)'
        BY DEF WaitingWhenPassed
    <2>1. PICK r \in Servers : server[r].state = "LISTENING" /\ i \in Waiting(r)
        BY DEF TurnsInv, WaitingWhenPassed
    <2>. QED BY <2>1
<1>. QED BY <1>1, <1>2 DEF TurnsInv

\* Steps of other objects.
LEMMA ElsewhereKeepsAccept ==
    ASSUME TypeOK, TypeOK', OwnersInv', AcceptInv, call' = NoCall, UNCHANGED serverVars,
           \A s \in Servers : server[s].state # "UNINITIALIZED" => \A i \in Ids(s) : sn_sr'[i] = sn_sr[i]
    PROVE  AcceptInv'
<1>1. \A s \in Servers : server[s].state # "UNINITIALIZED" => Waiting(s)' = Waiting(s)
    BY DEF Waiting, Ids, serverVars
<1>2. TurnsInv'
    BY <1>1 DEF serverVars, AcceptInv, TurnsInv, PassedInTurn, WaitingWhenPassed
<1>. QED BY <1>2 DEF AcceptInv, ScanFinds

LEMMA ClientNextKeepsAccept ==
    ASSUME TypeOK, OwnersInv, TypeOK', OwnersInv', AcceptInv, ClientNext, UNCHANGED <<serverVars, udp>>
    PROVE  AcceptInv'
<1> DEFINE Apart(i) == \A c \in Clients : client[c].state # "UNINITIALIZED" => client[c].socket_id # i
<1>1. call' = NoCall /\ \A i \in SocketIds : Apart(i) => sn_sr'[i] = sn_sr[i]
    <2> USE DEF Idle, registers, TypeOK, SocketsTypeOK
    <2>1. ASSUME NEW c \in Clients, \E i \in SocketIds : MakeClient(c, i) \/ MakeClientAt(c, i)
          PROVE  call' = NoCall /\ \A i \in SocketIds : Apart(i) => sn_sr'[i] = sn_sr[i]
        BY <2>1 DEF MakeClient, MakeClientAt
    <2>2. ASSUME NEW c \in Clients,
                 \/ \E option \in Options : ClientConfigure(c, option)
                 \/ \E mask \in Masks : ClientSetInterrupts(c, mask)
                 \/ \E port \in Ports : ClientBind(c, port)
                 \/ ClientConnect(c) \/ ClientConnected(c) \/ ClientShutdown(c)
          PROVE  call' = NoCall /\ \A i \in SocketIds : Apart(i) => sn_sr'[i] = sn_sr[i]
        BY <2>2 DEF ClientConfigure, ClientSetInterrupts, ClientBind, ClientConnect, ClientConnected,
                    ClientShutdown, Disconnect, socketVars
    <2>3. ASSUME NEW c \in Clients, ClientClose(c) \/ \E d \in Clients : ClientMove(c, d)
          PROVE  call' = NoCall /\ \A i \in SocketIds : Apart(i) => sn_sr'[i] = sn_sr[i]
        <3>1. call' = NoCall
            BY <2>3 DEF ClientClose, ClientMove
        <3>2. CASE sn_sr' = sn_sr
            BY <3>1, <3>2
        <3>3. CASE client[c].state # "UNINITIALIZED" /\ ReleaseClientSocket(c)
            <4>1. DeallocateAndDetach({client[c].socket_id}, {})
                BY <3>3 DEF ReleaseClientSocket, Deallocate
            <4>2. \A i \in SocketIds : i # client[c].socket_id => sn_sr'[i] = sn_sr[i]
                BY <4>1 DEF DeallocateAndDetach
            <4>. QED BY <2>3, <3>1, <3>3, <4>2
        <3>. QED BY <2>3, <3>2, <3>3 DEF ClientClose, ClientMove
    <2>. QED BY <2>1, <2>2, <2>3 DEF ClientNext
<1>2. \A s \in Servers : server[s].state # "UNINITIALIZED" => \A i \in Ids(s) : i \in SocketIds /\ Apart(i)
    BY ServersSocketsAreItsOwn
<1> HIDE DEF Apart
<1>. QED BY <1>1, <1>2, ElsewhereKeepsAccept

LEMMA UdpNextKeepsAccept ==
    ASSUME TypeOK, OwnersInv, TypeOK', OwnersInv', AcceptInv, UdpNext, UNCHANGED <<serverVars, client>>
    PROVE  AcceptInv'
<1> DEFINE Apart(i) == \A u \in UdpSockets : udp[u].state # "UNINITIALIZED" => udp[u].socket_id # i
<1>1. call' = NoCall /\ \A i \in SocketIds : Apart(i) => sn_sr'[i] = sn_sr[i]
    <2> USE DEF Idle, registers, TypeOK, SocketsTypeOK
    <2>1. ASSUME NEW u \in UdpSockets, \E i \in SocketIds : MakeUdp(u, i) \/ MakeUdpAt(u, i)
          PROVE  call' = NoCall /\ \A i \in SocketIds : Apart(i) => sn_sr'[i] = sn_sr[i]
        BY <2>1 DEF MakeUdp, MakeUdpAt
    <2>2. ASSUME NEW u \in UdpSockets,
                 \/ \E option \in Options : UdpConfigure(u, option)
                 \/ \E mask \in Masks : UdpSetInterrupts(u, mask)
                 \/ \E port \in Ports : UdpBind(u, port)
          PROVE  call' = NoCall /\ \A i \in SocketIds : Apart(i) => sn_sr'[i] = sn_sr[i]
        BY <2>2 DEF UdpConfigure, UdpSetInterrupts, UdpBind
    <2>3. ASSUME NEW u \in UdpSockets, UdpClose(u) \/ \E v \in UdpSockets : UdpMove(u, v)
          PROVE  call' = NoCall /\ \A i \in SocketIds : Apart(i) => sn_sr'[i] = sn_sr[i]
        <3>1. call' = NoCall
            BY <2>3 DEF UdpClose, UdpMove
        <3>2. CASE sn_sr' = sn_sr
            BY <3>1, <3>2
        <3>3. CASE udp[u].state # "UNINITIALIZED" /\ ReleaseUdpSocket(u)
            <4>1. DeallocateAndDetach({udp[u].socket_id}, {})
                BY <3>3 DEF ReleaseUdpSocket, Deallocate
            <4>2. \A i \in SocketIds : i # udp[u].socket_id => sn_sr'[i] = sn_sr[i]
                BY <4>1 DEF DeallocateAndDetach
            <4>. QED BY <2>3, <3>1, <3>3, <4>2
        <3>. QED BY <2>3, <3>2, <3>3 DEF UdpClose, UdpMove
    <2>. QED BY <2>1, <2>2, <2>3 DEF UdpNext
<1>2. \A s \in Servers : server[s].state # "UNINITIALIZED" => \A i \in Ids(s) : i \in SocketIds /\ Apart(i)
    BY ServersSocketsAreItsOwn
<1> HIDE DEF Apart
<1>. QED BY <1>1, <1>2, ElsewhereKeepsAccept

\* Steps of a server that none of its sockets' connections has a part in:
\* make_tcp_server(), the configuration, bind() and listen().
LEMMA ServerSetupKeepsAccept ==
    ASSUME TypeOK, OwnersInv, RegistersInv, TypeOK', OwnersInv', AcceptInv, NEW s \in Servers,
           \/ \E i \in SocketIds : MakeServer(s, i)
           \/ \E ids \in IdLists : MakeServerWith(s, ids)
           \/ \E option \in Options : ServerConfigure(s, option)
           \/ \E mask \in Masks : ServerSetInterrupts(s, mask)
           \/ \E port \in Ports : ServerBind(s, port)
           \/ \E backlog \in 0..SOCKETS : ServerListen(s, backlog)
    PROVE  AcceptInv'
<1>1. PICK new \in SUBSET Free :
          /\ server[s].state = "LISTENING" => server'[s] = server[s] /\ sn_sr' = sn_sr
          /\ server'[s].state = "LISTENING" => server[s].state = "LISTENING" \/ Ids(s)' = Ids(s) \cup new
          /\ server[s].state = "UNINITIALIZED" => server'[s].state # "LISTENING"
          /\ \A i \in SocketIds : i \notin Ids(s) \cup new => sn_sr'[i] = sn_sr[i]
          /\ \A t \in Servers \ {s} : server'[t] = server[t]
          /\ call' = NoCall /\ passed' = passed
    <2>1. CASE (\E i \in SocketIds : MakeServer(s, i)) \/ \E ids \in IdLists : MakeServerWith(s, ids)
        <3>1. PICK S : S = {}
            OBVIOUS
        <3>2. S \in SUBSET Free
            BY <3>1
        <3>3. /\ server[s].state = "UNINITIALIZED" /\ server'[s].state = "INITIALIZED"
              /\ \A t \in Servers \ {s} : server'[t] = server[t]
              /\ sn_sr' = sn_sr /\ call' = NoCall /\ passed' = passed
            <4>1. PICK ids : server' = [server EXCEPT ![s] = [NoServer EXCEPT !.state = "INITIALIZED", !.ids = ids]]
                BY <2>1 DEF MakeServer, MakeServerWith
            <4>2. server'[s].state = "INITIALIZED" /\ \A t \in Servers \ {s} : server'[t] = server[t]
                BY <4>1 DEF NoServer, TypeOK, ServerTypeOK
            <4>. QED BY <2>1, <4>2 DEF MakeServer, MakeServerWith, registers, Idle
        <3>. QED BY <3>2, <3>3
    <2>2. CASE \/ \E option \in Options : ServerConfigure(s, option)
               \/ \E mask \in Masks : ServerSetInterrupts(s, mask)
        <3>1. PICK S : S = {}
            OBVIOUS
        <3>2. S \in SUBSET Free
            BY <3>1
        <3>3. server' = server /\ sn_sr' = sn_sr /\ call' = NoCall /\ passed' = passed
            BY <2>2 DEF ServerConfigure, ServerSetInterrupts, serverVars, Idle
        <3>. QED BY <3>2, <3>3
    <2>3. CASE \E port \in Ports : ServerBind(s, port)
        <3>1. PICK S : S = {}
            OBVIOUS
        <3>2. S \in SUBSET Free
            BY <3>1
        <3>3. /\ server[s].state = "INITIALIZED" /\ server'[s].state = "BOUND"
              /\ \A t \in Servers \ {s} : server'[t] = server[t]
              /\ \A i \in SocketIds : i \notin Ids(s) \cup S => sn_sr'[i] = sn_sr[i]
              /\ call' = NoCall /\ passed' = passed
            BY <2>3 DEF ServerBind, Idle, TypeOK, ServerTypeOK
        <3>. QED BY <3>2, <3>3
    <2>4. CASE \E backlog \in 0..SOCKETS : ServerListen(s, backlog)
        <3>1. PICK S \in SUBSET Free :
                  /\ server[s].state = "BOUND"
                  /\ sn_sr' = [i \in SocketIds |-> IF i \in Ids(s) \cup S THEN "LISTEN" ELSE sn_sr[i]]
                  /\ \A t \in Servers \ {s} : server'[t] = server[t]
                  /\ Ids(s)' = Ids(s) \cup S
            BY <2>4, ServerListenDoes
        <3>2. call' = NoCall /\ passed' = passed
            BY <2>4 DEF ServerListen, Idle
        <3>. QED BY <3>1, <3>2
    <2>. QED BY <2>1, <2>2, <2>3, <2>4
<1>2. \A i \in new : \A t \in Servers : server[t].state # "UNINITIALIZED" => i \notin Ids(t)
    BY DEF Free, OwnersInv, ServersOwn
<1>3. \A t \in Servers : Ids(t) \subseteq SocketIds
    BY IdsAreSocketIds DEF TypeOK
<1>4. \A r \in Servers : server[r].state = "LISTENING" =>
          server'[r] = server[r] /\ \A i \in Ids(r) : sn_sr'[i] = sn_sr[i]
    <2> SUFFICES ASSUME NEW r \in Servers, server[r].state = "LISTENING"
                 PROVE  server'[r] = server[r] /\ \A i \in Ids(r) : sn_sr'[i] = sn_sr[i]
        OBVIOUS
    <2>1. CASE r = s
        BY <1>1, <2>1
    <2>2. CASE r # s
        <3>1. server[s].state = "UNINITIALIZED" => sn_sr' = sn_sr
            BY DEF MakeServer, MakeServerWith, registers, ServerConfigure, ServerSetInterrupts, ServerBind, ServerListen
        <3>2. \A i \in Ids(r) : i \in SocketIds /\ i \notin new
            BY <1>2, <1>3
        <3>3. server[s].state # "UNINITIALIZED" => \A i \in Ids(r) : i \notin Ids(s)
            BY <2>2, ListeningServersDiffer
        <3>. QED BY <1>1, <2>2, <3>1, <3>2, <3>3
    <2>. QED BY <2>1, <2>2
<1>5. \A r \in Servers : server[r].state = "LISTENING" => Waiting(r)' = Waiting(r)
    BY <1>4 DEF Waiting, Ids
<1>6. \A t \in Servers : server'[t].state = "LISTENING" =>
          \/ \A i \in Ids(t)' : passed'[i] = 0
          \/ \E r \in Servers : /\ server[r].state = "LISTENING"
                                /\ server'[t].ids = server[r].ids
                                /\ server'[t].accept_i = server[r].accept_i
    <2> SUFFICES ASSUME NEW t \in Servers, server'[t].state = "LISTENING", server[t].state # "LISTENING"
                 PROVE  \A i \in Ids(t)' : passed'[i] = 0
        BY <1>4
    <2>1. t = s /\ server[s].state # "UNINITIALIZED" /\ Ids(s)' = Ids(s) \cup new
        BY <1>1
    <2>2. \A i \in Ids(s) \cup new : i \in SocketIds /\ passed[i] = 0
        <3> SUFFICES ASSUME NEW i \in Ids(s) \cup new PROVE i \in SocketIds /\ passed[i] = 0
            OBVIOUS
        <3>1. i \in SocketIds
            BY <1>3 DEF Free
        <3>2. ASSUME NEW r \in Servers, server[r].state = "LISTENING", i \in Waiting(r) PROVE FALSE
            <4>1. i \in Ids(r)
                BY <3>2 DEF Waiting
            <4>. QED BY <1>2, <2>1, <3>2, <4>1, ListeningServersDiffer
        <3>. QED BY <3>1, <3>2 DEF AcceptInv, TurnsInv, WaitingWhenPassed
    <2>. QED BY <1>1, <2>1, <2>2
<1>7. TurnsInv'
    <2>1. \A r \in Servers : server[r].state = "LISTENING" =>
              \A i \in Waiting(r) : passed'[i] = 0 \/
                  \E t \in Servers : server'[t].state = "LISTENING" /\ i \in Waiting(t)'
        BY <1>4, <1>5
    <2>. QED BY <1>1, <1>6, <2>1, QuietStepKeepsTurns DEF AcceptInv
<1>. QED BY <1>1, <1>7 DEF AcceptInv, ScanFinds

\* A connection that comes or goes.
LEMMA ConnectionStepKeepsAccept ==
    ASSUME TypeOK, OwnersInv, TypeOK', OwnersInv', AcceptInv, UNCHANGED <<serverVars, call>>,
           \A s \in Servers : server[s].state = "LISTENING" => Waiting(s) \subseteq Waiting(s)'
    PROVE  AcceptInv'
<1>1. TurnsInv'
    <2>1. \A t \in Servers : server'[t].state = "LISTENING" =>
              \E r \in Servers : /\ server[r].state = "LISTENING"
                                 /\ server'[t].ids = server[r].ids
                                 /\ server'[t].accept_i = server[r].accept_i
        BY DEF serverVars
    <2>2. \A r \in Servers : server[r].state = "LISTENING" =>
              \A i \in Waiting(r) : \E t \in Servers : server'[t].state = "LISTENING" /\ i \in Waiting(t)'
        BY DEF serverVars
    <2>3. passed' = passed
        BY DEF serverVars
    <2>. QED BY <2>1, <2>2, <2>3, QuietStepKeepsTurns DEF AcceptInv
<1>2. ScanFinds'
    <2> SUFFICES ASSUME call # NoCall PROVE ScanFinds'
        BY DEF ScanFinds
    <2>1. PICK s : s = call.server
        OBVIOUS
    <2>2. s \in Servers /\ server[s].state = "LISTENING"
        BY <2>1 DEF OwnersInv, CallInProgress, TypeOK, ServerTypeOK
    <2>3. call.waiting \subseteq Waiting(s)'
        BY <2>1, <2>2 DEF AcceptInv, ScanFinds
    <2>4. call'.server = s /\ call'.waiting = call.waiting /\ call'.n = call.n /\ server' = server
        BY <2>1 DEF serverVars
    <2>. QED BY <2>1, <2>3, <2>4 DEF AcceptInv, ScanFinds
<1>. QED BY <1>1, <1>2 DEF AcceptInv

LEMMA ChipStepKeepsAccept ==
    ASSUME TypeOK, OwnersInv, TypeOK', OwnersInv', AcceptInv, NEW i \in SocketIds, ChipStep(i),
           UNCHANGED <<client, serverVars, udp>>
    PROVE  AcceptInv'
<1>1. call' = call
    BY DEF ChipStep
<1>2. \A j \in SocketIds : sn_sr[j] \in Acceptable => sn_sr'[j] \in Acceptable
    BY DEF ChipStep, Connection_Steps, Acceptable, TypeOK, SocketsTypeOK
<1>3. \A s \in Servers : Waiting(s) \subseteq Waiting(s)'
    BY <1>2, IdsAreSocketIds DEF Waiting, serverVars, Ids, TypeOK
<1>. QED BY <1>1, <1>3, ConnectionStepKeepsAccept

LEMMA HandlerShutdownKeepsAccept ==
    ASSUME TypeOK, OwnersInv, TypeOK', OwnersInv', AcceptInv, NEW h \in Handlers, HandlerShutdown(h)
    PROVE  AcceptInv'
<1>1. PICK i : i = handler[h].socket_id
    OBVIOUS
<1>2. handler[h].state # "UNINITIALIZED" /\ UNCHANGED <<serverVars, call>>
    BY DEF HandlerShutdown
<1>3. \A s \in Servers : server[s].state = "LISTENING" => i \notin Waiting(s)
    BY <1>1, <1>2, ServersSocketsAreItsOwn DEF Waiting
<1>4. \A j \in SocketIds : j # i => sn_sr'[j] = sn_sr[j]
    BY <1>1 DEF HandlerShutdown, Disconnect, TypeOK, SocketsTypeOK
<1>5. \A s \in Servers : server[s].state = "LISTENING" => Waiting(s) \subseteq Waiting(s)'
    BY <1>2, <1>3, <1>4, IdsAreSocketIds DEF Waiting, serverVars, Ids, TypeOK
<1>. QED BY <1>2, <1>5, ConnectionStepKeepsAccept

\* A handler or a server that gives its sockets back.
LEMMA HandlerReleaseKeepsAccept ==
    ASSUME TypeOK, OwnersInv, TypeOK', OwnersInv', AcceptInv, NEW g \in Handlers, HandlerReleased(g),
           Idle, UNCHANGED <<call, passed>>
    PROVE  AcceptInv'
<1>1. PICK i : i = handler[g].socket_id
    OBVIOUS
<1>2. \A t \in Servers : /\ server'[t].state = server[t].state
                         /\ server'[t].ids = server[t].ids
                         /\ server'[t].accept_i = server[t].accept_i
                         /\ server[t].state # "UNINITIALIZED" => server'[t].allocated \subseteq server[t].allocated
    BY HandlerReleasedFrees
<1>3. \A j \in SocketIds : sn_sr'[j] = sn_sr[j] \/ (handler[g].state # "UNINITIALIZED" /\ j = i)
    <2>1. CASE handler[g].state = "UNINITIALIZED"
        BY <2>1 DEF HandlerReleased, registers
    <2>2. CASE handler[g].state # "UNINITIALIZED" /\ detached[i]
        <3>1. DeallocateAndDetach({i}, {})
            BY <1>1, <2>2 DEF HandlerReleased, ReleaseHandlerSocket, ReleaseDetachedSocket, Deallocate
        <3>. QED BY <2>2, <3>1 DEF DeallocateAndDetach
    <2>3. CASE handler[g].state # "UNINITIALIZED" /\ ~detached[i]
        <3>1. sn_sr' = [sn_sr EXCEPT ![i] = "LISTEN"] \/ sn_sr' = sn_sr
            BY <1>1, <2>3 DEF HandlerReleased, ReleaseHandlerSocket, ServerDeallocateSocket
        <3>. QED BY <2>3, <3>1 DEF TypeOK, SocketsTypeOK
    <2>. QED BY <2>1, <2>2, <2>3
<1>4. \A t \in Servers : server[t].state # "UNINITIALIZED" /\ handler[g].state # "UNINITIALIZED" => i \notin Waiting(t)
    BY <1>1, ServersSocketsAreItsOwn DEF Waiting
<1>5. \A t \in Servers : server[t].state # "UNINITIALIZED" => Waiting(t) \subseteq Waiting(t)'
    BY <1>2, <1>3, <1>4, IdsAreSocketIds DEF Waiting, Ids, TypeOK
<1>6. TurnsInv'
    <2>1. \A t \in Servers : server'[t].state = "LISTENING" =>
              \E r \in Servers : /\ server[r].state = "LISTENING"
                                 /\ server'[t].ids = server[r].ids
                                 /\ server'[t].accept_i = server[r].accept_i
        BY <1>2
    <2>2. \A r \in Servers : server[r].state = "LISTENING" =>
              \A j \in Waiting(r) : \E t \in Servers : server'[t].state = "LISTENING" /\ j \in Waiting(t)'
        BY <1>2, <1>5
    <2>. QED BY <2>1, <2>2, QuietStepKeepsTurns DEF AcceptInv
<1>. QED BY <1>6 DEF AcceptInv, ScanFinds, Idle

LEMMA ServerReleaseKeepsAccept ==
    ASSUME TypeOK, OwnersInv, TypeOK', OwnersInv', AcceptInv, NEW s \in Servers, ServerReleased(s),
           OtherServersKeep(s), Idle, UNCHANGED call
    PROVE  AcceptInv'
<1>1. /\ \A i \in SocketIds : passed'[i] = passed[i] \/ passed'[i] = 0
      /\ server[s].state # "UNINITIALIZED" => \A i \in Ids(s) : passed'[i] = 0
      /\ \A i \in SocketIds : server[s].state = "UNINITIALIZED" \/ i \notin Ids(s) => sn_sr'[i] = sn_sr[i]
    BY IdsAreSocketIds DEF ServerReleased, ReleaseServerSockets, DeallocateAndDetach, registers, TypeOK
<1>2. \A t \in Servers : server'[t].state = "LISTENING" =>
          \E r \in Servers : server[r].state = "LISTENING" /\ server'[t] = server[r]
    BY DEF OtherServersKeep
<1>3. ASSUME NEW r \in Servers, server[r].state = "LISTENING", NEW i \in Waiting(r)
      PROVE  passed'[i] = 0 \/ \E t \in Servers : server'[t].state = "LISTENING" /\ i \in Waiting(t)'
    <2>1. CASE r = s
        BY <1>1, <1>3, <2>1 DEF Waiting
    <2>2. CASE r # s
        <3>1. PICK t \in Servers : server'[t].state # "UNINITIALIZED" /\ server'[t] = server[r]
            BY <1>3, <2>2 DEF OtherServersKeep
        <3>2. Ids(t)' = Ids(r) /\ i \in Ids(r) /\ i \in SocketIds
            BY <3>1, IdsAreSocketIds DEF Ids, Waiting, TypeOK
        <3>3. server[s].state = "UNINITIALIZED" \/ i \notin Ids(s)
            BY <1>3, <2>2, <3>2, ListeningServersDiffer
        <3>4. sn_sr'[i] = sn_sr[i]
            BY <1>1, <3>2, <3>3
        <3>. QED BY <1>3, <3>1, <3>2, <3>4 DEF Waiting
    <2>. QED BY <2>1, <2>2
<1>4. TurnsInv'
    <2>1. \A t \in Servers : server'[t].state = "LISTENING" =>
              \E r \in Servers : /\ server[r].state = "LISTENING"
                                 /\ server'[t].ids = server[r].ids
                                 /\ server'[t].accept_i = server[r].accept_i
        BY <1>2
    <2>. QED BY <1>1, <1>3, <2>1, QuietStepKeepsTurns DEF AcceptInv
<1>. QED BY <1>4 DEF AcceptInv, ScanFinds, Idle

\* accept(): the socket looked at is lent, or the scan goes on.
LEMMA AcceptStepKeepsAccept ==
    ASSUME TypeOK, OwnersInv, TypeOK', OwnersInv', AcceptInv, AcceptStep
    PROVE  AcceptInv'
<1>1. PICK s : s = call.server
    OBVIOUS
<1>2. PICK h : h = call.handler
    OBVIOUS
<1>3. PICK ids : ids = server[s].ids
    OBVIOUS
<1>4. PICK n : n = Len(ids)
    OBVIOUS
<1>5. PICK a : a = server[s].accept_i
    OBVIOUS
<1>6. PICK i : i = ids[a + 1]
    OBVIOUS
<1>7. PICK b : b = NextIndex(s)
    OBVIOUS
<1>8. /\ s \in Servers /\ i \in Ids(s) /\ i \in SocketIds
      /\ call # NoCall /\ call.n \in Nat
      /\ server[s].state = "LISTENING"
      /\ sn_sr' = sn_sr
      /\ \A t \in Servers : /\ Ids(t)' = Ids(t)
                            /\ server'[t].ids = server[t].ids
                            /\ server'[t].state = server[t].state
                            /\ t # s => server'[t] = server[t]
      /\ server'[s].accept_i = b
    BY <1>1, <1>2, <1>3, <1>5, <1>6, <1>7, AcceptStepDoes DEF registers
<1>9. i \in Waiting(s) =>
          /\ server'[s].allocated = server[s].allocated \cup {i}
          /\ passed' = [j \in SocketIds |-> IF j \in Waiting(s) \ {i} THEN passed[j] + 1
                                            ELSE IF j \in Ids(s) THEN 0 ELSE passed[j]]
          /\ call' = NoCall
    BY <1>1, <1>2, <1>3, <1>5, <1>6, AcceptStepDoes
<1>10. i \notin Waiting(s) =>
          /\ server'[s].allocated = server[s].allocated
          /\ passed' = passed
          /\ call'.server = s /\ call'.n = call.n + 1 /\ call'.waiting = call.waiting
    BY <1>1, <1>2, <1>3, <1>5, <1>6, AcceptStepDoes
<1>11. n \in Nat /\ a \in 0..(n - 1) /\ b = (IF a + 1 = n THEN 0 ELSE a + 1) /\ b \in 0..(n - 1)
    BY <1>3, <1>4, <1>5, <1>7, <1>8, NextIndexIsNext
<1>12. \A j \in 0..(n - 1) : ids[j + 1] \in Ids(s) /\ ids[j + 1] \in SocketIds
    BY <1>3, <1>4, <1>8, <1>11, IdsAreSocketIds DEF TypeOK
<1>13. passed \in [SocketIds -> Nat]
    BY DEF TypeOK, ServerTypeOK
<1>14. i \notin Waiting(s) => passed[i] = 0
    <2> SUFFICES ASSUME i \notin Waiting(s), NEW r \in Servers, server[r].state = "LISTENING", i \in Waiting(r)
                 PROVE  FALSE
        BY <1>8 DEF AcceptInv, TurnsInv, WaitingWhenPassed
    <2>1. i \in Ids(r)
        BY DEF Waiting
    <2>. QED BY <1>8, <2>1, ListeningServersDiffer
<1>15. \A j \in 0..(n - 1) : passed[ids[j + 1]] + Ahead(a, n, j) < n
    BY <1>3, <1>4, <1>5, <1>8 DEF AcceptInv, TurnsInv, PassedInTurn
<1>16. \A j \in 0..(n - 1) : passed'[ids[j + 1]] + Ahead(b, n, j) < n
    <2> SUFFICES ASSUME NEW j \in 0..(n - 1) PROVE passed'[ids[j + 1]] + Ahead(b, n, j) < n
        OBVIOUS
    <2>1. PICK k : k = ids[j + 1]
        OBVIOUS
    <2>2. k \in SocketIds /\ k \in Ids(s) /\ passed[k] \in Nat /\ passed[k] + Ahead(a, n, j) < n
        BY <1>12, <1>13, <1>15, <2>1
    <2>3. Ahead(b, n, j) \in 0..(n - 1) /\ Ahead(a, n, j) \in 0..(n - 1)
        BY <1>11, RoundRobin
    <2>4. j # a => Ahead(b, n, j) = Ahead(a, n, j) - 1
        BY <1>11, RoundRobin
    <2>5. passed'[k] = 0 \/ (j # a /\ passed'[k] \in {passed[k], passed[k] + 1})
        <3>1. k # i => j # a
            BY <1>6, <2>1
        <3>2. CASE i \in Waiting(s)
            BY <1>9, <2>2, <3>1, <3>2
        <3>3. CASE i \notin Waiting(s)
            BY <1>6, <1>10, <1>14, <2>1, <3>3
        <3>. QED BY <3>2, <3>3
    <2>6. passed'[k] + Ahead(b, n, j) < n
        BY <1>11, <2>2, <2>3, <2>4, <2>5
    <2>. QED BY <2>1, <2>6
<1>17. ASSUME NEW t \in Servers, t # s, server[t].state # "UNINITIALIZED", NEW k \in Ids(t)
       PROVE  k \in SocketIds /\ k \notin Ids(s) /\ passed'[k] = passed[k]
    <2>1. k \in SocketIds /\ k \notin Ids(s)
        BY <1>8, <1>17, IdsAreSocketIds, ListeningServersDiffer DEF TypeOK
    <2>. QED BY <1>9, <1>10, <2>1 DEF Waiting
<1>18. PassedInTurn'
    <2> SUFFICES ASSUME NEW t \in Servers, server'[t].state = "LISTENING",
                        NEW j \in 0..(Len(server'[t].ids) - 1)
                 PROVE  passed'[server'[t].ids[j + 1]] + Ahead(server'[t].accept_i, Len(server'[t].ids), j)
                            < Len(server'[t].ids)
        BY DEF PassedInTurn
    <2>1. CASE t = s
        BY <1>3, <1>4, <1>8, <1>16, <2>1
    <2>2. CASE t # s
        <3>1. server'[t] = server[t] /\ server[t].state = "LISTENING"
            BY <1>8, <2>2
        <3>2. server[t].ids[j + 1] \in Ids(t)
            <4>1. Len(server[t].ids) \in Nat
                BY IdListsAreSequences, SocketsAssumption DEF TypeOK, ServerTypeOK
            <4>. QED BY <3>1, <4>1, IdsAreSocketIds DEF TypeOK
        <3>3. passed[server[t].ids[j + 1]] + Ahead(server[t].accept_i, Len(server[t].ids), j) < Len(server[t].ids)
            BY <3>1 DEF AcceptInv, TurnsInv, PassedInTurn
        <3>. QED BY <1>17, <2>2, <3>1, <3>2, <3>3
    <2>. QED BY <2>1, <2>2
<1>19. WaitingWhenPassed'
    <2> SUFFICES ASSUME NEW k \in SocketIds, passed'[k] # 0
                 PROVE  \E t \in Servers : server'[t].state = "LISTENING" /\ k \in Waiting(t)'
        BY DEF WaitingWhenPassed
    <2>1. ASSUME NEW r \in Servers, server[r].state = "LISTENING", k \in Waiting(r), k \notin Ids(s)
          PROVE  server'[r].state = "LISTENING" /\ k \in Waiting(r)'
        BY <1>8, <2>1 DEF Waiting
    <2>2. CASE k \in Ids(s)
        <3>1. k \in Waiting(s) /\ (i \in Waiting(s) => k # i)
            <4>1. CASE i \in Waiting(s)
                BY <1>9, <2>2, <4>1
            <4>2. CASE i \notin Waiting(s)
                <5>1. PICK r \in Servers : server[r].state = "LISTENING" /\ k \in Waiting(r)
                    BY <1>10, <4>2 DEF AcceptInv, TurnsInv, WaitingWhenPassed
                <5>2. r = s
                    BY <1>8, <2>2, <5>1, ListeningServersDiffer DEF Waiting
                <5>. QED BY <4>2, <5>1, <5>2
            <4>. QED BY <4>1, <4>2
        <3>2. k \in Waiting(s)'
            BY <1>8, <1>9, <1>10, <3>1 DEF Waiting
        <3>. QED BY <1>8, <3>2
    <2>3. CASE k \notin Ids(s)
        <3>1. passed'[k] = passed[k]
            BY <1>9, <1>10, <2>3 DEF Waiting
        <3>. QED BY <2>1, <2>3, <3>1 DEF AcceptInv, TurnsInv, WaitingWhenPassed
    <2>. QED BY <2>2, <2>3
<1>20. ScanFinds'
    <2>1. CASE i \in Waiting(s)
        BY <1>9, <2>1 DEF ScanFinds
    <2>2. CASE i \notin Waiting(s)
        <3>1. /\ call.waiting \subseteq Waiting(s)
              /\ \A j \in 0..(n - 1) : Behind(a, n, j) <= call.n => ids[j + 1] \notin call.waiting
            BY <1>1, <1>3, <1>4, <1>5, <1>8 DEF AcceptInv, ScanFinds
        <3>2. Waiting(s)' = Waiting(s)
            BY <1>8, <1>10, <2>2 DEF Waiting
        <3>3. ASSUME NEW j \in 0..(n - 1), Behind(b, n, j) <= call.n + 1 PROVE ids[j + 1] \notin call.waiting
            <4>1. CASE j = a
                BY <1>6, <2>2, <3>1, <4>1
            <4>2. CASE j # a
                <5>1. Behind(b, n, j) = Behind(a, n, j) + 1 /\ Behind(a, n, j) \in 1..n
                    BY <1>11, <4>2, RoundRobin
                <5>2. Behind(a, n, j) <= call.n
                    BY <1>8, <1>11, <3>3, <5>1
                <5>. QED BY <3>1, <5>2
            <4>. QED BY <4>1, <4>2
        <3>4. call'.server = s /\ server'[s].ids = ids /\ server'[s].accept_i = b
              /\ call'.n = call.n + 1 /\ call'.waiting = call.waiting
            BY <1>3, <1>8, <1>10, <2>2
        <3>. QED BY <1>4, <3>1, <3>2, <3>3, <3>4 DEF ScanFinds
    <2>. QED BY <2>1, <2>2
<1>. QED BY <1>18, <1>19, <1>20 DEF AcceptInv, TurnsInv

LEMMA AcceptBeginKeepsAccept ==
    ASSUME TypeOK, OwnersInv, TypeOK', OwnersInv', AcceptInv, NEW s \in Servers, NEW h \in Handlers,
           AcceptBegin(s, h)
    PROVE  AcceptInv'
<1>1. /\ UNCHANGED serverVars /\ sn_sr' = sn_sr
      /\ server[s].state = "LISTENING"
      /\ call' = [server |-> s, handler |-> h, n |-> 0, waiting |-> Waiting(s)]
    BY DEF AcceptBegin, registers
<1>2. \A t \in Servers : Waiting(t)' = Waiting(t)
    BY <1>1 DEF Waiting, Ids, serverVars
<1>3. TurnsInv'
    BY <1>1, <1>2 DEF AcceptInv, TurnsInv, PassedInTurn, WaitingWhenPassed, serverVars
<1>4. ScanFinds'
    <2>1. PICK n : n = Len(server[s].ids)
        OBVIOUS
    <2>2. PICK a : a = server[s].accept_i
        OBVIOUS
    <2>3. n \in Nat /\ a \in 0..(n - 1)
        BY <1>1, <2>1, <2>2, NextIndexIsNext
    <2>4. \A j \in 0..(n - 1) : Behind(a, n, j) \in 1..n
        BY <2>3, RoundRobin
    <2>5. \A j \in 0..(n - 1) : ~(Behind(a, n, j) <= 0)
        BY <2>3, <2>4
    <2>6. call'.server = s /\ call'.n = 0 /\ call'.waiting = Waiting(s)' /\ server' = server
        BY <1>1, <1>2 DEF serverVars
    <2>. QED BY <2>1, <2>2, <2>5, <2>6 DEF ScanFinds
<1>. QED BY <1>3, <1>4 DEF AcceptInv

LEMMA ServerNextKeepsAccept ==
    ASSUME TypeOK, OwnersInv, RegistersInv, TypeOK', OwnersInv', AcceptInv, ~MoveWithHandlers,
           ServerNext, UNCHANGED <<client, udp>>
    PROVE  AcceptInv'
<1>1. ASSUME NEW s \in Servers,
             \/ \E i \in SocketIds : MakeServer(s, i)
             \/ \E ids \in IdLists : MakeServerWith(s, ids)
             \/ \E option \in Options : ServerConfigure(s, option)
             \/ \E mask \in Masks : ServerSetInterrupts(s, mask)
             \/ \E port \in Ports : ServerBind(s, port)
             \/ \E backlog \in 0..SOCKETS : ServerListen(s, backlog)
      PROVE  AcceptInv'
    BY <1>1, ServerSetupKeepsAccept
<1>2. ASSUME NEW s \in Servers, NEW h \in Handlers, AcceptBegin(s, h) PROVE AcceptInv'
    BY <1>2, AcceptBeginKeepsAccept
<1>3. CASE AcceptStep
    BY <1>3, AcceptStepKeepsAccept
<1>4. CASE AcceptWouldBlock
    BY <1>4, ElsewhereKeepsAccept DEF AcceptWouldBlock, registers
<1>5. ASSUME NEW s \in Servers, ServerClose(s) PROVE AcceptInv'
    BY <1>5, ServerCloseReleases, ServerReleaseKeepsAccept
<1>6. ASSUME NEW s \in Servers, NEW t \in Servers, ServerMove(s, t) PROVE AcceptInv'
    BY <1>6, ServerMoveReleases, ServerReleaseKeepsAccept
<1>7. ASSUME NEW h \in Handlers, HandlerShutdown(h) PROVE AcceptInv'
    BY <1>7, HandlerShutdownKeepsAccept
<1>8. ASSUME NEW h \in Handlers, HandlerClose(h) PROVE AcceptInv'
    BY <1>8, HandlerCloseReleases, HandlerReleaseKeepsAccept
<1>9. ASSUME NEW h \in Handlers, NEW g \in Handlers, HandlerMove(g, h) PROVE AcceptInv'
    BY <1>9, HandlerMoveReleases, HandlerReleaseKeepsAccept
<1>. QED BY <1>1, <1>2, <1>3, <1>4, <1>5, <1>6, <1>7, <1>8, <1>9 DEF ServerNext

LEMMA NextKeepsAccept ==
    ASSUME TypeOK, OwnersInv, RegistersInv, TypeOK', OwnersInv', AcceptInv, ~MoveWithHandlers, [Next]_vars
    PROVE  AcceptInv'
<1>1. CASE \E size \in BufferSizes : Initialize(size) /\ UNCHANGED <<client, serverVars, udp>>
    BY <1>1, ElsewhereKeepsAccept DEF Initialize, Idle, registers
<1>2. CASE \E i \in SocketIds : ChipStep(i) /\ UNCHANGED <<client, serverVars, udp>>
    BY <1>2, ChipStepKeepsAccept
<1>3. CASE ClientNext /\ UNCHANGED <<serverVars, udp>>
    BY <1>3, ClientNextKeepsAccept
<1>4. CASE ServerNext /\ UNCHANGED <<client, udp>>
    BY <1>4, ServerNextKeepsAccept
<1>5. CASE UdpNext /\ UNCHANGED <<client, serverVars>>
    BY <1>5, UdpNextKeepsAccept
<1>6. CASE UNCHANGED vars
    <2>1. UNCHANGED <<serverVars, call, sn_sr>>
        BY <1>6 DEF vars, socketVars, registers
    <2>2. \A s \in Servers : Waiting(s) \subseteq Waiting(s)'
        BY <2>1 DEF Waiting, Ids, serverVars
    <2>. QED BY <2>1, <2>2, ConnectionStepKeepsAccept
<1>. QED BY <1>1, <1>2, <1>3, <1>4, <1>5, <1>6 DEF Next

(* Scans find what waits, and pass each connection over in its turn, in    *)
(* every reachable state of accept() and of everything that may happen     *)
(* between two of its calls.                                               *)
THEOREM AcceptIsInvariant ==
    ASSUME ~MoveWithHandlers PROVE Spec => [](TypeOK /\ OwnersInv /\ RegistersInv /\ AcceptInv)
<1>1. Init => AcceptInv
    BY DEF Init, SocketsInit, ServerInit, AcceptInv, ScanFinds, TurnsInv, PassedInTurn, WaitingWhenPassed, NoServer
<1>2. Init => TypeOK /\ OwnersInv /\ RegistersInv /\ AcceptInv
    BY <1>1, InitHasOwners, InitFitsRegisters
<1>3. TypeOK /\ OwnersInv /\ RegistersInv /\ AcceptInv /\ [Next]_vars =>
          (TypeOK /\ OwnersInv /\ RegistersInv /\ AcceptInv)'
    BY NextKeepsOwners, NextKeepsRegisters, NextKeepsAccept
<1>. QED BY <1>2, <1>3, PTL DEF Spec

(* accept() reports WOULD_BLOCK only when no connection was there to be    *)
(* accepted when it was called, for any number of sockets, wherever the    *)
(* round robin starts and whatever the chip does during the scan.          *)
THEOREM AcceptFindsWaitingConnections ==
    ASSUME ~MoveWithHandlers PROVE Spec => []AcceptFindsWaiting
<1>1. TypeOK /\ OwnersInv /\ RegistersInv /\ AcceptInv => AcceptFindsWaiting
    <2> SUFFICES ASSUME TypeOK, OwnersInv, AcceptInv, call # NoCall, call.n = Len(server[call.server].ids),
                        NEW i \in call.waiting
                 PROVE  FALSE
        BY DEF AcceptFindsWaiting
    <2>1. PICK s : s = call.server
        OBVIOUS
    <2>2. PICK n : n = Len(server[s].ids)
        OBVIOUS
    <2>3. PICK a : a = server[s].accept_i
        OBVIOUS
    <2>4. s \in Servers /\ server[s].state = "LISTENING"
        BY <2>1 DEF OwnersInv, CallInProgress, TypeOK, ServerTypeOK
    <2>5. n \in Nat /\ a \in 0..(n - 1)
        BY <2>2, <2>3, <2>4, NextIndexIsNext
    <2>6. i \in Ids(s)
        BY <2>1 DEF AcceptInv, ScanFinds, Waiting
    <2>7. PICK k \in 1..n : i = server[s].ids[k]
        BY <2>2, <2>4, <2>6, IdsAreSocketIds DEF TypeOK
    <2>8. k - 1 \in 0..(n - 1) /\ (k - 1) + 1 = k
        BY <2>5
    <2>9. Behind(a, n, k - 1) <= n
        BY <2>5, <2>8, RoundRobin
    <2>10. server[s].ids[(k - 1) + 1] \notin call.waiting
        BY <2>1, <2>2, <2>3, <2>8, <2>9 DEF AcceptInv, ScanFinds
    <2>. QED BY <2>7, <2>8, <2>10
<1>2. Spec => [](TypeOK /\ OwnersInv /\ RegistersInv /\ AcceptInv)
    BY AcceptIsInvariant
<1>. QED BY <1>1, <1>2, PTL

(* The round robin of accept() is fair: a connection that waits on one of  *)
(* a server's sockets sees fewer connections accepted before it than the   *)
(* server has sockets, whatever the size of the backlog.                   *)
THEOREM AcceptIsFairToWaiting ==
    ASSUME ~MoveWithHandlers PROVE Spec => []AcceptIsFair
<1>1. TypeOK /\ OwnersInv /\ RegistersInv /\ AcceptInv => AcceptIsFair
    <2> SUFFICES ASSUME TypeOK, OwnersInv, AcceptInv, NEW s \in LiveServers, NEW i \in Waiting(s)
                 PROVE  passed[i] < Len(server[s].ids)
        BY DEF AcceptIsFair
    <2>1. PICK n : n = Len(server[s].ids)
        OBVIOUS
    <2>2. PICK a : a = server[s].accept_i
        OBVIOUS
    <2>3. s \in Servers /\ server[s].state # "UNINITIALIZED"
        BY DEF LiveServers
    <2>4. n \in Nat /\ a \in 0..(n - 1)
        BY <2>1, <2>2, <2>3, NextIndexIsNext
    <2>5. i \in Ids(s)
        BY DEF Waiting
    <2>6. i \in SocketIds /\ \E k \in 1..n : i = server[s].ids[k]
        BY <2>1, <2>3, <2>5, IdsAreSocketIds DEF TypeOK
    <2>7. CASE passed[i] = 0
        BY <2>1, <2>4, <2>7
    <2>8. CASE passed[i] # 0
        <3>1. PICK r \in Servers : server[r].state = "LISTENING" /\ i \in Waiting(r)
            BY <2>6, <2>8 DEF AcceptInv, TurnsInv, WaitingWhenPassed
        <3>2. r = s
            BY <2>3, <2>5, <3>1, ListeningServersDiffer DEF Waiting
        <3>3. PICK k \in 1..n : i = server[s].ids[k]
            BY <2>6
        <3>4. k - 1 \in 0..(n - 1) /\ (k - 1) + 1 = k
            BY <2>4
        <3>5. passed[server[s].ids[(k - 1) + 1]] + Ahead(a, n, k - 1) < n
            BY <2>1, <2>2, <2>3, <3>1, <3>2, <3>4 DEF AcceptInv, TurnsInv, PassedInTurn
        <3>6. Ahead(a, n, k - 1) \in 0..(n - 1)
            BY <2>4, <3>4, RoundRobin
        <3>7. passed[i] \in Nat
            BY <2>6 DEF TypeOK, ServerTypeOK
        <3>. QED BY <2>1, <2>4, <3>3, <3>4, <3>5, <3>6, <3>7
    <2>. QED BY <2>7, <2>8
<1>2. Spec => [](TypeOK /\ OwnersInv /\ RegistersInv /\ AcceptInv)
    BY AcceptIsInvariant
<1>. QED BY <1>1, <1>2, PTL

=============================================================================
