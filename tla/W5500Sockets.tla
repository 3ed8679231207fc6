---------------------------- MODULE W5500Sockets ----------------------------
(***************************************************************************)
(* The socket pool of WIZnet::W5500::IP::Network_Stack and the hardware    *)
(* sockets of the W5500 behind it.                                         *)
(*                                                                         *)
(* The network stack hands out hardware sockets to TCP clients, TCP        *)
(* servers and UDP sockets, takes them back, and remembers which hardware  *)
(* sockets belong to a connection handler that outlived its server.  The   *)
(* socket objects themselves are in W5500TcpClient, W5500TcpServer and     *)
(* W5500UdpSocket, which EXTEND this module; W5500NetworkStack composes    *)
(* them.                                                                   *)
(*                                                                         *)
(* One action is one public call.  The calls are made by a single thread,  *)
(* so they do not interleave with each other, but the chip moves on by     *)
(* itself: a call that polls several hardware sockets (Server::accept) is  *)
(* several steps, marked by "call".  The busy waits of the driver          *)
(* (SN_CR = 0, SN_SR = INIT, CLOSED or UDP) end on a responsive device and *)
(* are part of the step that contains them.                                *)
(***************************************************************************)
EXTENDS Integers, FiniteSets, Sequences

CONSTANTS
    SOCKETS,      \* hardware sockets of the chip
    MEMORY,       \* KiB of transmit (and of receive) buffer memory
    BufferSizes,  \* the KiB per socket that initialize() accepts
    Ports,        \* the ports the program uses
    NoPort,       \* the any port, SN_PORT's reset value
    Options,      \* values of the no delayed ACK, MSS, TTL, keepalive group
    NoOption,     \* the reset value of that group
    Masks,        \* socket interrupt masks (SN_IMR)
    NoMask,       \* SN_IMR's reset value
    NoCall        \* no call is in progress

ASSUME SocketsAssumption == SOCKETS \in Nat \ {0}
ASSUME BufferSizesAssumption == \A k \in BufferSizes : MEMORY \div k \in 1..SOCKETS
ASSUME ResetValuesAssumption == NoPort \notin Ports

SocketIds == 0..(SOCKETS - 1)

VARIABLES
    sockets,      \* m_sockets
    available,    \* m_sockets_available_for_allocation
    status,       \* m_socket_status
    detached,     \* m_tcp_server_connection_handler_is_detached
    sn_mr,        \* the protocol bits of SN_MR
    sn_port,      \* SN_PORT
    sn_opt,       \* SN_MR's option bits, SN_MSSR, SN_TTL and SN_KPALVTR
    sn_imr,       \* SN_IMR
    sn_sr,        \* SN_SR
    held,         \* the ports each port allocator has allocated and not got back
    call,         \* the call in progress, when it takes several steps
    fault         \* an expectation inside the library was not met

stackVars == <<sockets, available, status, detached>>
registers == <<sn_mr, sn_port, sn_opt, sn_imr, sn_sr>>
socketVars == <<stackVars, registers, held, call, fault>>

Socket_Status == {"NOT_AVAILABLE_FOR_USE", "ALLOCATED", "AVAILABLE_FOR_ALLOCATION"}
Protocols == {"NONE", "TCP", "UDP"}

\* OPENING stands for SYNSENT and SYNRECV, CLOSING for FIN_WAIT, CLOSING,
\* TIME_WAIT and LAST_ACK: the code treats the states of each group alike.
SN_SR == {"CLOSED", "INIT", "LISTEN", "OPENING", "ESTABLISHED", "CLOSE_WAIT",
          "CLOSING", "UDP"}

Free == {i \in SocketIds : status[i] = "AVAILABLE_FOR_ALLOCATION"}

Idle == call = NoCall /\ ~fault

SocketsInit ==
    /\ sockets = 0
    /\ available = 0
    /\ status = [i \in SocketIds |-> "NOT_AVAILABLE_FOR_USE"]
    /\ detached = [i \in SocketIds |-> FALSE]
    /\ sn_mr = [i \in SocketIds |-> "NONE"]
    /\ sn_port = [i \in SocketIds |-> NoPort]
    /\ sn_opt = [i \in SocketIds |-> NoOption]
    /\ sn_imr = [i \in SocketIds |-> NoMask]
    /\ sn_sr = [i \in SocketIds |-> "CLOSED"]
    /\ held = [p \in {"TCP", "UDP"} |-> {}]
    /\ call = NoCall
    /\ fault = FALSE

\* initialize(): the size of the socket buffers fixes how many sockets there are.
Initialize(size) ==
    /\ Idle
    /\ sockets = 0
    /\ sockets' = MEMORY \div size
    /\ available' = MEMORY \div size
    /\ status' = [i \in SocketIds |-> IF i < MEMORY \div size
                                      THEN "AVAILABLE_FOR_ALLOCATION"
                                      ELSE status[i]]
    /\ UNCHANGED <<detached, registers, held, call, fault>>

-----------------------------------------------------------------------------
(* Allocation and deallocation, the parts of a call that change the pool.  *)

\* allocate_socket(): the first available socket.
FirstAvailable(i) == i \in Free /\ i < sockets /\ \A j \in Free : i <= j

\* allocate_sockets( n ): the n first available sockets, in ascending order.
FirstAvailableSequences(n) ==
    {ids \in [1..n -> Free] :
        /\ \A j, k \in 1..n : j < k => ids[j] < ids[k]
        /\ \A i \in Free : (\A k \in 1..n : ids[k] # i)
                              => (\A k \in 1..n : ids[k] < i)}

Allocate(S) ==
    /\ status' = [i \in SocketIds |-> IF i \in S THEN "ALLOCATED" ELSE status[i]]
    /\ available' = available - Cardinality(S)
    /\ UNCHANGED <<sockets, detached>>

\* m_sockets_available_for_allocation, m_tcp_server_connection_handler_is_detached
AvailableAfter(S, D) == available + Cardinality(S)

\* A mutant: the detached flag outlives the socket.
DetachedAfter_KeepsFlag(S, D) == [i \in SocketIds |-> i \in D \/ detached[i]]

DetachedAfter(S, D) == [i \in SocketIds |-> i \notin S /\ (i \in D \/ detached[i])]

\* deallocate_socket() for every socket of S, and
\* detach_tcp_server_connection_handler() for every socket of D.
DeallocateAndDetach(S, D) ==
    /\ fault' = (\E i \in S : status[i] # "ALLOCATED")
    /\ status' = [i \in SocketIds |-> IF i \in S THEN "AVAILABLE_FOR_ALLOCATION" ELSE status[i]]
    /\ available' = AvailableAfter(S, D)
    /\ detached' = DetachedAfter(S, D)
    /\ sn_mr' = [i \in SocketIds |-> IF i \in S THEN "NONE" ELSE sn_mr[i]]
    /\ sn_port' = [i \in SocketIds |-> IF i \in S THEN NoPort ELSE sn_port[i]]
    /\ sn_opt' = [i \in SocketIds |-> IF i \in S THEN NoOption ELSE sn_opt[i]]
    /\ sn_imr' = [i \in SocketIds |-> IF i \in S THEN NoMask ELSE sn_imr[i]]
    /\ sn_sr' = [i \in SocketIds |-> IF i \in S THEN "CLOSED" ELSE sn_sr[i]]
    /\ UNCHANGED sockets

Deallocate(S) == DeallocateAndDetach(S, {})

-----------------------------------------------------------------------------
(* The port allocators.  "held" is what an allocator that keeps the ports  *)
(* it gave out (Port_Allocator_Concept) would remember; the allocator the  *)
(* library provides keeps nothing and looks at the registers instead.      *)

port_is_in_use(protocol, port) ==
    \E i \in SocketIds : sn_mr[i] = protocol /\ sn_port[i] = port

AllocatePort(protocol, port) ==
    /\ ~port_is_in_use(protocol, port)
    /\ held' = [held EXCEPT ![protocol] = @ \cup {port}]

DeallocatePort(protocol, port) ==
    held' = [held EXCEPT ![protocol] = @ \ {port}]

-----------------------------------------------------------------------------
(* What the chip does by itself to the connection of a TCP socket.         *)

Connection_Steps ==
    {<<"LISTEN", "OPENING">>, <<"OPENING", "ESTABLISHED">>, <<"OPENING", "CLOSED">>,
     <<"ESTABLISHED", "CLOSE_WAIT">>, <<"ESTABLISHED", "CLOSED">>,
     <<"CLOSE_WAIT", "CLOSED">>, <<"CLOSING", "CLOSED">>}

ChipStep(i) ==
    /\ ~fault
    /\ sn_mr[i] = "TCP"
    /\ \E sr \in SN_SR : /\ <<sn_sr[i], sr>> \in Connection_Steps
                         /\ sn_sr' = [sn_sr EXCEPT ![i] = sr]
    /\ UNCHANGED <<stackVars, sn_mr, sn_port, sn_opt, sn_imr, held, call, fault>>

\* The DISCON command of shutdown(), which a closed socket is not given.
Disconnect(i) ==
    sn_sr' = [sn_sr EXCEPT ![i] = IF @ \in {"ESTABLISHED", "CLOSE_WAIT"}
                                  THEN "CLOSING" ELSE @]

SocketsTypeOK ==
    /\ sockets \in 0..SOCKETS
    /\ available \in 0..SOCKETS
    /\ status \in [SocketIds -> Socket_Status]
    /\ detached \in [SocketIds -> BOOLEAN]
    /\ sn_mr \in [SocketIds -> Protocols]
    /\ sn_port \in [SocketIds -> Ports \cup {NoPort}]
    /\ sn_opt \in [SocketIds -> Options \cup {NoOption}]
    /\ sn_imr \in [SocketIds -> Masks \cup {NoMask}]
    /\ sn_sr \in [SocketIds -> SN_SR]
    /\ held \in [{"TCP", "UDP"} -> SUBSET Ports]
    /\ fault \in BOOLEAN

=============================================================================
