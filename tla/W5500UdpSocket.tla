--------------------------- MODULE W5500UdpSocket ---------------------------
(***************************************************************************)
(* WIZnet::W5500::IP::UDP::Socket: the life of a UDP socket object, from   *)
(* the network stack's make_udp_socket() to close().                       *)
(***************************************************************************)
EXTENDS W5500Sockets

CONSTANTS UdpSockets   \* the variables of the program that hold a UDP socket

VARIABLE udp           \* m_state and m_socket_id of each of them

Udp_State == {"UNINITIALIZED", "INITIALIZED", "BOUND"}

UdpInit == udp = [u \in UdpSockets |-> [state |-> "UNINITIALIZED", socket_id |-> 0]]

UdpTypeOK == udp \in [UdpSockets -> [state : Udp_State, socket_id : SocketIds]]

\* make_udp_socket()
MakeUdp(u, i) ==
    /\ Idle
    /\ udp[u].state = "UNINITIALIZED"
    /\ FirstAvailable(i)
    /\ Allocate({i})
    /\ udp' = [udp EXCEPT ![u] = [state |-> "INITIALIZED", socket_id |-> i]]
    /\ UNCHANGED <<registers, held, call, fault>>

\* make_udp_socket( socket_id )
MakeUdpAt(u, i) ==
    /\ Idle
    /\ udp[u].state = "UNINITIALIZED"
    /\ i \in Free
    /\ Allocate({i})
    /\ udp' = [udp EXCEPT ![u] = [state |-> "INITIALIZED", socket_id |-> i]]
    /\ UNCHANGED <<registers, held, call, fault>>

\* configure_broadcast_blocking() and its siblings
UdpConfigure(u, option) ==
    /\ Idle
    /\ udp[u].state = "INITIALIZED"
    /\ sn_opt' = [sn_opt EXCEPT ![udp[u].socket_id] = option]
    /\ UNCHANGED <<stackVars, sn_mr, sn_port, sn_imr, sn_sr, held, call, fault, udp>>

\* enable_interrupts(), disable_interrupts()
UdpSetInterrupts(u, mask) ==
    /\ Idle
    /\ udp[u].state # "UNINITIALIZED"
    /\ sn_imr' = [sn_imr EXCEPT ![udp[u].socket_id] = mask]
    /\ UNCHANGED <<stackVars, sn_mr, sn_port, sn_opt, sn_sr, held, call, fault, udp>>

UdpBind(u, port) ==
    LET i == udp[u].socket_id IN
    /\ Idle
    /\ udp[u].state = "INITIALIZED"
    /\ AllocatePort("UDP", port)
    /\ sn_port' = [sn_port EXCEPT ![i] = port]
    /\ sn_mr' = [sn_mr EXCEPT ![i] = "UDP"]
    /\ sn_sr' = [sn_sr EXCEPT ![i] = "UDP"]
    /\ udp' = [udp EXCEPT ![u].state = "BOUND"]
    /\ UNCHANGED <<stackVars, sn_opt, sn_imr, call, fault>>

\* What close() does to the network stack: the port, then the socket.
ReleaseUdpSocket(u) ==
    LET i == udp[u].socket_id IN
    /\ IF udp[u].state = "BOUND"
       THEN DeallocatePort("UDP", sn_port[i])
       ELSE UNCHANGED held
    /\ Deallocate({i})

UdpClose(u) ==
    /\ Idle
    /\ udp[u].state # "UNINITIALIZED"
    /\ ReleaseUdpSocket(u)
    /\ udp' = [udp EXCEPT ![u].state = "UNINITIALIZED"]
    /\ UNCHANGED call

\* The move assignment u = std::move( v ), which closes u first.
UdpMove(u, v) ==
    /\ Idle
    /\ u # v
    /\ IF udp[u].state = "UNINITIALIZED"
       THEN UNCHANGED <<stackVars, registers, held, fault>>
       ELSE ReleaseUdpSocket(u)
    /\ udp' = [udp EXCEPT ![u] = udp[v], ![v].state = "UNINITIALIZED"]
    /\ UNCHANGED call

UdpNext ==
    \E u \in UdpSockets :
        \/ \E i \in SocketIds : MakeUdp(u, i) \/ MakeUdpAt(u, i)
        \/ \E option \in Options : UdpConfigure(u, option)
        \/ \E mask \in Masks : UdpSetInterrupts(u, mask)
        \/ \E port \in Ports : UdpBind(u, port)
        \/ UdpClose(u)
        \/ \E v \in UdpSockets : UdpMove(u, v)

=============================================================================
