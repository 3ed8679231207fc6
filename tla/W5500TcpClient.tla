--------------------------- MODULE W5500TcpClient ---------------------------
(***************************************************************************)
(* WIZnet::W5500::IP::TCP::Client: the life of a TCP client socket object, *)
(* from the network stack's make_tcp_client() to close().  The data path   *)
(* (transmit, receive) is in W5500Stream.                                  *)
(***************************************************************************)
EXTENDS W5500Sockets

CONSTANTS Clients      \* the variables of the program that hold a client

VARIABLE client        \* m_state and m_socket_id of each of them

Client_State == {"UNINITIALIZED", "INITIALIZED", "BOUND", "CONNECTING", "CONNECTED"}

ClientInit == client = [c \in Clients |-> [state |-> "UNINITIALIZED", socket_id |-> 0]]

ClientTypeOK == client \in [Clients -> [state : Client_State, socket_id : SocketIds]]

\* make_tcp_client(), assigned to a variable that holds no socket.
MakeClient(c, i) ==
    /\ Idle
    /\ client[c].state = "UNINITIALIZED"
    /\ FirstAvailable(i)
    /\ Allocate({i})
    /\ client' = [client EXCEPT ![c] = [state |-> "INITIALIZED", socket_id |-> i]]
    /\ UNCHANGED <<registers, held, call, fault>>

\* make_tcp_client( socket_id )
MakeClientAt(c, i) ==
    /\ Idle
    /\ client[c].state = "UNINITIALIZED"
    /\ i \in Free
    /\ Allocate({i})
    /\ client' = [client EXCEPT ![c] = [state |-> "INITIALIZED", socket_id |-> i]]
    /\ UNCHANGED <<registers, held, call, fault>>

\* configure_no_delayed_ack_usage() and its siblings
ClientConfigure(c, option) ==
    /\ Idle
    /\ client[c].state = "INITIALIZED"
    /\ sn_opt' = [sn_opt EXCEPT ![client[c].socket_id] = option]
    /\ UNCHANGED <<stackVars, sn_mr, sn_port, sn_imr, sn_sr, held, call, fault, client>>

\* enable_interrupts(), disable_interrupts()
ClientSetInterrupts(c, mask) ==
    /\ Idle
    /\ client[c].state # "UNINITIALIZED"
    /\ sn_imr' = [sn_imr EXCEPT ![client[c].socket_id] = mask]
    /\ UNCHANGED <<stackVars, sn_mr, sn_port, sn_opt, sn_sr, held, call, fault, client>>

ClientBind(c, port) ==
    LET i == client[c].socket_id IN
    /\ Idle
    /\ client[c].state = "INITIALIZED"
    /\ AllocatePort("TCP", port)
    /\ sn_port' = [sn_port EXCEPT ![i] = port]
    /\ sn_mr' = [sn_mr EXCEPT ![i] = "TCP"]
    /\ sn_sr' = [sn_sr EXCEPT ![i] = "INIT"]
    /\ client' = [client EXCEPT ![c].state = "BOUND"]
    /\ UNCHANGED <<stackVars, sn_opt, sn_imr, call, fault>>

\* connect(), the call that issues the CONNECT command
ClientConnect(c) ==
    /\ Idle
    /\ client[c].state = "BOUND"
    /\ sn_sr' = [sn_sr EXCEPT ![client[c].socket_id] = "OPENING"]
    /\ client' = [client EXCEPT ![c].state = "CONNECTING"]
    /\ UNCHANGED <<stackVars, sn_mr, sn_port, sn_opt, sn_imr, held, call, fault>>

\* connect(), the call that finds the connection made
ClientConnected(c) ==
    /\ Idle
    /\ client[c].state = "CONNECTING"
    /\ sn_sr[client[c].socket_id] \in {"ESTABLISHED", "CLOSE_WAIT"}
    /\ client' = [client EXCEPT ![c].state = "CONNECTED"]
    /\ UNCHANGED socketVars

ClientShutdown(c) ==
    /\ Idle
    /\ client[c].state = "CONNECTED"
    /\ Disconnect(client[c].socket_id)
    /\ UNCHANGED <<stackVars, sn_mr, sn_port, sn_opt, sn_imr, held, call, fault, client>>

\* What close() does to the network stack: the port, then the socket.
ReleaseClientSocket(c) ==
    LET i == client[c].socket_id IN
    /\ IF client[c].state = "INITIALIZED"
       THEN UNCHANGED held
       ELSE DeallocatePort("TCP", sn_port[i])
    /\ Deallocate({i})

ClientClose(c) ==
    /\ Idle
    /\ client[c].state # "UNINITIALIZED"
    /\ ReleaseClientSocket(c)
    /\ client' = [client EXCEPT ![c].state = "UNINITIALIZED"]
    /\ UNCHANGED call

\* A mutant: the move assignment does not close its destination.
ClientMove_DoesNotClose(c, d) ==
    /\ Idle
    /\ c # d
    /\ client' = [client EXCEPT ![c] = client[d], ![d].state = "UNINITIALIZED"]
    /\ UNCHANGED socketVars

\* The move assignment c = std::move( d ), which closes c first.
ClientMove(c, d) ==
    /\ Idle
    /\ c # d
    /\ IF client[c].state = "UNINITIALIZED"
       THEN UNCHANGED <<stackVars, registers, held, fault>>
       ELSE ReleaseClientSocket(c)
    /\ client' = [client EXCEPT ![c] = client[d], ![d].state = "UNINITIALIZED"]
    /\ UNCHANGED call

ClientNext ==
    \E c \in Clients :
        \/ \E i \in SocketIds : MakeClient(c, i) \/ MakeClientAt(c, i)
        \/ \E option \in Options : ClientConfigure(c, option)
        \/ \E mask \in Masks : ClientSetInterrupts(c, mask)
        \/ \E port \in Ports : ClientBind(c, port)
        \/ ClientConnect(c)
        \/ ClientConnected(c)
        \/ ClientShutdown(c)
        \/ ClientClose(c)
        \/ \E d \in Clients : ClientMove(c, d)

=============================================================================
