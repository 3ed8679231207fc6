--------------------------- MODULE W5500TcpServer ---------------------------
(***************************************************************************)
(* WIZnet::W5500::IP::TCP::Server and Server_Connection_Handler.           *)
(*                                                                         *)
(* A server owns a list of hardware sockets that all listen on its port.   *)
(* accept() lends one of them to a connection handler; close() of the      *)
(* handler gives it back to the server, which listens on it again, unless  *)
(* the server was closed first: the handler is then detached, owns the     *)
(* socket, and gives it back to the network stack.  A handler keeps a      *)
(* pointer to its server.                                                  *)
(***************************************************************************)
EXTENDS W5500Sockets

CONSTANTS
    Servers,             \* the variables of the program that hold a server
    Handlers,            \* and a connection handler
    MoveWithHandlers     \* may a server be moved while it has handlers?

ASSUME MoveAssumption == MoveWithHandlers \in BOOLEAN

VARIABLES
    server,    \* m_state, m_sockets (ids, and which are ALLOCATED), m_accept_i
    handler,   \* m_state, m_server, m_socket_id
    passed     \* how often accept() preferred another socket to a waiting one

serverVars == <<server, handler, passed>>

Server_State == {"UNINITIALIZED", "INITIALIZED", "BOUND", "LISTENING"}
Handler_State == {"UNINITIALIZED", "CONNECTED"}

IdLists == UNION {[1..n -> SocketIds] : n \in 0..SOCKETS}

NoServer == [state |-> "UNINITIALIZED", ids |-> <<>>, allocated |-> {}, accept_i |-> 0]

ServerInit ==
    /\ server = [s \in Servers |-> NoServer]
    /\ \E s \in Servers :
           handler = [h \in Handlers |->
                        [state |-> "UNINITIALIZED", server |-> s, socket_id |-> 0]]
    /\ passed = [i \in SocketIds |-> 0]

ServerTypeOK ==
    /\ server \in [Servers -> [state : Server_State, ids : IdLists,
                               allocated : SUBSET SocketIds, accept_i : SocketIds]]
    /\ handler \in [Handlers -> [state : Handler_State, server : Servers,
                                 socket_id : SocketIds]]
    /\ passed \in [SocketIds -> Nat]
    /\ call = NoCall \/ call \in [server : Servers, handler : Handlers, n : 0..SOCKETS,
                                 waiting : SUBSET SocketIds]

Ids(s) == {server[s].ids[k] : k \in DOMAIN server[s].ids}

\* accept() hands out an unallocated socket in one of these states.
Acceptable == {"CLOSED", "ESTABLISHED", "CLOSE_WAIT"}
Waiting(s) == {i \in Ids(s) \ server[s].allocated : sn_sr[i] \in Acceptable}

-----------------------------------------------------------------------------
\* make_tcp_server(), assigned to a variable that holds no sockets.
MakeServer(s, i) ==
    /\ Idle
    /\ server[s].state = "UNINITIALIZED"
    /\ FirstAvailable(i)
    /\ Allocate({i})
    /\ server' = [server EXCEPT ![s] = [NoServer EXCEPT !.state = "INITIALIZED", !.ids = <<i>>]]
    /\ UNCHANGED <<registers, held, call, fault, handler, passed>>

\* make_tcp_server( socket_ids )
MakeServerWith(s, ids) ==
    /\ Idle
    /\ server[s].state = "UNINITIALIZED"
    /\ ids # <<>>
    /\ \A k \in DOMAIN ids : ids[k] \in Free
    /\ \A j, k \in DOMAIN ids : ids[j] = ids[k] => j = k
    /\ Allocate({ids[k] : k \in DOMAIN ids})
    /\ server' = [server EXCEPT ![s] = [NoServer EXCEPT !.state = "INITIALIZED", !.ids = ids]]
    /\ UNCHANGED <<registers, held, call, fault, handler, passed>>

\* configure_no_delayed_ack_usage() and its siblings
ServerConfigure(s, option) ==
    /\ Idle
    /\ server[s].state = "INITIALIZED"
    /\ sn_opt' = [i \in SocketIds |-> IF i \in Ids(s) THEN option ELSE sn_opt[i]]
    /\ UNCHANGED <<stackVars, sn_mr, sn_port, sn_imr, sn_sr, held, call, fault, serverVars>>

\* enable_interrupts(), disable_interrupts()
ServerSetInterrupts(s, mask) ==
    /\ Idle
    /\ server[s].state # "UNINITIALIZED"
    /\ sn_imr' = [i \in SocketIds |-> IF i \in Ids(s) THEN mask ELSE sn_imr[i]]
    /\ UNCHANGED <<stackVars, sn_mr, sn_port, sn_opt, sn_sr, held, call, fault, serverVars>>

ServerBind(s, port) ==
    /\ Idle
    /\ server[s].state = "INITIALIZED"
    /\ AllocatePort("TCP", port)
    /\ sn_port' = [i \in SocketIds |-> IF i \in Ids(s) THEN port ELSE sn_port[i]]
    /\ sn_mr' = [i \in SocketIds |-> IF i \in Ids(s) THEN "TCP" ELSE sn_mr[i]]
    /\ sn_sr' = [i \in SocketIds |-> IF i \in Ids(s) THEN "INIT" ELSE sn_sr[i]]
    /\ server' = [server EXCEPT ![s].state = "BOUND"]
    /\ UNCHANGED <<stackVars, sn_opt, sn_imr, call, fault, handler, passed>>

\* What a register of the added sockets is copied from.
LikeFront(register, new, front) ==
    [i \in SocketIds |-> IF i \in new THEN register[front] ELSE register[i]]

\* listen(): sockets that the backlog needs in addition are allocated and
\* configured like the first one.
ServerListen(s, backlog) ==
    LET ids == server[s].ids
        n == IF backlog > Len(ids) THEN backlog - Len(ids) ELSE 0
        front == ids[1]
    IN
    /\ Idle
    /\ server[s].state = "BOUND"
    /\ n <= available
    /\ \E more \in FirstAvailableSequences(n) :
        LET new == {more[k] : k \in DOMAIN more} IN
        /\ Allocate(new)
        /\ sn_mr' = LikeFront(sn_mr, new, front)
        /\ sn_port' = LikeFront(sn_port, new, front)
        /\ sn_opt' = LikeFront(sn_opt, new, front)
        /\ sn_imr' = LikeFront(sn_imr, new, front)
        /\ sn_sr' = [i \in SocketIds |-> IF i \in Ids(s) \cup new THEN "LISTEN" ELSE sn_sr[i]]
        /\ server' = [server EXCEPT ![s].state = "LISTENING", ![s].ids = ids \o more]
    /\ UNCHANGED <<held, call, fault, handler, passed>>

-----------------------------------------------------------------------------
(* accept(): one step per socket that it looks at, so that connections     *)
(* come and go between two of its reads of SN_SR.  "waiting" is the set of *)
(* sockets that could have been accepted when the call was made.           *)

AcceptBegin(s, h) ==
    /\ Idle
    /\ server[s].state = "LISTENING"
    /\ handler[h].state = "UNINITIALIZED"
    /\ call' = [server |-> s, handler |-> h, n |-> 0, waiting |-> Waiting(s)]
    /\ UNCHANGED <<stackVars, registers, held, fault, serverVars>>

NextIndex(s) == (server[s].accept_i + 1) % Len(server[s].ids)

\* A mutant: a socket without a connection is looked at again.
PassedBy_StandsStill(s) == server[s]

\* The server after a socket that has no connection, and after one that has.
PassedBy(s) == [server[s] EXCEPT !.accept_i = NextIndex(s)]

\* A mutant: the accepted socket is not marked as allocated.
Lent_ForgetsAllocated(s, i) == [server[s] EXCEPT !.accept_i = NextIndex(s)]

\* A mutant: the round robin stays at the socket it accepted.
Lent_StaysAtSame(s, i) == [server[s] EXCEPT !.allocated = @ \cup {i}]

Lent(s, i) == [server[s] EXCEPT !.accept_i = NextIndex(s), !.allocated = @ \cup {i}]

AcceptStep ==
    /\ call # NoCall
    /\ ~fault
    /\ LET s == call.server
           ids == server[s].ids
           i == ids[server[s].accept_i + 1]
       IN
       /\ call.n < Len(ids)
       /\ IF i \in Waiting(s)
          THEN /\ server' = [server EXCEPT ![s] = Lent(s, i)]
               /\ handler' = [handler EXCEPT ![call.handler] =
                                [state |-> "CONNECTED", server |-> s, socket_id |-> i]]
               /\ passed' = [j \in SocketIds |->
                                IF j \in Waiting(s) \ {i} THEN passed[j] + 1
                                ELSE IF j \in Ids(s) THEN 0 ELSE passed[j]]
               /\ call' = NoCall
          ELSE /\ server' = [server EXCEPT ![s] = PassedBy(s)]
               /\ call' = [call EXCEPT !.n = @ + 1]
               /\ UNCHANGED <<handler, passed>>
    /\ UNCHANGED <<stackVars, registers, held, fault>>

AcceptWouldBlock ==
    /\ call # NoCall
    /\ ~fault
    /\ call.n = Len(server[call.server].ids)
    /\ call' = NoCall
    /\ UNCHANGED <<stackVars, registers, held, fault, serverVars>>

-----------------------------------------------------------------------------
HandlerShutdown(h) ==
    /\ Idle
    /\ handler[h].state = "CONNECTED"
    /\ Disconnect(handler[h].socket_id)
    /\ UNCHANGED <<stackVars, sn_mr, sn_port, sn_opt, sn_imr, held, call, fault, serverVars>>

\* A mutant: the socket is opened again but does not listen.
ServerDeallocateSocket_DoesNotListen(s, i) ==
    /\ IF i \in Ids(s) /\ i \in server[s].allocated
       THEN /\ sn_sr' = [sn_sr EXCEPT ![i] = "INIT"]
            /\ server' = [server EXCEPT ![s].allocated = @ \ {i}]
            /\ fault' = FALSE
       ELSE /\ fault' = TRUE
            /\ UNCHANGED <<sn_sr, server>>
    /\ UNCHANGED <<stackVars, sn_mr, sn_port, sn_opt, sn_imr, held>>

\* Server::deallocate_socket(): close, open and listen again.
ServerDeallocateSocket(s, i) ==
    /\ IF i \in Ids(s) /\ i \in server[s].allocated
       THEN /\ sn_sr' = [sn_sr EXCEPT ![i] = "LISTEN"]
            /\ server' = [server EXCEPT ![s].allocated = @ \ {i}]
            /\ fault' = FALSE
       ELSE /\ fault' = TRUE
            /\ UNCHANGED <<sn_sr, server>>
    /\ UNCHANGED <<stackVars, sn_mr, sn_port, sn_opt, sn_imr, held>>

\* A mutant: every detached handler gives the port back.
ReleaseDetachedSocket_AlwaysFreesPort(i) ==
    /\ DeallocatePort("TCP", sn_port[i])
    /\ Deallocate({i})
    /\ UNCHANGED server

\* close() of a detached handler: the port goes with its last socket.
ReleaseDetachedSocket(i) ==
    /\ IF \E j \in SocketIds : /\ j < sockets
                               /\ j # i
                               /\ sn_mr[j] = "TCP"
                               /\ sn_port[j] = sn_port[i]
       THEN UNCHANGED held
       ELSE DeallocatePort("TCP", sn_port[i])
    /\ Deallocate({i})
    /\ UNCHANGED server

ReleaseHandlerSocket(h) ==
    LET i == handler[h].socket_id IN
    IF detached[i] THEN ReleaseDetachedSocket(i)
                   ELSE ServerDeallocateSocket(handler[h].server, i)

HandlerClose(h) ==
    /\ Idle
    /\ handler[h].state = "CONNECTED"
    /\ ReleaseHandlerSocket(h)
    /\ handler' = [handler EXCEPT ![h].state = "UNINITIALIZED"]
    /\ UNCHANGED <<call, passed>>

\* The move assignment g = std::move( h ), which closes g first.
HandlerMove(g, h) ==
    /\ Idle
    /\ g # h
    /\ IF handler[g].state = "UNINITIALIZED"
       THEN UNCHANGED <<stackVars, registers, held, fault, server>>
       ELSE ReleaseHandlerSocket(g)
    /\ handler' = [handler EXCEPT ![g] = handler[h], ![h].state = "UNINITIALIZED"]
    /\ UNCHANGED <<call, passed>>

\* A mutant: close() of a server gives the port back under its handlers.
ReleaseServerSockets_FreesPort(s) ==
    /\ IF server[s].state = "INITIALIZED"
       THEN UNCHANGED held
       ELSE DeallocatePort("TCP", sn_port[server[s].ids[1]])
    /\ DeallocateAndDetach(Ids(s) \ server[s].allocated, server[s].allocated)
    /\ passed' = [i \in SocketIds |-> IF i \in Ids(s) THEN 0 ELSE passed[i]]

\* What close() of a server does to the network stack: handlers are detached,
\* and the port stays allocated as long as one of them needs it.
ReleaseServerSockets(s) ==
    /\ IF server[s].state = "INITIALIZED" \/ server[s].allocated # {}
       THEN UNCHANGED held
       ELSE DeallocatePort("TCP", sn_port[server[s].ids[1]])
    /\ DeallocateAndDetach(Ids(s) \ server[s].allocated, server[s].allocated)
    /\ passed' = [i \in SocketIds |-> IF i \in Ids(s) THEN 0 ELSE passed[i]]

ServerClose(s) ==
    /\ Idle
    /\ server[s].state # "UNINITIALIZED"
    /\ ReleaseServerSockets(s)
    /\ server' = [server EXCEPT ![s].state = "UNINITIALIZED"]
    /\ UNCHANGED <<call, handler>>

\* The move assignment s = std::move( t ), which closes s first and empties
\* t's list of sockets; the handlers of t still point to t.
ServerMove(s, t) ==
    /\ Idle
    /\ s # t
    /\ MoveWithHandlers \/ server[t].state # "LISTENING" \/ server[t].allocated = {}
    /\ IF server[s].state = "UNINITIALIZED"
       THEN UNCHANGED <<stackVars, registers, held, fault, passed>>
       ELSE ReleaseServerSockets(s)
    /\ server' = [server EXCEPT ![s] = server[t],
                                ![t] = [@ EXCEPT !.state = "UNINITIALIZED",
                                                 !.ids = <<>>, !.allocated = {}]]
    /\ UNCHANGED <<call, handler>>

ServerNext ==
    \/ \E s \in Servers :
        \/ \E i \in SocketIds : MakeServer(s, i)
        \/ \E ids \in IdLists : MakeServerWith(s, ids)
        \/ \E option \in Options : ServerConfigure(s, option)
        \/ \E mask \in Masks : ServerSetInterrupts(s, mask)
        \/ \E port \in Ports : ServerBind(s, port)
        \/ \E backlog \in 0..SOCKETS : ServerListen(s, backlog)
        \/ \E h \in Handlers : AcceptBegin(s, h)
        \/ ServerClose(s)
        \/ \E t \in Servers : ServerMove(s, t)
    \/ AcceptStep
    \/ AcceptWouldBlock
    \/ \E h \in Handlers :
        \/ HandlerShutdown(h)
        \/ HandlerClose(h)
        \/ \E g \in Handlers : HandlerMove(g, h)

=============================================================================
