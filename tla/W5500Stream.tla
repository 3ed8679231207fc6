----------------------------- MODULE W5500Stream -----------------------------
(***************************************************************************)
(* The data path of a TCP socket: transmit(), receive(), shutdown() and    *)
(* close() of Client and Server_Connection_Handler, which share this code, *)
(* against the chip that sends, acknowledges and receives meanwhile.       *)
(*                                                                         *)
(* The calls are made by one thread; each access to a register that the    *)
(* chip changes is a step of its own, so the chip moves between them.  The *)
(* k-th byte of a stream is the number k, so that a lost, repeated or      *)
(* misplaced byte shows.                                                   *)
(*                                                                         *)
(* close() gives the hardware socket back, and another socket object gets  *)
(* it with its next connection.  What is reset in between depends on whom  *)
(* it is given back to (RECYCLER): Network_Stack::deallocate_socket(), or  *)
(* the Server::deallocate_socket() that a connection handler's close()     *)
(* calls.                                                                  *)
(***************************************************************************)
EXTENDS BufferPointers, Sequences

CONSTANTS
    RECYCLER,         \* "Network_Stack" or "Server"
    MaxTransmitted,   \* bound: bytes the program transmits per connection
    MaxArrived,       \* bound: bytes the peer sends per connection
    MaxConnections    \* bound: connections over the life of the socket

ASSUME BoundsAssumption == {MaxTransmitted, MaxArrived, MaxConnections} \subseteq Nat
ASSUME RecyclerAssumption == RECYCLER \in {"Network_Stack", "Server"}

VARIABLES
    state, is_transmitting,                    \* the socket object
    pc, begin_end, close_wait,                 \* the call in progress, its locals
    sn_sr, data_transmitted,                   \* SN_SR, SN_IR's SEND_OK bit
    sn_tx_wr, tx_end, tx_sent, sn_tx_rd, tx_buffer,  \* transmit pointers, memory
    sn_rx_rd, rx_taken, sn_rx_wr, rx_buffer,   \* receive pointers, memory
    sending,                                   \* a SEND command is in progress
    connections,                               \* how many there have been
    accepted, wire, arrived, delivered,        \* history of the connection
    not_connected                              \* and of what receive() said of it

object == <<state, is_transmitting>>
local == <<begin_end, close_wait>>
status == <<sn_sr, data_transmitted>>
transmitter == <<sn_tx_wr, tx_end, tx_sent, sn_tx_rd, tx_buffer, sending>>
receiver == <<sn_rx_rd, rx_taken, sn_rx_wr, rx_buffer>>
history == <<accepted, wire, arrived, delivered, not_connected>>
vars == <<object, pc, local, status, transmitter, receiver, connections, history>>

Free_Space == Size - Ahead(tx_end, sn_tx_rd)          \* SN_TX_FSR
Received_Size == Ahead(sn_rx_wr, rx_taken)            \* SN_RX_RSR

UpTo(n) == [k \in 1..n |-> k]

Init ==
    /\ state = "UNINITIALIZED" /\ is_transmitting = FALSE
    /\ pc = "idle" /\ begin_end = 0 /\ close_wait = FALSE
    /\ sn_sr = "LISTEN" /\ data_transmitted = FALSE
    /\ sn_tx_wr = 0 /\ tx_end = 0 /\ tx_sent = 0 /\ sn_tx_rd = 0
    /\ tx_buffer = [i \in Places |-> 0]
    /\ sn_rx_rd = 0 /\ rx_taken = 0 /\ sn_rx_wr = 0
    /\ rx_buffer = [i \in Places |-> 0]
    /\ sending = FALSE
    /\ connections = 0
    /\ accepted = 0 /\ wire = <<>> /\ arrived = 0 /\ delivered = <<>> /\ not_connected = {}

-----------------------------------------------------------------------------
(* Getting and giving back the hardware socket.                            *)

\* The program gets a socket object for the connection: from the connect()
\* call that finds the connection made, or from accept(), which also hands
\* out a connection that is closed by now.
Open ==
    /\ pc = "idle"
    /\ state = "UNINITIALIZED"
    /\ \/ sn_sr \in {"ESTABLISHED", "CLOSE_WAIT"}
       \/ sn_sr = "CLOSED" /\ RECYCLER = "Server"
    /\ state' = "CONNECTED"
    /\ is_transmitting' = FALSE
    /\ UNCHANGED <<pc, local, status, transmitter, receiver, connections, history>>

\* A mutant: SEND_OK outlives the socket object.
Close_KeepsSendOk ==
    /\ pc = "idle"
    /\ state = "CONNECTED"
    /\ state' = "UNINITIALIZED"
    /\ sn_sr' = "LISTEN"
    /\ sending' = FALSE
    /\ UNCHANGED <<is_transmitting, data_transmitted, pc, local, sn_tx_wr, tx_end, tx_sent,
                   sn_tx_rd, tx_buffer, receiver, connections, history>>

Close ==
    /\ pc = "idle"
    /\ state = "CONNECTED"
    /\ state' = "UNINITIALIZED"
    /\ sn_sr' = "LISTEN"
    /\ data_transmitted' = (data_transmitted /\ RECYCLER = "Server")
    /\ sending' = FALSE
    /\ UNCHANGED <<is_transmitting, pc, local, sn_tx_wr, tx_end, tx_sent, sn_tx_rd, tx_buffer,
                   receiver, connections, history>>

\* shutdown(): DISCON, unless the socket is closed
Shutdown ==
    /\ pc = "idle"
    /\ state = "CONNECTED"
    /\ sn_sr' = IF sn_sr = "CLOSED" THEN "CLOSED" ELSE "CLOSING"
    /\ UNCHANGED <<object, pc, local, data_transmitted, transmitter, receiver, connections,
                   history>>

\* clear_interrupts() of an interrupt that the program found set.  The code has
\* no such guard: it is a rule that the program keeps.
ClearInterrupts ==
    /\ pc = "idle"
    /\ state = "CONNECTED"
    /\ data_transmitted
    /\ data_transmitted' = FALSE
    /\ is_transmitting' = FALSE
    /\ UNCHANGED <<state, pc, local, sn_sr, transmitter, receiver, connections, history>>

-----------------------------------------------------------------------------
(* transmit( begin, end )                                                  *)

\* A call goes on at a step, or returns.
Continue(step) == pc' = step /\ UNCHANGED local
Return == pc' = "idle" /\ begin_end' = 0 /\ close_wait' = FALSE

Transmit(n) ==
    /\ pc = "idle"
    /\ state = "CONNECTED"
    /\ accepted + n =< MaxTransmitted
    /\ IF sn_sr = "ESTABLISHED"
       THEN pc' = "check_SEND" /\ begin_end' = n /\ UNCHANGED close_wait
       ELSE Return
    /\ UNCHANGED <<object, status, transmitter, receiver, connections, history>>

SendInProgress == is_transmitting /\ ~data_transmitted

\* A mutant: SEND_OK is cleared but the object stays in transmission.
CheckSend_StaysTransmitting ==
    /\ pc = "check_SEND"
    /\ IF SendInProgress
       THEN Return /\ UNCHANGED <<is_transmitting, data_transmitted>>
       ELSE /\ IF begin_end = 0 THEN Return ELSE Continue("read_FSR")
            /\ data_transmitted' = (data_transmitted /\ ~is_transmitting)
            /\ UNCHANGED is_transmitting
    /\ UNCHANGED <<state, sn_sr, transmitter, receiver, connections, history>>

\* A SEND in progress makes the call fail; the one that is over is acknowledged.
CheckSend ==
    /\ pc = "check_SEND"
    /\ IF SendInProgress
       THEN Return /\ UNCHANGED <<is_transmitting, data_transmitted>>
       ELSE /\ IF begin_end = 0 THEN Return ELSE Continue("read_FSR")
            /\ is_transmitting' = FALSE
            /\ data_transmitted' = (data_transmitted /\ ~is_transmitting)
    /\ UNCHANGED <<state, sn_sr, transmitter, receiver, connections, history>>

Limited(n) == IF begin_end > n THEN n ELSE begin_end

ReadFreeSpace ==
    /\ pc = "read_FSR"
    /\ IF Free_Space = 0
       THEN Return
       ELSE pc' = "write" /\ begin_end' = Limited(Free_Space) /\ UNCHANGED close_wait
    /\ UNCHANGED <<object, status, transmitter, receiver, connections, history>>

\* A mutant: the data is written at the chip's read pointer.
Offset_FromReadPointer(i) == From(i, sn_tx_rd)

\* how far a place of the transmit buffer is from where SN_TX_WR points
Offset(i) == From(i, sn_tx_wr)

\* write_tx_buffer() and write_sn_tx_wr()
WriteTransmitBuffer ==
    /\ pc = "write"
    /\ tx_buffer' = [i \in Places |->
                        IF Offset(i) < begin_end THEN accepted + 1 + Offset(i) ELSE tx_buffer[i]]
    /\ sn_tx_wr' = Add(sn_tx_wr, begin_end)
    /\ accepted' = accepted + begin_end
    /\ Continue("SEND")
    /\ UNCHANGED <<object, status, tx_end, tx_sent, sn_tx_rd, sending, receiver,
                   connections, wire, arrived, delivered, not_connected>>

\* The SEND command, which a socket that has been closed meanwhile ignores.
Send ==
    /\ pc = "SEND"
    /\ IF sn_sr \in {"ESTABLISHED", "CLOSE_WAIT"}
       THEN sending' = TRUE /\ tx_end' = sn_tx_wr
       ELSE UNCHANGED <<sending, tx_end>>
    /\ is_transmitting' = TRUE
    /\ Return
    /\ UNCHANGED <<state, status, sn_tx_wr, tx_sent, sn_tx_rd, tx_buffer, receiver,
                   connections, history>>

-----------------------------------------------------------------------------
(* receive( begin, end )                                                   *)

\* NOT_CONNECTED, because of what the call has read of SN_SR
NotConnected(status_read) ==
    not_connected' = not_connected \cup {[sn_sr |-> status_read, delivered |-> Len(delivered)]}

\* A mutant: the peer's FIN ends the stream before the data that is buffered.
Receive_StopsAtFin(n) ==
    /\ pc = "idle"
    /\ state = "CONNECTED"
    /\ IF sn_sr = "ESTABLISHED"
       THEN pc' = "read_RSR" /\ begin_end' = n /\ UNCHANGED close_wait
       ELSE Return
    /\ IF sn_sr \in {"CLOSE_WAIT", "CLOSED"} THEN NotConnected(sn_sr) ELSE UNCHANGED not_connected
    /\ UNCHANGED <<object, status, transmitter, receiver, connections, accepted, wire, arrived,
                   delivered>>

\* A closed socket is not connected, whatever is left to read; in the states
\* of a close that has begun the call would block.

Receive(n) ==
    /\ pc = "idle"
    /\ state = "CONNECTED"
    /\ IF sn_sr \in {"ESTABLISHED", "CLOSE_WAIT"}
       THEN pc' = "read_RSR" /\ begin_end' = n /\ close_wait' = (sn_sr = "CLOSE_WAIT")
       ELSE Return
    /\ IF sn_sr = "CLOSED" THEN NotConnected("CLOSED") ELSE UNCHANGED not_connected
    /\ UNCHANGED <<object, status, transmitter, receiver, connections, accepted, wire, arrived,
                   delivered>>

\* Without data the call would block, or is not connected after the peer's FIN.
ReadReceivedSize ==
    /\ pc = "read_RSR"
    /\ IF Received_Size = 0 \/ begin_end = 0
       THEN Return
       ELSE pc' = "read" /\ begin_end' = Limited(Received_Size) /\ UNCHANGED close_wait
    /\ IF Received_Size = 0 /\ close_wait
       THEN NotConnected("CLOSE_WAIT")
       ELSE UNCHANGED not_connected
    /\ UNCHANGED <<object, status, transmitter, receiver, connections, accepted, wire, arrived,
                   delivered>>

\* read_rx_buffer() and write_sn_rx_rd()
ReadReceiveBuffer ==
    /\ pc = "read"
    /\ delivered' = delivered \o [k \in 1..begin_end |-> rx_buffer[Place(sn_rx_rd + k - 1)]]
    /\ sn_rx_rd' = Add(sn_rx_rd, begin_end)
    /\ Continue("RECV")
    /\ UNCHANGED <<object, status, transmitter, rx_taken, sn_rx_wr, rx_buffer,
                   connections, accepted, wire, arrived, not_connected>>

\* The RECV command, which frees the space up to SN_RX_RD.
Recv ==
    /\ pc = "RECV"
    /\ rx_taken' = sn_rx_rd
    /\ Return
    /\ UNCHANGED <<object, status, transmitter, sn_rx_rd, sn_rx_wr, rx_buffer, connections,
                   history>>

-----------------------------------------------------------------------------
(* The chip and the peer.                                                  *)

\* A connection is established; the chip starts with empty buffers.
Establish ==
    /\ sn_sr = "LISTEN"
    /\ connections < MaxConnections
    /\ connections' = connections + 1
    /\ sn_sr' = "ESTABLISHED"
    /\ tx_end' = sn_tx_wr /\ tx_sent' = sn_tx_wr /\ sn_tx_rd' = sn_tx_wr
    /\ rx_taken' = sn_rx_rd /\ sn_rx_wr' = sn_rx_rd
    /\ accepted' = 0 /\ wire' = <<>> /\ arrived' = 0 /\ delivered' = <<>> /\ not_connected' = {}
    /\ UNCHANGED <<object, pc, local, data_transmitted, sn_tx_wr, tx_buffer, sending, sn_rx_rd,
                   rx_buffer>>

\* The chip puts the next byte of a SEND command on the wire.
SendByte ==
    /\ sending
    /\ tx_sent # tx_end
    /\ wire' = Append(wire, tx_buffer[Place(tx_sent)])
    /\ tx_sent' = Add(tx_sent, 1)
    /\ UNCHANGED <<object, pc, local, status, sn_tx_wr, tx_end, sn_tx_rd, tx_buffer, sending,
                   receiver, connections, accepted, arrived, delivered, not_connected>>

\* The SEND command is done.
SendOk ==
    /\ sending
    /\ tx_sent = tx_end
    /\ sending' = FALSE
    /\ data_transmitted' = TRUE
    /\ UNCHANGED <<object, pc, local, sn_sr, sn_tx_wr, tx_end, tx_sent, sn_tx_rd, tx_buffer,
                   receiver, connections, history>>

\* The peer acknowledges data, which frees transmit buffer space.
Acknowledge ==
    /\ sn_tx_rd # tx_sent
    /\ sn_tx_rd' = Add(sn_tx_rd, 1)
    /\ UNCHANGED <<object, pc, local, status, sn_tx_wr, tx_end, tx_sent, tx_buffer, sending,
                   receiver, connections, history>>

Arrive ==
    /\ sn_sr = "ESTABLISHED"
    /\ arrived < MaxArrived
    /\ Received_Size < Size
    /\ arrived' = arrived + 1
    /\ rx_buffer' = [rx_buffer EXCEPT ![Place(sn_rx_wr)] = arrived + 1]
    /\ sn_rx_wr' = Add(sn_rx_wr, 1)
    /\ UNCHANGED <<object, pc, local, status, transmitter, sn_rx_rd, rx_taken, connections,
                   accepted, wire, delivered, not_connected>>

\* The peer's FIN follows its last byte.
PeerCloses ==
    /\ sn_sr = "ESTABLISHED"
    /\ sn_sr' = "CLOSE_WAIT"
    /\ UNCHANGED <<object, pc, local, data_transmitted, transmitter, receiver, connections,
                   history>>

\* A reset, a timeout, or the end of an orderly close: a SEND is given up.
ConnectionEnds ==
    /\ sn_sr \in {"ESTABLISHED", "CLOSE_WAIT", "CLOSING"}
    /\ sn_sr' = "CLOSED"
    /\ sending' = FALSE
    /\ UNCHANGED <<object, pc, local, data_transmitted, sn_tx_wr, tx_end, tx_sent, sn_tx_rd,
                   tx_buffer, receiver, connections, history>>

TransmitStep == CheckSend \/ ReadFreeSpace \/ WriteTransmitBuffer \/ Send
ReceiveStep == ReadReceivedSize \/ ReadReceiveBuffer \/ Recv
SomeTransmit == \E n \in 1..MaxTransmitted : Transmit(n)

Next ==
    \/ Open \/ Close \/ Shutdown \/ ClearInterrupts
    \/ \E n \in 0..MaxTransmitted : Transmit(n)
    \/ TransmitStep
    \/ \E n \in 0..MaxArrived : Receive(n)
    \/ ReceiveStep
    \/ Establish \/ SendByte \/ SendOk \/ Acknowledge
    \/ Arrive \/ PeerCloses \/ ConnectionEnds

Spec == Init /\ [][Next]_vars

\* A call runs to its end, the chip sends and the peer acknowledges, and a
\* program that has data keeps calling transmit().
FairSpec ==
    /\ Spec
    /\ WF_vars(TransmitStep) /\ WF_vars(ReceiveStep)
    /\ WF_vars(SendByte) /\ WF_vars(SendOk) /\ WF_vars(Acknowledge)
    /\ SF_vars(SomeTransmit)

-----------------------------------------------------------------------------
Pcs == {"idle", "check_SEND", "read_FSR", "write", "SEND", "read_RSR", "read", "RECV"}

TypeOK ==
    /\ state \in {"UNINITIALIZED", "CONNECTED"}
    /\ is_transmitting \in BOOLEAN
    /\ pc \in Pcs
    /\ begin_end \in Nat
    /\ close_wait \in BOOLEAN
    /\ sn_sr \in {"LISTEN", "ESTABLISHED", "CLOSE_WAIT", "CLOSING", "CLOSED"}
    /\ data_transmitted \in BOOLEAN
    /\ sn_tx_wr \in Pointers /\ tx_end \in Pointers /\ tx_sent \in Pointers
    /\ sn_tx_rd \in Pointers
    /\ sn_rx_rd \in Pointers /\ rx_taken \in Pointers /\ sn_rx_wr \in Pointers
    /\ tx_buffer \in [Places -> Nat]
    /\ rx_buffer \in [Places -> Nat]
    /\ sending \in BOOLEAN
    /\ connections \in 0..MaxConnections
    /\ accepted \in 0..MaxTransmitted
    /\ wire \in Seq(Nat)
    /\ arrived \in 0..MaxArrived
    /\ delivered \in Seq(Nat)
    /\ not_connected \subseteq [sn_sr : {"CLOSE_WAIT", "CLOSED"}, delivered : Nat]

(* What goes to the peer is what transmit() accepted, byte for byte and in *)
(* order: no byte is lost, repeated, or overwritten in the transmit buffer *)
(* before it is sent, whatever the chip has freed since transmit() looked. *)
WireIsPrefix == wire = UpTo(Len(wire)) /\ Len(wire) =< accepted

(* What receive() gives the program is what arrived, in order and once.    *)
(* NOT_CONNECTED is its last word: no byte of the connection comes after   *)
(* it.  When it says so because of the peer's FIN (SOCK_CLOSE_WAIT), it    *)
(* has delivered every byte that the peer sent before; of a socket that is *)
(* closed (SOCK_CLOSED) it says so without a look at SN_RX_RSR, and what   *)
(* had arrived and was not read is lost.                                   *)
DeliveredAsArrived ==
    /\ delivered = UpTo(Len(delivered)) /\ Len(delivered) =< arrived
    /\ \A report \in not_connected :
          /\ Len(delivered) = report.delivered
          /\ report.sn_sr = "CLOSE_WAIT" => Len(delivered) = arrived

(* When is_transmitting() says that no transmission is in progress, the    *)
(* chip is not working on a SEND command, and transmit() gives no SEND     *)
(* command while the chip still works on the last one.  The program is one *)
(* that clears SEND_OK only when it has found it set: clear_interrupts()   *)
(* takes any SEND_OK in its mask for the end of the transmission.          *)
IsTransmittingIsTrue ==
    (state = "CONNECTED" /\ sending) =>
        /\ pc = "idle" => is_transmitting
        /\ pc # "SEND"

(* A transmission does not block the program for ever: as long as the      *)
(* connection lives and the program keeps calling, transmit() gets past    *)
(* the last SEND (it clears SEND_OK before the next SEND, not after it).   *)
TransmissionEnds ==
    (is_transmitting /\ state = "CONNECTED") ~>
        (~is_transmitting \/ accepted = MaxTransmitted \/ sn_sr # "ESTABLISHED"
            \/ state # "CONNECTED")
=============================================================================
