--------------------------- MODULE W5500Datagrams ---------------------------
(***************************************************************************)
(* The data path of WIZnet::W5500::IP::UDP::Socket: transmit() and         *)
(* receive() against the chip, which sends a datagram or gives it up, and  *)
(* stores those that arrive, meanwhile.                                    *)
(*                                                                         *)
(* The chip puts eight bytes before the data of a datagram that arrives:   *)
(* where it is from, and the size of the data.  Here they are two cells of *)
(* the buffer.  A cell of data is <<n, k>>, the k-th byte of the n-th      *)
(* datagram, so that a byte that is lost, repeated, misplaced or in the    *)
(* wrong datagram shows.                                                   *)
(*                                                                         *)
(* As in W5500Stream, a call is cut where it reads what the chip changes   *)
(* or gives a command, and close() leaves the hardware socket to the next  *)
(* socket object (through Network_Stack::deallocate_socket()).             *)
(***************************************************************************)
EXTENDS BufferPointers, SequencesExt

CONSTANTS
    Endpoints,        \* of the hosts that send and receive datagrams
    NoEndpoint,       \* the reset value of SN_DIPR and SN_DPORT
    DataSizes,        \* sizes of data to transmit, of what arrives, and of
                      \* the room that receive() is given
    MaxTransmitted,   \* bound: datagrams the program transmits
    MaxArrived,       \* bound: datagrams that arrive
    MaxSockets        \* bound: socket objects on the hardware socket

ASSUME BoundsAssumption == {MaxTransmitted, MaxArrived, MaxSockets} \subseteq Nat
ASSUME DataSizesAssumption == DataSizes \subseteq 0..Size
ASSUME EndpointsAssumption == NoEndpoint \notin Endpoints

VARIABLES
    state, is_transmitting,               \* the socket object
    pc, datagram, room, sn_rx_rsr,        \* the call in progress, its locals
    data_transmitted, timeout,            \* SN_IR's SEND_OK and TIMEOUT bits
    sn_dest,                              \* SN_DIPR and SN_DPORT
    sn_tx_wr, sn_tx_rd, tx_buffer,        \* transmit pointers, memory
    sending,                              \* a SEND command is in progress
    sn_rx_rd, rx_taken, sn_rx_wr, rx_buffer,   \* receive pointers, memory
    sockets,                              \* how many there have been
    accepted, sent,                       \* history: SEND by SEND, what was
                                          \* asked for and what became of it
    arrived, received                     \* history: what arrived, and what
                                          \* receive() made of it

object == <<state, is_transmitting>>
local == <<datagram, room, sn_rx_rsr>>
interrupts == <<data_transmitted, timeout>>
transmitter == <<sn_dest, sn_tx_wr, sn_tx_rd, tx_buffer, sending>>
receiver == <<sn_rx_rd, rx_taken, sn_rx_wr, rx_buffer>>
history == <<accepted, sent, arrived, received>>
vars == <<object, pc, local, interrupts, transmitter, receiver, sockets, history>>

Free_Space == Size - Ahead(sn_tx_wr, sn_tx_rd)        \* SN_TX_FSR
Received_Size == Ahead(sn_rx_wr, rx_taken)            \* SN_RX_RSR

Header == 2
Data(n, size) == [k \in 1..size |-> <<n, k>>]

\* What a buffer holds from a pointer on, and a buffer with cells stored there.
Read(buffer, p, n) == [k \in 1..n |-> buffer[Place(p + k - 1)]]
Stored(buffer, p, cells) ==
    [i \in Places |->
        IF From(i, p) < Len(cells) THEN cells[From(i, p) + 1] ELSE buffer[i]]

NoDatagram == [endpoint |-> NoEndpoint, data |-> <<>>]
Lost == [endpoint |-> NoEndpoint, data |-> <<<<0, 0>>>>]
Empty == [i \in Places |-> <<0, 0>>]

Init ==
    /\ state = "UNINITIALIZED" /\ is_transmitting = FALSE
    /\ pc = "idle" /\ datagram = NoDatagram /\ room = 0 /\ sn_rx_rsr = 0
    /\ data_transmitted = FALSE /\ timeout = FALSE
    /\ sn_dest = NoEndpoint
    /\ sn_tx_wr = 0 /\ sn_tx_rd = 0 /\ tx_buffer = Empty
    /\ sending = FALSE
    /\ sn_rx_rd = 0 /\ rx_taken = 0 /\ sn_rx_wr = 0 /\ rx_buffer = Empty
    /\ sockets = 0
    /\ accepted = <<>> /\ sent = <<>> /\ arrived = <<>> /\ received = <<>>

-----------------------------------------------------------------------------
(* Getting, opening and giving back the hardware socket.                   *)

\* make_udp_socket() and bind(): the chip opens it with empty buffers.
Bind ==
    /\ pc = "idle"
    /\ state = "UNINITIALIZED"
    /\ sockets < MaxSockets
    /\ sockets' = sockets + 1
    /\ state' = "BOUND"
    /\ is_transmitting' = FALSE
    /\ sn_tx_rd' = sn_tx_wr /\ tx_buffer' = Empty
    /\ rx_taken' = sn_rx_rd /\ sn_rx_wr' = sn_rx_rd /\ rx_buffer' = Empty
    /\ UNCHANGED <<pc, local, interrupts, sn_dest, sn_tx_wr, sending, sn_rx_rd, history>>

\* A mutant: the interrupt flags outlive the socket object.
Close_KeepsInterrupts ==
    /\ pc = "idle"
    /\ state = "BOUND"
    /\ state' = "UNINITIALIZED"
    /\ sn_dest' = NoEndpoint
    /\ sending' = FALSE
    /\ accepted' = <<>> /\ sent' = <<>> /\ arrived' = <<>> /\ received' = <<>>
    /\ UNCHANGED <<is_transmitting, interrupts, pc, local, sn_tx_wr, sn_tx_rd, tx_buffer, receiver,
                   sockets>>

Close ==
    /\ pc = "idle"
    /\ state = "BOUND"
    /\ state' = "UNINITIALIZED"
    /\ data_transmitted' = FALSE
    /\ timeout' = FALSE
    /\ sn_dest' = NoEndpoint
    /\ sending' = FALSE
    /\ accepted' = <<>> /\ sent' = <<>> /\ arrived' = <<>> /\ received' = <<>>
    /\ UNCHANGED <<is_transmitting, pc, local, sn_tx_wr, sn_tx_rd, tx_buffer, receiver, sockets>>

\* clear_interrupts() of an interrupt that the program found set.  The code has
\* no such guard: it is a rule that the program keeps.
ClearInterrupts ==
    /\ pc = "idle"
    /\ state = "BOUND"
    /\ data_transmitted \/ timeout
    /\ data_transmitted' = FALSE
    /\ timeout' = FALSE
    /\ is_transmitting' = FALSE
    /\ UNCHANGED <<state, pc, local, transmitter, receiver, sockets, history>>

-----------------------------------------------------------------------------
(* transmit( endpoint, begin, end )                                        *)

Return == pc' = "idle" /\ datagram' = NoDatagram /\ room' = 0 /\ sn_rx_rsr' = 0

\* A datagram that is larger than the buffer fails at once, and is not in
\* DataSizes.
Transmit(endpoint, size) ==
    /\ pc = "idle"
    /\ state = "BOUND"
    /\ Len(accepted) < MaxTransmitted
    /\ pc' = "check_SEND"
    /\ datagram' = [endpoint |-> endpoint, data |-> Data(Len(accepted) + 1, size)]
    /\ UNCHANGED <<object, room, sn_rx_rsr, interrupts, transmitter, receiver, sockets, history>>

\* A mutant: a datagram that was given up is still waited for.
SendInProgress_IgnoresTimeout == is_transmitting /\ ~data_transmitted

SendInProgress == is_transmitting /\ ~data_transmitted /\ ~timeout

CheckSend ==
    /\ pc = "check_SEND"
    /\ IF SendInProgress
       THEN Return /\ UNCHANGED <<is_transmitting, interrupts>>
       ELSE /\ pc' = "read_FSR" /\ UNCHANGED local
            /\ is_transmitting' = FALSE
            /\ data_transmitted' = (data_transmitted /\ ~is_transmitting)
            /\ timeout' = (timeout /\ ~is_transmitting)
    /\ UNCHANGED <<state, transmitter, receiver, sockets, history>>

ReadFreeSpace ==
    /\ pc = "read_FSR"
    /\ IF Len(datagram.data) > Free_Space
       THEN Return
       ELSE pc' = "write" /\ UNCHANGED local
    /\ UNCHANGED <<object, interrupts, transmitter, receiver, sockets, history>>

\* A mutant: SN_TX_WR points to the last byte, not after it.
NextWrite_OneShort(n) == Add(sn_tx_wr, n - 1)

NextWrite(n) == Add(sn_tx_wr, n)

\* write_sn_dipr(), write_sn_dport(), write_tx_buffer() and write_sn_tx_wr()
WriteDatagram ==
    /\ pc = "write"
    /\ sn_dest' = datagram.endpoint
    /\ tx_buffer' = Stored(tx_buffer, sn_tx_wr, datagram.data)
    /\ sn_tx_wr' = NextWrite(Len(datagram.data))
    /\ pc' = "SEND"
    /\ UNCHANGED <<object, local, interrupts, sn_tx_rd, sending, receiver, sockets, history>>

Send ==
    /\ pc = "SEND"
    /\ sending' = TRUE
    /\ is_transmitting' = TRUE
    /\ accepted' = Append(accepted, datagram)
    /\ Return
    /\ UNCHANGED <<state, interrupts, sn_dest, sn_tx_wr, sn_tx_rd, tx_buffer, receiver, sockets,
                   sent, arrived, received>>

-----------------------------------------------------------------------------
(* receive( begin, end )                                                   *)

Receive(n) ==
    /\ pc = "idle"
    /\ state = "BOUND"
    /\ IF Received_Size = 0
       THEN Return
       ELSE pc' = "read" /\ room' = n /\ sn_rx_rsr' = Received_Size /\ UNCHANGED datagram
    /\ UNCHANGED <<object, interrupts, transmitter, receiver, sockets, history>>

\* A mutant: what does not fit stays in the buffer.
NextRead_LeavesRest(taken, size) == Add(sn_rx_rd, Header + taken)

NextRead(taken, size) == Add(sn_rx_rd, Header + size)

Taken(size) == IF room > size THEN size ELSE room

\* read_rx_buffer() of the header, then of the data; write_sn_rx_rd()
ReadDatagram ==
    LET header == Read(rx_buffer, sn_rx_rd, Header)
        size == header[2][1]
    IN
    /\ pc = "read"
    /\ received' = Append(received,
                          [endpoint |-> header[1][1], room |-> room,
                           data |-> Read(rx_buffer, sn_rx_rd + Header, Taken(size))])
    /\ sn_rx_rd' = NextRead(Taken(size), size)
    /\ pc' = "RECV"
    /\ UNCHANGED <<object, local, interrupts, transmitter, rx_taken, sn_rx_wr, rx_buffer, sockets,
                   accepted, sent, arrived>>

Recv ==
    /\ pc = "RECV"
    /\ rx_taken' = sn_rx_rd
    /\ Return
    /\ UNCHANGED <<object, interrupts, transmitter, sn_rx_rd, sn_rx_wr, rx_buffer, sockets, history>>

-----------------------------------------------------------------------------
(* The chip.                                                               *)

\* The SEND command is done: everything up to SN_TX_WR has been sent.
SendOk ==
    /\ sending
    /\ sent' = Append(sent, [endpoint |-> sn_dest,
                             data |-> Read(tx_buffer, sn_tx_rd, Ahead(sn_tx_wr, sn_tx_rd))])
    /\ sn_tx_rd' = sn_tx_wr
    /\ sending' = FALSE
    /\ data_transmitted' = TRUE
    /\ UNCHANGED <<object, pc, local, timeout, sn_dest, sn_tx_wr, tx_buffer, receiver, sockets,
                   accepted, arrived, received>>

\* Nobody answered the ARP request: the datagram is given up.
ArpTimeout ==
    /\ sending
    /\ sent' = Append(sent, Lost)
    /\ sn_tx_rd' = sn_tx_wr
    /\ sending' = FALSE
    /\ timeout' = TRUE
    /\ UNCHANGED <<object, pc, local, data_transmitted, sn_dest, sn_tx_wr, tx_buffer, receiver,
                   sockets, accepted, arrived, received>>

\* A datagram arrives; one that does not fit is dropped.
Arrive(endpoint, size) ==
    LET n == Len(arrived) + 1 IN
    /\ state = "BOUND"
    /\ n =< MaxArrived
    /\ Received_Size + Header + size =< Size
    /\ arrived' = Append(arrived, [endpoint |-> endpoint, data |-> Data(n, size)])
    /\ rx_buffer' = Stored(rx_buffer, sn_rx_wr, <<<<endpoint, 0>>, <<size, 0>>>> \o Data(n, size))
    /\ sn_rx_wr' = Add(sn_rx_wr, Header + size)
    /\ UNCHANGED <<object, pc, local, interrupts, transmitter, sn_rx_rd, rx_taken, sockets,
                   accepted, sent, received>>

TransmitStep == CheckSend \/ ReadFreeSpace \/ WriteDatagram \/ Send
ReceiveStep == ReadDatagram \/ Recv
SomeTransmit == \E endpoint \in Endpoints, size \in DataSizes : Transmit(endpoint, size)

Next ==
    \/ Bind \/ Close \/ ClearInterrupts
    \/ SomeTransmit
    \/ TransmitStep
    \/ \E n \in DataSizes : Receive(n)
    \/ ReceiveStep
    \/ SendOk \/ ArpTimeout
    \/ \E endpoint \in Endpoints, size \in DataSizes : Arrive(endpoint, size)

Spec == Init /\ [][Next]_vars

\* A call runs to its end, the chip sends a datagram or gives it up, and a
\* program that has data keeps calling transmit().
FairSpec ==
    /\ Spec
    /\ WF_vars(TransmitStep) /\ WF_vars(ReceiveStep)
    /\ WF_vars(SendOk \/ ArpTimeout)
    /\ SF_vars(SomeTransmit)

-----------------------------------------------------------------------------
Pcs == {"idle", "check_SEND", "read_FSR", "write", "SEND", "read", "RECV"}
AnyEndpoint == Endpoints \cup {NoEndpoint}
Cells == (Nat \cup Endpoints) \X Nat
Datagrams == [endpoint : AnyEndpoint, data : Seq(Cells)]

TypeOK ==
    /\ state \in {"UNINITIALIZED", "BOUND"}
    /\ is_transmitting \in BOOLEAN
    /\ pc \in Pcs
    /\ datagram \in Datagrams
    /\ room \in 0..Size
    /\ sn_rx_rsr \in 0..Size
    /\ data_transmitted \in BOOLEAN
    /\ timeout \in BOOLEAN
    /\ sn_dest \in AnyEndpoint
    /\ sn_tx_wr \in Pointers /\ sn_tx_rd \in Pointers
    /\ sn_rx_rd \in Pointers /\ rx_taken \in Pointers /\ sn_rx_wr \in Pointers
    /\ tx_buffer \in [Places -> Cells]
    /\ rx_buffer \in [Places -> Cells]
    /\ sending \in BOOLEAN
    /\ sockets \in 0..MaxSockets
    /\ accepted \in Seq(Datagrams)
    /\ sent \in Seq(Datagrams)
    /\ arrived \in Seq(Datagrams)
    /\ received \in Seq([endpoint : AnyEndpoint, room : 0..Size, data : Seq(Cells)])

(* Each SEND puts one datagram on the wire, the one that transmit() was    *)
(* given, with all of its data and nothing else, to the endpoint that      *)
(* transmit() was given with it; or the datagram is lost as a whole, and   *)
(* does not turn up in a later one.                                        *)
DatagramsAreWhole ==
    /\ Len(sent) =< Len(accepted)
    /\ \A k \in DOMAIN sent : sent[k] \in {accepted[k], Lost}

(* receive() gives the program the datagrams that arrived, one per call    *)
(* and in order, each with its source and as much of its data as there is  *)
(* room for; the rest of one never shows up as the next one, and what is   *)
(* found where a header is expected is one.                                *)
ReceivedAsArrived ==
    /\ Len(received) =< Len(arrived)
    /\ pc = "read" =>
          LET header == Read(rx_buffer, sn_rx_rd, Header) IN
          header[1][1] \in Endpoints /\ sn_rx_rsr >= Header + header[2][1]
    /\ \A k \in DOMAIN received :
          /\ received[k].endpoint = arrived[k].endpoint
          /\ IsPrefix(received[k].data, arrived[k].data)
          /\ Len(received[k].data) = Min({received[k].room, Len(arrived[k].data)})

(* When is_transmitting() says that no transmission is in progress, the    *)
(* chip is not working on a SEND command, and transmit() does not touch    *)
(* the destination registers and the buffer while it is.  The program is   *)
(* one that clears SEND_OK or TIMEOUT only when it has found one of them   *)
(* set: clear_interrupts() takes any of them in its mask for the end of    *)
(* the transmission.                                                       *)
IsTransmittingIsTrue ==
    (state = "BOUND" /\ sending) =>
        /\ pc = "idle" => is_transmitting
        /\ pc \notin {"write", "SEND"}

(* Neither the answer nor the silence of the other host blocks the program *)
(* for ever: when it keeps calling, transmit() gets past the last datagram *)
(* (it takes SEND_OK and TIMEOUT for an answer, and clears both).          *)
TransmissionEnds ==
    (is_transmitting /\ state = "BOUND") ~>
        (~is_transmitting \/ state # "BOUND" \/ Len(accepted) = MaxTransmitted)
=============================================================================
