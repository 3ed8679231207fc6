----------------------- MODULE W5500DatagramsProofs -----------------------
(***************************************************************************)
(* Proofs about W5500Datagrams, for buffers of any size and pointers of    *)
(* any width that is a multiple of it, and for any number of datagrams.    *)
(*                                                                         *)
(* Between SN_RX_RD and SN_RX_WR the receive buffer holds the frames of    *)
(* the datagrams that have arrived and have not been read, one after the   *)
(* other.  The n-th datagram ends at position[n], counted in cells from    *)
(* the first that arrived, and where that is in the buffer follows from    *)
(* how far it is from the end of the datagrams that have been read, which  *)
(* is where SN_RX_RD points.  receive() takes what it finds there for a    *)
(* header, so that it has to skip the whole datagram, whatever the room.   *)
(*                                                                         *)
(* The transmit buffer holds one datagram or none: what SN_TX_WR is ahead  *)
(* of the chip's pointer is what transmit() wrote, because it waits for    *)
(* SEND_OK or TIMEOUT of the last SEND command before it writes.           *)
(***************************************************************************)
EXTENDS W5500Datagrams, SequenceTheorems, BufferPointersProofs

-----------------------------------------------------------------------------
(* The inductive invariant.                                                *)

\* How many cells have been written that have not been sent, how many have
\* arrived that have not been read, and that no RECV has freed.
ToSend == Ahead(sn_tx_wr, sn_tx_rd)
ToRead == Ahead(sn_rx_wr, sn_rx_rd)
ToTake == Ahead(sn_rx_wr, rx_taken)

\* Where a call can be, and what a socket object starts with.
CallInv ==
    /\ pc # "idle" => state = "BOUND"
    /\ state = "UNINITIALIZED" =>
          accepted = <<>> /\ sent = <<>> /\ arrived = <<>> /\ received = <<>>
    /\ Len(datagram.data) =< Size

\* SEND_OK and TIMEOUT belong to the last SEND command of this socket object,
\* and m_is_transmitting is set from that command until they are cleared.
SendOkInv ==
    /\ sending => ~data_transmitted /\ ~timeout
    /\ state = "UNINITIALIZED" => ~sending /\ ~data_transmitted /\ ~timeout
    /\ state = "BOUND" /\ ~is_transmitting => ~sending /\ ~data_transmitted /\ ~timeout
    /\ pc \in {"read_FSR", "write", "SEND"} => ~is_transmitting

\* What the chip sends with the next SEND command, or is about to.
Outgoing == [endpoint |-> sn_dest, data |-> Read(tx_buffer, sn_tx_rd, ToSend)]

\* There is one datagram in the transmit buffer, or none: the one that has been
\* accepted and not been sent, or the one that transmit() has just written.
TransmitInv ==
    state = "BOUND" =>
        /\ sending => Len(accepted) = Len(sent) + 1 /\ Outgoing = accepted[Len(accepted)]
        /\ ~sending => Len(accepted) = Len(sent)
        /\ ~sending /\ pc # "SEND" => sn_tx_rd = sn_tx_wr
        /\ pc = "SEND" => Outgoing = datagram

\* A datagram as the chip stores it.
Frame(d) == <<<<d.endpoint, 0>>, <<Len(d.data), 0>>>> \o d.data

\* The datagrams that receive() has not given the program.
Unread == (Len(received) + 1)..Len(arrived)

\* The frames of the unread datagrams lie behind SN_RX_RD, one after the other.
Layout(position) ==
    /\ \A k \in 1..Len(arrived) :
          position[k] = position[k - 1] + Header + Len(arrived[k].data)
    /\ \A j, k \in 0..Len(arrived) : j =< k => position[j] =< position[k]
    /\ ToRead = position[Len(arrived)] - position[Len(received)]
    /\ \A k \in Unread : \A j \in 0..(Header + Len(arrived[k].data) - 1) :
          rx_buffer[Place(sn_rx_rd + (position[k - 1] - position[Len(received)]) + j)] =
             Frame(arrived[k])[j + 1]

LayoutInv ==
    state = "BOUND" => \E position \in [0..Len(arrived) -> Nat] : Layout(position)

\* The pointers of the receiver are in order, and within the buffer; a call that
\* goes on to read has a whole datagram to read.
ReceiveInv ==
    state = "BOUND" =>
        /\ ToRead =< ToTake /\ ToTake =< Size
        /\ pc # "RECV" => rx_taken = sn_rx_rd
        /\ Len(received) =< Len(arrived)
        /\ pc = "read" =>
              /\ Len(received) < Len(arrived)
              /\ sn_rx_rsr >= Header + Len(arrived[Len(received) + 1].data)

ArrivedInv == \A k \in DOMAIN arrived : arrived[k].endpoint \in Endpoints

\* What the program has got is what arrived, as far as there was room.
ReceivedInv ==
    \A k \in DOMAIN received :
        /\ received[k].endpoint = arrived[k].endpoint
        /\ IsPrefix(received[k].data, arrived[k].data)
        /\ Len(received[k].data) = Min({received[k].room, Len(arrived[k].data)})

DatagramsInv ==
    /\ TypeOK /\ CallInv /\ SendOkInv
    /\ TransmitInv /\ DatagramsAreWhole
    /\ ArrivedInv /\ LayoutInv /\ ReceiveInv /\ ReceivedInv

-----------------------------------------------------------------------------
(* Reading and storing cells.                                              *)

\* Pointers and distances are numbers.
LEMMA DistancesAre ==
    ASSUME TypeOK
    PROVE  /\ sn_tx_wr \in Int /\ sn_tx_rd \in Int
           /\ sn_rx_wr \in Int /\ rx_taken \in Int /\ sn_rx_rd \in Int
           /\ ToSend \in Nat /\ ToRead \in Nat /\ ToTake \in Nat
           /\ Size \in Nat \ {0} /\ POINTERS \in Nat /\ Size < POINTERS
<1>1. Size \in Nat \ {0} /\ POINTERS \in Nat /\ Size < POINTERS
    BY Constants
<1>2. /\ sn_tx_wr \in Int /\ sn_tx_rd \in Int
      /\ sn_rx_wr \in Int /\ rx_taken \in Int /\ sn_rx_rd \in Int
    BY <1>1 DEF TypeOK, Pointers
<1>3. \A p \in Int : \A q \in Int : Ahead(p, q) \in Nat
    BY <1>1, AheadIs
<1>. QED BY <1>1, <1>2, <1>3 DEF ToSend, ToRead, ToTake

\* The smaller of two numbers.
LEMMA MinIs ==
    ASSUME NEW a \in Nat, NEW b \in Nat
    PROVE  Min({a, b}) = IF a =< b THEN a ELSE b
<1>. DEFINE m == IF a =< b THEN a ELSE b
<1>1. m \in {a, b} /\ \A y \in {a, b} : m =< y
    OBVIOUS
<1>2. \A x \in {a, b} : (\A y \in {a, b} : x =< y) => x = m
    OBVIOUS
<1>. HIDE DEF m
<1>3. Min({a, b}) = m
    BY <1>1, <1>2 DEF Min
<1>. QED BY <1>3 DEF m

\* The first elements of a sequence are a prefix of it.
LEMMA PrefixIs ==
    ASSUME NEW S, NEW s \in Seq(S), NEW t \in Seq(S), Len(s) =< Len(t),
           \A k \in 1..Len(s) : s[k] = t[k]
    PROVE  IsPrefix(s, t)
<1>. DEFINE n == Len(s)
            a == SubSeq(s, 1, n)
            b == SubSeq(t, 1, n)
<1>1. n \in Nat /\ Len(t) \in Nat /\ n =< Len(t) /\ n \in Int /\ 1 \in Int
    OBVIOUS
<1>2. \A k \in 1..n : s[k] \in S /\ t[k] \in S /\ s[k] = t[k]
    BY <1>1, ElementOfSeq
<1>. HIDE DEF n
<1>3. /\ a \in Seq(S) /\ Len(a) = IF 1 =< n THEN n - 1 + 1 ELSE 0
      /\ \A k \in 1..(n - 1 + 1) : a[k] = s[1 + k - 1]
    BY <1>1, <1>2, SubSeqProperties
<1>4. /\ b \in Seq(S) /\ Len(b) = IF 1 =< n THEN n - 1 + 1 ELSE 0
      /\ \A k \in 1..(n - 1 + 1) : b[k] = t[1 + k - 1]
    BY <1>1, <1>2, SubSeqProperties
<1>. HIDE DEF a, b
<1>5. Len(a) = n /\ Len(b) = n
    BY <1>1, <1>3, <1>4
<1>6. ASSUME NEW k \in 1..n PROVE a[k] = b[k]
    <2>1. n - 1 + 1 = n /\ 1 + k - 1 = k
        BY <1>1
    <2>. QED BY <1>2, <1>3, <1>4, <2>1
<1>7. a = b
    BY <1>3, <1>4, <1>5, <1>6, SeqEqual
<1>. QED BY <1>1, <1>7 DEF IsPrefix, a, b, n

LEMMA DataIs ==
    ASSUME NEW n \in Nat, NEW size \in Nat
    PROVE  Data(n, size) \in Seq(Cells) /\ Len(Data(n, size)) = size
<1>1. Data(n, size) \in [1..size -> Cells]
    BY DEF Data, Cells
<1>. QED BY <1>1 DEF Data

\* What is read from a buffer is data.
LEMMA ReadIs ==
    ASSUME NEW buffer \in [Places -> Cells], NEW p \in Int, NEW n \in Nat
    PROVE  /\ Read(buffer, p, n) \in Seq(Cells) /\ Len(Read(buffer, p, n)) = n
           /\ \A k \in 1..n : Read(buffer, p, n)[k] = buffer[Place(p + (k - 1))]
<1>1. ASSUME NEW k \in 1..n PROVE buffer[Place(p + k - 1)] \in Cells /\ p + k - 1 = p + (k - 1)
    <2>1. p + k - 1 \in Int /\ p + k - 1 = p + (k - 1)
        OBVIOUS
    <2>. QED BY <2>1, PlaceIs
<1>2. Read(buffer, p, n) \in [1..n -> Cells]
    BY <1>1 DEF Read
<1>. QED BY <1>1, <1>2 DEF Read

LEMMA StoredIs ==
    ASSUME NEW buffer \in [Places -> Cells], NEW p \in Int, NEW cells \in Seq(Cells)
    PROVE  Stored(buffer, p, cells) \in [Places -> Cells]
<1>1. ASSUME NEW i \in Places, From(i, p) < Len(cells) PROVE cells[From(i, p) + 1] \in Cells
    <2>1. i \in Int
        BY Constants DEF Places
    <2>2. From(i, p) \in Places
        BY <2>1, FromIs
    <2>3. From(i, p) + 1 \in 1..Len(cells)
        BY <1>1, <2>2, Constants DEF Places
    <2>. QED BY <2>3, ElementOfSeq
<1>. QED BY <1>1 DEF Stored

\* What is stored at a pointer is found after it.
LEMMA StoredCell ==
    ASSUME NEW buffer, NEW p \in Int, NEW cells \in Seq(Cells), Len(cells) =< Size,
           NEW j \in 0..(Len(cells) - 1)
    PROVE  Stored(buffer, p, cells)[Place(p + j)] = cells[j + 1]
<1>1. j \in Places
    BY Constants DEF Places
<1>2. Place(p + j) \in Places /\ From(Place(p + j), p) = j
    BY <1>1, FromPlaceAhead
<1>3. j < Len(cells)
    OBVIOUS
<1>. QED BY <1>2, <1>3 DEF Stored

LEMMA StoredThenRead ==
    ASSUME NEW buffer \in [Places -> Cells], NEW p \in Int, NEW cells \in Seq(Cells),
           Len(cells) =< Size
    PROVE  Read(Stored(buffer, p, cells), p, Len(cells)) = cells
<1>. DEFINE b == Stored(buffer, p, cells)
            r == Read(b, p, Len(cells))
<1>1. b \in [Places -> Cells] /\ Len(cells) \in Nat
    BY StoredIs
<1>2. /\ r \in Seq(Cells) /\ Len(r) = Len(cells)
      /\ \A k \in 1..Len(cells) : r[k] = b[Place(p + (k - 1))]
    <2>. HIDE DEF b
    <2>. QED BY <1>1, ReadIs
<1>3. ASSUME NEW k \in 1..Len(cells) PROVE r[k] = cells[k]
    <2>1. k - 1 \in 0..(Len(cells) - 1) /\ (k - 1) + 1 = k
        BY <1>1
    <2>2. b[Place(p + (k - 1))] = cells[(k - 1) + 1]
        BY <2>1, StoredCell
    <2>. HIDE DEF r, b
    <2>. QED BY <1>2, <2>1, <2>2
<1>. HIDE DEF r
<1>4. r = cells
    BY <1>2, <1>3, SeqEqual
<1>. QED BY <1>4 DEF r

\* A datagram in the receive buffer: the header, then the data.
LEMMA FrameIs ==
    ASSUME NEW d \in Datagrams, d.endpoint \in Endpoints
    PROVE  /\ Frame(d) \in Seq(Cells) /\ Len(Frame(d)) = Header + Len(d.data)
           /\ Frame(d)[1] = <<d.endpoint, 0>>
           /\ Frame(d)[2] = <<Len(d.data), 0>>
           /\ \A k \in 1..Len(d.data) : Frame(d)[Header + k] = d.data[k]
<1>. DEFINE h == <<<<d.endpoint, 0>>, <<Len(d.data), 0>>>>
<1>1. d.data \in Seq(Cells) /\ Len(d.data) \in Nat
    BY DEF Datagrams
<1>2. <<d.endpoint, 0>> \in Cells /\ <<Len(d.data), 0>> \in Cells
    BY <1>1 DEF Cells
<1>3. h \in Seq(Cells) /\ Len(h) = 2 /\ h[1] = <<d.endpoint, 0>> /\ h[2] = <<Len(d.data), 0>>
    BY <1>2
<1>. HIDE DEF h
<1>4. /\ h \o d.data \in Seq(Cells)
      /\ Len(h \o d.data) = Len(h) + Len(d.data)
      /\ \A i \in 1..(Len(h) + Len(d.data)) :
            (h \o d.data)[i] = IF i =< Len(h) THEN h[i] ELSE d.data[i - Len(h)]
    BY <1>1, <1>3, ConcatProperties
<1>5. Frame(d) = h \o d.data
    BY DEF Frame, h
<1>. HIDE DEF Frame
<1>6. \A i \in 1..(2 + Len(d.data)) : Frame(d)[i] = IF i =< 2 THEN h[i] ELSE d.data[i - 2]
    BY <1>3, <1>4, <1>5
<1>7. ASSUME NEW k \in 1..Len(d.data) PROVE Frame(d)[Header + k] = d.data[k]
    <2>1. 2 + k \in 1..(2 + Len(d.data)) /\ ~(2 + k =< 2) /\ (2 + k) - 2 = k
        BY <1>1
    <2>2. Frame(d)[2 + k] = d.data[(2 + k) - 2]
        BY <1>6, <2>1
    <2>. QED BY <2>1, <2>2 DEF Header
<1>8. 1 \in 1..(2 + Len(d.data)) /\ 2 \in 1..(2 + Len(d.data))
    BY <1>1
<1>9. Frame(d)[1] = h[1] /\ Frame(d)[2] = h[2]
    BY <1>6, <1>8
<1>10. Len(Frame(d)) = Header + Len(d.data)
    BY <1>3, <1>4, <1>5 DEF Header
<1>. QED BY <1>3, <1>4, <1>5, <1>7, <1>9, <1>10

-----------------------------------------------------------------------------
(* Where a call stands, and what the interrupts say of it.                 *)

LEMMA CallNext ==
    ASSUME TypeOK, CallInv, SendOkInv, [Next]_vars
    PROVE  CallInv'
<1>0. /\ \A n \in Nat : \A size \in DataSizes : Len(Data(n, size)) =< Size
      /\ Len(<<>>) =< Size
    BY DataIs, DataSizesAssumption, Constants
<1> USE DEF CallInv, object, local, interrupts, transmitter, receiver, history
<1>1. CASE Bind
    BY <1>1 DEF Bind
<1>2. CASE Close
    BY <1>2 DEF Close
<1>3. CASE ClearInterrupts
    BY <1>3 DEF ClearInterrupts
<1>4. ASSUME NEW endpoint \in Endpoints, NEW size \in DataSizes, Transmit(endpoint, size)
      PROVE  CallInv'
    <2>1. Len(accepted) + 1 \in Nat
        BY DEF TypeOK
    <2>2. datagram'.data = Data(Len(accepted) + 1, size)
        BY <1>4 DEF Transmit
    <2>3. Len(datagram'.data) =< Size
        BY <1>0, <2>1, <2>2
    <2>. QED BY <1>4, <2>3 DEF Transmit
<1>5. CASE CheckSend
    BY <1>0, <1>5 DEF CheckSend, Return, NoDatagram
<1>6. CASE ReadFreeSpace
    BY <1>0, <1>6 DEF ReadFreeSpace, Return, NoDatagram
<1>7. CASE WriteDatagram
    BY <1>7 DEF WriteDatagram
<1>8. CASE Send
    BY <1>0, <1>8 DEF Send, Return, NoDatagram
<1>9. ASSUME NEW n \in DataSizes, Receive(n) PROVE CallInv'
    BY <1>0, <1>9 DEF Receive, Return, NoDatagram
<1>10. CASE ReadDatagram
    BY <1>10 DEF ReadDatagram
<1>11. CASE Recv
    BY <1>0, <1>11 DEF Recv, Return, NoDatagram
<1>12. CASE SendOk
    BY <1>12 DEF SendOk, SendOkInv
<1>13. CASE ArpTimeout
    BY <1>13 DEF ArpTimeout, SendOkInv
<1>14. ASSUME NEW endpoint \in Endpoints, NEW size \in DataSizes, Arrive(endpoint, size)
       PROVE  CallInv'
    BY <1>14 DEF Arrive
<1>15. CASE UNCHANGED vars
    BY <1>15 DEF vars
<1>. QED BY <1>1, <1>2, <1>3, <1>4, <1>5, <1>6, <1>7, <1>8, <1>9, <1>10, <1>11, <1>12, <1>13,
            <1>14, <1>15
         DEF Next, SomeTransmit, TransmitStep, ReceiveStep

LEMMA SendOkNext ==
    ASSUME TypeOK, CallInv, SendOkInv, [Next]_vars
    PROVE  SendOkInv'
<1> USE DEF SendOkInv, CallInv, TypeOK, object, local, interrupts, transmitter, receiver, history
<1>1. CASE Bind
    BY <1>1 DEF Bind
<1>2. CASE Close
    BY <1>2 DEF Close
<1>3. CASE ClearInterrupts
    BY <1>3 DEF ClearInterrupts
<1>4. ASSUME NEW endpoint \in Endpoints, NEW size \in DataSizes, Transmit(endpoint, size)
      PROVE  SendOkInv'
    BY <1>4 DEF Transmit
<1>5. CASE CheckSend
    BY <1>5 DEF CheckSend, SendInProgress, Return
<1>6. CASE ReadFreeSpace
    BY <1>6 DEF ReadFreeSpace, Return
<1>7. CASE WriteDatagram
    BY <1>7 DEF WriteDatagram
<1>8. CASE Send
    BY <1>8 DEF Send, Return
<1>9. ASSUME NEW n \in DataSizes, Receive(n) PROVE SendOkInv'
    BY <1>9 DEF Receive, Return
<1>10. CASE ReadDatagram
    BY <1>10 DEF ReadDatagram
<1>11. CASE Recv
    BY <1>11 DEF Recv, Return
<1>12. CASE SendOk
    BY <1>12 DEF SendOk
<1>13. CASE ArpTimeout
    BY <1>13 DEF ArpTimeout
<1>14. ASSUME NEW endpoint \in Endpoints, NEW size \in DataSizes, Arrive(endpoint, size)
       PROVE  SendOkInv'
    BY <1>14 DEF Arrive
<1>15. CASE UNCHANGED vars
    BY <1>15 DEF vars
<1>. QED BY <1>1, <1>2, <1>3, <1>4, <1>5, <1>6, <1>7, <1>8, <1>9, <1>10, <1>11, <1>12, <1>13,
            <1>14, <1>15
         DEF Next, SomeTransmit, TransmitStep, ReceiveStep

-----------------------------------------------------------------------------
(* What is in the receive buffer, and where.                               *)

\* The datagram that the next receive() is about.
Oldest == arrived[Len(received) + 1]

\* The numbers of the layout.
LEMMA PositionsAre ==
    ASSUME TypeOK, ReceiveInv, state = "BOUND",
           NEW position \in [0..Len(arrived) -> Nat], Layout(position)
    PROVE  /\ Len(arrived) \in Nat /\ Len(received) \in Nat /\ Len(received) =< Len(arrived)
           /\ \A k \in 1..Len(arrived) : Len(arrived[k].data) \in Nat
           /\ \A k \in 0..Len(arrived) : position[k] \in Nat
           /\ \A k \in Unread : /\ k \in 1..Len(arrived) /\ k - 1 \in 0..Len(arrived)
                                /\ k \in 0..Len(arrived)
                                /\ position[Len(received)] =< position[k - 1]
                                /\ position[k] =< position[Len(arrived)]
                                /\ position[k] = position[k - 1] + Header + Len(arrived[k].data)
           /\ Len(received) \in 0..Len(arrived) /\ Len(arrived) \in 0..Len(arrived)
           /\ ToRead = position[Len(arrived)] - position[Len(received)]
<1>1. Len(arrived) \in Nat /\ Len(received) \in Nat /\ Len(received) =< Len(arrived)
    BY DEF TypeOK, ReceiveInv
<1>2. ASSUME NEW k \in 1..Len(arrived) PROVE Len(arrived[k].data) \in Nat
    <2>1. arrived[k] \in Datagrams
        BY ElementOfSeq DEF TypeOK
    <2>. QED BY <2>1 DEF Datagrams
<1>3. /\ \A k \in 1..Len(arrived) :
             position[k] = position[k - 1] + Header + Len(arrived[k].data)
      /\ \A j, k \in 0..Len(arrived) : j =< k => position[j] =< position[k]
      /\ ToRead = position[Len(arrived)] - position[Len(received)]
    BY DEF Layout
<1>4. ASSUME NEW k \in Unread
      PROVE  /\ k \in 1..Len(arrived) /\ k - 1 \in 0..Len(arrived) /\ k \in 0..Len(arrived)
             /\ Len(received) \in 0..Len(arrived) /\ Len(arrived) \in 0..Len(arrived)
             /\ Len(received) =< k - 1 /\ k =< Len(arrived)
    BY <1>1 DEF Unread
<1>5. Len(received) \in 0..Len(arrived) /\ Len(arrived) \in 0..Len(arrived)
    BY <1>1
<1>. QED BY <1>1, <1>2, <1>3, <1>4, <1>5

LEMMA OldestIs ==
    ASSUME TypeOK, ArrivedInv, LayoutInv, ReceiveInv, state = "BOUND",
           Len(received) < Len(arrived)
    PROVE  /\ Oldest \in Datagrams /\ Oldest.endpoint \in Endpoints /\ Len(Oldest.data) \in Nat
           /\ Read(rx_buffer, sn_rx_rd, Header)[1] = <<Oldest.endpoint, 0>>
           /\ Read(rx_buffer, sn_rx_rd, Header)[2] = <<Len(Oldest.data), 0>>
           /\ \A k \in 1..Len(Oldest.data) :
                 rx_buffer[Place(sn_rx_rd + Header + (k - 1))] = Oldest.data[k]
           /\ Header + Len(Oldest.data) =< ToRead
<1>1. PICK position \in [0..Len(arrived) -> Nat] : Layout(position)
    BY DEF LayoutInv
<1>. DEFINE n == Len(received) + 1
            size == Len(Oldest.data)
<1>2. n \in Unread /\ n \in 1..Len(arrived) /\ n - 1 = Len(received)
    BY DEF TypeOK, Unread
<1>3. Oldest \in Datagrams /\ Oldest.endpoint \in Endpoints
    BY <1>2, ElementOfSeq DEF TypeOK, ArrivedInv, Oldest
<1>4. size \in Nat
    BY <1>3 DEF Datagrams
<1>5. \A j \in 0..(Header + size - 1) :
         rx_buffer[Place(sn_rx_rd + (position[n - 1] - position[Len(received)]) + j)] =
            Frame(Oldest)[j + 1]
    BY <1>1, <1>2 DEF Layout, Oldest
<1>6. position[n - 1] - position[Len(received)] = 0 /\ position[Len(received)] \in Nat
    BY <1>1, <1>2, PositionsAre
<1>7. sn_rx_rd \in Int
    BY DistancesAre
<1>8. ASSUME NEW j \in 0..(Header + size - 1)
      PROVE  rx_buffer[Place(sn_rx_rd + j)] = Frame(Oldest)[j + 1]
    <2>1. sn_rx_rd + (position[n - 1] - position[Len(received)]) + j = sn_rx_rd + j
        BY <1>4, <1>6, <1>7 DEF Header
    <2>. QED BY <1>5, <2>1
<1>9. rx_buffer \in [Places -> Cells] /\ Header \in Nat
    BY DEF TypeOK, Header
<1>10. \A k \in 1..Header :
          Read(rx_buffer, sn_rx_rd, Header)[k] = rx_buffer[Place(sn_rx_rd + (k - 1))]
    BY <1>7, <1>9, ReadIs
<1>. HIDE DEF n, size
<1>11. /\ Read(rx_buffer, sn_rx_rd, Header)[1] = Frame(Oldest)[1]
       /\ Read(rx_buffer, sn_rx_rd, Header)[2] = Frame(Oldest)[2]
    <2>1. 1 \in 1..Header /\ 1 - 1 = 0 /\ 0 \in 0..(Header + size - 1) /\ 0 + 1 = 1
        BY <1>4 DEF Header
    <2>2. 2 \in 1..Header /\ 2 - 1 = 1 /\ 1 \in 0..(Header + size - 1) /\ 1 + 1 = 2
        BY <1>4 DEF Header
    <2>3. Read(rx_buffer, sn_rx_rd, Header)[1] = rx_buffer[Place(sn_rx_rd + 0)]
        BY <1>10, <2>1
    <2>4. Read(rx_buffer, sn_rx_rd, Header)[2] = rx_buffer[Place(sn_rx_rd + 1)]
        BY <1>10, <2>2
    <2>5. rx_buffer[Place(sn_rx_rd + 0)] = Frame(Oldest)[1]
        BY <1>8, <2>1
    <2>6. rx_buffer[Place(sn_rx_rd + 1)] = Frame(Oldest)[2]
        BY <1>8, <2>2
    <2>. QED BY <2>3, <2>4, <2>5, <2>6
<1>12. /\ Frame(Oldest)[1] = <<Oldest.endpoint, 0>>
       /\ Frame(Oldest)[2] = <<Len(Oldest.data), 0>>
       /\ \A k \in 1..Len(Oldest.data) : Frame(Oldest)[Header + k] = Oldest.data[k]
    BY <1>3, FrameIs
<1>13. ASSUME NEW k \in 1..Len(Oldest.data)
       PROVE  rx_buffer[Place(sn_rx_rd + Header + (k - 1))] = Oldest.data[k]
    <2>. DEFINE j == Header + (k - 1)
    <2>1. j \in 0..(Header + size - 1) /\ j + 1 = Header + k
        BY <1>4 DEF Header, size
    <2>2. sn_rx_rd + Header + (k - 1) = sn_rx_rd + j
        BY <1>7, <1>9
    <2>. HIDE DEF j
    <2>3. rx_buffer[Place(sn_rx_rd + j)] = Frame(Oldest)[j + 1]
        BY <1>8, <2>1
    <2>. QED BY <1>12, <2>1, <2>2, <2>3
<1>14. Header + size =< ToRead
    <2>. DEFINE a == position[n - 1]
                b == position[n]
                c == position[Len(arrived)]
    <2>1. a \in Nat /\ c \in Nat /\ b = a + Header + size /\ b =< c /\ ToRead = c - a
        BY <1>1, <1>2, PositionsAre DEF n, size, Oldest
    <2>. HIDE DEF a, b, c
    <2>. QED BY <1>4, <1>9, <2>1
<1>. QED BY <1>3, <1>4, <1>11, <1>12, <1>13, <1>14 DEF size

\* What receive() makes of it.
LEMMA ReadDoes ==
    ASSUME TypeOK, CallInv, ArrivedInv, LayoutInv, ReceiveInv, ReadDatagram
    PROVE  LET taken == Taken(Len(Oldest.data)) IN
           /\ state = "BOUND" /\ Len(received) < Len(arrived)
           /\ Oldest \in Datagrams /\ Oldest.endpoint \in Endpoints /\ Len(Oldest.data) \in Nat
           /\ taken \in Nat /\ taken =< Len(Oldest.data)
           /\ taken = IF room =< Len(Oldest.data) THEN room ELSE Len(Oldest.data)
           /\ Header + Len(Oldest.data) =< ToRead
           /\ sn_rx_rd' = Add(sn_rx_rd, Header + Len(Oldest.data))
           /\ received' = Append(received,
                                 [endpoint |-> Oldest.endpoint, room |-> room,
                                  data |-> Read(rx_buffer, sn_rx_rd + Header, taken)])
<1>1. state = "BOUND" /\ Len(received) < Len(arrived)
    BY DEF CallInv, ReceiveInv, ReadDatagram
<1>. DEFINE header == Read(rx_buffer, sn_rx_rd, Header)
            size == Len(Oldest.data)
<1>2. /\ Oldest \in Datagrams /\ Oldest.endpoint \in Endpoints /\ size \in Nat
      /\ header[1] = <<Oldest.endpoint, 0>> /\ header[2] = <<size, 0>>
      /\ Header + size =< ToRead
    BY <1>1, OldestIs
<1>3. header[1][1] = Oldest.endpoint /\ header[2][1] = size
    BY <1>2
<1>4. /\ received' = Append(received,
                            [endpoint |-> header[1][1], room |-> room,
                             data |-> Read(rx_buffer, sn_rx_rd + Header, Taken(header[2][1]))])
      /\ sn_rx_rd' = NextRead(Taken(header[2][1]), header[2][1])
    BY DEF ReadDatagram
<1>. HIDE DEF header, size
<1>5. /\ received' = Append(received,
                            [endpoint |-> Oldest.endpoint, room |-> room,
                             data |-> Read(rx_buffer, sn_rx_rd + Header, Taken(size))])
      /\ sn_rx_rd' = Add(sn_rx_rd, Header + size)
    BY <1>3, <1>4 DEF NextRead
<1>6. /\ Taken(size) \in Nat /\ Taken(size) =< size
      /\ Taken(size) = IF room =< size THEN room ELSE size
    BY <1>2 DEF Taken, TypeOK
<1>. QED BY <1>1, <1>2, <1>5, <1>6 DEF size

\* A datagram that arrives takes the room that its frame needs.
LEMMA ArriveDoes ==
    ASSUME TypeOK, NEW endpoint \in Endpoints, NEW size \in DataSizes, Arrive(endpoint, size)
    PROVE  \E d \in Datagrams :
              /\ d.endpoint \in Endpoints /\ Len(d.data) \in Nat
              /\ arrived' = Append(arrived, d)
              /\ rx_buffer' = Stored(rx_buffer, sn_rx_wr, Frame(d))
              /\ sn_rx_wr' = Add(sn_rx_wr, Header + Len(d.data))
              /\ ToTake + Header + Len(d.data) =< Size
<1>. DEFINE n == Len(arrived) + 1
            d == [endpoint |-> endpoint, data |-> Data(n, size)]
<1>1. n \in Nat /\ size \in Nat
    BY DataSizesAssumption, Constants DEF TypeOK
<1>2. Data(n, size) \in Seq(Cells) /\ Len(Data(n, size)) = size
    BY <1>1, DataIs
<1>3. d \in Datagrams /\ d.endpoint \in Endpoints /\ Len(d.data) \in Nat
    BY <1>1, <1>2 DEF Datagrams, AnyEndpoint
<1>4. arrived' = Append(arrived, d)
    BY DEF Arrive
<1>5. rx_buffer' = Stored(rx_buffer, sn_rx_wr, Frame(d))
    BY <1>2 DEF Arrive, Frame
<1>6. /\ sn_rx_wr' = Add(sn_rx_wr, Header + Len(d.data))
      /\ ToTake + Header + Len(d.data) =< Size
    BY <1>2 DEF Arrive, Received_Size, ToTake
<1>. QED BY <1>3, <1>4, <1>5, <1>6

LEMMA TypeNext ==
    ASSUME TypeOK, CallInv, SendOkInv, ArrivedInv, LayoutInv, ReceiveInv, [Next]_vars
    PROVE  TypeOK'
<1>0. MaxSockets \in Nat /\ Size \in Nat \ {0}
    BY BoundsAssumption, Constants
<1>a. \A p \in Int : \A n \in Int : Add(p, n) \in Pointers
    BY AddIs
<1>b. /\ sn_tx_wr \in Int /\ sn_tx_rd \in Int
      /\ sn_rx_wr \in Int /\ rx_taken \in Int /\ sn_rx_rd \in Int
      /\ ToSend \in Nat
    BY DistancesAre
<1>c. Len(datagram.data) \in Nat /\ datagram.data \in Seq(Cells) /\ datagram.endpoint \in AnyEndpoint
    BY DEF TypeOK, Datagrams
<1>d. NoDatagram \in Datagrams /\ 0 \in 0..Size /\ NoEndpoint \in AnyEndpoint
    BY <1>0 DEF NoDatagram, Datagrams, AnyEndpoint
<1>e. Empty \in [Places -> Cells]
    BY DEF Empty, Cells
<1>f. DataSizes \subseteq 0..Size /\ Endpoints \subseteq AnyEndpoint
    BY DataSizesAssumption DEF AnyEndpoint
<1>g. /\ accepted \in Seq(Datagrams) /\ sent \in Seq(Datagrams) /\ arrived \in Seq(Datagrams)
      /\ Len(accepted) \in Nat /\ Len(arrived) \in Nat
    BY DEF TypeOK
<1> USE DEF TypeOK, Pcs, object, local, interrupts, transmitter, receiver, history
<1>1. CASE Bind
    <2>1. sockets' \in 0..MaxSockets
        BY <1>0, <1>1 DEF Bind
    <2>. QED BY <1>1, <1>e, <2>1 DEF Bind
<1>2. CASE Close
    <2>1. \A S : <<>> \in Seq(S)
        BY EmptySeq
    <2>2. accepted' = <<>> /\ sent' = <<>> /\ arrived' = <<>> /\ received' = <<>>
        BY <1>2 DEF Close
    <2>. QED BY <1>2, <1>d, <2>1, <2>2 DEF Close
<1>3. CASE ClearInterrupts
    BY <1>3 DEF ClearInterrupts
<1>4. ASSUME NEW endpoint \in Endpoints, NEW size \in DataSizes, Transmit(endpoint, size)
      PROVE  TypeOK'
    <2>1. Len(accepted) + 1 \in Nat /\ size \in Nat
        BY <1>0, <1>f, <1>g
    <2>2. Data(Len(accepted) + 1, size) \in Seq(Cells)
        BY <2>1, DataIs
    <2>3. datagram' \in Datagrams
        BY <1>4, <1>f, <2>2 DEF Transmit, Datagrams
    <2>. QED BY <1>4, <2>3 DEF Transmit
<1>5. CASE CheckSend
    BY <1>5, <1>d DEF CheckSend, Return
<1>6. CASE ReadFreeSpace
    BY <1>6, <1>d DEF ReadFreeSpace, Return
<1>7. CASE WriteDatagram
    <2>1. tx_buffer' \in [Places -> Cells]
        BY <1>7, <1>b, <1>c, StoredIs DEF WriteDatagram
    <2>2. sn_tx_wr' \in Pointers
        BY <1>7, <1>a, <1>b, <1>c DEF WriteDatagram, NextWrite
    <2>. QED BY <1>7, <1>c, <2>1, <2>2 DEF WriteDatagram
<1>8. CASE Send
    <2>1. accepted' \in Seq(Datagrams)
        BY <1>8, <1>g, AppendProperties DEF Send
    <2>. QED BY <1>8, <1>d, <2>1 DEF Send, Return
<1>9. ASSUME NEW n \in DataSizes, Receive(n) PROVE TypeOK'
    <2>1. n \in 0..Size
        BY <1>f
    <2>2. Received_Size \in 0..Size
        <3>1. state = "BOUND" /\ ToTake =< Size /\ ToTake \in Nat
            BY <1>9, DistancesAre DEF Receive, ReceiveInv
        <3>. QED BY <1>0, <3>1 DEF Received_Size, ToTake
    <2>3. CASE Received_Size = 0
        BY <1>9, <1>d, <2>3 DEF Receive, Return
    <2>4. CASE Received_Size # 0
        BY <1>9, <2>1, <2>2, <2>4 DEF Receive
    <2>. QED BY <2>3, <2>4
<1>10. CASE ReadDatagram
    <2>. DEFINE taken == Taken(Len(Oldest.data))
                data == Read(rx_buffer, sn_rx_rd + Header, taken)
                result == [endpoint |-> Oldest.endpoint, room |-> room, data |-> data]
    <2>1. /\ Oldest.endpoint \in Endpoints /\ taken \in Nat /\ Len(Oldest.data) \in Nat
          /\ sn_rx_rd' = Add(sn_rx_rd, Header + Len(Oldest.data))
          /\ received' = Append(received, result)
        BY <1>10, ReadDoes
    <2>2. sn_rx_rd + Header \in Int
        BY <1>b DEF Header
    <2>. HIDE DEF taken
    <2>3. data \in Seq(Cells)
        BY <2>1, <2>2, ReadIs
    <2>. HIDE DEF data
    <2>4. result \in [endpoint : AnyEndpoint, room : 0..Size, data : Seq(Cells)]
        BY <1>f, <2>1, <2>3
    <2>. HIDE DEF result
    <2>5. received' \in Seq([endpoint : AnyEndpoint, room : 0..Size, data : Seq(Cells)])
        BY <2>1, <2>4, AppendProperties
    <2>6. Header + Len(Oldest.data) \in Int
        BY <2>1 DEF Header
    <2>7. sn_rx_rd' \in Pointers
        BY <1>a, <1>b, <2>1, <2>6
    <2>. QED BY <1>10, <2>5, <2>7 DEF ReadDatagram
<1>11. CASE Recv
    BY <1>11, <1>d DEF Recv, Return
<1>12. CASE SendOk
    <2>. DEFINE data == Read(tx_buffer, sn_tx_rd, Ahead(sn_tx_wr, sn_tx_rd))
    <2>1. data \in Seq(Cells)
        BY <1>b, ReadIs DEF ToSend
    <2>2. sent' = Append(sent, [endpoint |-> sn_dest, data |-> data])
        BY <1>12 DEF SendOk
    <2>. HIDE DEF data
    <2>3. [endpoint |-> sn_dest, data |-> data] \in Datagrams
        BY <2>1 DEF Datagrams
    <2>4. sent' \in Seq(Datagrams)
        BY <1>g, <2>2, <2>3, AppendProperties
    <2>. QED BY <1>12, <2>4 DEF SendOk
<1>13. CASE ArpTimeout
    <2>1. <<<<0, 0>>>> \in Seq(Cells)
        BY DEF Cells
    <2>2. Lost \in Datagrams
        BY <1>d, <2>1 DEF Lost, Datagrams
    <2>3. sent' \in Seq(Datagrams)
        BY <1>13, <1>g, <2>2, AppendProperties DEF ArpTimeout
    <2>. QED BY <1>13, <2>3 DEF ArpTimeout
<1>14. ASSUME NEW endpoint \in Endpoints, NEW size \in DataSizes, Arrive(endpoint, size)
       PROVE  TypeOK'
    <2>1. PICK d \in Datagrams :
              /\ d.endpoint \in Endpoints /\ Len(d.data) \in Nat
              /\ arrived' = Append(arrived, d)
              /\ rx_buffer' = Stored(rx_buffer, sn_rx_wr, Frame(d))
              /\ sn_rx_wr' = Add(sn_rx_wr, Header + Len(d.data))
        BY <1>14, ArriveDoes
    <2>2. arrived' \in Seq(Datagrams)
        BY <1>g, <2>1, AppendProperties
    <2>3. Frame(d) \in Seq(Cells)
        BY <2>1, FrameIs
    <2>4. rx_buffer' \in [Places -> Cells]
        BY <1>b, <2>1, <2>3, StoredIs
    <2>5. Header + Len(d.data) \in Int
        BY <2>1 DEF Header
    <2>6. sn_rx_wr' \in Pointers
        BY <1>a, <1>b, <2>1, <2>5
    <2>. QED BY <1>14, <2>2, <2>4, <2>6 DEF Arrive
<1>15. CASE UNCHANGED vars
    BY <1>15 DEF vars
<1>. QED BY <1>1, <1>2, <1>3, <1>4, <1>5, <1>6, <1>7, <1>8, <1>9, <1>10, <1>11, <1>12, <1>13,
            <1>14, <1>15
         DEF Next, SomeTransmit, TransmitStep, ReceiveStep

-----------------------------------------------------------------------------
(* The transmitter.                                                        *)

\* What a step means to the transmitter that does not bind or close the socket,
\* write a datagram, give a SEND command or end one.
TransmitterStays ==
    /\ UNCHANGED <<state, sn_dest, sn_tx_wr, sn_tx_rd, tx_buffer, sending, accepted, sent>>
    /\ (pc # "SEND" /\ pc' # "SEND") \/ UNCHANGED <<pc, datagram>>

LEMMA TransmitterChanges ==
    ASSUME TypeOK, [Next]_vars
    PROVE  Bind \/ Close \/ WriteDatagram \/ Send \/ SendOk \/ ArpTimeout \/ TransmitterStays
<1> USE DEF TransmitterStays, object, local, interrupts, transmitter, receiver, history
<1>3. CASE ClearInterrupts
    BY <1>3 DEF ClearInterrupts
<1>4. ASSUME NEW endpoint \in Endpoints, NEW size \in DataSizes, Transmit(endpoint, size)
      PROVE  TransmitterStays
    BY <1>4 DEF Transmit
<1>5. CASE CheckSend
    BY <1>5 DEF CheckSend, Return
<1>6. CASE ReadFreeSpace
    BY <1>6 DEF ReadFreeSpace, Return
<1>9. ASSUME NEW n \in DataSizes, Receive(n) PROVE TransmitterStays
    BY <1>9 DEF Receive, Return
<1>10. CASE ReadDatagram
    BY <1>10 DEF ReadDatagram
<1>11. CASE Recv
    BY <1>11 DEF Recv, Return
<1>14. ASSUME NEW endpoint \in Endpoints, NEW size \in DataSizes, Arrive(endpoint, size)
       PROVE  TransmitterStays
    BY <1>14 DEF Arrive
<1>15. CASE UNCHANGED vars
    BY <1>15 DEF vars
<1>. QED BY <1>3, <1>4, <1>5, <1>6, <1>9, <1>10, <1>11, <1>14, <1>15
         DEF Next, SomeTransmit, TransmitStep, ReceiveStep

\* A datagram in the transmit buffer is the one that transmit() wrote there.
LEMMA WriteDoes ==
    ASSUME TypeOK, CallInv, SendOkInv, TransmitInv, WriteDatagram
    PROVE  /\ state = "BOUND" /\ ~sending /\ Len(accepted) = Len(sent)
           /\ UNCHANGED <<state, sending, accepted, sent, datagram>> /\ pc' = "SEND"
           /\ Outgoing' = datagram
<1>1. state = "BOUND" /\ ~sending
    BY DEF CallInv, SendOkInv, WriteDatagram
<1>2. Len(accepted) = Len(sent) /\ sn_tx_rd = sn_tx_wr
    BY <1>1 DEF TransmitInv, WriteDatagram
<1>3. /\ datagram \in Datagrams /\ datagram.data \in Seq(Cells) /\ Len(datagram.data) \in Nat
      /\ Len(datagram.data) =< Size
    BY DEF TypeOK, Datagrams, CallInv
<1>. DEFINE n == Len(datagram.data)
            stored == Stored(tx_buffer, sn_tx_wr, datagram.data)
<1>4. /\ sn_dest' = datagram.endpoint /\ tx_buffer' = stored
      /\ sn_tx_wr' = Add(sn_tx_wr, n) /\ sn_tx_rd' = sn_tx_wr
      /\ UNCHANGED <<state, sending, accepted, sent, datagram>> /\ pc' = "SEND"
    BY <1>2 DEF WriteDatagram, NextWrite, object, local, history
<1>5. Ahead(Add(sn_tx_wr, n), sn_tx_wr) = n
    <2>1. sn_tx_wr \in Int /\ Size < POINTERS /\ Size \in Nat /\ POINTERS \in Nat
        BY DistancesAre
    <2>2. Ahead(sn_tx_wr, sn_tx_wr) = 0
        BY <2>1, AheadOfItself
    <2>. HIDE DEF n
    <2>3. n \in Nat /\ 0 + n < POINTERS
        BY <1>3, <2>1 DEF n
    <2>. QED BY <2>1, <2>2, <2>3, AdvanceFirst
<1>6. ToSend' = n
    BY <1>4, <1>5 DEF ToSend
<1>7. Read(stored, sn_tx_wr, n) = datagram.data
    BY <1>3, DistancesAre, StoredThenRead DEF TypeOK
<1>. HIDE DEF n, stored
<1>8. Outgoing' = [endpoint |-> datagram.endpoint, data |-> datagram.data]
    BY <1>4, <1>6, <1>7 DEF Outgoing
<1>9. datagram = [endpoint |-> datagram.endpoint, data |-> datagram.data]
    BY <1>3 DEF Datagrams
<1>. QED BY <1>1, <1>2, <1>4, <1>8, <1>9

LEMMA TransmitNext ==
    ASSUME TypeOK, CallInv, SendOkInv, TransmitInv, [Next]_vars
    PROVE  TransmitInv'
<1>0. /\ accepted \in Seq(Datagrams) /\ sent \in Seq(Datagrams) /\ datagram \in Datagrams
      /\ Len(accepted) \in Nat /\ Len(sent) \in Nat
    BY DEF TypeOK
<1>1. CASE Bind
    <2>1. accepted = <<>> /\ sent = <<>> /\ ~sending
        BY <1>1 DEF Bind, CallInv, SendOkInv
    <2>. QED BY <1>1, <2>1 DEF Bind, TransmitInv, history
<1>2. CASE Close
    BY <1>2 DEF Close, TransmitInv
<1>3. CASE WriteDatagram
    BY <1>3, WriteDoes DEF TransmitInv
<1>4. CASE Send
    <2>1. state = "BOUND" /\ ~sending /\ pc = "SEND"
        BY <1>4 DEF Send, CallInv, SendOkInv
    <2>2. Outgoing = datagram /\ Len(accepted) = Len(sent)
        BY <2>1 DEF TransmitInv
    <2>3. /\ UNCHANGED <<sn_dest, tx_buffer, sn_tx_rd, sn_tx_wr, sent>>
          /\ sending' /\ pc' = "idle" /\ accepted' = Append(accepted, datagram)
        BY <1>4 DEF Send, Return
    <2>4. Outgoing' = Outgoing
        BY <2>3 DEF Outgoing, ToSend
    <2>5. Len(accepted') = Len(sent') + 1 /\ accepted'[Len(accepted')] = datagram
        BY <1>0, <2>2, <2>3, AppendProperties
    <2>. QED BY <2>2, <2>3, <2>4, <2>5 DEF TransmitInv
<1>5. CASE SendOk \/ ArpTimeout
    <2>1. /\ sending /\ ~sending' /\ sn_tx_rd' = sn_tx_wr' /\ UNCHANGED <<state, pc, accepted>>
          /\ \E d : sent' = Append(sent, d)
        BY <1>5 DEF SendOk, ArpTimeout, object
    <2>2. Len(sent') = Len(sent) + 1
        BY <1>0, <2>1
    <2>3. state = "BOUND" => pc # "SEND" /\ Len(accepted) = Len(sent) + 1
        BY <2>1 DEF SendOkInv, TransmitInv
    <2>. QED BY <2>1, <2>2, <2>3 DEF TransmitInv
<1>6. CASE TransmitterStays
    <2>1. UNCHANGED <<state, sending, accepted, sent, sn_tx_rd, sn_tx_wr>>
        BY <1>6 DEF TransmitterStays
    <2>2. Outgoing' = Outgoing
        BY <1>6 DEF TransmitterStays, Outgoing, ToSend
    <2>3. (pc # "SEND" /\ pc' # "SEND") \/ UNCHANGED <<pc, datagram>>
        BY <1>6 DEF TransmitterStays
    <2>. QED BY <2>1, <2>2, <2>3 DEF TransmitInv
<1>. QED BY <1>1, <1>2, <1>3, <1>4, <1>5, <1>6, TransmitterChanges

LEMMA WholeNext ==
    ASSUME TypeOK, CallInv, SendOkInv, TransmitInv, DatagramsAreWhole, [Next]_vars
    PROVE  DatagramsAreWhole'
<1>0. /\ accepted \in Seq(Datagrams) /\ sent \in Seq(Datagrams) /\ datagram \in Datagrams
      /\ Len(accepted) \in Nat /\ Len(sent) \in Nat
      /\ DOMAIN sent = 1..Len(sent) /\ DOMAIN <<>> = {} /\ Len(<<>>) = 0
    BY DEF TypeOK
<1>1. CASE Bind \/ WriteDatagram \/ TransmitterStays
    <2>1. UNCHANGED <<accepted, sent>>
        BY <1>1 DEF Bind, WriteDatagram, TransmitterStays, history
    <2>. QED BY <2>1 DEF DatagramsAreWhole
<1>2. CASE Close
    <2>1. accepted' = <<>> /\ sent' = <<>>
        BY <1>2 DEF Close
    <2>. QED BY <1>0, <2>1 DEF DatagramsAreWhole
<1>3. CASE Send
    <2>1. accepted' = Append(accepted, datagram) /\ sent' = sent
        BY <1>3 DEF Send
    <2>2. /\ Len(accepted') = Len(accepted) + 1
          /\ \A k \in 1..Len(accepted) : accepted'[k] = accepted[k]
        BY <1>0, <2>1, AppendProperties
    <2>. QED BY <1>0, <2>1, <2>2 DEF DatagramsAreWhole
<1>4. CASE SendOk \/ ArpTimeout
    <2>1. sending /\ accepted' = accepted
        BY <1>4 DEF SendOk, ArpTimeout
    <2>2. state = "BOUND"
        BY <2>1 DEF SendOkInv, TypeOK
    <2>3. Len(accepted) = Len(sent) + 1 /\ Outgoing = accepted[Len(accepted)]
        BY <2>1, <2>2 DEF TransmitInv
    <2>4. PICK d \in {Outgoing, Lost} : sent' = Append(sent, d)
        BY <1>4 DEF SendOk, ArpTimeout, Outgoing, ToSend
    <2>5. /\ Len(sent') = Len(sent) + 1 /\ DOMAIN sent' = 1..(Len(sent) + 1)
          /\ \A k \in 1..Len(sent) : sent'[k] = sent[k]
          /\ sent'[Len(sent) + 1] = d
        BY <1>0, <2>4
    <2>. QED BY <1>0, <2>1, <2>3, <2>4, <2>5 DEF DatagramsAreWhole
<1>. QED BY <1>1, <1>2, <1>3, <1>4, TransmitterChanges

-----------------------------------------------------------------------------
(* The receiver.                                                           *)

\* What a step means to the receiver that does not bind or close the socket,
\* begin or go on with receive(), or bring a datagram.
ReceiverStays ==
    /\ UNCHANGED <<state, sn_rx_rd, rx_taken, sn_rx_wr, rx_buffer, arrived, received>>
    /\ \/ pc \notin {"read", "RECV"} /\ pc' \notin {"read", "RECV"}
       \/ UNCHANGED <<pc, sn_rx_rsr>>

Receives == \E n \in DataSizes : Receive(n)
Arrives == \E endpoint \in Endpoints, size \in DataSizes : Arrive(endpoint, size)

LEMMA ReceiverChanges ==
    ASSUME TypeOK, [Next]_vars
    PROVE  Bind \/ Close \/ Receives \/ ReadDatagram \/ Recv \/ Arrives \/ ReceiverStays
<1> USE DEF ReceiverStays, object, local, interrupts, transmitter, receiver, history
<1>3. CASE ClearInterrupts
    BY <1>3 DEF ClearInterrupts
<1>4. ASSUME NEW endpoint \in Endpoints, NEW size \in DataSizes, Transmit(endpoint, size)
      PROVE  ReceiverStays
    BY <1>4 DEF Transmit
<1>5. CASE CheckSend
    BY <1>5 DEF CheckSend, Return
<1>6. CASE ReadFreeSpace
    BY <1>6 DEF ReadFreeSpace, Return
<1>7. CASE WriteDatagram
    BY <1>7 DEF WriteDatagram
<1>8. CASE Send
    BY <1>8 DEF Send, Return
<1>12. CASE SendOk
    BY <1>12 DEF SendOk
<1>13. CASE ArpTimeout
    BY <1>13 DEF ArpTimeout
<1>15. CASE UNCHANGED vars
    BY <1>15 DEF vars
<1>. QED BY <1>3, <1>4, <1>5, <1>6, <1>7, <1>8, <1>12, <1>13, <1>15
         DEF Next, SomeTransmit, TransmitStep, ReceiveStep, Receives, Arrives

\* receive() moves SN_RX_RD to where the next datagram begins.
LEMMA ReadTakes ==
    ASSUME TypeOK, CallInv, ArrivedInv, LayoutInv, ReceiveInv, ReadDatagram
    PROVE  ToRead' = ToRead - (Header + Len(Oldest.data)) /\ ToTake' = ToTake
<1>. DEFINE n == Header + Len(Oldest.data)
<1>1. n \in Nat /\ n =< ToRead /\ sn_rx_rd' = Add(sn_rx_rd, n)
    BY ReadDoes DEF Header
<1>2. sn_rx_wr' = sn_rx_wr /\ rx_taken' = rx_taken
    BY DEF ReadDatagram
<1>3. sn_rx_wr \in Int /\ sn_rx_rd \in Int
    BY DistancesAre
<1>. HIDE DEF n
<1>4. Ahead(sn_rx_wr, Add(sn_rx_rd, n)) = ToRead - n
    BY <1>1, <1>3, AdvanceSecond DEF ToRead
<1>5. ToRead' = Ahead(sn_rx_wr, Add(sn_rx_rd, n))
    BY <1>1, <1>2 DEF ToRead
<1>6. ToTake' = ToTake
    BY <1>2 DEF ToTake
<1>. QED BY <1>4, <1>5, <1>6 DEF n

\* A datagram that arrives moves SN_RX_WR, by no more than is free.
LEMMA ArriveTakes ==
    ASSUME TypeOK, ReceiveInv, state = "BOUND", NEW n \in Nat, ToTake + n =< Size,
           sn_rx_wr' = Add(sn_rx_wr, n), UNCHANGED <<sn_rx_rd, rx_taken>>
    PROVE  ToRead' = ToRead + n /\ ToTake' = ToTake + n
<1>1. sn_rx_wr \in Int /\ sn_rx_rd \in Int /\ rx_taken \in Int
    BY DistancesAre
<1>2. ToRead + n < POINTERS /\ ToTake + n < POINTERS
    <2>1. /\ ToRead \in Nat /\ ToTake \in Nat /\ Size \in Nat /\ POINTERS \in Nat
          /\ Size < POINTERS
        BY DistancesAre
    <2>2. ToRead =< ToTake
        BY DEF ReceiveInv
    <2>. QED BY <2>1, <2>2
<1>3. Ahead(Add(sn_rx_wr, n), sn_rx_rd) = ToRead + n
    BY <1>1, <1>2, AdvanceFirst DEF ToRead
<1>4. Ahead(Add(sn_rx_wr, n), rx_taken) = ToTake + n
    BY <1>1, <1>2, AdvanceFirst DEF ToTake
<1>5. ToRead' = Ahead(Add(sn_rx_wr, n), sn_rx_rd) /\ ToTake' = Ahead(Add(sn_rx_wr, n), rx_taken)
    BY DEF ToRead, ToTake
<1>. QED BY <1>3, <1>4, <1>5

LEMMA ArrivedNext ==
    ASSUME TypeOK, ArrivedInv, [Next]_vars
    PROVE  ArrivedInv'
<1>1. CASE Close
    <2>1. arrived' = <<>> /\ DOMAIN <<>> = {}
        BY <1>1 DEF Close
    <2>. QED BY <2>1 DEF ArrivedInv
<1>2. CASE Arrives
    <2>1. PICK d \in Datagrams : d.endpoint \in Endpoints /\ arrived' = Append(arrived, d)
        BY <1>2, ArriveDoes DEF Arrives
    <2>2. arrived \in Seq(Datagrams)
        BY DEF TypeOK
    <2>3. /\ DOMAIN arrived' = 1..(Len(arrived) + 1) /\ DOMAIN arrived = 1..Len(arrived)
          /\ \A k \in 1..Len(arrived) : arrived'[k] = arrived[k]
          /\ arrived'[Len(arrived) + 1] = d /\ Len(arrived) \in Nat
        BY <2>1, <2>2
    <2>. QED BY <2>1, <2>3 DEF ArrivedInv
<1>3. CASE UNCHANGED arrived
    BY <1>3 DEF ArrivedInv
<1>. QED BY <1>1, <1>2, <1>3, ReceiverChanges
         DEF Bind, Receives, Receive, ReadDatagram, Recv, ReceiverStays, history

LEMMA ReceiveNext ==
    ASSUME TypeOK, CallInv, ArrivedInv, LayoutInv, ReceiveInv, [Next]_vars
    PROVE  ReceiveInv'
<1>0. /\ Size \in Nat /\ ToRead \in Nat /\ ToTake \in Nat
      /\ arrived \in Seq(Datagrams)
      /\ Len(arrived) \in Nat /\ Len(received) \in Nat
      /\ Len(<<>>) = 0
    BY DistancesAre DEF TypeOK
<1>1. CASE Bind
    <2>1. ToRead' = 0 /\ ToTake' = 0
        <3>1. sn_rx_wr' = sn_rx_rd' /\ rx_taken' = sn_rx_rd' /\ sn_rx_rd' = sn_rx_rd
            BY <1>1 DEF Bind
        <3>2. Ahead(sn_rx_rd, sn_rx_rd) = 0
            BY DistancesAre, AheadOfItself
        <3>. QED BY <3>1, <3>2 DEF ToRead, ToTake
    <2>2. arrived' = <<>> /\ received' = <<>> /\ pc' = "idle" /\ rx_taken' = sn_rx_rd'
        BY <1>1 DEF Bind, CallInv, history
    <2>. HIDE DEF ToRead, ToTake
    <2>. QED BY <1>0, <2>1, <2>2 DEF ReceiveInv
<1>2. CASE Close
    BY <1>2 DEF Close, ReceiveInv
<1>3. CASE Receives
    <2>1. PICK n \in DataSizes : Receive(n)
        BY <1>3 DEF Receives
    <2>2. /\ state = "BOUND" /\ pc = "idle" /\ rx_taken = sn_rx_rd /\ ToRead =< ToTake
          /\ ToTake =< Size /\ Len(received) =< Len(arrived)
        BY <2>1 DEF Receive, ReceiveInv
    <2>3. /\ UNCHANGED <<arrived, received, sn_rx_wr, rx_taken, sn_rx_rd>>
          /\ ToRead' = ToRead /\ ToTake' = ToTake
        BY <2>1 DEF Receive, receiver, history, ToRead, ToTake
    <2>4. CASE Received_Size = 0
        <3>1. pc' = "idle"
            BY <2>1, <2>4 DEF Receive, Return
        <3>. QED BY <2>2, <2>3, <3>1 DEF ReceiveInv
    <2>5. CASE Received_Size # 0
        <3>1. pc' = "read" /\ sn_rx_rsr' = ToRead /\ ToRead # 0
            BY <2>1, <2>2, <2>5 DEF Receive, Received_Size, ToRead
        <3>2. Len(received) < Len(arrived)
            <4>1. SUFFICES ASSUME Len(received) = Len(arrived) PROVE FALSE
                BY <1>0, <2>2
            <4>2. PICK position \in [0..Len(arrived) -> Nat] : Layout(position)
                BY <2>2 DEF LayoutInv
            <4>3. /\ ToRead = position[Len(arrived)] - position[Len(received)]
                  /\ position[Len(arrived)] \in Nat
                BY <2>2, <4>2, PositionsAre
            <4>. QED BY <3>1, <4>1, <4>3
        <3>3. Header + Len(Oldest.data) =< ToRead
            BY <2>2, <3>2, OldestIs
        <3>4. Oldest' = Oldest
            BY <2>3 DEF Oldest
        <3>5. sn_rx_rsr' >= Header + Len(Oldest'.data)
            <4>1. Len(Oldest.data) \in Nat
                BY <2>2, <3>2, OldestIs
            <4>. QED BY <1>0, <3>1, <3>3, <3>4, <4>1 DEF Header
        <3>. HIDE DEF ToRead, ToTake
        <3>. QED BY <2>2, <2>3, <3>1, <3>2, <3>5 DEF ReceiveInv, Oldest
    <2>. QED BY <2>4, <2>5
<1>4. CASE ReadDatagram
    <2>. DEFINE n == Header + Len(Oldest.data)
    <2>1. /\ state = "BOUND" /\ Len(received) < Len(arrived) /\ n \in Nat /\ n =< ToRead
          /\ Len(received') = Len(received) + 1
        <3>1. /\ state = "BOUND" /\ Len(received) < Len(arrived) /\ Len(Oldest.data) \in Nat
              /\ n =< ToRead /\ \E result : received' = Append(received, result)
            BY <1>4, ReadDoes
        <3>2. n \in Nat
            BY <3>1 DEF Header
        <3>. QED BY <3>1, <3>2 DEF TypeOK
    <2>2. ToRead' = ToRead - n /\ ToTake' = ToTake
        BY <1>4, ReadTakes
    <2>3. pc' = "RECV" /\ arrived' = arrived
        BY <1>4 DEF ReadDatagram
    <2>4. ToRead =< ToTake /\ ToTake =< Size
        BY <2>1 DEF ReceiveInv
    <2>. HIDE DEF n, ToRead, ToTake
    <2>. QED BY <1>0, <2>1, <2>2, <2>3, <2>4 DEF ReceiveInv
<1>5. CASE Recv
    <2>1. /\ rx_taken' = sn_rx_rd' /\ pc' = "idle" /\ ToTake' = ToRead /\ ToRead' = ToRead
          /\ UNCHANGED <<state, arrived, received>>
        BY <1>5 DEF Recv, Return, ToTake, ToRead, object, history
    <2>. HIDE DEF ToRead, ToTake
    <2>. QED BY <1>0, <2>1 DEF ReceiveInv
<1>6. CASE Arrives
    <2>1. PICK endpoint \in Endpoints, size \in DataSizes : Arrive(endpoint, size)
        BY <1>6 DEF Arrives
    <2>2. PICK d \in Datagrams :
              /\ Len(d.data) \in Nat
              /\ arrived' = Append(arrived, d)
              /\ sn_rx_wr' = Add(sn_rx_wr, Header + Len(d.data))
              /\ ToTake + Header + Len(d.data) =< Size
        BY <2>1, ArriveDoes
    <2>. DEFINE n == Header + Len(d.data)
    <2>3. n \in Nat /\ ToTake + n =< Size
        <3>. DEFINE l == Len(d.data)
        <3>1. l \in Nat /\ Header \in Nat /\ ToTake + Header + l =< Size
            BY <2>2 DEF Header
        <3>. HIDE DEF l
        <3>2. Header + l \in Nat /\ ToTake + (Header + l) =< Size
            BY <1>0, <3>1
        <3>. QED BY <3>2 DEF l
    <2>4. /\ state = "BOUND" /\ UNCHANGED <<pc, sn_rx_rsr, sn_rx_rd, rx_taken, received>>
        BY <2>1 DEF Arrive, local
    <2>5. ToRead' = ToRead + n /\ ToTake' = ToTake + n
        BY <2>2, <2>3, <2>4, ArriveTakes
    <2>6. /\ Len(arrived') = Len(arrived) + 1
          /\ \A k \in 1..Len(arrived) : arrived'[k] = arrived[k]
        BY <1>0, <2>2
    <2>7. Len(received) < Len(arrived) => arrived'[Len(received) + 1] = arrived[Len(received) + 1]
        BY <1>0, <2>6
    <2>8. /\ ToRead =< ToTake /\ Len(received) =< Len(arrived)
          /\ pc # "RECV" => rx_taken = sn_rx_rd
          /\ pc = "read" =>
                /\ Len(received) < Len(arrived)
                /\ sn_rx_rsr >= Header + Len(arrived[Len(received) + 1].data)
        BY <2>4 DEF ReceiveInv
    <2>. HIDE DEF n, ToRead, ToTake
    <2>. QED BY <1>0, <2>3, <2>4, <2>5, <2>6, <2>7, <2>8 DEF ReceiveInv
<1>7. CASE ReceiverStays
    <2>1. ToRead' = ToRead /\ ToTake' = ToTake
        BY <1>7 DEF ReceiverStays, ToRead, ToTake
    <2>. HIDE DEF ToRead, ToTake
    <2>. QED BY <1>7, <2>1 DEF ReceiverStays, ReceiveInv
<1>. QED BY <1>1, <1>2, <1>3, <1>4, <1>5, <1>6, <1>7, ReceiverChanges

\* What is stored at SN_RX_WR does not touch what has not been read, ...
LEMMA OldCell ==
    ASSUME TypeOK, ReceiveInv, state = "BOUND",
           NEW cells \in Seq(Cells), ToTake + Len(cells) =< Size, NEW m \in Nat, m < ToRead
    PROVE  Stored(rx_buffer, sn_rx_wr, cells)[Place(sn_rx_rd + m)] = rx_buffer[Place(sn_rx_rd + m)]
<1>1. /\ sn_rx_wr \in Int /\ sn_rx_rd \in Int /\ Size \in Nat
      /\ ToRead \in Nat /\ ToTake \in Nat
    BY DistancesAre
<1>2. ToRead =< ToTake
    BY DEF ReceiveInv
<1>3. sn_rx_rd + m \in Int
    BY <1>1
<1>4. Ahead(sn_rx_wr, sn_rx_rd + m) = ToRead - m
    <2>1. m =< Ahead(sn_rx_wr, sn_rx_rd)
        BY <1>1 DEF ToRead
    <2>. QED BY <1>1, <2>1, AdvanceSecond DEF ToRead
<1>5. Ahead(sn_rx_wr, sn_rx_rd + m) \in 1..Size
    <2>. HIDE DEF ToRead
    <2>1. ToRead - m \in 1..Size
        <3>1. Len(cells) \in Nat
            OBVIOUS
        <3>. QED BY <1>1, <1>2, <3>1
    <2>. QED BY <1>4, <2>1
<1>6. From(Place(sn_rx_rd + m), sn_rx_wr) = Size - (ToRead - m)
    BY <1>1, <1>3, <1>4, <1>5, FromPlaceBehind
<1>7. ~(Size - (ToRead - m) < Len(cells))
    <2>1. Len(cells) \in Nat
        OBVIOUS
    <2>. QED BY <1>1, <1>2, <2>1
<1>8. Place(sn_rx_rd + m) \in Places
    BY <1>3, PlaceIs
<1>. QED BY <1>6, <1>7, <1>8 DEF Stored

\* ... and follows it.
LEMMA NewCell ==
    ASSUME TypeOK, NEW cells \in Seq(Cells), Len(cells) =< Size, NEW j \in 0..(Len(cells) - 1)
    PROVE  Stored(rx_buffer, sn_rx_wr, cells)[Place(sn_rx_rd + ToRead + j)] = cells[j + 1]
<1>1. sn_rx_wr \in Int /\ sn_rx_rd \in Int /\ j \in Int
    BY DistancesAre
<1>2. Place(sn_rx_rd + ToRead + j) = Place(sn_rx_wr + j)
    BY <1>1, PlaceOfAhead DEF ToRead
<1>3. Stored(rx_buffer, sn_rx_wr, cells)[Place(sn_rx_wr + j)] = cells[j + 1]
    BY <1>1, StoredCell
<1>. QED BY <1>2, <1>3

LEMMA LayoutRead ==
    ASSUME TypeOK, CallInv, ArrivedInv, LayoutInv, ReceiveInv, ReadDatagram
    PROVE  LayoutInv'
<1>. DEFINE n == Header + Len(Oldest.data)
            r == Len(received)
<1>1. /\ state = "BOUND" /\ r < Len(arrived) /\ n \in Nat
      /\ sn_rx_rd' = Add(sn_rx_rd, n) /\ Len(received') = r + 1
    <2>1. /\ state = "BOUND" /\ r < Len(arrived) /\ Len(Oldest.data) \in Nat
          /\ sn_rx_rd' = Add(sn_rx_rd, n) /\ \E result : received' = Append(received, result)
        BY ReadDoes
    <2>2. n \in Nat
        BY <2>1 DEF Header
    <2>. QED BY <2>1, <2>2 DEF TypeOK
<1>2. UNCHANGED <<state, arrived, rx_buffer>>
    BY DEF ReadDatagram, object
<1>3. PICK position \in [0..Len(arrived) -> Nat] : Layout(position)
    BY <1>1 DEF LayoutInv
<1>4. /\ r \in Nat /\ Len(arrived) \in Nat /\ r + 1 \in Unread
      /\ Unread' = (r + 2)..Len(arrived)
    BY <1>1, <1>2 DEF TypeOK, Unread
<1>5. /\ position[r] \in Nat /\ position[r + 1] = position[r] + n /\ position[r + 1] \in Nat
      /\ ToRead = position[Len(arrived)] - position[r] /\ position[Len(arrived)] \in Nat
    <2>1. /\ position[r + 1] = position[(r + 1) - 1] + Header + Len(Oldest.data)
          /\ r \in 0..Len(arrived) /\ r + 1 \in 0..Len(arrived)
          /\ Len(arrived) \in 0..Len(arrived)
          /\ ToRead = position[Len(arrived)] - position[r]
        BY <1>1, <1>3, <1>4, PositionsAre DEF Oldest
    <2>2. (r + 1) - 1 = r
        BY <1>4
    <2>3. position[r] \in Nat /\ position[r + 1] \in Nat /\ position[Len(arrived)] \in Nat
        BY <2>1
    <2>4. Len(Oldest.data) \in Nat
        BY <1>1, OldestIs
    <2>. DEFINE size == Len(Oldest.data)
    <2>5. position[r + 1] = position[r] + Header + size /\ size \in Nat /\ n = Header + size
        BY <2>1, <2>2, <2>4
    <2>. HIDE DEF n, size
    <2>6. position[r + 1] = position[r] + n
        BY <2>3, <2>5 DEF Header
    <2>. QED BY <2>1, <2>3, <2>6
<1>6. sn_rx_rd \in Int
    BY DistancesAre
<1>7. ToRead' = ToRead - n
    BY ReadTakes
<1>. HIDE DEF n, r
<1>8. ToRead' = position[Len(arrived)] - position[r + 1]
    BY <1>1, <1>5, <1>7
<1>9. ASSUME NEW k \in Unread', NEW j \in 0..(Header + Len(arrived[k].data) - 1)
      PROVE  rx_buffer[Place(sn_rx_rd' + (position[k - 1] - position[r + 1]) + j)] =
                Frame(arrived[k])[j + 1]
    <2>1. k \in Unread /\ k - 1 \in 0..Len(arrived)
        BY <1>4 DEF Unread, r
    <2>2. position[k - 1] \in Nat
        BY <2>1
    <2>. DEFINE o == position[k - 1] - position[r]
                m == position[k - 1] - position[r + 1] + j
    <2>3. m \in Int /\ sn_rx_rd + n + m = sn_rx_rd + o + j /\ n \in Int /\ j \in Int
        <3>. DEFINE a == position[k - 1]
                    b == position[r]
                    c == position[r + 1]
        <3>1. a \in Nat /\ b \in Nat /\ c \in Nat /\ c = b + n /\ n \in Nat /\ j \in Int
            BY <1>1, <1>5, <2>2
        <3>. HIDE DEF a, b, c
        <3>2. a - c + j \in Int /\ sn_rx_rd + n + (a - c + j) = sn_rx_rd + (a - b) + j
            BY <1>6, <3>1
        <3>. QED BY <3>1, <3>2 DEF a, b, c
    <2>4. sn_rx_rd' + (position[k - 1] - position[r + 1]) + j = sn_rx_rd' + m
        <3>1. sn_rx_rd' \in Int
            BY <1>1, <1>6, AddIs, Constants DEF Pointers
        <3>. QED BY <1>5, <2>2, <3>1
    <2>5. rx_buffer[Place(sn_rx_rd + o + j)] = Frame(arrived[k])[j + 1]
        BY <1>3, <2>1 DEF Layout, r
    <2>. HIDE DEF o, m
    <2>6. Place(Add(sn_rx_rd, n) + m) = Place(sn_rx_rd + n + m)
        BY <1>6, <2>3, PlaceOfAdd
    <2>. QED BY <1>1, <2>3, <2>4, <2>5, <2>6
<1>10. Layout(position)'
    BY <1>1, <1>2, <1>3, <1>8, <1>9 DEF Layout
<1>. QED BY <1>2, <1>3, <1>10 DEF LayoutInv

LEMMA LayoutArrive ==
    ASSUME TypeOK, CallInv, ArrivedInv, LayoutInv, ReceiveInv,
           NEW endpoint \in Endpoints, NEW size \in DataSizes, Arrive(endpoint, size)
    PROVE  LayoutInv'
<1>. DEFINE L == Len(arrived)
            r == Len(received)
<1>1. PICK d \in Datagrams :
          /\ d.endpoint \in Endpoints /\ Len(d.data) \in Nat
          /\ arrived' = Append(arrived, d)
          /\ rx_buffer' = Stored(rx_buffer, sn_rx_wr, Frame(d))
          /\ sn_rx_wr' = Add(sn_rx_wr, Header + Len(d.data))
          /\ ToTake + Header + Len(d.data) =< Size
    BY ArriveDoes
<1>2. state = "BOUND" /\ UNCHANGED <<state, sn_rx_rd, rx_taken, received>>
    BY DEF Arrive, object
<1>3. PICK position \in [0..L -> Nat] : Layout(position)
    BY <1>2 DEF LayoutInv
<1>. DEFINE n == Len(Frame(d))
<1>4. Frame(d) \in Seq(Cells) /\ n = Header + Len(d.data) /\ n \in Nat
    <2>1. Frame(d) \in Seq(Cells) /\ n = Header + Len(d.data)
        BY <1>1, FrameIs
    <2>. HIDE DEF Frame
    <2>. QED BY <2>1
<1>5. L \in Nat /\ r \in Nat /\ r =< L
    BY <1>2, <1>3, PositionsAre
<1>6. Len(arrived') = L + 1 /\ arrived'[L + 1] = d /\ \A k \in 1..L : arrived'[k] = arrived[k]
    BY <1>1 DEF TypeOK
<1>. HIDE DEF n
<1>7. PICK new \in [0..(L + 1) -> Nat] :
          (\A k \in 0..L : new[k] = position[k]) /\ new[L + 1] = position[L] + n
    <2>. DEFINE f == [k \in 0..(L + 1) |-> IF k =< L THEN position[k] ELSE position[L] + n]
    <2>1. ASSUME NEW k \in 0..(L + 1) PROVE f[k] \in Nat
        <3>1. k =< L => k \in 0..L
            BY <1>5
        <3>2. L \in 0..L
            BY <1>5
        <3>. QED BY <1>4, <3>1, <3>2
    <2>2. f \in [0..(L + 1) -> Nat]
        BY <2>1
    <2>3. (\A k \in 0..L : f[k] = position[k]) /\ f[L + 1] = position[L] + n
        BY <1>5
    <2>. QED BY <2>2, <2>3
<1>8. /\ \A k \in 1..L : position[k] = position[k - 1] + Header + Len(arrived[k].data)
      /\ \A j, k \in 0..L : j =< k => position[j] =< position[k]
      /\ ToRead = position[L] - position[r]
      /\ \A k \in Unread : \A j \in 0..(Header + Len(arrived[k].data) - 1) :
            rx_buffer[Place(sn_rx_rd + (position[k - 1] - position[r]) + j)] =
               Frame(arrived[k])[j + 1]
    BY <1>3 DEF Layout
<1>9. /\ r \in 0..L /\ L \in 0..L /\ position[L] \in Nat /\ position[r] \in Nat
      /\ new[L] = position[L] /\ new[r] = position[r]
    BY <1>5, <1>7
<1>10. ASSUME NEW k \in 1..(L + 1)
       PROVE  new[k] = new[k - 1] + Header + Len(arrived'[k].data)
    <2>1. CASE k \in 1..L
        <3>1. k \in 0..L /\ k - 1 \in 0..L
            BY <1>5, <2>1
        <3>. QED BY <1>6, <1>7, <1>8, <2>1, <3>1
    <2>2. CASE k = L + 1
        <3>1. k - 1 = L
            BY <1>5, <2>2
        <3>2. new[L + 1] = new[L] + Header + Len(d.data)
            <4>. DEFINE l == Len(d.data)
            <4>1. l \in Nat /\ n = Header + l /\ new[L + 1] = position[L] + n
                BY <1>1, <1>4, <1>7
            <4>. HIDE DEF l
            <4>2. new[L + 1] = new[L] + Header + l
                BY <1>9, <4>1 DEF Header
            <4>. QED BY <4>2 DEF l
        <3>. QED BY <1>6, <2>2, <3>1, <3>2
    <2>. QED BY <1>5, <2>1, <2>2
<1>11. ASSUME NEW j \in 0..(L + 1), NEW k \in 0..(L + 1), j =< k PROVE new[j] =< new[k]
    <2>1. CASE k \in 0..L
        <3>1. j \in 0..L
            BY <1>5, <1>11, <2>1
        <3>. QED BY <1>7, <1>8, <1>11, <2>1, <3>1
    <2>2. CASE k = L + 1 /\ j \in 0..L
        <3>1. new[j] = position[j] /\ position[j] =< position[L] /\ position[j] \in Nat
            <4>1. j =< L /\ L \in 0..L
                BY <1>5, <2>2
            <4>2. new[j] = position[j] /\ position[j] \in Nat
                BY <1>7, <2>2
            <4>3. position[j] =< position[L]
                BY <1>8, <2>2, <4>1
            <4>. QED BY <4>2, <4>3
        <3>. QED BY <1>4, <1>7, <1>9, <2>2, <3>1
    <2>3. CASE k = L + 1 /\ j = L + 1
        <3>1. new[L + 1] \in Nat
            BY <1>4, <1>7, <1>9
        <3>. QED BY <2>3, <3>1
    <2>. QED BY <1>5, <2>1, <2>2, <2>3
<1>12. ToTake + n =< Size /\ n =< Size
    <2>1. Len(d.data) \in Nat /\ ToTake + Header + Len(d.data) =< Size /\ n = Header + Len(d.data)
        BY <1>1, <1>4
    <2>2. ToTake \in Nat /\ Size \in Nat
        BY DistancesAre
    <2>. DEFINE l == Len(d.data)
    <2>. HIDE DEF l
    <2>3. l \in Nat /\ ToTake + Header + l =< Size /\ n = Header + l
        BY <2>1 DEF l
    <2>. QED BY <2>2, <2>3 DEF Header
<1>13. ToRead' = new[L + 1] - new[r]
    <2>1. sn_rx_wr' = Add(sn_rx_wr, n)
        BY <1>1, <1>4
    <2>2. ToRead' = ToRead + n
        BY <1>2, <1>4, <1>12, <2>1, ArriveTakes
    <2>. QED BY <1>4, <1>7, <1>8, <1>9, <2>2
<1>14. ASSUME NEW k \in Unread', NEW j \in 0..(Header + Len(arrived'[k].data) - 1)
       PROVE  rx_buffer'[Place(sn_rx_rd + (new[k - 1] - new[r]) + j)] = Frame(arrived'[k])[j + 1]
    <2>0. k \in (r + 1)..(L + 1) /\ rx_buffer' = Stored(rx_buffer, sn_rx_wr, Frame(d))
        BY <1>1, <1>2, <1>6 DEF Unread
    <2>1. CASE k =< L
        <3>1. k \in Unread /\ k \in 1..L /\ k - 1 \in 0..L /\ arrived'[k] = arrived[k]
            BY <1>5, <1>6, <2>0, <2>1 DEF Unread
        <3>. DEFINE m == (position[k - 1] - position[r]) + j
        <3>2. m \in Nat /\ m < ToRead
            <4>. DEFINE a == position[k - 1]
                        b == position[k]
                        c == position[L]
                        l == Len(arrived[k].data)
            <4>1. /\ a \in Nat /\ b \in Nat /\ c \in Nat /\ l \in Nat /\ position[r] =< a
                  /\ b =< c /\ b = a + Header + l /\ ToRead = c - position[r]
                BY <1>2, <1>3, <3>1, PositionsAre
            <4>2. j \in 0..(Header + l - 1)
                BY <3>1
            <4>. HIDE DEF a, b, c, l
            <4>3. (a - position[r]) + j \in Nat /\ (a - position[r]) + j < c - position[r]
                BY <1>9, <4>1, <4>2 DEF Header
            <4>. QED BY <4>1, <4>3 DEF a
        <3>3. sn_rx_rd + (position[k - 1] - position[r]) + j = sn_rx_rd + m
            <4>1. sn_rx_rd \in Int /\ position[k - 1] \in Nat
                BY <3>1, DistancesAre
            <4>. QED BY <1>9, <4>1
        <3>4. rx_buffer[Place(sn_rx_rd + m)] = Frame(arrived[k])[j + 1]
            BY <1>8, <3>1, <3>3
        <3>5. new[k - 1] = position[k - 1]
            BY <1>7, <3>1
        <3>. HIDE DEF m
        <3>6. rx_buffer'[Place(sn_rx_rd + m)] = rx_buffer[Place(sn_rx_rd + m)]
            BY <1>2, <1>4, <1>12, <2>0, <3>2, OldCell DEF n
        <3>. QED BY <1>9, <3>1, <3>3, <3>4, <3>5, <3>6
    <2>2. CASE k = L + 1
        <3>1. k - 1 = L /\ arrived'[k] = d /\ new[k - 1] - new[r] = ToRead
            BY <1>5, <1>6, <1>8, <1>9, <2>2
        <3>2. j \in 0..(n - 1)
            <4>. DEFINE l == Len(d.data)
            <4>1. j \in 0..(Header + l - 1) /\ l \in Nat /\ n = Header + l
                BY <1>1, <1>4, <3>1
            <4>. HIDE DEF l
            <4>. QED BY <4>1 DEF Header
        <3>3. Stored(rx_buffer, sn_rx_wr, Frame(d))[Place(sn_rx_rd + ToRead + j)] = Frame(d)[j + 1]
            BY <1>4, <1>12, <3>2, NewCell DEF n
        <3>. QED BY <2>0, <3>1, <3>3
    <2>. QED BY <1>5, <2>0, <2>1, <2>2
<1>. HIDE DEF L, r
<1>15. Len(arrived') = L + 1 /\ Len(received') = r /\ sn_rx_rd' = sn_rx_rd
    BY <1>2, <1>6 DEF r
<1>16. Layout(new)'
    BY <1>10, <1>11, <1>13, <1>14, <1>15 DEF Layout
<1>. QED BY <1>7, <1>15, <1>16 DEF LayoutInv

LEMMA LayoutNext ==
    ASSUME TypeOK, CallInv, ArrivedInv, LayoutInv, ReceiveInv, [Next]_vars
    PROVE  LayoutInv'
<1>1. CASE Bind
    <2>1. arrived' = <<>> /\ received' = <<>> /\ Len(<<>>) = 0
        BY <1>1 DEF Bind, CallInv, history
    <2>2. ToRead' = 0
        <3>1. sn_rx_wr' = sn_rx_rd /\ sn_rx_rd' = sn_rx_rd
            BY <1>1 DEF Bind
        <3>2. Ahead(sn_rx_rd, sn_rx_rd) = 0
            BY DistancesAre, AheadOfItself
        <3>. QED BY <3>1, <3>2 DEF ToRead
    <2>3. PICK position \in [0..0 -> Nat] : position[0] = 0
        <3>1. [k \in 0..0 |-> 0] \in [0..0 -> Nat] /\ [k \in 0..0 |-> 0][0] = 0
            OBVIOUS
        <3>. QED BY <3>1
    <2>4. Layout(position)'
        <3>. HIDE DEF ToRead
        <3>. QED BY <2>1, <2>2, <2>3 DEF Layout, Unread
    <2>. QED BY <2>1, <2>3, <2>4 DEF LayoutInv
<1>2. CASE Close
    BY <1>2 DEF Close, LayoutInv
<1>3. CASE Receives \/ Recv \/ ReceiverStays
    <2>1. UNCHANGED <<state, sn_rx_rd, sn_rx_wr, rx_buffer, arrived, received>>
        BY <1>3 DEF Receives, Receive, Recv, ReceiverStays, object, receiver, history
    <2>. QED BY <2>1 DEF LayoutInv, Layout, ToRead, Unread
<1>4. CASE ReadDatagram
    BY <1>4, LayoutRead
<1>5. CASE Arrives
    BY <1>5, LayoutArrive DEF Arrives
<1>. QED BY <1>1, <1>2, <1>3, <1>4, <1>5, ReceiverChanges

\* What receive() has given the program is what arrived, cut to the room.
LEMMA ReceivedNext ==
    ASSUME TypeOK, CallInv, ArrivedInv, LayoutInv, ReceiveInv, ReceivedInv, [Next]_vars
    PROVE  ReceivedInv'
<1>0. /\ DOMAIN received = 1..Len(received) /\ Len(received) \in Nat
      /\ arrived \in Seq(Datagrams) /\ Len(arrived) \in Nat
      /\ DOMAIN <<>> = {}
    BY DEF TypeOK
<1>1. CASE Bind \/ Receives \/ Recv \/ ReceiverStays
    <2>1. UNCHANGED <<arrived, received>>
        BY <1>1 DEF Bind, Receives, Receive, Recv, ReceiverStays, history
    <2>. QED BY <2>1 DEF ReceivedInv
<1>2. CASE Close
    <2>1. received' = <<>>
        BY <1>2 DEF Close
    <2>. QED BY <1>0, <2>1 DEF ReceivedInv
<1>3. CASE ReadDatagram
    <2>. DEFINE size == Len(Oldest.data)
                taken == Taken(size)
                data == Read(rx_buffer, sn_rx_rd + Header, taken)
                result == [endpoint |-> Oldest.endpoint, room |-> room, data |-> data]
    <2>1. /\ state = "BOUND" /\ Len(received) < Len(arrived)
          /\ Oldest \in Datagrams /\ Oldest.endpoint \in Endpoints /\ size \in Nat
          /\ taken \in Nat /\ taken =< size
          /\ taken = IF room =< size THEN room ELSE size
          /\ received' = Append(received, result)
        BY <1>3, ReadDoes
    <2>2. \A k \in 1..size :
             rx_buffer[Place(sn_rx_rd + Header + (k - 1))] = Oldest.data[k]
        BY <2>1, OldestIs
    <2>3. sn_rx_rd + Header \in Int /\ rx_buffer \in [Places -> Cells] /\ room \in Nat
        <3>1. sn_rx_rd \in Int /\ Size \in Nat
            BY DistancesAre
        <3>. QED BY <3>1 DEF TypeOK, Header
    <2>4. Oldest.data \in Seq(Cells)
        BY <2>1 DEF Datagrams
    <2>. HIDE DEF taken, size
    <2>5. /\ data \in Seq(Cells) /\ Len(data) = taken
          /\ \A k \in 1..taken : data[k] = rx_buffer[Place(sn_rx_rd + Header + (k - 1))]
        BY <2>1, <2>3, ReadIs
    <2>. HIDE DEF data
    <2>6. \A k \in 1..taken : data[k] = Oldest.data[k]
        <3>1. \A k \in 1..taken : k \in 1..size
            BY <2>1
        <3>. QED BY <2>2, <2>5, <3>1
    <2>7. IsPrefix(data, Oldest.data)
        BY <2>1, <2>4, <2>5, <2>6, PrefixIs DEF size
    <2>8. Len(data) = Min({room, size})
        BY <2>1, <2>3, <2>5, MinIs
    <2>9. result.endpoint = Oldest.endpoint /\ result.room = room /\ result.data = data
        OBVIOUS
    <2>. HIDE DEF result
    <2>10. /\ DOMAIN received' = 1..(Len(received) + 1)
           /\ \A k \in 1..Len(received) : received'[k] = received[k]
           /\ received'[Len(received) + 1] = result
        BY <2>1 DEF TypeOK
    <2>11. arrived' = arrived
        BY <1>3 DEF ReadDatagram
    <2>12. ASSUME NEW k \in DOMAIN received'
           PROVE  /\ received'[k].endpoint = arrived'[k].endpoint
                  /\ IsPrefix(received'[k].data, arrived'[k].data)
                  /\ Len(received'[k].data) = Min({received'[k].room, Len(arrived'[k].data)})
        <3>1. CASE k \in 1..Len(received)
            BY <1>0, <2>10, <2>11, <3>1 DEF ReceivedInv
        <3>2. CASE k = Len(received) + 1
            BY <2>7, <2>8, <2>9, <2>10, <2>11, <3>2 DEF Oldest, size
        <3>. QED BY <1>0, <2>10, <3>1, <3>2
    <2>. QED BY <2>12 DEF ReceivedInv
<1>4. CASE Arrives
    <2>1. PICK d \in Datagrams : arrived' = Append(arrived, d)
        BY <1>4, ArriveDoes DEF Arrives
    <2>2. \A k \in 1..Len(arrived) : arrived'[k] = arrived[k]
        BY <1>0, <2>1
    <2>3. received' = received /\ state = "BOUND"
        BY <1>4 DEF Arrives, Arrive
    <2>4. \A k \in 1..Len(received) : k \in 1..Len(arrived)
        BY <1>0, <2>3 DEF ReceiveInv
    <2>. QED BY <1>0, <2>2, <2>3, <2>4 DEF ReceivedInv
<1>. QED BY <1>1, <1>2, <1>3, <1>4, ReceiverChanges

-----------------------------------------------------------------------------
(* The theorems.                                                           *)

LEMMA DatagramsInit == Init => DatagramsInv
<1> SUFFICES ASSUME Init PROVE DatagramsInv
    OBVIOUS
<1>1. Size \in Nat \ {0} /\ POINTERS \in Nat \ {0} /\ MaxSockets \in Nat
    BY Constants, BoundsAssumption
<1>2. 0 \in Pointers /\ 0 \in 0..Size /\ 0 \in 0..MaxSockets
    BY <1>1 DEF Pointers
<1>3. Empty \in [Places -> Cells]
    BY DEF Empty, Cells
<1>4. \A S : <<>> \in Seq(S)
    BY EmptySeq
<1>5. /\ NoDatagram \in Datagrams /\ NoDatagram.data = <<>> /\ NoEndpoint \in AnyEndpoint
      /\ Len(<<>>) = 0 /\ DOMAIN <<>> = {}
    BY <1>4 DEF NoDatagram, Datagrams, AnyEndpoint
<1>6. TypeOK
    BY <1>2, <1>3, <1>4, <1>5 DEF Init, TypeOK, Pcs
<1>7. CallInv /\ SendOkInv /\ ArrivedInv /\ ReceivedInv /\ DatagramsAreWhole
    BY <1>1, <1>5
       DEF Init, CallInv, SendOkInv, ArrivedInv, ReceivedInv, DatagramsAreWhole
<1>8. TransmitInv /\ LayoutInv /\ ReceiveInv
    BY DEF Init, TransmitInv, LayoutInv, ReceiveInv
<1>. QED BY <1>6, <1>7, <1>8 DEF DatagramsInv

\* Every step of the program, the chip and the other hosts keeps the invariant.
LEMMA DatagramsNext == DatagramsInv /\ [Next]_vars => DatagramsInv'
BY TypeNext, CallNext, SendOkNext, TransmitNext, WholeNext, ArrivedNext, LayoutNext, ReceiveNext,
   ReceivedNext
   DEF DatagramsInv

\* The pointers, the buffers and the history always agree.
THEOREM DatagramsAreInvariant == Spec => []DatagramsInv
BY DatagramsInit, DatagramsNext, PTL DEF Spec

\* Whatever the sizes of the buffers and the widths of the pointers: a SEND
\* command sends the datagram that transmit() was given, whole and to its
\* endpoint, and one that is given up is lost as a whole.
THEOREM DatagramsAreSentWhole == Spec => []DatagramsAreWhole
<1>1. DatagramsInv => DatagramsAreWhole
    BY DEF DatagramsInv
<1>. QED BY <1>1, DatagramsAreInvariant, PTL

\* receive() finds a header where it expects one, with all of the data behind
\* it, and gives the program the datagrams in the order in which they arrived,
\* each cut to the room that there is for it.
THEOREM ProgramGetsDatagrams == Spec => []ReceivedAsArrived
<1>1. DatagramsInv => ReceivedAsArrived
    <2>1. SUFFICES ASSUME DatagramsInv PROVE ReceivedAsArrived
        OBVIOUS
    <2>2. TypeOK /\ CallInv /\ ArrivedInv /\ LayoutInv /\ ReceiveInv /\ ReceivedInv
        BY <2>1 DEF DatagramsInv
    <2>3. Len(received) =< Len(arrived)
        <3>1. CASE state = "BOUND"
            BY <2>2, <3>1 DEF ReceiveInv
        <3>2. CASE state # "BOUND"
            <4>1. received = <<>> /\ arrived = <<>> /\ Len(<<>>) =< Len(<<>>)
                BY <2>2, <3>2 DEF TypeOK, CallInv
            <4>. QED BY <4>1
        <3>. QED BY <3>1, <3>2
    <2>4. ASSUME pc = "read"
          PROVE  LET header == Read(rx_buffer, sn_rx_rd, Header) IN
                 header[1][1] \in Endpoints /\ sn_rx_rsr >= Header + header[2][1]
        <3>1. /\ state = "BOUND" /\ Len(received) < Len(arrived)
              /\ sn_rx_rsr >= Header + Len(Oldest.data)
            BY <2>2, <2>4 DEF CallInv, ReceiveInv, Oldest
        <3>. DEFINE header == Read(rx_buffer, sn_rx_rd, Header)
        <3>2. /\ header[1] = <<Oldest.endpoint, 0>> /\ header[2] = <<Len(Oldest.data), 0>>
              /\ Oldest.endpoint \in Endpoints
            BY <2>2, <3>1, OldestIs
        <3>3. header[1][1] = Oldest.endpoint /\ header[2][1] = Len(Oldest.data)
            BY <3>2
        <3>. HIDE DEF header
        <3>4. header[1][1] \in Endpoints /\ sn_rx_rsr >= Header + header[2][1]
            BY <3>1, <3>2, <3>3
        <3>. QED BY <3>4 DEF header
    <2>. QED BY <2>2, <2>3, <2>4 DEF ReceivedAsArrived, ReceivedInv
<1>. QED BY <1>1, DatagramsAreInvariant, PTL

\* The next socket object finds no SEND command in progress and no interrupt of
\* the last, and no object says that it is not transmitting while the chip is,
\* provided that the program clears SEND_OK or TIMEOUT only when it has found one
\* of them set (ClearInterrupts).
THEOREM TransmissionsAreTold == Spec => []IsTransmittingIsTrue
<1>1. DatagramsInv => IsTransmittingIsTrue
    BY DEF DatagramsInv, SendOkInv, IsTransmittingIsTrue
<1>. QED BY <1>1, DatagramsAreInvariant, PTL
=============================================================================
