------------------------- MODULE W5500StreamProofs -------------------------
(***************************************************************************)
(* Proofs about W5500Stream, for buffers of any size and pointers of any   *)
(* width that is a multiple of it, and for any number of bytes.            *)
(*                                                                         *)
(* Everything is measured from where the next byte goes: how far SN_TX_WR  *)
(* is ahead of the other pointers of the transmitter, how far SN_RX_WR is  *)
(* ahead of those of the receiver, and how far a place of a buffer is from *)
(* where they point.  The distances never exceed the size of the buffer,   *)
(* so that the wrap of the pointers cannot be mistaken for an empty        *)
(* buffer, and what lies within them is what the history says: a byte is   *)
(* overwritten only when the distance to the pointer that frees it is the  *)
(* size of the buffer, which the driver's look at SN_TX_FSR excludes,      *)
(* however old it is, because only the driver makes that distance grow.    *)
(***************************************************************************)
EXTENDS W5500Stream, SequenceTheorems, BufferPointersProofs

-----------------------------------------------------------------------------
(* The inductive invariants.                                               *)

\* How many bytes have been written to the transmit buffer that no SEND command
\* covers, that have not been sent, and that have not been acknowledged.
ToCommand == Ahead(sn_tx_wr, tx_end)
ToSend == Ahead(sn_tx_wr, tx_sent)
ToFree == Ahead(sn_tx_wr, sn_tx_rd)

\* How many have arrived that have not been read, and that no RECV has freed.
ToRead == Ahead(sn_rx_wr, sn_rx_rd)
ToTake == Ahead(sn_rx_wr, rx_taken)

Transmitting == {"check_SEND", "read_FSR", "write"}
Receiving == {"read_RSR", "read", "RECV"}

\* Where a call can be, and that it stays within the bound.
CallInv ==
    /\ pc # "idle" => state = "CONNECTED"
    /\ sn_sr = "LISTEN" => state = "UNINITIALIZED"
    /\ close_wait => pc \in Receiving
    /\ pc \in Transmitting => accepted + begin_end =< MaxTransmitted

\* The pointers of the transmitter are in order, and within the buffer.
QueueInv ==
    /\ ToCommand =< ToSend /\ ToSend =< ToFree /\ ToFree =< Size
    /\ ToSend = accepted - Len(wire)

\* On a connection that takes SEND commands one is given for all that is written,
\* and what is about to be written fits into the buffer.
CommandInv ==
    /\ pc \in Transmitting \/ (sn_sr \in {"ESTABLISHED", "CLOSE_WAIT"} /\ pc # "SEND")
          => tx_end = sn_tx_wr
    /\ pc = "write" => begin_end + ToFree =< Size

\* What is not acknowledged is in the transmit buffer.
MemoryInv ==
    \A i \in Places : Offset(i) >= Size - ToFree => tx_buffer[i] = accepted + 1 + Offset(i) - Size

WireInv == wire = UpTo(Len(wire))

\* The pointers of the receiver are in order, and within the buffer; a call
\* reads no more than has arrived.
ReceiveInv ==
    /\ ToRead =< ToTake /\ ToTake =< Size
    /\ pc # "RECV" => rx_taken = sn_rx_rd
    /\ ToRead = arrived - Len(delivered)
    /\ pc = "read" => begin_end =< ToRead

\* What is not read is in the receive buffer.
ArrivedInv ==
    \A i \in Places :
        From(i, sn_rx_wr) >= Size - ToRead =>
            rx_buffer[i] = arrived + 1 + From(i, sn_rx_wr) - Size

\* Nothing is read after NOT_CONNECTED: after the peer's FIN nothing arrives, and
\* nothing is left when it is reported; a socket that is closed stays closed,
\* and no call that began before is still to read.
FinInv ==
    /\ close_wait => sn_sr # "ESTABLISHED"
    /\ pc = "read" => begin_end > 0
    /\ \A report \in not_connected :
          /\ report.delivered = Len(delivered)
          /\ report.sn_sr = "CLOSE_WAIT" => sn_sr # "ESTABLISHED" /\ ToRead = 0
          /\ report.sn_sr = "CLOSED" => sn_sr \in {"CLOSED", "LISTEN"} /\ pc \notin {"read_RSR", "read"}

DeliveredInv == delivered = UpTo(Len(delivered))

StreamInv ==
    /\ TypeOK /\ CallInv
    /\ QueueInv /\ CommandInv /\ MemoryInv /\ WireInv
    /\ ReceiveInv /\ ArrivedInv /\ FinInv /\ DeliveredInv

\* SEND_OK belongs to the last SEND command of this socket object, and
\* m_is_transmitting is set from that command until SEND_OK is cleared.
SendOkInv ==
    /\ sending => ~data_transmitted
    /\ state = "UNINITIALIZED" => ~sending /\ ~data_transmitted
    /\ state = "CONNECTED" /\ ~is_transmitting => ~sending /\ ~data_transmitted
    /\ pc \in {"read_FSR", "write", "SEND"} => ~is_transmitting

-----------------------------------------------------------------------------
(* Sequences that count.                                                   *)

LEMMA UpToIs ==
    ASSUME NEW n \in Nat
    PROVE  UpTo(n) \in Seq(Nat) /\ Len(UpTo(n)) = n
<1>1. UpTo(n) \in [1..n -> Nat]
    BY DEF UpTo
<1>. QED BY <1>1 DEF UpTo

LEMMA UpToNext ==
    ASSUME NEW n \in Nat
    PROVE  Append(UpTo(n), n + 1) = UpTo(n + 1)
<1>1. UpTo(n) \in Seq(Nat) /\ Len(UpTo(n)) = n /\ n + 1 \in Nat
    BY UpToIs
<1>. DEFINE a == Append(UpTo(n), n + 1)
            b == UpTo(n + 1)
<1>2. a \in Seq(Nat) /\ Len(a) = n + 1 /\ b \in Seq(Nat) /\ Len(b) = n + 1
    BY <1>1, UpToIs, AppendProperties
<1>3. ASSUME NEW k \in 1..(n + 1) PROVE a[k] = b[k]
    <2>1. a[k] = IF k = n + 1 THEN n + 1 ELSE UpTo(n)[k]
        BY <1>1, AppendProperties
    <2>. QED BY <2>1 DEF UpTo
<1>. QED BY <1>2, <1>3, SeqEqual

LEMMA UpToMore ==
    ASSUME NEW n \in Nat, NEW m \in Nat, NEW s \in Seq(Nat), Len(s) = m,
           \A k \in 1..m : s[k] = n + k
    PROVE  UpTo(n) \o s = UpTo(n + m)
<1>1. UpTo(n) \in Seq(Nat) /\ Len(UpTo(n)) = n /\ n + m \in Nat
    BY UpToIs
<1>. DEFINE a == UpTo(n) \o s
            b == UpTo(n + m)
<1>2. a \in Seq(Nat) /\ Len(a) = n + m
    <2>1. a \in Seq(Nat)
        BY <1>1, ConcatProperties
    <2>2. Len(a) = Len(UpTo(n)) + Len(s)
        BY <1>1, ConcatProperties
    <2>. QED BY <1>1, <2>1, <2>2
<1>4. b \in Seq(Nat) /\ Len(b) = n + m
    BY <1>1, UpToIs
<1>3. ASSUME NEW k \in 1..(n + m) PROVE a[k] = b[k]
    <2>1. a[k] = IF k =< n THEN UpTo(n)[k] ELSE s[k - n]
        BY <1>1, ConcatProperties
    <2>. QED BY <2>1 DEF UpTo
<1>. QED BY <1>2, <1>3, <1>4, SeqEqual

-----------------------------------------------------------------------------
(* Types, and where a call stands.                                         *)

LEMMA StreamInit == Init => StreamInv
<1> SUFFICES ASSUME Init PROVE StreamInv
    OBVIOUS
<1>1. Size \in Nat \ {0} /\ POINTERS \in Nat \ {0} /\ Size < POINTERS
    BY Constants
<1>2. {MaxTransmitted, MaxArrived, MaxConnections} \subseteq Nat
    BY BoundsAssumption
<1>3. Ahead(0, 0) = 0
    BY AheadOfItself
<1>4. <<>> = UpTo(0) /\ Len(<<>>) = 0
    BY DEF UpTo
<1>5. ASSUME NEW i \in Places PROVE ~(From(i, 0) >= Size - 0)
    <2>1. From(i, 0) \in Places
        BY <1>1, FromIs DEF Places
    <2>. QED BY <1>1, <2>1 DEF Places
<1>6. TypeOK
    <2>1. 0 \in Pointers /\ 0 \in 0..MaxTransmitted /\ 0 \in 0..MaxArrived /\ 0 \in 0..MaxConnections
        BY <1>1, <1>2 DEF Pointers
    <2>2. [i \in Places |-> 0] \in [Places -> Nat] /\ <<>> \in Seq(Nat)
        OBVIOUS
    <2>. QED BY <2>1, <2>2 DEF Init, TypeOK, Pcs
<1>7. CallInv /\ QueueInv /\ CommandInv /\ WireInv
    BY <1>1, <1>3, <1>4
       DEF Init, CallInv, QueueInv, CommandInv, WireInv, ToCommand, ToSend, ToFree, Transmitting
<1>8. MemoryInv /\ ArrivedInv
    BY <1>3, <1>5 DEF Init, MemoryInv, ArrivedInv, Offset, ToFree, ToRead
<1>9. ReceiveInv /\ FinInv /\ DeliveredInv
    BY <1>1, <1>3, <1>4 DEF Init, ReceiveInv, FinInv, DeliveredInv, ToRead, ToTake
<1>. QED BY <1>6, <1>7, <1>8, <1>9 DEF StreamInv

LEMMA LimitedIs ==
    ASSUME begin_end \in Nat, NEW n \in Nat
    PROVE  Limited(n) \in Nat /\ Limited(n) =< n /\ Limited(n) =< begin_end
BY DEF Limited

\* Pointers and distances are numbers.
LEMMA DistancesAre ==
    ASSUME TypeOK
    PROVE  /\ sn_tx_wr \in Int /\ tx_end \in Int /\ tx_sent \in Int /\ sn_tx_rd \in Int
           /\ sn_rx_wr \in Int /\ rx_taken \in Int /\ sn_rx_rd \in Int
           /\ ToCommand \in Nat /\ ToSend \in Nat /\ ToFree \in Nat
           /\ ToRead \in Nat /\ ToTake \in Nat
           /\ Size \in Nat \ {0} /\ POINTERS \in Nat /\ Size < POINTERS
<1>1. Size \in Nat \ {0} /\ POINTERS \in Nat /\ Size < POINTERS
    BY Constants
<1>2. /\ sn_tx_wr \in Int /\ tx_end \in Int /\ tx_sent \in Int /\ sn_tx_rd \in Int
      /\ sn_rx_wr \in Int /\ rx_taken \in Int /\ sn_rx_rd \in Int
    BY <1>1 DEF TypeOK, Pointers
<1>3. \A p \in Int : \A q \in Int : Ahead(p, q) \in Nat
    BY <1>1, AheadIs
<1>. QED BY <1>1, <1>2, <1>3 DEF ToCommand, ToSend, ToFree, ToRead, ToTake

\* What the chip says of its buffers is a number of bytes.
LEMMA SizesAre ==
    ASSUME TypeOK, QueueInv
    PROVE  /\ Received_Size \in Nat /\ Received_Size = ToTake
           /\ Free_Space \in Nat /\ Free_Space = Size - (ToFree - ToCommand)
<1>. DEFINE free == ToFree
            command == ToCommand
<1>1. free \in Nat /\ command \in Nat /\ command =< free /\ free =< Size /\ Size \in Nat
    BY DistancesAre DEF QueueInv
<1>2. Ahead(tx_end, sn_tx_rd) = free - command
    BY <1>1, DistancesAre, AheadOfEachOther DEF ToFree, ToCommand
<1>. HIDE DEF free, command
<1>3. Free_Space = Size - (free - command) /\ Free_Space \in Nat
    BY <1>1, <1>2 DEF Free_Space
<1>. QED BY <1>3, DistancesAre DEF Received_Size, ToTake, free, command

\* What receive() says of the connection is one report more.
LEMMA ReportsAre ==
    ASSUME TypeOK, NEW status_read \in {"CLOSE_WAIT", "CLOSED"}, NotConnected(status_read)
    PROVE  not_connected' \subseteq [sn_sr : {"CLOSE_WAIT", "CLOSED"}, delivered : Nat]
<1>1. Len(delivered) \in Nat
    BY DEF TypeOK
<1>. QED BY <1>1 DEF NotConnected, TypeOK

LEMMA TypeNext ==
    ASSUME TypeOK, CallInv, QueueInv, [Next]_vars
    PROVE  TypeOK'
<1>0. MaxTransmitted \in Nat /\ MaxArrived \in Nat /\ MaxConnections \in Nat
    BY BoundsAssumption
<1>a. \A p \in Int : \A n \in Int : Add(p, n) \in Pointers
    BY AddIs
<1>b. \A p \in Int : Place(p) \in Places
    BY PlaceIs
<1>c. \A i \in Places : Offset(i) \in Nat
    <2>1. ASSUME NEW i \in Places PROVE From(i, sn_tx_wr) \in Nat
        <3>1. i \in Int /\ sn_tx_wr \in Int /\ Size \in Nat
            BY DistancesAre DEF Places
        <3>. QED BY <3>1, FromIs DEF Places
    <2>. QED BY <2>1 DEF Offset
<1>d. /\ sn_tx_wr \in Int /\ tx_end \in Int /\ tx_sent \in Int /\ sn_tx_rd \in Int
      /\ sn_rx_wr \in Int /\ rx_taken \in Int /\ sn_rx_rd \in Int
    BY DistancesAre
<1>1. /\ Received_Size \in Nat /\ Free_Space \in Nat
      /\ Limited(Received_Size) \in Nat /\ Limited(Free_Space) \in Nat
    BY SizesAre, LimitedIs DEF TypeOK
<1> USE DEF TypeOK, Pcs, object, local, status, transmitter, receiver, history
<1>2. CASE Open
    BY <1>2 DEF Open
<1>3. CASE Close
    BY <1>3 DEF Close
<1>4. CASE Shutdown
    BY <1>4 DEF Shutdown
<1>5. CASE ClearInterrupts
    BY <1>5 DEF ClearInterrupts
<1>6. ASSUME NEW n \in 0..MaxTransmitted, Transmit(n) PROVE TypeOK'
    <2>1. pc' \in Pcs /\ begin_end' \in Nat /\ close_wait' \in BOOLEAN
        <3>1. CASE Return
            BY <3>1 DEF Return
        <3>2. CASE ~Return
            BY <1>0, <1>6, <3>2 DEF Transmit
        <3>. QED BY <3>1, <3>2
    <2>. QED BY <1>6, <2>1 DEF Transmit
<1>7. CASE CheckSend
    <2>1. pc' \in Pcs /\ begin_end' \in Nat /\ close_wait' \in BOOLEAN
        <3>1. CASE Return
            BY <3>1 DEF Return
        <3>2. CASE ~Return
            BY <1>7, <3>2 DEF CheckSend, Continue
        <3>. QED BY <3>1, <3>2
    <2>2. is_transmitting' \in BOOLEAN /\ data_transmitted' \in BOOLEAN
        BY <1>7 DEF CheckSend
    <2>. QED BY <1>7, <2>1, <2>2 DEF CheckSend
<1>8. CASE ReadFreeSpace
    BY <1>1, <1>8 DEF ReadFreeSpace, Return
<1>9. CASE WriteTransmitBuffer
    <2>1. ASSUME NEW i \in Places PROVE accepted + 1 + Offset(i) \in Nat
        BY <1>0, <1>c
    <2>2. tx_buffer' \in [Places -> Nat]
        BY <1>9, <2>1 DEF WriteTransmitBuffer
    <2>3. sn_tx_wr' \in Pointers
        BY <1>9, <1>a, <1>d DEF WriteTransmitBuffer
    <2>4. accepted' \in 0..MaxTransmitted
        BY <1>0, <1>9 DEF WriteTransmitBuffer, CallInv, Transmitting
    <2>. QED BY <1>9, <2>2, <2>3, <2>4 DEF WriteTransmitBuffer, Continue
<1>10. CASE Send
    BY <1>10 DEF Send, Return
<1>11. ASSUME NEW n \in 0..MaxArrived, Receive(n) PROVE TypeOK'
    <2>1. pc' \in Pcs /\ begin_end' \in Nat /\ close_wait' \in BOOLEAN
        <3>1. CASE Return
            BY <3>1 DEF Return
        <3>2. CASE ~Return
            <4>1. pc' = "read_RSR" /\ begin_end' = n /\ close_wait' = (sn_sr = "CLOSE_WAIT")
                BY <1>11, <3>2 DEF Receive
            <4>2. (sn_sr = "CLOSE_WAIT") \in BOOLEAN
                OBVIOUS
            <4>3. close_wait' \in BOOLEAN
                BY <4>1, <4>2, Zenon
            <4>. QED BY <1>0, <4>1, <4>3
        <3>. QED BY <3>1, <3>2
    <2>2. not_connected' \subseteq [sn_sr : {"CLOSE_WAIT", "CLOSED"}, delivered : Nat]
        BY <1>11, ReportsAre DEF Receive
    <2>. QED BY <1>11, <2>1, <2>2 DEF Receive
<1>12. CASE ReadReceivedSize
    <2>1. not_connected' \subseteq [sn_sr : {"CLOSE_WAIT", "CLOSED"}, delivered : Nat]
        BY <1>12, ReportsAre DEF ReadReceivedSize
    <2>. QED BY <1>1, <1>12, <2>1 DEF ReadReceivedSize, Return
<1>13. CASE ReadReceiveBuffer
    <2>1. ASSUME NEW k \in 1..begin_end PROVE rx_buffer[Place(sn_rx_rd + k - 1)] \in Nat
        <3>1. sn_rx_rd + k - 1 \in Int
            BY <1>d
        <3>2. Place(sn_rx_rd + k - 1) \in Places
            BY <1>b, <3>1
        <3>. QED BY <3>2
    <2>. DEFINE bytes == [k \in 1..begin_end |-> rx_buffer[Place(sn_rx_rd + k - 1)]]
    <2>0. bytes \in [1..begin_end -> Nat]
        BY <2>1
    <2>2. bytes \in Seq(Nat)
        BY <2>0
    <2>3. delivered' \in Seq(Nat)
        BY <1>13, <2>2, ConcatProperties DEF ReadReceiveBuffer
    <2>4. sn_rx_rd' \in Pointers
        BY <1>13, <1>a, <1>d DEF ReadReceiveBuffer
    <2>. QED BY <1>13, <2>3, <2>4 DEF ReadReceiveBuffer, Continue
<1>14. CASE Recv
    BY <1>14 DEF Recv, Return
<1>15. CASE Establish
    <2>1. connections' \in 0..MaxConnections
        BY <1>0, <1>15 DEF Establish
    <2>2. <<>> \in Seq(Nat) /\ 0 \in 0..MaxTransmitted /\ 0 \in 0..MaxArrived
        BY <1>0
    <2>. QED BY <1>15, <2>1, <2>2 DEF Establish
<1>16. CASE SendByte
    <2>1. tx_buffer[Place(tx_sent)] \in Nat
        BY <1>b, <1>d
    <2>2. wire' \in Seq(Nat)
        BY <1>16, <2>1, AppendProperties DEF SendByte
    <2>3. tx_sent' \in Pointers
        BY <1>16, <1>a, <1>d DEF SendByte
    <2>. QED BY <1>16, <2>2, <2>3 DEF SendByte
<1>17. CASE SendOk
    BY <1>17 DEF SendOk
<1>18. CASE Acknowledge
    <2>1. sn_tx_rd' \in Pointers
        BY <1>18, <1>a, <1>d DEF Acknowledge
    <2>. QED BY <1>18, <2>1 DEF Acknowledge
<1>19. CASE Arrive
    <2>1. arrived' \in 0..MaxArrived
        BY <1>0, <1>19 DEF Arrive
    <2>2. rx_buffer' \in [Places -> Nat]
        <3>1. arrived + 1 \in Nat
            BY <1>0
        <3>. QED BY <1>19, <3>1 DEF Arrive
    <2>3. sn_rx_wr' \in Pointers
        BY <1>19, <1>a, <1>d DEF Arrive
    <2>. QED BY <1>19, <2>1, <2>2, <2>3 DEF Arrive
<1>20. CASE PeerCloses
    BY <1>20 DEF PeerCloses
<1>21. CASE ConnectionEnds
    BY <1>21 DEF ConnectionEnds
<1>22. CASE UNCHANGED vars
    BY <1>22 DEF vars
<1>. QED BY <1>2, <1>3, <1>4, <1>5, <1>6, <1>7, <1>8, <1>9, <1>10, <1>11, <1>12, <1>13, <1>14,
            <1>15, <1>16, <1>17, <1>18, <1>19, <1>20, <1>21, <1>22
         DEF Next, TransmitStep, ReceiveStep

LEMMA CallNext ==
    ASSUME TypeOK, CallInv, QueueInv, [Next]_vars
    PROVE  CallInv'
<1>0. {MaxTransmitted, MaxArrived, MaxConnections} \subseteq Nat
    BY BoundsAssumption
<1>1. /\ Limited(Free_Space) \in Nat /\ Limited(Free_Space) =< begin_end
    BY SizesAre, LimitedIs DEF TypeOK
<1> USE DEF CallInv, Transmitting, Receiving, object, local, status, transmitter, receiver, history
<1>2. CASE Open
    BY <1>2 DEF Open
<1>3. CASE Close
    BY <1>3 DEF Close
<1>4. CASE Shutdown
    BY <1>4 DEF Shutdown
<1>5. CASE ClearInterrupts
    BY <1>5 DEF ClearInterrupts
<1>6. ASSUME NEW n \in 0..MaxTransmitted, Transmit(n) PROVE CallInv'
    BY <1>0, <1>6 DEF Transmit, Return
<1>7. CASE CheckSend
    BY <1>7 DEF CheckSend, SendInProgress, Continue, Return
<1>8. CASE ReadFreeSpace
    <2>1. pc' \in Transmitting => accepted' + begin_end' =< MaxTransmitted
        <3>1. begin_end \in Nat /\ accepted \in Nat /\ MaxTransmitted \in Nat
            BY <1>0 DEF TypeOK
        <3>. QED BY <1>1, <1>8, <3>1 DEF ReadFreeSpace, Return
    <2>. QED BY <1>8, <2>1 DEF ReadFreeSpace, Return
<1>9. CASE WriteTransmitBuffer
    BY <1>9 DEF WriteTransmitBuffer, Continue
<1>10. CASE Send
    BY <1>10 DEF Send, Return
<1>11. ASSUME NEW n \in 0..MaxArrived, Receive(n) PROVE CallInv'
    BY <1>11 DEF Receive, Return
<1>12. CASE ReadReceivedSize
    BY <1>12 DEF ReadReceivedSize, Return
<1>13. CASE ReadReceiveBuffer
    BY <1>13 DEF ReadReceiveBuffer, Continue
<1>14. CASE Recv
    BY <1>14 DEF Recv, Return
<1>15. CASE Establish
    BY <1>15 DEF Establish
<1>16. CASE SendByte
    BY <1>16 DEF SendByte
<1>17. CASE SendOk
    BY <1>17 DEF SendOk
<1>18. CASE Acknowledge
    BY <1>18 DEF Acknowledge
<1>19. CASE Arrive
    BY <1>19 DEF Arrive
<1>20. CASE PeerCloses
    BY <1>20 DEF PeerCloses
<1>21. CASE ConnectionEnds
    BY <1>21 DEF ConnectionEnds
<1>22. CASE UNCHANGED vars
    BY <1>22 DEF vars
<1>. QED BY <1>2, <1>3, <1>4, <1>5, <1>6, <1>7, <1>8, <1>9, <1>10, <1>11, <1>12, <1>13, <1>14,
            <1>15, <1>16, <1>17, <1>18, <1>19, <1>20, <1>21, <1>22
         DEF Next, TransmitStep, ReceiveStep

-----------------------------------------------------------------------------
(* The transmitter.                                                        *)

\* What a step means to the transmitter that does not fill the buffer, give a
\* SEND command, put a byte on the wire, free one or begin a connection.
TransmitterStays ==
    /\ UNCHANGED <<sn_tx_wr, tx_end, tx_sent, sn_tx_rd, tx_buffer, accepted, wire>>

LEMMA TransmitterChanges ==
    ASSUME [Next]_vars
    PROVE  WriteTransmitBuffer \/ Send \/ SendByte \/ Acknowledge \/ Establish \/ TransmitterStays
<1> USE DEF TransmitterStays, object, local, status, transmitter, receiver, history
<1>1. CASE Open
    BY <1>1 DEF Open
<1>2. CASE Close
    BY <1>2 DEF Close
<1>3. CASE Shutdown
    BY <1>3 DEF Shutdown
<1>4. CASE ClearInterrupts
    BY <1>4 DEF ClearInterrupts
<1>5. ASSUME NEW n \in 0..MaxTransmitted, Transmit(n) PROVE TransmitterStays
    BY <1>5 DEF Transmit
<1>6. CASE CheckSend
    BY <1>6 DEF CheckSend
<1>7. CASE ReadFreeSpace
    BY <1>7 DEF ReadFreeSpace
<1>8. ASSUME NEW n \in 0..MaxArrived, Receive(n) PROVE TransmitterStays
    BY <1>8 DEF Receive
<1>9. CASE ReadReceivedSize
    BY <1>9 DEF ReadReceivedSize
<1>10. CASE ReadReceiveBuffer
    BY <1>10 DEF ReadReceiveBuffer
<1>11. CASE Recv
    BY <1>11 DEF Recv
<1>12. CASE SendOk
    BY <1>12 DEF SendOk
<1>13. CASE Arrive
    BY <1>13 DEF Arrive
<1>14. CASE PeerCloses
    BY <1>14 DEF PeerCloses
<1>15. CASE ConnectionEnds
    BY <1>15 DEF ConnectionEnds
<1>16. CASE UNCHANGED vars
    BY <1>16 DEF vars
<1>. QED BY <1>1, <1>2, <1>3, <1>4, <1>5, <1>6, <1>7, <1>8, <1>9, <1>10, <1>11, <1>12, <1>13,
            <1>14, <1>15, <1>16
         DEF Next, TransmitStep, ReceiveStep

\* What the steps that move the pointers do to the distances between them.
LEMMA WriteDoes ==
    ASSUME StreamInv, WriteTransmitBuffer
    PROVE  /\ begin_end + ToFree =< Size
           /\ ToCommand' = ToCommand + begin_end
           /\ ToSend' = ToSend + begin_end
           /\ ToFree' = ToFree + begin_end
<1>. DEFINE command == ToCommand
            send == ToSend
            free == ToFree
<1>1. /\ sn_tx_wr \in Int /\ tx_end \in Int /\ tx_sent \in Int /\ sn_tx_rd \in Int
      /\ command \in Nat /\ send \in Nat /\ free \in Nat
      /\ Size \in Nat \ {0} /\ POINTERS \in Nat /\ Size < POINTERS
    BY DistancesAre DEF StreamInv
<1>2. command =< send /\ send =< free /\ free =< Size /\ send = accepted - Len(wire)
    BY DEF StreamInv, QueueInv
<1>3. accepted \in Nat /\ begin_end \in Nat /\ wire \in Seq(Nat) /\ Len(wire) \in Nat
    BY BoundsAssumption DEF StreamInv, TypeOK
<1>4. sn_tx_wr' = Add(sn_tx_wr, begin_end) /\ begin_end + free =< Size
    BY DEF WriteTransmitBuffer, StreamInv, CommandInv
<1>5. UNCHANGED <<tx_end, tx_sent, sn_tx_rd>>
    BY DEF WriteTransmitBuffer
<1>6. /\ command + begin_end < POINTERS
      /\ send + begin_end < POINTERS
      /\ free + begin_end < POINTERS
    BY <1>1, <1>2, <1>3, <1>4
<1>. QED BY <1>1, <1>3, <1>4, <1>5, <1>6, AdvanceFirst DEF ToCommand, ToSend, ToFree

LEMMA SendByteDoes ==
    ASSUME StreamInv, SendByte
    PROVE  /\ ToCommand < ToSend
           /\ ToCommand' = ToCommand /\ ToSend' = ToSend - 1 /\ ToFree' = ToFree
<1>. DEFINE command == ToCommand
            send == ToSend
            free == ToFree
<1>1. /\ sn_tx_wr \in Int /\ tx_end \in Int /\ tx_sent \in Int /\ sn_tx_rd \in Int
      /\ command \in Nat /\ send \in Nat /\ free \in Nat
      /\ Size \in Nat \ {0} /\ POINTERS \in Nat /\ Size < POINTERS
    BY DistancesAre DEF StreamInv
<1>2. command =< send /\ send =< free /\ free =< Size /\ send = accepted - Len(wire)
    BY DEF StreamInv, QueueInv
<1>3. accepted \in Nat /\ begin_end \in Nat /\ wire \in Seq(Nat) /\ Len(wire) \in Nat
    BY BoundsAssumption DEF StreamInv, TypeOK
<1>4. UNCHANGED <<sn_tx_wr, tx_end, sn_tx_rd, accepted>> /\ tx_sent' = Add(tx_sent, 1)
    BY DEF SendByte
<1>5. command < send
    <2>1. SUFFICES ASSUME command = send PROVE FALSE
        BY <1>1, <1>2
    <2>2. Ahead(tx_end, tx_sent) = send - command
        BY <1>1, <1>2, AheadOfEachOther DEF ToCommand, ToSend
    <2>3. tx_end \in Pointers /\ tx_sent \in Pointers /\ Ahead(tx_end, tx_sent) = 0
        BY <1>1, <2>1, <2>2 DEF StreamInv, TypeOK
    <2>. QED BY <2>3, SamePointer DEF SendByte
<1>6. ToSend' = send - 1
    BY <1>1, <1>2, <1>4, <1>5, AdvanceSecond DEF ToSend
<1>. QED BY <1>4, <1>5, <1>6 DEF ToCommand, ToFree

LEMMA AcknowledgeDoes ==
    ASSUME StreamInv, Acknowledge
    PROVE  /\ ToSend < ToFree
           /\ ToCommand' = ToCommand /\ ToSend' = ToSend /\ ToFree' = ToFree - 1
<1>. DEFINE command == ToCommand
            send == ToSend
            free == ToFree
<1>1. /\ sn_tx_wr \in Int /\ tx_end \in Int /\ tx_sent \in Int /\ sn_tx_rd \in Int
      /\ command \in Nat /\ send \in Nat /\ free \in Nat
      /\ Size \in Nat \ {0} /\ POINTERS \in Nat /\ Size < POINTERS
    BY DistancesAre DEF StreamInv
<1>2. command =< send /\ send =< free /\ free =< Size /\ send = accepted - Len(wire)
    BY DEF StreamInv, QueueInv
<1>3. accepted \in Nat /\ begin_end \in Nat /\ wire \in Seq(Nat) /\ Len(wire) \in Nat
    BY BoundsAssumption DEF StreamInv, TypeOK
<1>4. UNCHANGED <<sn_tx_wr, tx_end, tx_sent>> /\ sn_tx_rd' = Add(sn_tx_rd, 1)
    BY DEF Acknowledge
<1>5. send < free
    <2>1. SUFFICES ASSUME send = free PROVE FALSE
        BY <1>1, <1>2
    <2>2. Ahead(tx_sent, sn_tx_rd) = free - send
        BY <1>1, <1>2, AheadOfEachOther DEF ToFree, ToSend
    <2>3. sn_tx_rd \in Pointers /\ tx_sent \in Pointers /\ Ahead(tx_sent, sn_tx_rd) = 0
        BY <1>1, <2>1, <2>2 DEF StreamInv, TypeOK
    <2>. QED BY <2>3, SamePointer DEF Acknowledge
<1>6. ToFree' = free - 1
    BY <1>1, <1>2, <1>4, <1>5, AdvanceSecond DEF ToFree
<1>. QED BY <1>4, <1>5, <1>6 DEF ToCommand, ToSend

LEMMA EstablishDoes ==
    ASSUME StreamInv, Establish
    PROVE  ToCommand' = 0 /\ ToSend' = 0 /\ ToFree' = 0 /\ ToRead' = 0 /\ ToTake' = 0
<1>1. sn_tx_wr \in Int /\ sn_rx_rd \in Int
    BY DistancesAre DEF StreamInv
<1>2. /\ sn_tx_wr' = sn_tx_wr
      /\ tx_end' = sn_tx_wr /\ tx_sent' = sn_tx_wr /\ sn_tx_rd' = sn_tx_wr
      /\ sn_rx_rd' = sn_rx_rd /\ rx_taken' = sn_rx_rd /\ sn_rx_wr' = sn_rx_rd
    BY DEF Establish
<1>. QED BY <1>1, <1>2, AheadOfItself DEF ToCommand, ToSend, ToFree, ToRead, ToTake

\* The pointers keep their order, and the chip has put on the wire what lies
\* behind tx_sent.
LEMMA QueueNext ==
    ASSUME StreamInv, [Next]_vars
    PROVE  QueueInv'
<1>. DEFINE command == ToCommand
            send == ToSend
            free == ToFree
<1>1. /\ sn_tx_wr \in Int /\ tx_end \in Int /\ tx_sent \in Int /\ sn_tx_rd \in Int
      /\ command \in Nat /\ send \in Nat /\ free \in Nat
      /\ Size \in Nat \ {0} /\ POINTERS \in Nat /\ Size < POINTERS
    BY DistancesAre DEF StreamInv
<1>2. command =< send /\ send =< free /\ free =< Size /\ send = accepted - Len(wire)
    BY DEF StreamInv, QueueInv
<1>3. accepted \in Nat /\ begin_end \in Nat /\ wire \in Seq(Nat) /\ Len(wire) \in Nat
    BY BoundsAssumption DEF StreamInv, TypeOK
<1>. HIDE DEF command, send, free
<1>4. CASE WriteTransmitBuffer
    <2>1. /\ ToCommand' = command + begin_end /\ ToSend' = send + begin_end
          /\ ToFree' = free + begin_end /\ begin_end + free =< Size
        BY <1>4, WriteDoes DEF command, send, free
    <2>2. accepted' = accepted + begin_end /\ wire' = wire
        BY <1>4 DEF WriteTransmitBuffer
    <2>. QED BY <1>1, <1>2, <1>3, <2>1, <2>2 DEF QueueInv
<1>5. CASE Send
    <2>1. UNCHANGED <<sn_tx_wr, tx_sent, sn_tx_rd, accepted, wire>>
        BY <1>5 DEF Send, history
    <2>2. ToSend' = send /\ ToFree' = free
        BY <2>1 DEF ToSend, ToFree, send, free
    <2>3. ToCommand' = command \/ ToCommand' = 0
        <3>1. tx_end' = tx_end \/ tx_end' = sn_tx_wr
            BY <1>5 DEF Send
        <3>. QED BY <1>1, <2>1, <3>1, AheadOfItself DEF ToCommand, command
    <2>. QED BY <1>1, <1>2, <2>1, <2>2, <2>3 DEF QueueInv
<1>6. CASE SendByte
    <2>1. /\ ToCommand' = command /\ ToSend' = send - 1 /\ ToFree' = free /\ command < send
        BY <1>6, SendByteDoes DEF command, send, free
    <2>2. accepted' = accepted /\ Len(wire') = Len(wire) + 1
        BY <1>3, <1>6 DEF SendByte
    <2>. QED BY <1>1, <1>2, <1>3, <2>1, <2>2 DEF QueueInv
<1>7. CASE Acknowledge
    <2>1. /\ ToCommand' = command /\ ToSend' = send /\ ToFree' = free - 1 /\ send < free
        BY <1>7, AcknowledgeDoes DEF command, send, free
    <2>2. UNCHANGED <<accepted, wire>>
        BY <1>7 DEF Acknowledge, history
    <2>. QED BY <1>1, <1>2, <2>1, <2>2 DEF QueueInv
<1>8. CASE Establish
    <2>1. accepted' = 0 /\ Len(wire') = 0
        BY <1>8 DEF Establish
    <2>2. ToCommand' = 0 /\ ToSend' = 0 /\ ToFree' = 0
        BY <1>8, EstablishDoes
    <2>. QED BY <1>1, <2>1, <2>2 DEF QueueInv
<1>9. CASE TransmitterStays
    BY <1>9, <1>2 DEF TransmitterStays, QueueInv, ToCommand, ToSend, ToFree, command, send, free
<1>. QED BY <1>4, <1>5, <1>6, <1>7, <1>8, <1>9, TransmitterChanges

\* The driver gives a SEND command for what it has written before it writes
\* more, and writes no more than the chip said was free.
LEMMA CommandNext ==
    ASSUME StreamInv, [Next]_vars
    PROVE  CommandInv'
<1>1. /\ TypeOK /\ CallInv /\ QueueInv /\ CommandInv
      /\ ToFree \in Nat /\ Size \in Nat \ {0} /\ begin_end \in Nat
    BY DistancesAre DEF StreamInv, TypeOK
<1> USE DEF CommandInv, CallInv, Transmitting, Receiving, object, local, status, transmitter,
            receiver, history, ToFree
<1>2. CASE Open
    BY <1>1, <1>2 DEF Open
<1>3. CASE Close
    BY <1>1, <1>3 DEF Close
<1>4. CASE Shutdown
    BY <1>1, <1>4 DEF Shutdown
<1>5. CASE ClearInterrupts
    BY <1>1, <1>5 DEF ClearInterrupts
<1>6. ASSUME NEW n \in 0..MaxTransmitted, Transmit(n) PROVE CommandInv'
    BY <1>1, <1>6 DEF Transmit, Return
<1>7. CASE CheckSend
    BY <1>1, <1>7 DEF CheckSend, SendInProgress, Continue, Return
<1>8. CASE ReadFreeSpace
    <2>1. tx_end = sn_tx_wr /\ sn_tx_wr \in Int
        BY <1>1, <1>8, DistancesAre DEF ReadFreeSpace
    <2>2. UNCHANGED <<sn_tx_wr, tx_end, sn_tx_rd>>
        BY <1>8 DEF ReadFreeSpace
    <2>3. ASSUME pc' = "write" PROVE begin_end' + ToFree =< Size
        <3>1. begin_end' = Limited(Free_Space)
            BY <1>8, <2>3 DEF ReadFreeSpace, Return
        <3>2. Free_Space = Size - (ToFree - ToCommand) /\ Free_Space \in Nat
            BY <1>1, SizesAre
        <3>3. ToCommand = 0
            BY <2>1, AheadOfItself DEF ToCommand
        <3>4. Limited(Free_Space) \in Nat /\ Limited(Free_Space) =< Free_Space
            BY <1>1, <3>2, LimitedIs
        <3>. HIDE DEF ToFree
        <3>. QED BY <1>1, <3>1, <3>2, <3>3, <3>4
    <2>. QED BY <2>1, <2>2, <2>3
<1>9. CASE WriteTransmitBuffer
    BY <1>9 DEF WriteTransmitBuffer, Continue
<1>10. CASE Send
    BY <1>1, <1>10 DEF Send, Return
<1>11. ASSUME NEW n \in 0..MaxArrived, Receive(n) PROVE CommandInv'
    BY <1>1, <1>11 DEF Receive, Return
<1>12. CASE ReadReceivedSize
    BY <1>1, <1>12 DEF ReadReceivedSize, Return
<1>13. CASE ReadReceiveBuffer
    BY <1>1, <1>13 DEF ReadReceiveBuffer, Continue
<1>14. CASE Recv
    BY <1>1, <1>14 DEF Recv, Return
<1>15. CASE Establish
    BY <1>1, <1>15 DEF Establish
<1>16. CASE SendByte
    BY <1>1, <1>16 DEF SendByte
<1>17. CASE SendOk
    BY <1>1, <1>17 DEF SendOk
<1>18. CASE Acknowledge
    <2>1. ToFree' = ToFree - 1
        BY <1>18, AcknowledgeDoes
    <2>2. pc' = pc /\ begin_end' = begin_end /\ UNCHANGED <<sn_tx_wr, tx_end, sn_sr>>
        BY <1>18 DEF Acknowledge
    <2>3. pc = "write" => begin_end + ToFree' =< Size
        <3>. HIDE DEF ToFree
        <3>. QED BY <1>1, <2>1
    <2>. QED BY <1>1, <2>2, <2>3
<1>19. CASE Arrive
    BY <1>1, <1>19 DEF Arrive
<1>20. CASE PeerCloses
    BY <1>1, <1>20 DEF PeerCloses
<1>21. CASE ConnectionEnds
    BY <1>1, <1>21 DEF ConnectionEnds
<1>22. CASE UNCHANGED vars
    BY <1>1, <1>22 DEF vars
<1>. QED BY <1>2, <1>3, <1>4, <1>5, <1>6, <1>7, <1>8, <1>9, <1>10, <1>11, <1>12, <1>13, <1>14,
            <1>15, <1>16, <1>17, <1>18, <1>19, <1>20, <1>21, <1>22
         DEF Next, TransmitStep, ReceiveStep

\* The place of a byte in the transmit buffer, counted from where the next one
\* goes, moves as the pointer does.
LEMMA OffsetIs ==
    ASSUME StreamInv, NEW i \in Places
    PROVE  Offset(i) \in Nat /\ Offset(i) < Size
<1>1. i \in Int /\ sn_tx_wr \in Int /\ Size \in Nat
    BY DistancesAre DEF Places, StreamInv
<1>2. From(i, sn_tx_wr) \in Places
    BY <1>1, FromIs
<1>. QED BY <1>1, <1>2 DEF Places, Offset

LEMMA OffsetAfterWrite ==
    ASSUME StreamInv, WriteTransmitBuffer, NEW i \in Places
    PROVE  Offset(i)' = IF begin_end =< Offset(i) THEN Offset(i) - begin_end
                        ELSE Offset(i) - begin_end + Size
<1>1. i \in Int /\ sn_tx_wr \in Int /\ Size \in Nat /\ ToFree \in Nat /\ begin_end \in Nat
    BY DistancesAre DEF Places, StreamInv, TypeOK
<1>2. begin_end \in 0..Size
    BY <1>1, WriteDoes
<1>3. sn_tx_wr' = Add(sn_tx_wr, begin_end)
    BY DEF WriteTransmitBuffer
<1>. QED BY <1>1, <1>2, <1>3, FromAdvanced DEF Offset

\* The transmit buffer holds what has been accepted and not been acknowledged:
\* what is written does not reach that far.
LEMMA MemoryNext ==
    ASSUME StreamInv, [Next]_vars
    PROVE  MemoryInv'
<1>1. /\ accepted \in Nat /\ begin_end \in Nat /\ ToFree \in Nat
      /\ Size \in Nat \ {0} /\ tx_buffer \in [Places -> Nat]
    BY BoundsAssumption, DistancesAre DEF StreamInv, TypeOK
<1>2. ASSUME NEW i \in Places
      PROVE  Offset(i) >= Size - ToFree => tx_buffer[i] = accepted + 1 + Offset(i) - Size
    BY DEF StreamInv, MemoryInv
<1>3. ASSUME UNCHANGED <<sn_tx_wr, tx_buffer, accepted>>, ToFree' \in Nat, ToFree' =< ToFree
      PROVE  MemoryInv'
    <2>1. ASSUME NEW i \in Places, Offset(i) >= Size - ToFree'
          PROVE  tx_buffer[i] = accepted + 1 + Offset(i) - Size
        <3>1. Offset(i) \in Nat
            BY OffsetIs
        <3>2. Offset(i) >= Size - ToFree
            BY <1>1, <1>3, <2>1, <3>1
        <3>. QED BY <1>2, <3>2
    <2>. QED BY <1>3, <2>1 DEF MemoryInv, Offset
<1>4. CASE WriteTransmitBuffer
    <2>1. begin_end + ToFree =< Size /\ ToFree' = ToFree + begin_end
        BY <1>4, WriteDoes
    <2>2. accepted' = accepted + begin_end
        BY <1>4 DEF WriteTransmitBuffer
    <2>3. ASSUME NEW i \in Places, Offset(i)' >= Size - ToFree'
          PROVE  tx_buffer'[i] = accepted' + 1 + Offset(i)' - Size
        <3>1. Offset(i) \in Nat /\ Offset(i) < Size
            BY OffsetIs
        <3>2. Offset(i)' = IF begin_end =< Offset(i) THEN Offset(i) - begin_end
                           ELSE Offset(i) - begin_end + Size
            BY <1>4, OffsetAfterWrite
        <3>3. tx_buffer'[i] = IF Offset(i) < begin_end THEN accepted + 1 + Offset(i) ELSE tx_buffer[i]
            BY <1>4 DEF WriteTransmitBuffer
        <3>. DEFINE place == Offset(i)
        <3>4. CASE begin_end =< place
            <4>1. place >= Size - ToFree
                BY <1>1, <2>1, <2>3, <3>1, <3>2, <3>4
            <4>2. tx_buffer[i] = accepted + 1 + place - Size
                BY <1>2, <4>1
            <4>. QED BY <1>1, <2>2, <3>1, <3>2, <3>3, <3>4, <4>2
        <3>5. CASE place < begin_end
            BY <1>1, <2>2, <3>1, <3>2, <3>3, <3>5
        <3>. QED BY <1>1, <3>1, <3>4, <3>5
    <2>. QED BY <2>3 DEF MemoryInv
<1>5. CASE Send
    BY <1>1, <1>3, <1>5 DEF Send, history, ToFree
<1>6. CASE SendByte
    BY <1>1, <1>3, <1>6, SendByteDoes DEF SendByte
<1>7. CASE Acknowledge
    <2>1. ToSend \in Nat /\ ToFree' = ToFree - 1 /\ ToSend < ToFree
        BY <1>7, AcknowledgeDoes, DistancesAre DEF StreamInv
    <2>. QED BY <1>1, <1>3, <1>7, <2>1 DEF Acknowledge, history
<1>8. CASE Establish
    <2>1. ToFree' = 0 /\ sn_tx_wr' = sn_tx_wr
        BY <1>8, EstablishDoes DEF Establish
    <2>2. ASSUME NEW i \in Places PROVE ~(Offset(i)' >= Size - ToFree')
        <3>1. Offset(i)' = Offset(i) /\ Offset(i) \in Nat /\ Offset(i) < Size
            BY <2>1, OffsetIs DEF Offset
        <3>. QED BY <1>1, <2>1, <3>1
    <2>. QED BY <2>2 DEF MemoryInv
<1>9. CASE TransmitterStays
    BY <1>1, <1>3, <1>9 DEF TransmitterStays, ToFree
<1>. QED BY <1>4, <1>5, <1>6, <1>7, <1>8, <1>9, TransmitterChanges

\* The byte that the chip puts on the wire is the next one.
LEMMA WireNext ==
    ASSUME StreamInv, [Next]_vars
    PROVE  WireInv'
<1>1. /\ accepted \in Nat /\ wire \in Seq(Nat) /\ Len(wire) \in Nat
      /\ ToSend \in Nat /\ ToFree \in Nat /\ ToCommand \in Nat
      /\ Size \in Nat \ {0} /\ sn_tx_wr \in Int /\ tx_sent \in Int
    BY BoundsAssumption, DistancesAre DEF StreamInv, TypeOK
<1>2. wire = UpTo(Len(wire))
    BY DEF StreamInv, WireInv
<1>3. CASE SendByte
    <2>1. /\ ToCommand < ToSend /\ ToSend =< ToFree /\ ToFree =< Size
          /\ ToSend = accepted - Len(wire)
        BY <1>3, SendByteDoes DEF StreamInv, QueueInv
    <2>2. Place(tx_sent) \in Places
        BY <1>1, PlaceIs
    <2>3. Offset(Place(tx_sent)) = Size - ToSend
        <3>1. Ahead(sn_tx_wr, tx_sent) \in 1..Size
            BY <1>1, <2>1 DEF ToSend
        <3>. QED BY <1>1, <3>1, FromPlaceBehind DEF Offset, ToSend
    <2>4. tx_buffer[Place(tx_sent)] = accepted + 1 + (Size - ToSend) - Size
        <3>1. Size - ToSend >= Size - ToFree
            BY <1>1, <2>1
        <3>. QED BY <2>2, <2>3, <3>1 DEF StreamInv, MemoryInv
    <2>5. tx_buffer[Place(tx_sent)] = Len(wire) + 1
        BY <1>1, <2>1, <2>4
    <2>6. wire' = UpTo(Len(wire) + 1)
        BY <1>1, <1>2, <1>3, <2>5, UpToNext DEF SendByte
    <2>. QED BY <1>1, <2>6, UpToIs DEF WireInv
<1>4. CASE Establish
    <2>1. wire' = <<>> /\ Len(wire') = 0
        BY <1>4 DEF Establish
    <2>2. UpTo(0) = <<>>
        BY DEF UpTo
    <2>. QED BY <2>1, <2>2 DEF WireInv
<1>5. ASSUME wire' = wire PROVE WireInv'
    BY <1>2, <1>5 DEF WireInv
<1>6. wire' = wire \/ SendByte \/ Establish
    BY TransmitterChanges
       DEF WriteTransmitBuffer, Send, Acknowledge, TransmitterStays, history
<1>. QED BY <1>3, <1>4, <1>5, <1>6

-----------------------------------------------------------------------------
(* The receiver.                                                           *)

ReceiverStays == UNCHANGED <<sn_rx_rd, rx_taken, sn_rx_wr, rx_buffer, arrived, delivered>>

LEMMA ReceiverChanges ==
    ASSUME [Next]_vars
    PROVE  ReadReceiveBuffer \/ Recv \/ Arrive \/ Establish \/ ReceiverStays
<1> USE DEF ReceiverStays, object, local, status, transmitter, receiver, history
<1>1. CASE Open
    BY <1>1 DEF Open
<1>2. CASE Close
    BY <1>2 DEF Close
<1>3. CASE Shutdown
    BY <1>3 DEF Shutdown
<1>4. CASE ClearInterrupts
    BY <1>4 DEF ClearInterrupts
<1>5. ASSUME NEW n \in 0..MaxTransmitted, Transmit(n) PROVE ReceiverStays
    BY <1>5 DEF Transmit
<1>6. CASE CheckSend
    BY <1>6 DEF CheckSend
<1>7. CASE ReadFreeSpace
    BY <1>7 DEF ReadFreeSpace
<1>8. CASE WriteTransmitBuffer
    BY <1>8 DEF WriteTransmitBuffer
<1>9. CASE Send
    BY <1>9 DEF Send
<1>10. ASSUME NEW n \in 0..MaxArrived, Receive(n) PROVE ReceiverStays
    BY <1>10 DEF Receive
<1>11. CASE ReadReceivedSize
    BY <1>11 DEF ReadReceivedSize
<1>12. CASE SendByte
    BY <1>12 DEF SendByte
<1>13. CASE SendOk
    BY <1>13 DEF SendOk
<1>14. CASE Acknowledge
    BY <1>14 DEF Acknowledge
<1>15. CASE PeerCloses
    BY <1>15 DEF PeerCloses
<1>16. CASE ConnectionEnds
    BY <1>16 DEF ConnectionEnds
<1>17. CASE UNCHANGED vars
    BY <1>17 DEF vars
<1>. QED BY <1>1, <1>2, <1>3, <1>4, <1>5, <1>6, <1>7, <1>8, <1>9, <1>10, <1>11, <1>12, <1>13,
            <1>14, <1>15, <1>16, <1>17
         DEF Next, TransmitStep, ReceiveStep

\* What receive() takes has arrived, and is the next that arrived.
LEMMA ReadDoes ==
    ASSUME StreamInv, ReadReceiveBuffer
    PROVE  /\ begin_end =< ToRead
           /\ ToRead' = ToRead - begin_end /\ ToTake' = ToTake
           /\ delivered' = UpTo(Len(delivered) + begin_end)
<1>. DEFINE unread == ToRead
            n == begin_end
            bytes == [k \in 1..n |-> rx_buffer[Place(sn_rx_rd + k - 1)]]
<1>1. /\ sn_rx_wr \in Int /\ sn_rx_rd \in Int
      /\ Size \in Nat \ {0} /\ unread \in Nat /\ ToTake \in Nat
      /\ n \in Nat /\ arrived \in Nat /\ delivered \in Seq(Nat) /\ Len(delivered) \in Nat
      /\ rx_buffer \in [Places -> Nat]
    <2>1. /\ sn_rx_wr \in Int /\ sn_rx_rd \in Int
          /\ Size \in Nat \ {0} /\ ToRead \in Nat /\ ToTake \in Nat
        BY DistancesAre DEF StreamInv
    <2>2. /\ begin_end \in Nat /\ arrived \in Nat /\ delivered \in Seq(Nat)
          /\ rx_buffer \in [Places -> Nat]
        BY BoundsAssumption DEF StreamInv, TypeOK
    <2>3. Len(delivered) \in Nat
        BY <2>2
    <2>. QED BY <2>1, <2>2, <2>3
<1>2. /\ n =< unread /\ unread =< ToTake /\ ToTake =< Size
      /\ unread = arrived - Len(delivered)
      /\ delivered = UpTo(Len(delivered))
    BY DEF StreamInv, ReceiveInv, DeliveredInv, ReadReceiveBuffer
<1>3. /\ sn_rx_rd' = Add(sn_rx_rd, n) /\ delivered' = delivered \o bytes
      /\ UNCHANGED <<sn_rx_wr, rx_taken>>
    BY DEF ReadReceiveBuffer
<1>4. ToRead' = unread - n /\ ToTake' = ToTake
    BY <1>1, <1>2, <1>3, AdvanceSecond DEF ToRead, ToTake
<1>5. ASSUME NEW k \in 1..n PROVE bytes[k] = Len(delivered) + k
    <2>. DEFINE q == sn_rx_rd + (k - 1)
    <2>1. q \in Int /\ sn_rx_rd + k - 1 = q /\ k - 1 \in Nat /\ k - 1 < unread /\ k \in Nat
        BY <1>1, <1>2
    <2>2. Ahead(sn_rx_wr, q) = unread - (k - 1)
        BY <1>1, <2>1, AdvanceSecond DEF ToRead
    <2>. HIDE DEF q, unread
    <2>3. Ahead(sn_rx_wr, q) \in 1..Size
        BY <1>1, <1>2, <2>1, <2>2
    <2>4. From(Place(q), sn_rx_wr) = Size - (unread - (k - 1))
        BY <1>1, <2>1, <2>2, <2>3, FromPlaceBehind
    <2>5. Place(q) \in Places
        BY <2>1, PlaceIs
    <2>6. Size - (unread - (k - 1)) >= Size - unread
        BY <1>1, <2>1
    <2>7. rx_buffer[Place(q)] = arrived + 1 + (Size - (unread - (k - 1))) - Size
        BY <2>4, <2>5, <2>6 DEF StreamInv, ArrivedInv, unread
    <2>8. bytes[k] = rx_buffer[Place(q)]
        BY <2>1
    <2>. HIDE DEF bytes
    <2>. QED BY <1>1, <1>2, <2>1, <2>7, <2>8
<1>6. bytes \in Seq(Nat) /\ Len(bytes) = n
    <2>1. ASSUME NEW k \in 1..n PROVE rx_buffer[Place(sn_rx_rd + k - 1)] \in Nat
        <3>1. sn_rx_rd + k - 1 \in Int
            BY <1>1
        <3>2. Place(sn_rx_rd + k - 1) \in Places
            BY <3>1, PlaceIs
        <3>. QED BY <1>1, <3>2
    <2>2. bytes \in [1..n -> Nat]
        BY <2>1
    <2>. HIDE DEF bytes
    <2>. QED BY <1>1, <2>2
<1>. HIDE DEF bytes
<1>7. UpTo(Len(delivered)) \o bytes = UpTo(Len(delivered) + n)
    BY <1>1, <1>5, <1>6, UpToMore
<1>. QED BY <1>2, <1>3, <1>4, <1>7

LEMMA ArriveDoes ==
    ASSUME StreamInv, Arrive
    PROVE  ToTake < Size /\ ToRead' = ToRead + 1 /\ ToTake' = ToTake + 1
<1>1. /\ sn_rx_wr \in Int /\ sn_rx_rd \in Int /\ rx_taken \in Int
      /\ Size \in Nat \ {0} /\ Size < POINTERS /\ POINTERS \in Nat
      /\ ToRead \in Nat /\ ToTake \in Nat
    BY DistancesAre DEF StreamInv
<1>2. ToRead =< ToTake /\ ToTake < Size
    BY DEF StreamInv, ReceiveInv, Arrive, ToTake, Received_Size
<1>3. sn_rx_wr' = Add(sn_rx_wr, 1) /\ UNCHANGED <<sn_rx_rd, rx_taken>>
    BY DEF Arrive
<1>4. ToRead + 1 < POINTERS /\ ToTake + 1 < POINTERS
    BY <1>1, <1>2
<1>. QED BY <1>1, <1>2, <1>3, <1>4, AdvanceFirst DEF ToRead, ToTake

LEMMA ReceiveNext ==
    ASSUME StreamInv, [Next]_vars
    PROVE  ReceiveInv'
<1>. DEFINE unread == ToRead
            untaken == ToTake
<1>1. /\ Size \in Nat \ {0} /\ unread \in Nat /\ untaken \in Nat
      /\ arrived \in Nat /\ delivered \in Seq(Nat) /\ Len(delivered) \in Nat /\ begin_end \in Nat
      /\ sn_rx_wr \in Int /\ sn_rx_rd \in Int /\ rx_taken \in Int
    BY BoundsAssumption, DistancesAre DEF StreamInv, TypeOK
<1>2. /\ unread =< untaken /\ untaken =< Size
      /\ pc # "RECV" => rx_taken = sn_rx_rd
      /\ unread = arrived - Len(delivered)
      /\ pc = "read" => begin_end =< unread
      /\ TypeOK /\ QueueInv /\ CallInv
    BY DEF StreamInv, ReceiveInv
<1>3. CASE ReadReceiveBuffer
    <2>1. ToRead' = unread - begin_end /\ ToTake' = untaken /\ begin_end =< unread
        BY <1>3, ReadDoes
    <2>2. Len(delivered') = Len(delivered) + begin_end
        BY <1>1, <1>3, ReadDoes, UpToIs
    <2>3. arrived' = arrived /\ pc' = "RECV"
        BY <1>3 DEF ReadReceiveBuffer, Continue
    <2>. HIDE DEF unread, untaken
    <2>. QED BY <1>1, <1>2, <2>1, <2>2, <2>3 DEF ReceiveInv
<1>4. CASE Recv
    <2>1. ToRead' = unread /\ ToTake' = unread
        BY <1>4 DEF Recv, ToRead, ToTake
    <2>2. rx_taken' = sn_rx_rd' /\ pc' = "idle" /\ arrived' = arrived /\ delivered' = delivered
        BY <1>4 DEF Recv, Return, history
    <2>. HIDE DEF unread, untaken
    <2>. QED BY <1>1, <1>2, <2>1, <2>2 DEF ReceiveInv
<1>5. CASE Arrive
    <2>1. ToRead' = unread + 1 /\ ToTake' = untaken + 1 /\ untaken < Size
        BY <1>5, ArriveDoes
    <2>2. /\ arrived' = arrived + 1 /\ delivered' = delivered
          /\ UNCHANGED <<pc, begin_end, sn_rx_rd, rx_taken>>
        BY <1>5 DEF Arrive, local
    <2>. HIDE DEF unread, untaken
    <2>. QED BY <1>1, <1>2, <2>1, <2>2 DEF ReceiveInv
<1>6. CASE Establish
    <2>1. ToRead' = 0 /\ ToTake' = 0
        BY <1>6, EstablishDoes
    <2>2. arrived' = 0 /\ Len(delivered') = 0 /\ rx_taken' = sn_rx_rd'
        BY <1>6 DEF Establish
    <2>3. pc' # "read"
        BY <1>2, <1>6 DEF Establish, CallInv
    <2>. QED BY <1>1, <2>1, <2>2, <2>3 DEF ReceiveInv
<1>7. CASE ReceiverStays
    <2>1. /\ ToRead' = unread /\ ToTake' = untaken
          /\ UNCHANGED <<rx_taken, sn_rx_rd, arrived, delivered>>
        BY <1>7 DEF ReceiverStays, ToRead, ToTake
    <2>2. pc' # "RECV" => rx_taken = sn_rx_rd
        <3>1. SUFFICES ASSUME pc = "RECV", pc' # "RECV" PROVE rx_taken = sn_rx_rd
            BY <1>2
        <3>2. Recv
            BY <3>1 DEF Next, vars, TransmitStep, ReceiveStep, Open, Close, Shutdown, ClearInterrupts,
                    Transmit, CheckSend, ReadFreeSpace, WriteTransmitBuffer, Send, Receive,
                    ReadReceivedSize, ReadReceiveBuffer, Recv, Establish, SendByte, SendOk,
                    Acknowledge, Arrive, PeerCloses, ConnectionEnds
        <3>. QED BY <2>1, <3>2 DEF Recv
    <2>3. pc' = "read" => begin_end' =< unread
        <3>1. SUFFICES ASSUME pc' = "read" PROVE begin_end' =< unread
            OBVIOUS
        <3>2. CASE ReadReceivedSize
            <4>1. begin_end' = Limited(Received_Size) /\ pc = "read_RSR"
                BY <3>1, <3>2 DEF ReadReceivedSize, Return
            <4>2. Received_Size = ToTake /\ Limited(Received_Size) =< Received_Size
                BY <1>1, <1>2, SizesAre, LimitedIs
            <4>3. ToTake = unread
                BY <1>2, <4>1 DEF ToTake, ToRead
            <4>. QED BY <4>1, <4>2, <4>3
        <3>3. CASE ~ReadReceivedSize
            <4>1. pc' = pc /\ begin_end' = begin_end
                BY <3>1, <3>3 DEF Next, vars, local, Return, Continue, TransmitStep, ReceiveStep, Open, Close, Shutdown, ClearInterrupts,
                    Transmit, CheckSend, ReadFreeSpace, WriteTransmitBuffer, Send, Receive,
                    ReadReceiveBuffer, Recv, Establish, SendByte, SendOk,
                    Acknowledge, Arrive, PeerCloses, ConnectionEnds
            <4>. QED BY <1>2, <3>1, <4>1
        <3>. QED BY <3>2, <3>3
    <2>. HIDE DEF unread, untaken
    <2>. QED BY <1>1, <1>2, <2>1, <2>2, <2>3 DEF ReceiveInv
<1>. QED BY <1>3, <1>4, <1>5, <1>6, <1>7, ReceiverChanges

\* The receive buffer holds what has arrived and not been read.
LEMMA ArrivedNext ==
    ASSUME StreamInv, [Next]_vars
    PROVE  ArrivedInv'
<1>1. /\ Size \in Nat \ {0} /\ ToRead \in Nat /\ arrived \in Nat
      /\ sn_rx_wr \in Int /\ sn_rx_rd \in Int
      /\ rx_buffer \in [Places -> Nat]
    BY BoundsAssumption, DistancesAre DEF StreamInv, TypeOK
<1>2. ASSUME NEW i \in Places
      PROVE  From(i, sn_rx_wr) >= Size - ToRead =>
                rx_buffer[i] = arrived + 1 + From(i, sn_rx_wr) - Size
    BY DEF StreamInv, ArrivedInv
<1>3. ASSUME NEW i \in Places, NEW p \in Int
      PROVE  From(i, p) \in Nat /\ From(i, p) < Size /\ i \in Int
    <2>1. i \in Int
        BY DEF Places
    <2>2. From(i, p) \in Places
        BY <2>1, FromIs
    <2>. QED BY <1>1, <2>1, <2>2 DEF Places
<1>4. ASSUME UNCHANGED <<sn_rx_wr, rx_buffer, arrived>>, ToRead' \in Nat, ToRead' =< ToRead
      PROVE  ArrivedInv'
    <2>1. ASSUME NEW i \in Places, From(i, sn_rx_wr) >= Size - ToRead'
          PROVE  rx_buffer[i] = arrived + 1 + From(i, sn_rx_wr) - Size
        <3>1. From(i, sn_rx_wr) >= Size - ToRead
            BY <1>1, <1>3, <1>4, <2>1
        <3>. QED BY <1>2, <3>1
    <2>. QED BY <1>4, <2>1 DEF ArrivedInv
<1>5. CASE ReadReceiveBuffer
    <2>1. begin_end \in Nat /\ ToRead' = ToRead - begin_end /\ begin_end =< ToRead
        BY <1>5, ReadDoes DEF StreamInv, TypeOK
    <2>2. UNCHANGED <<sn_rx_wr, rx_buffer, arrived>>
        BY <1>5 DEF ReadReceiveBuffer
    <2>. QED BY <1>1, <1>4, <2>1, <2>2
<1>6. CASE Recv
    BY <1>1, <1>4, <1>6 DEF Recv, ToRead, history
<1>7. CASE Arrive
    <2>1. /\ ToRead' = ToRead + 1 /\ arrived' = arrived + 1
          /\ sn_rx_wr' = Add(sn_rx_wr, 1)
          /\ rx_buffer' = [rx_buffer EXCEPT ![Place(sn_rx_wr)] = arrived + 1]
        BY <1>7, ArriveDoes DEF Arrive
    <2>2. ASSUME NEW i \in Places, From(i, sn_rx_wr)' >= Size - ToRead'
          PROVE  rx_buffer'[i] = arrived' + 1 + From(i, sn_rx_wr)' - Size
        <3>. DEFINE place == From(i, sn_rx_wr)
        <3>1. place \in Nat /\ place < Size
            BY <1>1, <1>3
        <3>2. From(i, sn_rx_wr') = IF 1 =< place THEN place - 1 ELSE place - 1 + Size
            <4>1. 1 \in 0..Size /\ i \in Int
                BY <1>1, <1>3
            <4>. QED BY <1>1, <2>1, <4>1, FromAdvanced
        <3>3. From(i, sn_rx_wr') >= Size - ToRead'
            BY <2>2
        <3>4. place = 0 <=> i = Place(sn_rx_wr)
            BY <1>1, FromPlace
        <3>6. place >= Size - ToRead => rx_buffer[i] = arrived + 1 + place - Size
            BY <1>2
        <3>. HIDE DEF place
        <3>7. CASE place = 0
            <4>1. rx_buffer'[i] = arrived + 1
                BY <1>1, <2>1, <3>4, <3>7
            <4>. QED BY <1>1, <2>1, <3>2, <3>7, <4>1
        <3>8. CASE place # 0
            <4>1. rx_buffer'[i] = rx_buffer[i]
                BY <1>1, <2>1, <3>4, <3>8
            <4>2. place >= Size - ToRead
                BY <1>1, <2>1, <3>1, <3>2, <3>3, <3>8
            <4>. QED BY <1>1, <2>1, <3>1, <3>2, <3>6, <3>8, <4>1, <4>2
        <3>. QED BY <3>7, <3>8
    <2>. QED BY <2>2 DEF ArrivedInv
<1>8. CASE Establish
    <2>1. ToRead' = 0 /\ sn_rx_wr' = sn_rx_rd
        BY <1>8, EstablishDoes DEF Establish
    <2>2. ASSUME NEW i \in Places PROVE ~(From(i, sn_rx_wr)' >= Size - ToRead')
        <3>1. From(i, sn_rx_rd) \in Nat /\ From(i, sn_rx_rd) < Size
            BY <1>1, <1>3
        <3>. QED BY <1>1, <2>1, <3>1
    <2>. QED BY <2>2 DEF ArrivedInv
<1>9. CASE ReceiverStays
    BY <1>1, <1>4, <1>9 DEF ReceiverStays, ToRead
<1>. QED BY <1>5, <1>6, <1>7, <1>8, <1>9, ReceiverChanges

\* The bytes are numbered as they arrive: what receive() takes continues what
\* it took before.
LEMMA DeliveredNext ==
    ASSUME StreamInv, [Next]_vars
    PROVE  DeliveredInv'
<1>1. delivered = UpTo(Len(delivered)) /\ Len(delivered) \in Nat /\ begin_end \in Nat
    BY DEF StreamInv, DeliveredInv, TypeOK
<1>2. CASE ReadReceiveBuffer
    <2>. DEFINE n == Len(delivered) + begin_end
    <2>1. n \in Nat /\ delivered' = UpTo(n)
        BY <1>1, <1>2, ReadDoes
    <2>. HIDE DEF n
    <2>2. Len(UpTo(n)) = n
        BY <2>1, UpToIs
    <2>. QED BY <2>1, <2>2 DEF DeliveredInv
<1>3. CASE Establish
    <2>1. delivered' = <<>> /\ Len(delivered') = 0
        BY <1>3 DEF Establish
    <2>2. UpTo(0) = <<>>
        BY DEF UpTo
    <2>. QED BY <2>1, <2>2 DEF DeliveredInv
<1>4. ASSUME delivered' = delivered PROVE DeliveredInv'
    BY <1>1, <1>4 DEF DeliveredInv
<1>5. ReadReceiveBuffer \/ Establish \/ delivered' = delivered
    BY ReceiverChanges DEF Recv, Arrive, ReceiverStays, history
<1>. QED BY <1>2, <1>3, <1>4, <1>5

\* What a call reports is as true as when it was reported.
LEMMA FinStays ==
    ASSUME StreamInv, UNCHANGED <<not_connected, delivered>>, ToRead' = ToRead,
           sn_sr' = "ESTABLISHED" => sn_sr = "ESTABLISHED",
           sn_sr \in {"CLOSED", "LISTEN"} => sn_sr' \in {"CLOSED", "LISTEN"},
           pc' \in {"read_RSR", "read"} => UNCHANGED <<pc, begin_end>>,
           close_wait' => close_wait
    PROVE  FinInv'
<1> HIDE DEF ToRead
<1>. QED BY DEF FinInv, StreamInv

\* What a call says of the connection stays true: nothing arrives after the
\* peer's FIN, nothing that arrived before it is left, and a socket that is
\* closed is connected no more.
LEMMA FinNext ==
    ASSUME StreamInv, [Next]_vars
    PROVE  FinInv'
<1>1. /\ FinInv
      /\ close_wait => pc \in Receiving
      /\ ToRead \in Nat /\ ToTake \in Nat /\ ToRead =< ToTake
      /\ pc # "idle" => state = "CONNECTED"
      /\ sn_sr = "LISTEN" => state = "UNINITIALIZED"
      /\ begin_end \in Nat
    BY DistancesAre DEF StreamInv, CallInv, ReceiveInv, TypeOK
<1> USE DEF Receiving, ToRead, object, local, status, transmitter, receiver, history
<1>2. CASE Open
    BY <1>2, FinStays DEF Open
<1>3. CASE Close
    BY <1>3, FinStays DEF Close
<1>4. CASE Shutdown
    BY <1>1, <1>4, FinStays DEF Shutdown
<1>5. CASE ClearInterrupts
    BY <1>5, FinStays DEF ClearInterrupts
<1>6. ASSUME NEW n \in 0..MaxTransmitted, Transmit(n) PROVE FinInv'
    BY <1>6, FinStays DEF Transmit, Return
<1>7. CASE CheckSend
    BY <1>7, FinStays DEF CheckSend, Continue, Return
<1>8. CASE ReadFreeSpace
    BY <1>8, FinStays DEF ReadFreeSpace, Return
<1>9. CASE WriteTransmitBuffer
    BY <1>9, FinStays DEF WriteTransmitBuffer, Continue
<1>10. CASE Send
    BY <1>10, FinStays DEF Send, Return
<1>11. ASSUME NEW n \in 0..MaxArrived, Receive(n) PROVE FinInv'
    <2>1. UNCHANGED <<sn_sr, delivered, ToRead>>
        BY <1>11 DEF Receive
    <2>. HIDE DEF ToRead
    <2>2. CASE sn_sr \in {"ESTABLISHED", "CLOSE_WAIT"}
        BY <1>1, <1>11, <2>1, <2>2 DEF Receive, FinInv
    <2>3. CASE sn_sr \notin {"ESTABLISHED", "CLOSE_WAIT"}
        BY <1>1, <1>11, <2>1, <2>3 DEF Receive, Return, NotConnected, FinInv
    <2>. QED BY <2>2, <2>3
<1>12. CASE ReadReceivedSize
    <2>1. Received_Size = ToTake /\ Received_Size \in Nat
        BY SizesAre DEF StreamInv
    <2>2. UNCHANGED <<sn_sr, delivered, ToRead>>
        BY <1>12 DEF ReadReceivedSize
    <2>. HIDE DEF ToRead
    <2>3. pc = "read_RSR" /\ (close_wait' => close_wait)
        BY <1>12 DEF ReadReceivedSize, Return
    <2>4. CASE Received_Size = 0 \/ begin_end = 0
        <3>1. Received_Size = 0 => ToRead = 0
            BY <1>1, <2>1
        <3>. QED BY <1>1, <1>12, <2>2, <2>3, <2>4, <3>1 DEF ReadReceivedSize, Return, NotConnected, FinInv
    <2>5. CASE ~(Received_Size = 0 \/ begin_end = 0)
        <3>1. begin_end' > 0
            BY <1>1, <1>12, <2>1, <2>5 DEF ReadReceivedSize, Limited
        <3>. QED BY <1>1, <1>12, <2>2, <2>3, <2>5, <3>1 DEF ReadReceivedSize, FinInv
    <2>. QED BY <2>4, <2>5
<1>13. CASE ReadReceiveBuffer
    <2>1. pc = "read" /\ pc' = "RECV" /\ begin_end =< ToRead /\ begin_end > 0
        BY <1>1, <1>13 DEF ReadReceiveBuffer, Continue, StreamInv, ReceiveInv, FinInv
    <2>2. UNCHANGED <<sn_sr, not_connected, close_wait>>
        BY <1>13 DEF ReadReceiveBuffer, Continue
    <2>. HIDE DEF ToRead
    <2>3. not_connected = {}
        <3>1. \A report \in not_connected : report.sn_sr \in {"CLOSE_WAIT", "CLOSED"}
            BY DEF StreamInv, TypeOK
        <3>2. ToRead # 0
            BY <1>1, <2>1
        <3>. QED BY <1>1, <2>1, <3>1, <3>2 DEF FinInv
    <2>. QED BY <1>1, <2>1, <2>2, <2>3 DEF FinInv
<1>14. CASE Recv
    BY <1>14, FinStays DEF Recv, Return
<1>15. CASE Establish
    <2>1. pc = "idle" /\ ~close_wait
        BY <1>1, <1>15 DEF Establish
    <2>. QED BY <1>15, <2>1 DEF Establish, FinInv
<1>16. CASE SendByte
    BY <1>16, FinStays DEF SendByte
<1>17. CASE SendOk
    BY <1>17, FinStays DEF SendOk
<1>18. CASE Acknowledge
    BY <1>18, FinStays DEF Acknowledge
<1>19. CASE Arrive
    <2>1. not_connected = {}
        <3>1. \A report \in not_connected : report.sn_sr \in {"CLOSE_WAIT", "CLOSED"}
            BY DEF StreamInv, TypeOK
        <3>. QED BY <1>1, <1>19, <3>1 DEF Arrive, FinInv
    <2>. QED BY <1>1, <1>19, <2>1 DEF Arrive, FinInv
<1>20. CASE PeerCloses
    BY <1>20, FinStays DEF PeerCloses
<1>21. CASE ConnectionEnds
    BY <1>21, FinStays DEF ConnectionEnds
<1>22. CASE UNCHANGED vars
    BY <1>22, FinStays DEF vars
<1>. QED BY <1>2, <1>3, <1>4, <1>5, <1>6, <1>7, <1>8, <1>9, <1>10, <1>11, <1>12, <1>13, <1>14,
            <1>15, <1>16, <1>17, <1>18, <1>19, <1>20, <1>21, <1>22
         DEF Next, TransmitStep, ReceiveStep

-----------------------------------------------------------------------------
(* The theorems.                                                           *)

\* Every step of the program, the chip and the peer keeps the invariant.
LEMMA StreamNext == StreamInv /\ [Next]_vars => StreamInv'
BY TypeNext, CallNext, QueueNext, CommandNext, MemoryNext, WireNext, ReceiveNext, ArrivedNext,
   FinNext, DeliveredNext
   DEF StreamInv

\* The pointers, the buffers and the history always agree.
THEOREM StreamIsInvariant == Spec => []StreamInv
BY StreamInit, StreamNext, PTL DEF Spec

\* Whatever the sizes of the buffers and the widths of the pointers, and whoever
\* gets the socket next: what goes to the peer is what transmit() accepted, byte
\* for byte and in order.
THEOREM WireGetsWhatWasAccepted == Spec => []WireIsPrefix
<1>1. StreamInv => WireIsPrefix
    <2>1. SUFFICES ASSUME StreamInv PROVE WireIsPrefix
        OBVIOUS
    <2>2. ToSend \in Nat /\ accepted \in Nat /\ wire \in Seq(Nat) /\ Len(wire) \in Nat
        BY <2>1, DistancesAre, BoundsAssumption DEF StreamInv, TypeOK
    <2>3. ToSend = accepted - Len(wire) /\ wire = UpTo(Len(wire))
        BY <2>1 DEF StreamInv, QueueInv, WireInv
    <2>4. Len(wire) =< accepted
        BY <2>2, <2>3
    <2>. QED BY <2>3, <2>4 DEF WireIsPrefix
<1>. QED BY <1>1, StreamIsInvariant, PTL

\* receive() gives the program what arrived, in order and once, and nothing after
\* it has returned NOT_CONNECTED; after the peer's FIN it returns that only when
\* it has delivered all.  Of a closed socket the theorem says no more than that
\* NOT_CONNECTED is the last word: what is not read by then is lost.
THEOREM ProgramGetsWhatArrived == Spec => []DeliveredAsArrived
<1>1. StreamInv => DeliveredAsArrived
    <2>1. SUFFICES ASSUME StreamInv PROVE DeliveredAsArrived
        OBVIOUS
    <2>2. ToRead \in Nat /\ arrived \in Nat /\ delivered \in Seq(Nat) /\ Len(delivered) \in Nat
        BY <2>1, DistancesAre, BoundsAssumption DEF StreamInv, TypeOK
    <2>3. /\ ToRead = arrived - Len(delivered) /\ delivered = UpTo(Len(delivered))
          /\ \A report \in not_connected :
                report.delivered = Len(delivered) /\ (report.sn_sr = "CLOSE_WAIT" => ToRead = 0)
        BY <2>1 DEF StreamInv, ReceiveInv, DeliveredInv, FinInv
    <2>4. /\ Len(delivered) =< arrived
          /\ \A report \in not_connected : report.sn_sr = "CLOSE_WAIT" => Len(delivered) = arrived
        <3>. HIDE DEF ToRead
        <3>. QED BY <2>2, <2>3
    <2>. QED BY <2>3, <2>4 DEF DeliveredAsArrived
<1>. QED BY <1>1, StreamIsInvariant, PTL

LEMMA SendOkNext ==
    ASSUME RECYCLER = "Network_Stack", TypeOK, CallInv, SendOkInv, [Next]_vars
    PROVE  SendOkInv'
<1> USE DEF SendOkInv, CallInv, TypeOK, object, local, status, transmitter, receiver, history
<1>2. CASE Open
    BY <1>2 DEF Open
<1>3. CASE Close
    BY <1>3 DEF Close
<1>4. CASE Shutdown
    BY <1>4 DEF Shutdown
<1>5. CASE ClearInterrupts
    BY <1>5 DEF ClearInterrupts
<1>6. ASSUME NEW n \in 0..MaxTransmitted, Transmit(n) PROVE SendOkInv'
    BY <1>6 DEF Transmit, Return
<1>7. CASE CheckSend
    BY <1>7 DEF CheckSend, SendInProgress, Continue, Return
<1>8. CASE ReadFreeSpace
    BY <1>8 DEF ReadFreeSpace, Return
<1>9. CASE WriteTransmitBuffer
    BY <1>9 DEF WriteTransmitBuffer, Continue
<1>10. CASE Send
    BY <1>10 DEF Send, Return
<1>11. ASSUME NEW n \in 0..MaxArrived, Receive(n) PROVE SendOkInv'
    BY <1>11 DEF Receive, Return
<1>12. CASE ReadReceivedSize
    BY <1>12 DEF ReadReceivedSize, Return
<1>13. CASE ReadReceiveBuffer
    BY <1>13 DEF ReadReceiveBuffer, Continue
<1>14. CASE Recv
    BY <1>14 DEF Recv, Return
<1>15. CASE Establish
    BY <1>15 DEF Establish
<1>16. CASE SendByte
    BY <1>16 DEF SendByte
<1>17. CASE SendOk
    BY <1>17 DEF SendOk
<1>18. CASE Acknowledge
    BY <1>18 DEF Acknowledge
<1>19. CASE Arrive
    BY <1>19 DEF Arrive
<1>20. CASE PeerCloses
    BY <1>20 DEF PeerCloses
<1>21. CASE ConnectionEnds
    BY <1>21 DEF ConnectionEnds
<1>22. CASE UNCHANGED vars
    BY <1>22 DEF vars
<1>. QED BY <1>2, <1>3, <1>4, <1>5, <1>6, <1>7, <1>8, <1>9, <1>10, <1>11, <1>12, <1>13, <1>14,
            <1>15, <1>16, <1>17, <1>18, <1>19, <1>20, <1>21, <1>22
         DEF Next, TransmitStep, ReceiveStep

\* A socket that is given back through the network stack: the next socket object
\* finds no SEND in progress and no SEND_OK, and no object says that it is not
\* transmitting while the chip is, provided that the program clears SEND_OK only
\* when it has found it set (ClearInterrupts).
THEOREM TransmissionsAreTold ==
    ASSUME RECYCLER = "Network_Stack"
    PROVE  Spec => []IsTransmittingIsTrue
<1>1. Init => SendOkInv
    BY DEF Init, SendOkInv
<1>2. StreamInv /\ SendOkInv /\ [Next]_vars => SendOkInv'
    BY SendOkNext DEF StreamInv
<1>3. SendOkInv => IsTransmittingIsTrue
    BY DEF SendOkInv, IsTransmittingIsTrue
<1>4. Spec => []SendOkInv
    BY <1>1, <1>2, StreamIsInvariant, PTL DEF Spec
<1>. QED BY <1>3, <1>4, PTL
=============================================================================
