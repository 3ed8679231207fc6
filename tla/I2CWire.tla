------------------------------ MODULE I2CWire ------------------------------
(***************************************************************************)
(* I2C byte by byte: what the calls of I2C::Device, ping() and scan() do   *)
(* on the bus, and what devices with registers make of it.                 *)
(*                                                                         *)
(* A call is a script: the start, repeated start and stop conditions, the  *)
(* address bytes, and the data bytes with their responses, in the order in *)
(* which the code calls the controller.  A device has a register pointer   *)
(* of 0, 1 or 2 bytes, which is what a write transfer begins with, and     *)
(* which counts up with every byte that follows; with a pointer of 0 bytes *)
(* there is one register.  (I2CBus has the multiplexer in front of the     *)
(* devices, and takes a transaction for one step.)                         *)
(***************************************************************************)
EXTENDS Integers, Sequences

CONSTANTS
    I2CDevices,        \* records: address, width (of the pointer), registers
    LastAddress,       \* Address_Numeric::max()
    BlockSizes,        \* of block transfers; a bound, and at least 1
    I2CBytes,          \* data bytes
    MaxTransfers       \* a bound on the calls

ASSUME BlockSizesAssumption == BlockSizes \subseteq Nat \ {0}

\* Every device has an address of its own. A device that is read and written
\* without the address of a register has one register.
ASSUME DevicesAssumption ==
    /\ LastAddress \in Nat
    /\ \A d \in I2CDevices : d.address \in Nat /\ d.width \in 0..2 /\ d.registers \subseteq Nat
    /\ \A d \in I2CDevices : d.width = 0 => d.registers = {0}
    /\ \A d, e \in I2CDevices : d.address = e.address => d = e

VARIABLES
    answers,           \* the devices and operations that an address is acknowledged for
    cells,             \* the registers of every device
    pointer,           \* the register pointer of every device
    listening,         \* the device that has been addressed, or NoDevice
    driving,           \* it has been addressed for reading and drives SDA
    written,           \* the bytes that it has received since
    script,            \* what the call in progress has left to do
    transfer,          \* the call in progress, or NoTransfer
    buffer,            \* the data read by it
    responses,         \* scan(), ping(): the pings acknowledged
    todo,              \* scan(), ping(): the pings to come
    transfers,         \* how many calls there were
    at_start           \* history: cells when the call began

wire == <<answers, cells, pointer, listening, driving, written, script, transfer, buffer, responses,
          todo, transfers, at_start>>

NoDevice == [address |-> -1]
NoTransfer == [kind |-> "none"]

-----------------------------------------------------------------------------
(* Addresses.                                                              *)

Address_Numeric == 0..LastAddress

\* Address_Transmitted( Address_Numeric ) and back
ToTransmitted(numeric) == numeric * 2
ToNumeric(transmitted) == transmitted \div 2

Operations == {"READ", "WRITE"}

-----------------------------------------------------------------------------
(* Scripts.                                                                *)

start == [op |-> "start"]
repeated_start == [op |-> "repeated_start"]
stop == [op |-> "stop"]
address(a, operation) == [op |-> "address", address |-> a, operation |-> operation]
read(response) == [op |-> "read", response |-> response]
write(data) == [op |-> "write", data |-> data]

\* A mutant: every byte of a block is acknowledged.
ReadBlock_AllACK(n) == [i \in 1..n |-> read("ACK")]

\* Controller::read( begin, end, NACK )
ReadBlock(n) == [i \in 1..n |-> read(IF i = n THEN "NACK" ELSE "ACK")]

\* Controller::write( begin, end )
WriteBlock(data) == [i \in DOMAIN data |-> write(data[i])]

\* A mutant: the least significant byte goes first.
RegisterAddress_LowFirst(width, register) ==
    CASE width = 0 -> <<>>
      [] width = 1 -> <<register>>
      [] width = 2 -> <<register % 256, register \div 256>>

\* to_array(): the most significant byte first
RegisterAddress(width, register) ==
    CASE width = 0 -> <<>>
      [] width = 1 -> <<register>>
      [] width = 2 -> <<register \div 256, register % 256>>

\* Device::read(), of one byte or a block
ReadScript(d, register, n) ==
    LET a == ToTransmitted(d.address) IN
    IF d.width = 0
    THEN <<start, address(a, "READ")>> \o ReadBlock(n) \o <<stop>>
    ELSE <<start, address(a, "WRITE")>> \o WriteBlock(RegisterAddress(d.width, register))
         \o <<repeated_start, address(a, "READ")>> \o ReadBlock(n) \o <<stop>>

\* Device::write(), of one byte or a block
WriteScript(d, register, data) ==
    <<start, address(ToTransmitted(d.address), "WRITE")>>
    \o WriteBlock(RegisterAddress(d.width, register)) \o WriteBlock(data) \o <<stop>>

PingScript(ping) == <<start, address(ToTransmitted(ping[1]), ping[2]), stop>>

\* ping() reads a byte from a device that acknowledges to be read
PingRead == <<read("NACK")>>

\* ping( controller, address )
BothPings(a) == << <<a, "READ">>, <<a, "WRITE">> >>

\* scan(): every address, in order, with each operation
AllPings ==
    [i \in 1..(2 * (LastAddress + 1)) |-> <<(i - 1) \div 2, IF i % 2 = 1 THEN "READ" ELSE "WRITE">>]

-----------------------------------------------------------------------------
(* Calls.                                                                  *)

Begin(call, steps, pings) ==
    /\ transfer = NoTransfer
    /\ transfers < MaxTransfers
    /\ transfer' = call
    /\ script' = steps
    /\ todo' = pings
    /\ buffer' = <<>>
    /\ responses' = {}
    /\ transfers' = transfers + 1
    /\ at_start' = cells
    /\ UNCHANGED <<answers, cells, pointer, listening, driving, written>>

ReadCall(d, register, n) ==
    Begin([kind |-> "read", device |-> d, register |-> register, size |-> n], ReadScript(d, register, n), <<>>)

WriteCall(d, register, data) ==
    Begin([kind |-> "write", device |-> d, register |-> register, data |-> data],
          WriteScript(d, register, data), <<>>)

\* Device::ping( operation ), ping()
PingOneCall(a, operation) ==
    Begin([kind |-> "ping", pings |-> {<<a, operation>>}], PingScript(<<a, operation>>), <<>>)

PingCall(a) ==
    Begin([kind |-> "ping", pings |-> {a} \X Operations], PingScript(BothPings(a)[1]), Tail(BothPings(a)))

ScanCall ==
    Begin([kind |-> "scan", pings |-> Address_Numeric \X Operations], PingScript(AllPings[1]), Tail(AllPings))

-----------------------------------------------------------------------------
(* The bus.                                                                *)

Comes(op) == transfer # NoTransfer /\ script # <<>> /\ Head(script).op = op

Step == script' = Tail(script)

\* PICOLIBRARY_EXPECT(): the program ends, and there is no stop condition.
Fatal ==
    /\ transfer' = [kind |-> "fatal"]
    /\ script' = <<>>

\* start(), repeated_start(), stop(): every device stops listening
Condition ==
    /\ \E op \in {"start", "repeated_start", "stop"} : Comes(op)
    /\ Step
    /\ listening' = NoDevice
    /\ driving' = FALSE
    /\ written' = <<>>
    /\ UNCHANGED <<answers, cells, pointer, transfer, buffer, responses, todo, transfers, at_start>>

Addressed == {d \in I2CDevices : d.address = ToNumeric(Head(script).address)
                                  /\ <<d, Head(script).operation>> \in answers}

IsPing == transfer.kind \in {"ping", "scan"}

\* The address is acknowledged.
Acknowledged ==
    /\ Comes("address")
    /\ \E d \in Addressed :
        /\ listening' = d
        /\ driving' = (Head(script).operation = "READ")
        /\ script' = IF IsPing /\ driving' THEN PingRead \o Tail(script) ELSE Tail(script)
        /\ responses' = IF IsPing THEN responses \cup {<<d.address, Head(script).operation>>}
                                  ELSE responses
    /\ UNCHANGED <<answers, cells, pointer, written, transfer, buffer, todo, transfers, at_start>>

NotAcknowledged ==
    /\ Comes("address")
    /\ Addressed = {}
    /\ IF IsPing THEN Step /\ UNCHANGED transfer ELSE Fatal
    /\ UNCHANGED <<answers, cells, pointer, listening, driving, written, buffer, responses, todo,
                   transfers, at_start>>

\* A device that is written to acknowledges the byte, or does not.
Take(d, byte) ==
    LET bytes == Append(written, byte)
        data == Len(bytes) > d.width
    IN /\ written' = bytes
       /\ pointer' = [pointer EXCEPT ![d] =
                        IF data THEN (IF d.width = 0 THEN @ ELSE @ + 1)
                        ELSE IF d.width = 1 THEN byte
                        ELSE IF Len(bytes) = 2 THEN bytes[1] * 256 + bytes[2] ELSE @]
       /\ cells' = IF data /\ pointer[d] \in d.registers
                   THEN [cells EXCEPT ![d][pointer[d]] = byte] ELSE cells

WriteByte ==
    /\ Comes("write")
    /\ listening # NoDevice
    /\ ~ driving
    /\ \/ Step /\ Take(listening, Head(script).data) /\ UNCHANGED transfer
       \/ Fatal /\ UNCHANGED <<written, pointer, cells>>
    /\ UNCHANGED <<answers, listening, driving, buffer, responses, todo, transfers, at_start>>

\* After a NACK the device gives SDA back.
ReadByte ==
    /\ Comes("read")
    /\ driving
    /\ Step
    /\ LET d == listening IN
        /\ buffer' = IF pointer[d] \in d.registers /\ ~ IsPing
                     THEN Append(buffer, cells[d][pointer[d]]) ELSE buffer
        /\ pointer' = IF d.width = 0 THEN pointer ELSE [pointer EXCEPT ![d] = @ + 1]
    /\ driving' = (Head(script).response = "ACK")
    /\ UNCHANGED <<answers, cells, listening, written, transfer, responses, todo, transfers, at_start>>

\* The next ping of ping() or scan()
NextPing ==
    /\ transfer # NoTransfer
    /\ script = <<>>
    /\ todo # <<>>
    /\ script' = PingScript(Head(todo))
    /\ todo' = Tail(todo)
    /\ UNCHANGED <<answers, cells, pointer, listening, driving, written, transfer, buffer, responses,
                   transfers, at_start>>

\* scan() with a functor that fails returns at once; otherwise a call
\* returns when it is done.
Finish ==
    /\ transfer.kind \notin {"none", "fatal"}
    /\ script = <<>>
    /\ todo = <<>> \/ transfer.kind = "scan"
    /\ transfer' = NoTransfer
    /\ todo' = <<>>
    /\ UNCHANGED <<answers, cells, pointer, listening, driving, written, script, buffer, responses,
                   transfers, at_start>>

\* Devices with registers answer or are missing; one without may only be
\* there to be read, or to be written.
WireInit ==
    /\ answers \in {a \in SUBSET (I2CDevices \X Operations) :
                        \A d \in I2CDevices : d.width # 0 =>
                            (<<d, "READ">> \in a <=> <<d, "WRITE">> \in a)}
    /\ cells = [d \in I2CDevices |-> [r \in d.registers |-> 0]]
    /\ pointer = [d \in I2CDevices |-> 0]
    /\ listening = NoDevice
    /\ driving = FALSE
    /\ written = <<>>
    /\ script = <<>>
    /\ transfer = NoTransfer
    /\ buffer = <<>>
    /\ responses = {}
    /\ todo = <<>>
    /\ transfers = 0
    /\ at_start = cells

\* The registers of a block of n, which lie in the device.
Block(d, register, n) == IF d.width = 0 THEN {register} ELSE register..(register + n - 1)

WireNext ==
    \/ \E d \in I2CDevices : \E register \in d.registers, n \in BlockSizes :
        /\ Block(d, register, n) \subseteq d.registers
        /\ \/ ReadCall(d, register, n)
           \/ \E data \in [1..n -> I2CBytes] : WriteCall(d, register, data)
    \/ \E a \in Address_Numeric : PingCall(a) \/ \E operation \in Operations : PingOneCall(a, operation)
    \/ ScanCall
    \/ Condition \/ Acknowledged \/ NotAcknowledged \/ WriteByte \/ ReadByte \/ NextPing \/ Finish

WireSpec == WireInit /\ [][WireNext]_wire

-----------------------------------------------------------------------------

(* The controller makes a start, a stop or a byte of its own only while no *)
(* device drives SDA: whoever is addressed for reading gets a NACK for the *)
(* last byte, from every read, ping and scan.                              *)
BusIsFree == (script # <<>> /\ Head(script).op # "read") => ~ driving

\* What pings answer, when "pings" are those made
Answered(pings) == {p \in pings : \E d \in I2CDevices : d.address = p[1] /\ <<d, p[2]>> \in answers}

\* the pings of a scan that have been made
Made == {AllPings[i] : i \in 1..(Len(AllPings) - Len(todo))}

(* When a call has run to its end, a write has changed the registers it    *)
(* was given, of its device, to its data; a read has returned the data of  *)
(* its registers; a ping or a scan has found who answers; and nothing else *)
(* has changed in any device, although a call is several transfers of      *)
(* bytes that look alike.                                                  *)
TransfersAreAtomic ==
    (script = <<>> /\ transfer.kind \notin {"none", "fatal"}) =>
        CASE transfer.kind = "read" ->
                LET d == transfer.device IN
                /\ cells = at_start
                /\ buffer = [i \in 1..transfer.size |->
                                at_start[d][IF d.width = 0 THEN 0 ELSE transfer.register + i - 1]]
          [] transfer.kind = "write" ->
                LET d == transfer.device
                    n == Len(transfer.data)
                IN cells = [at_start EXCEPT ![d] =
                        [r \in d.registers |->
                            IF d.width = 0 THEN transfer.data[n]
                            ELSE IF r \in Block(d, transfer.register, n)
                            THEN transfer.data[r - transfer.register + 1] ELSE @[r]]]
          [] transfer.kind = "ping" ->
                cells = at_start /\ (todo = <<>> => responses = Answered(transfer.pings))
          [] transfer.kind = "scan" ->
                cells = at_start /\ responses = Answered(Made)

=============================================================================
