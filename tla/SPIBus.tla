------------------------------ MODULE SPIBus ------------------------------
(***************************************************************************)
(* An SPI bus that a W5500, two MCP23S08 I/O expanders and an MCP3008      *)
(* analog to digital converter share.                                      *)
(*                                                                         *)
(* Every call of a driver does the same: it gives the controller the       *)
(* clock and bit order of its device (SPI::Device::configure()), selects   *)
(* the device (SPI::Device_Selection_Guard), exchanges the bytes of a      *)
(* frame one by one, and deselects the device when the guard goes.  The    *)
(* two expanders have one selector and tell the frames apart by the        *)
(* address in them.  What a driver promises is RegisterFile: registers     *)
(* that are independent of each other, whatever the bytes on the bus.      *)
(*                                                                         *)
(* The chips are modelled from their frames: the W5500 counts the offset   *)
(* up with every byte, the MCP23S08 has one byte per frame, the MCP3008    *)
(* answers its 24 clocks with the level of an input in the last ten.       *)
(***************************************************************************)
EXTENDS W5500Registers

CONSTANTS
    SpiSockets,      \* Socket_IDs in use
    BufferOffsets,   \* of the two bytes read from or written to a buffer
    Patterns,        \* sequences of six bytes, of which data is made
    Junk,            \* what an undriven line reads as
    MaxCalls,        \* a bound on the calls
    NoSpiCall

VARIABLES
    memory,          \* of the chips: <<chip, address>> |-> byte; 0 elsewhere
    configuration,   \* of the controller: the chip that it suits, or "none"
    selected,        \* the chip select lines that are active
    frame,           \* what the selected chip has received
    call,            \* the call in progress
    step,            \* where it is
    received,        \* the bytes it has received in this frame
    previous_data,        \* previous_data of read_non_atomic()
    before,          \* history: the register of the call, when it began
    returned,        \* what the last read returned
    calls            \* how many there were

spi == <<memory, configuration, selected, frame, call, step, received, previous_data, before, returned, calls>>

-----------------------------------------------------------------------------
(* The registers of the system, by name: <<device, socket or address, ...>> *)

\* struct IODIR, IPOL, ..., OLAT
ExpanderRegisters ==
    [iodir |-> 0, ipol |-> 1, gpinten |-> 2, defval |-> 3, intcon |-> 4, iocon |-> 5, gppu |-> 6,
     intf |-> 7, intcap |-> 8, gpio |-> 9, olat |-> 10]

ExpanderAccessors ==
    ReadWrite({"iodir", "ipol", "gpinten", "defval", "intcon", "iocon", "gppu", "gpio", "olat"})
        \cup ReadOnly({"intf", "intcap"})

\* MCP23S08::Address_Numeric
ExpanderAddresses == {32, 33}

\* MCP3008::Input: single-ended, and the differential pairs
Inputs == {"single", "differential"} \X (0..7)

InputBits(input) == (IF input[1] = "single" THEN 128 ELSE 0) + input[2] * 16

Size(type) == IF type = "2_bytes" THEN 2 ELSE Width(type)

Common == {<<"common", name>> : name \in DOMAIN CommonRegisters}
Socket == {<<"socket", name, s>> : name \in DOMAIN SocketRegisters, s \in SpiSockets}
Buffer == {<<"buffer", name, s, o>> :
                name \in {"rx_buffer", "tx_buffer"}, s \in SpiSockets, o \in BufferOffsets}
Expander == {<<"expander", name, a>> : name \in DOMAIN ExpanderRegisters, a \in ExpanderAddresses}
Sample == {<<"sample", input>> : input \in Inputs}

Names == Common \cup Socket \cup Buffer \cup Expander \cup Sample

Type == [name \in Names |->
    CASE name[1] = "common" -> CommonRegisters[name[2]].type
      [] name[1] = "socket" -> SocketRegisters[name[2]].type
      [] name[1] = "buffer" -> "2_bytes"
      [] OTHER -> "8_bit"]

\* the accessors that there are
Allowed(operation, name) ==
    CASE name[1] = "expander" -> <<operation, name[2]>> \in ExpanderAccessors
      [] name[1] = "sample" -> operation = "read"
      [] OTHER -> <<operation, name[2]>> \in Accessors

\* the device that a register belongs to
Chip(name) ==
    CASE name[1] = "expander" -> "mcp23s08" [] name[1] = "sample" -> "mcp3008" [] OTHER -> "w5500"

Values(name) == {FromBytes(Type[name], SubSeq(p, 1, Size(Type[name]))) : p \in Patterns}

\* The W5500 has eight sockets, and its offsets have 16 bits; what is read
\* from or written to a buffer does not overlap.
ASSUME SpiAssumption ==
    /\ SpiSockets \subseteq 0..7
    /\ BufferOffsets \subseteq 0..(BYTES * BYTES - 2)
    /\ \A a, b \in BufferOffsets : b # a + 1
    /\ Patterns \subseteq [1..6 -> 0..(BYTES - 1)]
    /\ Junk \subseteq 0..(BYTES - 1)

ASSUME NoSpiCallAssumption ==
    NoSpiCall \notin [operation : {"read", "write"}, name : Names, data : Seq(Nat)]

-----------------------------------------------------------------------------
(* The chips.                                                              *)

\* where a register lies in its chip
Cells == [name \in Names \ Sample |->
    LET From(block, offset) == [k \in 1..Size(Type[name]) |-> <<"w5500", block, offset + k - 1>>]
    IN CASE name[1] = "common" -> From(0, CommonRegisters[name[2]].offset)
         [] name[1] = "socket" -> From(4 * name[3] + 1, SocketRegisters[name[2]].offset)
         [] name[1] = "buffer" -> From(4 * name[3] + BLOCK[name[2]], name[4])
         [] name[1] = "expander" -> << <<"mcp23s08", name[3], ExpanderRegisters[name[2]]>> >>]

Byte(cell) == IF cell \in DOMAIN memory THEN memory[cell] ELSE 0

Stored(cell, byte) == [c \in DOMAIN memory \cup {cell} |-> IF c = cell THEN byte ELSE memory[c]]

\* What the converter measures at the inputs that the four bits after the
\* start bit choose: a level of its own for every choice.
Level(code) == (code * 61 + 300) % 1024
Code(input) == (IF input[1] = "single" THEN 8 ELSE 0) + input[2]

Contents(name) ==
    IF name[1] = "sample" THEN <<Level(Code(name[2]))>>
    ELSE FromBytes(Type[name], [k \in DOMAIN Cells[name] |-> Byte(Cells[name][k])])

\* The cell that the byte after those of the frame is read from or written to.
W5500Cell == <<"w5500", frame[3] \div 8, frame[1] * BYTES + frame[2] + Len(frame) - 3>>
ExpanderCell == <<"mcp23s08", frame[1] \div 2, frame[2]>>

\* Reply(chip, byte): what a chip sends while it receives a byte.
W5500Reply ==
    IF Len(frame) >= 3 /\ (frame[3] \div 4) % 2 = 0 THEN {Byte(W5500Cell)} ELSE Junk

ExpanderReply ==
    IF Len(frame) = 2 /\ frame[1] % 2 = 1 /\ frame[1] \div 2 \in ExpanderAddresses
    THEN {Byte(ExpanderCell)} ELSE Junk

\* the start bit is the last one of the first byte; a null bit precedes the sample
ConverterReply(byte) ==
    CASE Len(frame) = 1 -> {(junk % 32) * 8 + Level(byte \div 16) \div BYTES : junk \in Junk}
      [] Len(frame) = 2 -> {Level(frame[2] \div 16) % BYTES}
      [] OTHER -> Junk

Reply(chip, byte) ==
    CASE chip = "w5500" -> W5500Reply
      [] chip = "mcp23s08" -> ExpanderReply
      [] chip = "mcp3008" -> ConverterReply(byte)
      [] OTHER -> Junk

\* the memory when a chip has received one more byte
MemoryAfter(chip, byte) ==
    CASE chip = "w5500" /\ Len(frame) >= 3 /\ (frame[3] \div 4) % 2 = 1 -> Stored(W5500Cell, byte)
      [] chip = "mcp23s08" /\ Len(frame) = 2 /\ frame[1] % 2 = 0 -> Stored(ExpanderCell, byte)
      [] OTHER -> memory

\* the chip that understands what is on the bus
Listener ==
    IF configuration \in selected /\ selected = {configuration} THEN configuration ELSE "none"

-----------------------------------------------------------------------------
(* The drivers.                                                            *)

\* MCP23S08::Address_Transmitted
Transmitted(address) == address * 2

\* MCP23S08::Communication_Controller::read(), write()
ExpanderFrame(operation, name, data) ==
    <<Transmitted(name[3]) + (IF operation = "read" THEN 1 ELSE 0), ExpanderRegisters[name[2]],
      IF operation = "read" THEN 0 ELSE data[1]>>

\* MCP3008::Driver::sample()
SampleFrame(name) == <<1, InputBits(name[2]), 0>>

Frame ==
    LET name == call.name
        reads == call.operation = "read"
    IN CASE name[1] = "common" ->
                IF reads THEN CommonReadFrame(name[2]) ELSE CommonWriteFrame(name[2], call.data)
         [] name[1] = "socket" ->
                IF reads THEN SocketReadFrame(name[3], name[2])
                ELSE SocketWriteFrame(name[3], name[2], call.data)
         [] name[1] = "buffer" ->
                BufferFrame(name[3], name[2], name[4], call.operation, IF reads THEN Zeros(2) ELSE call.data)
         [] name[1] = "expander" -> ExpanderFrame(call.operation, name, call.data)
         [] name[1] = "sample" -> SampleFrame(name)

\* What a call makes of the bytes that it has received.
Result ==
    LET n == Len(received) IN
    IF call.name[1] = "sample" THEN <<(received[2] % 4) * BYTES + received[3]>>
    ELSE FromBytes(Type[call.name], SubSeq(received, n - Size(Type[call.name]) + 1, n))

SpiCall(operation, name, data) ==
    /\ step = "idle"
    /\ calls < MaxCalls
    /\ Allowed(operation, name)
    /\ call' = [operation |-> operation, name |-> name, data |-> data]
    /\ step' = "configure"
    /\ before' = Contents(name)
    /\ returned' = NoSpiCall
    /\ calls' = calls + 1
    /\ UNCHANGED <<memory, configuration, selected, frame, received, previous_data>>

\* A mutant: the controller stays as the last device needed it.
Configure_OnlyFirst ==
    /\ step = "configure"
    /\ configuration' = IF configuration = "none" THEN Chip(call.name) ELSE configuration
    /\ step' = "select"
    /\ UNCHANGED <<memory, selected, frame, call, received, previous_data, before, returned, calls>>

\* SPI::Device::configure()
Configure ==
    /\ step = "configure"
    /\ configuration' = Chip(call.name)
    /\ step' = "select"
    /\ UNCHANGED <<memory, selected, frame, call, received, previous_data, before, returned, calls>>

\* SPI::Device_Selection_Guard
Select ==
    /\ step = "select"
    /\ selected' = selected \cup {Chip(call.name)}
    /\ step' = "exchange"
    /\ UNCHANGED <<memory, configuration, frame, call, received, previous_data, before, returned, calls>>

\* SPI::Controller::exchange(), transmit() and receive(), byte by byte
Exchange ==
    LET byte == Frame[Len(received) + 1] IN
    /\ step = "exchange"
    /\ Len(received) < Len(Frame)
    /\ \E reply \in Reply(Listener, byte) : received' = Append(received, reply)
    /\ frame' = IF Listener = "none" THEN frame ELSE Append(frame, byte)
    /\ memory' = MemoryAfter(Listener, byte)
    /\ UNCHANGED <<configuration, selected, call, step, previous_data, before, returned, calls>>

\* ~Device_Selection_Guard(), and the return from the call or, in
\* read_non_atomic(), another read
Repeats == call.name[1] = "socket" /\ call.name[2] \in NonAtomic /\ previous_data # Result

Deselect ==
    /\ step = "exchange"
    /\ Len(received) = Len(Frame)
    /\ selected' = selected \ {Chip(call.name)}
    /\ IF Repeats
       THEN /\ previous_data' = Result
            /\ step' = "configure"
            /\ UNCHANGED <<call, before, returned>>
       ELSE /\ call' = NoSpiCall
            /\ before' = NoSpiCall
            /\ returned' = IF call.operation = "read" THEN <<call.name, Result>> ELSE NoSpiCall
            /\ previous_data' = NoSpiCall
            /\ step' = "idle"
    /\ frame' = <<>>
    /\ received' = <<>>
    /\ UNCHANGED <<memory, configuration, calls>>

\* A chip gives a register that only it writes another value.
ChipChanges(name, bytes) ==
    /\ step = "idle"
    /\ calls < MaxCalls
    /\ name[1] # "sample"
    /\ ~ Allowed("write", name)
    /\ LET cells == Cells[name] IN
       memory' = [c \in DOMAIN memory \cup {cells[k] : k \in DOMAIN cells} |->
                    IF \E k \in DOMAIN cells : cells[k] = c
                    THEN bytes[CHOOSE k \in DOMAIN cells : cells[k] = c] ELSE memory[c]]
    /\ calls' = calls + 1
    /\ UNCHANGED <<configuration, selected, frame, call, step, received, previous_data, before, returned>>

SpiInit ==
    /\ memory = <<>>
    /\ configuration = "none"
    /\ selected = {}
    /\ frame = <<>>
    /\ call = NoSpiCall
    /\ step = "idle"
    /\ received = <<>>
    /\ previous_data = NoSpiCall
    /\ before = NoSpiCall
    /\ returned = NoSpiCall
    /\ calls = 0

SpiNext ==
    \/ \E name \in Names : SpiCall("read", name, <<>>)
    \/ \E name \in Names : \E data \in Values(name) : SpiCall("write", name, data)
    \/ Configure
    \/ Select
    \/ Exchange
    \/ Deselect
    \/ \E name \in Names, p \in Patterns : ChipChanges(name, p)

SpiSpec == SpiInit /\ [][SpiNext]_spi

-----------------------------------------------------------------------------
File ==
    INSTANCE RegisterFile WITH
        Idle <- NoSpiCall,
        contents <- [name \in Names |->
                        IF call # NoSpiCall /\ call.name = name /\ call.operation = "write"
                        THEN before ELSE Contents(name)],
        request <- call,
        answer <- returned

(* Whatever the frames, the byte order and the other devices on the bus    *)
(* are: a write changes one register, to what was given, and no other one  *)
(* of any device; a read returns what the register has.  (A step that is   *)
(* none of this module is not looked at.)                                  *)
IsRegisterFile == [][UNCHANGED spi \/ File!Step]_spi

=============================================================================
