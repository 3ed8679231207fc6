-------------------------- MODULE W5500Registers --------------------------
(***************************************************************************)
(* The register map of the W5500 as its Driver knows it: where a register  *)
(* lies, how its value becomes bytes, which accessors there are, and the   *)
(* three byte header of the SPI frame that an access begins with.          *)
(*                                                                         *)
(* A register has the Type of the struct that describes it: a number of 8  *)
(* or 16 bits, or an array of 4 or 6 bytes.  A value is a sequence, of the *)
(* one number or of the bytes.  Bit fields are left out, they are the      *)
(* business of those who use the registers.                                *)
(***************************************************************************)
EXTENDS Integers, Sequences

At(offset, type) == [offset |-> offset, type |-> type]

Width(type) ==
    CASE type = "8_bit" -> 1 [] type = "16_bit" -> 2 [] type = "4_bytes" -> 4 [] type = "6_bytes" -> 6

AddressRegisters ==
    [mr |-> At(0, "8_bit"), gar |-> At(1, "4_bytes"), subr |-> At(5, "4_bytes"),
     shar |-> At(9, "6_bytes"), sipr |-> At(15, "4_bytes")]

InterruptRegisters ==
    [intlevel |-> At(19, "16_bit"), ir |-> At(21, "8_bit"), imr |-> At(22, "8_bit"),
     sir |-> At(23, "8_bit"), simr |-> At(24, "8_bit")]

RetransmissionRegisters ==
    [rtr |-> At(25, "16_bit"), rcr |-> At(27, "8_bit"), ptimer |-> At(28, "8_bit"),
     pmagic |-> At(29, "8_bit"), phar |-> At(30, "6_bytes"), psid |-> At(36, "16_bit"),
     pmru |-> At(38, "16_bit")]

StatusRegisters ==
    [uipr |-> At(40, "4_bytes"), uportr |-> At(44, "16_bit"), phycfgr |-> At(46, "8_bit"),
     versionr |-> At(57, "8_bit")]

SocketControlRegisters == [sn_mr |-> At(0, "8_bit"), sn_cr |-> At(1, "8_bit")]

SocketStatusRegisters == [sn_ir |-> At(2, "8_bit"), sn_sr |-> At(3, "8_bit")]

SocketAddressRegisters ==
    [sn_port |-> At(4, "16_bit"), sn_dhar |-> At(6, "6_bytes"), sn_dipr |-> At(12, "4_bytes"),
     sn_dport |-> At(16, "16_bit"), sn_mssr |-> At(18, "16_bit"), sn_tos |-> At(21, "8_bit"),
     sn_ttl |-> At(22, "8_bit")]

SocketBufferRegisters ==
    [sn_rxbuf_size |-> At(30, "8_bit"), sn_txbuf_size |-> At(31, "8_bit"),
     sn_tx_fsr |-> At(32, "16_bit"), sn_tx_rd |-> At(34, "16_bit"), sn_tx_wr |-> At(36, "16_bit"),
     sn_rx_rsr |-> At(38, "16_bit"), sn_rx_rd |-> At(40, "16_bit"), sn_rx_wr |-> At(42, "16_bit")]

SocketOptionRegisters ==
    [sn_imr |-> At(44, "8_bit"), sn_frag |-> At(45, "16_bit"), sn_kpalvtr |-> At(47, "8_bit")]

Joined(f, g) == [x \in DOMAIN f \cup DOMAIN g |-> IF x \in DOMAIN f THEN f[x] ELSE g[x]]

CommonRegisters ==
    Joined(Joined(AddressRegisters, InterruptRegisters), Joined(RetransmissionRegisters, StatusRegisters))

SocketRegisters ==
    Joined(Joined(SocketControlRegisters, SocketStatusRegisters),
           Joined(SocketAddressRegisters, Joined(SocketBufferRegisters, SocketOptionRegisters)))

-----------------------------------------------------------------------------
(* The accessors: read_mr(), write_mr(), ...                               *)

ReadOnly(names) == {"read"} \X names
ReadWrite(names) == {"read", "write"} \X names

AddressAccessors == ReadWrite({"mr", "gar", "subr", "shar", "sipr", "intlevel", "ir"})

InterruptAccessors ==
    ReadWrite({"imr", "simr", "rtr", "rcr", "ptimer", "pmagic"}) \cup ReadOnly({"sir"})

StatusAccessors ==
    ReadWrite({"phar", "psid", "pmru", "phycfgr"}) \cup ReadOnly({"uipr", "uportr", "versionr"})

SocketControlAccessors ==
    ReadWrite({"sn_mr", "sn_cr", "sn_ir", "sn_port", "sn_dhar", "sn_dipr"}) \cup ReadOnly({"sn_sr"})

SocketAddressAccessors ==
    ReadWrite({"sn_dport", "sn_mssr", "sn_tos", "sn_ttl", "sn_rxbuf_size", "sn_txbuf_size"})

SocketBufferAccessors ==
    ReadWrite({"sn_tx_wr", "sn_rx_rd", "sn_imr", "sn_frag", "sn_kpalvtr"})
        \cup ReadOnly({"sn_tx_fsr", "sn_tx_rd", "sn_rx_rsr", "sn_rx_wr"})

\* read_rx_buffer(), write_tx_buffer()
BufferAccessors == {<<"read", "rx_buffer">>, <<"write", "tx_buffer">>}

Accessors ==
    AddressAccessors \cup InterruptAccessors \cup StatusAccessors \cup SocketControlAccessors
        \cup SocketAddressAccessors \cup SocketBufferAccessors \cup BufferAccessors

\* The registers that are read with read_non_atomic().
NonAtomic == {"sn_tx_fsr", "sn_rx_rsr"}

-----------------------------------------------------------------------------
(* Values and bytes.                                                       *)

BYTES == 256

\* write( memory_offset, data ), for each type of data
ToBytes(type, data) ==
    IF type = "16_bit" THEN <<data[1] \div BYTES, data[1] % BYTES>> ELSE data

\* read( memory_offset, Type{} )
FromBytes(type, buffer) ==
    IF type = "16_bit" THEN <<buffer[1] * BYTES + buffer[2]>> ELSE buffer

-----------------------------------------------------------------------------
(* The frame header: the offset, most significant byte first, and the      *)
(* control byte, SOCKET | BLOCK | RWB | OM.                                *)

Control_Byte == [om |-> 1, rwb |-> 4, block |-> 8, socket |-> 32]

BSB_COMMON_REGISTERS == 0

BLOCK == [registers |-> 1, tx_buffer |-> 2, rx_buffer |-> 3]

Operation == [read |-> 0, write |-> 1]

CommonHeader(offset, operation) ==
    <<offset \div BYTES, offset % BYTES, BSB_COMMON_REGISTERS + Operation[operation] * Control_Byte.rwb>>

SocketHeader(socket, block, offset, operation) ==
    <<offset \div BYTES, offset % BYTES,
      socket * Control_Byte.socket + BLOCK[block] * Control_Byte.block + Operation[operation] * Control_Byte.rwb>>

-----------------------------------------------------------------------------
(* The bytes that an accessor sends; where it expects a byte it sends zero *)
(* (SPI::Controller::receive()).                                           *)

Zeros(n) == [i \in 1..n |-> 0]

CommonReadFrame(name) ==
    LET r == CommonRegisters[name] IN CommonHeader(r.offset, "read") \o Zeros(Width(r.type))

CommonWriteFrame(name, data) ==
    LET r == CommonRegisters[name] IN CommonHeader(r.offset, "write") \o ToBytes(r.type, data)

SocketReadFrame(socket, name) ==
    LET r == SocketRegisters[name]
    IN SocketHeader(socket, "registers", r.offset, "read") \o Zeros(Width(r.type))

SocketWriteFrame(socket, name, data) ==
    LET r == SocketRegisters[name]
    IN SocketHeader(socket, "registers", r.offset, "write") \o ToBytes(r.type, data)

BufferFrame(socket, block, offset, operation, bytes) ==
    SocketHeader(socket, block, offset, operation) \o bytes

=============================================================================
