------------------------------ MODULE MCBuses ------------------------------
(***************************************************************************)
(* A model-checking instance of four modules that are about what lies      *)
(* between a driver and its device.  They share no state: "subject" is the *)
(* one that a behaviour is about, and the others rest.                     *)
(***************************************************************************)
EXTENDS W5500NonAtomicRead, SPIBus, W5500Configuration, I2CWire

VARIABLE subject

buses == <<subject, vars, spi, configured, wire>>

\* bytes at different places of a register are different
SixBytes == {<<1, 2, 3, 4, 5, 6>>}

\* one device for each width of the register pointer; the registers of the
\* last one differ in either byte of their address
ThreeDevices ==
    {[address |-> 1, width |-> 0, registers |-> {0}],
     [address |-> 2, width |-> 1, registers |-> {0, 1, 2}],
     [address |-> 3, width |-> 2, registers |-> {0, 1, 2, 256, 257}]}

Resting(name) == subject # name

BusesInit ==
    /\ subject \in {"register", "spi", "configuration", "i2c"}
    /\ Init
    /\ Resting("register") => register = <<0, 0>>
    /\ SpiInit
    /\ ConfiguredInit
    /\ WireInit
    /\ Resting("i2c") => answers = {}

Register(A) == subject = "register" /\ A /\ UNCHANGED <<subject, spi, configured, wire>>

BusesNext ==
    \/ Register(Next)
    \/ subject = "spi" /\ SpiNext /\ UNCHANGED <<subject, vars, configured, wire>>
    \/ subject = "configuration" /\ ConfiguredNext /\ UNCHANGED <<subject, vars, spi, wire>>
    \/ subject = "i2c" /\ WireNext /\ UNCHANGED <<subject, vars, spi, configured>>

BusesSpec ==
    BusesInit /\ [][BusesNext]_buses /\ WF_buses(Register(ReadHigh)) /\ WF_buses(Register(ReadLow))
=============================================================================
