--------------------------- MODULE BusesProofs ------------------------------
(***************************************************************************)
(* Proofs about what lies between a driver and its device: the read of a   *)
(* register that changes (W5500NonAtomicRead), the configuration that is   *)
(* kept in registers (W5500Configuration), I2C byte by byte (I2CWire), and *)
(* the registers of the chips on an SPI bus (SPIBus).                      *)
(***************************************************************************)
EXTENDS W5500NonAtomicRead, W5500Configuration, I2CWire, SPIBus, SequenceTheorems, TLAPS

-----------------------------------------------------------------------------
(* W5500NonAtomicRead, for bytes of any width. The register only grows     *)
(* during a call, so that its high bytes at the four moments at which two  *)
(* consecutive reads look at it are in ascending order. When the two reads *)
(* agree, the first and the third are equal, and with them the second: the *)
(* first read was the value of the register at the moment of its low byte. *)

LowInv == pc = "low" => /\ high = at_high[1]
                        /\ at_high[1] =< register[1]

PreviousInv ==
    (pc # "idle" /\ previous # None) =>
        /\ at_low \in seen
        /\ previous[1] =< at_low[1]
        /\ previous[2] = at_low[2]
        /\ at_low[1] =< register[1]
        /\ pc = "low" => at_low[1] =< at_high[1]

SeenInv == pc # "idle" => register \in seen

ReadInv == TypeOK /\ LowInv /\ PreviousInv /\ SeenInv

\* The parts of a register value, and what AtMost says of the high bytes.
LEMMA RegisterParts ==
    ASSUME NEW r \in Registers
    PROVE  /\ r[1] \in Bytes
           /\ r[2] \in Bytes
           /\ r[1] \in Int
           /\ r = <<r[1], r[2]>>
BY ByteAssumption DEF Registers, Bytes

LEMMA AtMostHigh ==
    ASSUME NEW a \in Registers, NEW b \in Registers, AtMost(a, b)
    PROVE  a[1] =< b[1]
BY RegisterParts DEF AtMost

LEMMA NoneIsNoRegister == None \notin Registers
BY NoneAssumption DEF Registers, Bytes

LEMMA ReadInvInit == Init => ReadInv
<1> SUFFICES ASSUME Init PROVE ReadInv
    OBVIOUS
<1>1. TypeOK
    BY ByteAssumption DEF Init, TypeOK, Bytes
<1> QED
    BY <1>1 DEF Init, ReadInv, LowInv, PreviousInv, SeenInv

\* Every step of the driver and of the chip keeps the invariant.
LEMMA ReadInvNext == ReadInv /\ [Next]_vars => ReadInv'
<1> SUFFICES ASSUME ReadInv, [Next]_vars PROVE ReadInv'
    OBVIOUS
<1> USE DEF ReadInv, TypeOK
<1>1. CASE Call
    BY <1>1, NoneIsNoRegister DEF Call, LowInv, PreviousInv, SeenInv
<1>2. CASE ReadHigh
    <2>1. TypeOK'
        BY <1>2, RegisterParts DEF ReadHigh
    <2>2. LowInv'
        BY <1>2, RegisterParts DEF ReadHigh, LowInv
    <2>3. PreviousInv'
        BY <1>2 DEF ReadHigh, PreviousInv
    <2>4. SeenInv'
        BY <1>2 DEF ReadHigh, SeenInv
    <2> QED
        BY <2>1, <2>2, <2>3, <2>4
<1>3. CASE ReadLow
    <2> DEFINE new_data == <<high, register[2]>>
    <2>1. new_data \in Registers
        BY RegisterParts DEF Registers
    <2>2. TypeOK'
        BY <1>3, <2>1 DEF ReadLow
    <2>3. LowInv'
        BY <1>3 DEF ReadLow, LowInv
    <2>4. PreviousInv'
        BY <1>3, RegisterParts DEF ReadLow, PreviousInv, LowInv, SeenInv
    <2>5. SeenInv'
        BY <1>3 DEF ReadLow, SeenInv
    <2> QED
        BY <2>2, <2>3, <2>4, <2>5
<1>4. CASE Grow
    <2> PICK value \in Registers : /\ AtMost(register, value)
                                   /\ register' = value
                                   /\ seen' = IF pc = "idle" THEN seen ELSE seen \cup {value}
        BY <1>4 DEF Grow
    <2>1. register[1] =< register'[1]
        BY AtMostHigh
    <2>2. TypeOK'
        BY <1>4 DEF Grow
    <2>3. register[1] \in Int /\ register'[1] \in Int /\ at_high[1] \in Int /\ at_low[1] \in Int
        BY RegisterParts
    <2>4. LowInv'
        BY <1>4, <2>1, <2>3 DEF Grow, LowInv
    <2>5. PreviousInv'
        BY <1>4, <2>1, <2>3 DEF Grow, PreviousInv
    <2>6. SeenInv'
        BY <1>4 DEF Grow, SeenInv
    <2> QED
        BY <2>2, <2>4, <2>5, <2>6
<1>5. CASE Command
    BY <1>5 DEF Command, LowInv, PreviousInv, SeenInv
<1>6. CASE UNCHANGED vars
    BY <1>6 DEF vars, LowInv, PreviousInv, SeenInv
<1> QED
    BY <1>1, <1>2, <1>3, <1>4, <1>5, <1>6 DEF Next

\* When two reads agree, they agree on a value that the register had.
LEMMA AgreeingReads ==
    ASSUME ReadInv, ReadLow, pc' = "idle"
    PROVE  result' \in seen
<1>1. pc = "low" /\ <<high, register[2]>> = previous /\ result' = previous
    BY DEF ReadLow, Agrees
<1>2. previous # None
    <2>1. <<high, register[2]>> \in Registers
        BY RegisterParts DEF ReadInv, TypeOK, Registers
    <2> QED
        BY <1>1, <2>1, NoneIsNoRegister
<1>3. /\ at_low \in seen
      /\ previous[1] =< at_low[1] /\ at_low[1] =< at_high[1]
      /\ previous[2] = at_low[2]
    BY <1>1, <1>2 DEF ReadInv, PreviousInv
<1>4. previous[1] = at_high[1]
    BY <1>1 DEF ReadInv, LowInv
<1>5. at_low \in Registers /\ previous \in Registers /\ at_high \in Registers
    BY <1>2 DEF ReadInv, TypeOK
<1>6. previous[1] = at_low[1]
    BY <1>3, <1>4, <1>5, RegisterParts
<1>7. previous = at_low
    BY <1>3, <1>5, <1>6, RegisterParts
<1> QED
    BY <1>1, <1>3, <1>7

\* The variables of read_non_atomic() and of the register keep their types.
THEOREM ReadTypeCorrect == Spec => []TypeOK
<1>1. Init => ReadInv
    BY ReadInvInit
<1>2. ReadInv /\ [Next]_vars => ReadInv'
    BY ReadInvNext
<1>3. ReadInv => TypeOK
    BY DEF ReadInv
<1> QED
    BY <1>1, <1>2, <1>3, PTL DEF Spec

\* Whatever the width of a byte, read_non_atomic() returns a value that the
\* register had during the call.
THEOREM ReadIsSound == Spec => ResultWasSeen
<1>1. Init => ReadInv
    BY ReadInvInit
<1>2. ReadInv /\ [Next]_vars => ReadInv'
    BY ReadInvNext
<1>3. ReadInv /\ [Next]_vars => [(pc = "low" /\ pc' = "idle") => result' \in seen]_vars
    <2> SUFFICES ASSUME ReadInv, Next, pc = "low", pc' = "idle" PROVE result' \in seen
        OBVIOUS
    <2>1. ReadLow
        BY DEF Next, Call, ReadHigh, Grow, Command
    <2> QED
        BY <2>1, AgreeingReads
<1> QED
    BY <1>1, <1>2, <1>3, PTL DEF Spec, ResultWasSeen

-----------------------------------------------------------------------------
(* W5500Configuration: ConfigurationStays, for any set of interrupts. A    *)
(* register holds what was asked for, or the call in progress is about to  *)
(* write it.                                                               *)

Asked ==
    [initialized : {TRUE}, phy_mode : PHY_Mode, ping_blocking : Ping_Blocking,
     arp_forcing : ARP_Forcing, interrupts : SUBSET Interrupts, socket_interrupts : BOOLEAN]

\* What a register holds once the call in progress has written it back.
Holds(reg, bits) == IF update.register = reg THEN update.bits ELSE bits

UpdateInv ==
    /\ update.register = "none" => update = NoUpdate
    /\ update # NoUpdate => asked.initialized

\* The configuration that was asked for is in the registers, except for what
\* the call in progress has read and not written back.
AskedInv ==
    \/ asked = [initialized |-> FALSE] /\ imr = {} /\ simr = {}
    \/ /\ asked \in Asked
       /\ phy_mode_of(phycfgr) = asked.phy_mode
       /\ Holds("mr", mr) = asked.ping_blocking \cup asked.arp_forcing
       /\ Holds("imr", imr) = asked.interrupts
       /\ socket_interrupts_are_enabled = asked.socket_interrupts
       /\ others = Written

ConfiguredInv == UpdateInv /\ AskedInv /\ unserved \subseteq ir

LEMMA ConfiguredInvInit == ConfiguredInit => ConfiguredInv
BY DEF ConfiguredInit, ConfiguredInv, UpdateInv, AskedInv, NoUpdate

\* The link is not part of the mode of the PHY, nor is its reset.
LEMMA ModeOfPHY ==
    /\ \A link \in SUBSET Link : phy_mode_of((phycfgr \ Link) \cup link) = phy_mode_of(phycfgr)
    /\ \A mode \in PHY_Mode : phy_mode_of(PHYWritten(mode \cup {"RST"})) = mode
<1>1. \A mode \in PHY_Mode : mode \subseteq {"OPMD"} \cup OPMDC
    BY DEF PHY_Mode, OPMDC
<1>2. ({"OPMD"} \cup OPMDC) \cap Link = {} /\ "RST" \notin {"OPMD"} \cup OPMDC
    BY DEF Link, OPMDC
<1>. QED BY <1>1, <1>2 DEF phy_mode_of, PHYWritten

LEMMA InitializeKeepsInv ==
    ASSUME ConfiguredInv, NEW phy_mode \in PHY_Mode, NEW ping_blocking \in Ping_Blocking,
           NEW arp_forcing \in ARP_Forcing, InitializeNetwork(phy_mode, ping_blocking, arp_forcing)
    PROVE  ConfiguredInv'
<1>1. asked = [initialized |-> FALSE] /\ imr = {} /\ simr = {} /\ update = NoUpdate
    BY DEF ConfiguredInv, UpdateInv, AskedInv, Asked, InitializeNetwork
<1> DEFINE new == [initialized |-> TRUE, phy_mode |-> phy_mode, ping_blocking |-> ping_blocking,
                   arp_forcing |-> arp_forcing, interrupts |-> {}, socket_interrupts |-> FALSE]
<1>2. /\ new \in Asked /\ new.phy_mode = phy_mode /\ new.ping_blocking = ping_blocking
      /\ new.arp_forcing = arp_forcing /\ new.interrupts = {} /\ new.socket_interrupts = FALSE
      /\ new.initialized
    BY DEF Asked
<1>3. asked' = new
    BY DEF InitializeNetwork
<1> HIDE DEF new
<1>4. phy_mode_of(phycfgr)' = asked'.phy_mode
    <2>1. phy_mode_of(PHYWritten(phy_mode \cup {"RST"})) = phy_mode
        BY ModeOfPHY
    <2>. QED BY <1>2, <1>3, <2>1 DEF InitializeNetwork, phy_mode_of
<1>5. update' = NoUpdate /\ NoUpdate.register = "none"
    BY <1>1 DEF InitializeNetwork, NoUpdate
<1>6. Holds("mr", mr)' = ping_blocking \cup arp_forcing /\ Holds("imr", imr)' = {}
    BY <1>1, <1>5 DEF InitializeNetwork, Holds
<1>7. socket_interrupts_are_enabled' = FALSE
    BY <1>1 DEF InitializeNetwork, socket_interrupts_are_enabled
<1>8. AskedInv'
    BY <1>2, <1>3, <1>4, <1>6, <1>7 DEF AskedInv, InitializeNetwork
<1>9. UpdateInv' /\ (unserved \subseteq ir)'
    BY <1>2, <1>3, <1>5 DEF UpdateInv, InitializeNetwork, ConfiguredInv
<1>. QED BY <1>8, <1>9 DEF ConfiguredInv

\* A call that has read a register will write back what is asked for.
LEMMA UpdateKeepsInv ==
    ASSUME ConfiguredInv, Ready,
           UNCHANGED <<mr, phycfgr, imr, ir, simr, others, context, unserved>>,
           NEW new \in Asked, asked' = new,
           new.phy_mode = asked.phy_mode, new.socket_interrupts = asked.socket_interrupts,
           NEW reg \in {"mr", "imr"}, NEW bits, Update(reg, bits),
           reg = "mr" => /\ bits = new.ping_blocking \cup new.arp_forcing
                         /\ new.interrupts = asked.interrupts,
           reg = "imr" => /\ bits = new.interrupts
                          /\ new.ping_blocking = asked.ping_blocking
                          /\ new.arp_forcing = asked.arp_forcing
    PROVE  ConfiguredInv'
<1>1. update'.register = reg /\ update'.bits = bits /\ update' # NoUpdate
    BY DEF Update, NoUpdate
<1>2. update = NoUpdate /\ update.register = "none" /\ asked \in Asked
    BY DEF Ready, NoUpdate, ConfiguredInv, AskedInv
<1>3. /\ phy_mode_of(phycfgr) = asked.phy_mode
      /\ mr = asked.ping_blocking \cup asked.arp_forcing
      /\ imr = asked.interrupts
      /\ socket_interrupts_are_enabled = asked.socket_interrupts
      /\ others = Written
    BY <1>2 DEF Ready, ConfiguredInv, AskedInv, Holds
<1>4. Holds("mr", mr)' = new.ping_blocking \cup new.arp_forcing /\ Holds("imr", imr)' = new.interrupts
    <2>1. CASE reg = "mr"
        BY <1>1, <1>3, <2>1 DEF Holds
    <2>2. CASE reg = "imr"
        BY <1>1, <1>3, <2>2 DEF Holds
    <2>. QED BY <2>1, <2>2
<1>5. phy_mode_of(phycfgr)' = new.phy_mode
    BY <1>3 DEF phy_mode_of
<1>6. socket_interrupts_are_enabled' = new.socket_interrupts
    BY <1>3 DEF socket_interrupts_are_enabled
<1>7. AskedInv'
    BY <1>3, <1>4, <1>5, <1>6 DEF AskedInv
<1>8. UpdateInv' /\ (unserved \subseteq ir)'
    BY <1>1 DEF UpdateInv, ConfiguredInv, Asked
<1>. QED BY <1>7, <1>8 DEF ConfiguredInv

LEMMA ConfiguredInvNext == ConfiguredInv /\ [ConfiguredNext]_configured => ConfiguredInv'
<1> SUFFICES ASSUME ConfiguredInv, [ConfiguredNext]_configured PROVE ConfiguredInv'
    OBVIOUS
<1>1. ASSUME Ready PROVE /\ asked \in Asked /\ update = NoUpdate /\ update.register = "none"
                         /\ mr = asked.ping_blocking \cup asked.arp_forcing
                         /\ imr = asked.interrupts
    BY <1>1 DEF Ready, NoUpdate, ConfiguredInv, AskedInv, Holds
<1>2. ASSUME NEW phy_mode \in PHY_Mode, NEW ping_blocking \in Ping_Blocking,
             NEW arp_forcing \in ARP_Forcing, InitializeNetwork(phy_mode, ping_blocking, arp_forcing)
      PROVE  ConfiguredInv'
    BY <1>2, InitializeKeepsInv
<1>3. ASSUME NEW setting \in Ping_Blocking, ConfigurePingBlocking(setting)
      PROVE  ConfiguredInv'
    <2> DEFINE new == [asked EXCEPT !.ping_blocking = setting]
    <2>1. Ready /\ asked \in Asked /\ mr = asked.ping_blocking \cup asked.arp_forcing
        BY <1>1, <1>3 DEF ConfigurePingBlocking
    <2>2. /\ new \in Asked /\ new.ping_blocking = setting
          /\ new.phy_mode = asked.phy_mode /\ new.socket_interrupts = asked.socket_interrupts
          /\ new.arp_forcing = asked.arp_forcing /\ new.interrupts = asked.interrupts
        BY <2>1 DEF Asked
    <2>3. (mr \ {"PB"}) \cup setting = new.ping_blocking \cup new.arp_forcing
        <3>1. asked.ping_blocking \subseteq {"PB"} /\ asked.arp_forcing \subseteq {"FARP"}
            BY <2>1 DEF Asked, Ping_Blocking, ARP_Forcing
        <3> HIDE DEF new
        <3>. QED BY <2>1, <2>2, <3>1
    <2>4. asked' = new /\ Update("mr", (mr \ {"PB"}) \cup setting)
        BY <1>3 DEF ConfigurePingBlocking
    <2> HIDE DEF new
    <2>. QED BY <1>3, <2>1, <2>2, <2>3, <2>4, UpdateKeepsInv DEF ConfigurePingBlocking
<1>4. ASSUME NEW bits \in SUBSET Interrupts, Ready,
             Update("imr", bits), asked' = [asked EXCEPT !.interrupts = bits],
             UNCHANGED <<mr, phycfgr, imr, ir, simr, others, context, unserved>>
      PROVE  ConfiguredInv'
    <2> DEFINE new == [asked EXCEPT !.interrupts = bits]
    <2>1. asked \in Asked
        BY <1>1, <1>4
    <2>2. /\ new \in Asked /\ new.interrupts = bits
          /\ new.phy_mode = asked.phy_mode /\ new.socket_interrupts = asked.socket_interrupts
          /\ new.arp_forcing = asked.arp_forcing /\ new.ping_blocking = asked.ping_blocking
        BY <2>1 DEF Asked
    <2>3. asked' = new
        BY <1>4
    <2> HIDE DEF new
    <2>. QED BY <1>4, <2>2, <2>3, UpdateKeepsInv
<1>5. ASSUME NEW mask \in SUBSET Interrupts, EnableInterrupts(mask) PROVE ConfiguredInv'
    <2>1. Ready /\ imr = asked.interrupts /\ asked.interrupts \in SUBSET Interrupts
        BY <1>1, <1>5 DEF EnableInterrupts, Asked
    <2>2. imr \cup mask \in SUBSET Interrupts /\ asked' = [asked EXCEPT !.interrupts = imr \cup mask]
        BY <1>5, <2>1 DEF EnableInterrupts
    <2>. QED BY <1>4, <1>5, <2>1, <2>2 DEF EnableInterrupts
<1>6. ASSUME NEW mask \in SUBSET Interrupts, DisableInterrupts(mask) PROVE ConfiguredInv'
    <2>1. Ready /\ imr = asked.interrupts /\ asked.interrupts \in SUBSET Interrupts
        BY <1>1, <1>6 DEF DisableInterrupts, Asked
    <2>2. imr \ mask \in SUBSET Interrupts /\ asked' = [asked EXCEPT !.interrupts = imr \ mask]
        BY <1>6, <2>1 DEF DisableInterrupts
    <2>. QED BY <1>4, <1>6, <2>1, <2>2 DEF DisableInterrupts
<1>7. CASE WriteBack
    <2>1. asked.initialized
        BY <1>7 DEF WriteBack, ConfiguredInv, UpdateInv
    <2>2. update' = NoUpdate /\ NoUpdate.register = "none"
        BY <1>7 DEF WriteBack, NoUpdate
    <2>3. Holds("mr", mr)' = Holds("mr", mr) /\ Holds("imr", imr)' = Holds("imr", imr)
        BY <1>7, <2>2 DEF WriteBack, Holds
    <2>. QED BY <1>7, <2>1, <2>2, <2>3 DEF WriteBack, ConfiguredInv, UpdateInv, AskedInv,
                phy_mode_of, socket_interrupts_are_enabled
<1>8. ASSUME NEW enable \in BOOLEAN, ConfigureSocketInterrupts(enable) PROVE ConfiguredInv'
    <2> DEFINE new == [asked EXCEPT !.socket_interrupts = enable]
    <2>1. Ready /\ asked \in Asked
        BY <1>1, <1>8 DEF ConfigureSocketInterrupts
    <2>2. /\ new \in Asked /\ new.interrupts = asked.interrupts
          /\ new.phy_mode = asked.phy_mode /\ new.socket_interrupts = enable
          /\ new.arp_forcing = asked.arp_forcing /\ new.ping_blocking = asked.ping_blocking
        BY <2>1 DEF Asked
    <2>3. asked' = new /\ asked.initialized
        BY <1>8, <2>1 DEF ConfigureSocketInterrupts, Ready
    <2> HIDE DEF new
    <2>4. socket_interrupts_are_enabled' = enable
        BY <1>8 DEF ConfigureSocketInterrupts, socket_interrupts_are_enabled
    <2>5. AskedInv'
        BY <1>8, <2>2, <2>3, <2>4 DEF ConfigureSocketInterrupts, ConfiguredInv, AskedInv, Holds, phy_mode_of
    <2>6. UpdateInv' /\ (unserved \subseteq ir)'
        BY <1>8, <2>1, <2>2, <2>3 DEF ConfigureSocketInterrupts, ConfiguredInv, UpdateInv, Ready
    <2>. QED BY <2>5, <2>6 DEF ConfiguredInv
<1>9. CASE ReadContext \/ ClearInterrupts \/ \E interrupt \in Interrupts : Raise(interrupt)
    BY <1>9 DEF ReadContext, ClearInterrupts, Raise, ConfiguredInv, UpdateInv, AskedInv, Holds,
                phy_mode_of, socket_interrupts_are_enabled
<1>10. CASE LinkChanges
    <2>1. phy_mode_of(phycfgr)' = phy_mode_of(phycfgr)
        BY <1>10, ModeOfPHY DEF LinkChanges, phy_mode_of
    <2>. QED BY <1>10, <2>1 DEF LinkChanges, ConfiguredInv, UpdateInv, AskedInv, Holds,
                socket_interrupts_are_enabled
<1>11. CASE UNCHANGED configured
    BY <1>11 DEF configured, ConfiguredInv, UpdateInv, AskedInv, Holds, phy_mode_of,
                 socket_interrupts_are_enabled
<1>. QED BY <1>2, <1>3, <1>5, <1>6, <1>7, <1>8, <1>9, <1>10, <1>11 DEF ConfiguredNext

\* initialize() and the getters agree which register each argument is in.
LEMMA WrittenIsRead == \A parameter \in DOMAIN ReadFrom : Written[ReadFrom[parameter]] = parameter
BY DEF Written, ReadFrom

LEMMA ConfiguredInvImplies == ConfiguredInv => ConfigurationStays
<1> SUFFICES ASSUME ConfiguredInv, Ready
             PROVE  /\ phy_mode_of(phycfgr) = asked.phy_mode
                    /\ ping_blocking_configuration = asked.ping_blocking
                    /\ arp_forcing_configuration = asked.arp_forcing
                    /\ imr = asked.interrupts
                    /\ socket_interrupts_are_enabled = asked.socket_interrupts
                    /\ \A parameter \in DOMAIN ReadFrom : others[ReadFrom[parameter]] = parameter
    BY DEF ConfigurationStays, ConfiguredInv
<1>1. /\ asked \in Asked
      /\ phy_mode_of(phycfgr) = asked.phy_mode
      /\ mr = asked.ping_blocking \cup asked.arp_forcing
      /\ imr = asked.interrupts
      /\ socket_interrupts_are_enabled = asked.socket_interrupts
      /\ others = Written
    BY DEF Ready, NoUpdate, ConfiguredInv, AskedInv, Holds
<1>2. asked.ping_blocking \subseteq {"PB"} /\ asked.arp_forcing \subseteq {"FARP"}
    BY <1>1 DEF Asked, Ping_Blocking, ARP_Forcing
<1>3. mr \cap {"PB"} = asked.ping_blocking /\ mr \cap {"FARP"} = asked.arp_forcing
    BY <1>1, <1>2
<1>. QED BY <1>1, <1>3, WrittenIsRead DEF ping_blocking_configuration, arp_forcing_configuration

\* For any set of interrupts, whatever the chip does between the two halves of
\* a call: every getter answers what was configured last, and no interrupt is
\* lost to clear_interrupts().
THEOREM ConfigurationIsKept == ConfiguredSpec => []ConfigurationStays
<1>1. ConfiguredSpec => []ConfiguredInv
    BY ConfiguredInvInit, ConfiguredInvNext, PTL DEF ConfiguredSpec
<1>. QED BY <1>1, ConfiguredInvImplies, PTL

-----------------------------------------------------------------------------
(* I2CWire: BusIsFree, for any devices and any sizes of blocks. In every   *)
(* script a step after which a device drives SDA is followed by a read.    *)

DataBytes == Nat \cup I2CBytes

Steps ==
    [op : {"start", "repeated_start", "stop"}]
        \cup [op : {"address"}, address : Nat, operation : Operations]
        \cup [op : {"read"}, response : {"ACK", "NACK"}]
        \cup [op : {"write"}, data : DataBytes]

Opens(move) == move.op = "address" /\ move.operation = "READ"
Asks(move) == move.op = "read" /\ move.response = "ACK"

\* A step of a script after which a device drives SDA is followed by a read.
Follows(steps, i) ==
    Opens(steps[i]) \/ Asks(steps[i]) => i < Len(steps) /\ steps[i + 1].op = "read"

Drives(steps) == \A i \in 1..Len(steps) : Follows(steps, i)

\* ... and that of a ping has none but the address, after which ping() reads.
Pings(steps) == \A i \in 1..Len(steps) : ~ Asks(steps[i]) /\ steps[i].op # "write"

LEMMA StepTypes ==
    /\ start \in Steps /\ repeated_start \in Steps /\ stop \in Steps
    /\ \A a \in Nat : \A operation \in Operations : address(a, operation) \in Steps
    /\ \A response \in {"ACK", "NACK"} : read(response) \in Steps
    /\ \A data \in DataBytes : write(data) \in Steps
BY DEF Steps, start, repeated_start, stop, address, read, write

LEMMA StepKinds ==
    /\ start.op = "start" /\ repeated_start.op = "repeated_start" /\ stop.op = "stop"
    /\ \A a, operation : /\ address(a, operation).op = "address"
                         /\ address(a, operation).operation = operation
    /\ \A response : read(response).op = "read" /\ read(response).response = response
    /\ \A data : write(data).op = "write"
BY DEF start, repeated_start, stop, address, read, write

\* Scripts one after the other.
LEMMA Concatenated ==
    ASSUME NEW s \in Seq(Steps), NEW t \in Seq(Steps)
    PROVE  /\ s \o t \in Seq(Steps) /\ Len(s \o t) = Len(s) + Len(t)
           /\ \A i \in 1..Len(s) : (s \o t)[i] = s[i]
           /\ \A i \in 1..Len(t) : (s \o t)[Len(s) + i] = t[i]
OBVIOUS

LEMMA DrivesInTurn ==
    ASSUME NEW s \in Seq(Steps), NEW t \in Seq(Steps), Drives(s), Drives(t)
    PROVE  Drives(s \o t)
<1> DEFINE u == s \o t
<1>1. /\ Len(s) \in Nat /\ Len(t) \in Nat /\ Len(u) = Len(s) + Len(t)
      /\ \A i \in 1..Len(s) : u[i] = s[i]
      /\ \A i \in 1..Len(t) : u[Len(s) + i] = t[i]
    BY Concatenated
<1> HIDE DEF u
<1>2. ASSUME NEW i \in 1..Len(u) PROVE Follows(u, i)
    <2>1. CASE i \in 1..Len(s)
        <3>1. Follows(s, i) /\ u[i] = s[i]
            BY <1>1, <2>1 DEF Drives
        <3>2. i < Len(s) => i < Len(u) /\ u[i + 1] = s[i + 1]
            BY <1>1, <2>1
        <3>. QED BY <3>1, <3>2 DEF Follows
    <2>2. CASE i \notin 1..Len(s)
        <3>1. PICK j \in 1..Len(t) : i = Len(s) + j
            <4>1. i - Len(s) \in 1..Len(t) /\ i = Len(s) + (i - Len(s))
                BY <1>1, <2>2
            <4>. QED BY <4>1
        <3>2. Follows(t, j) /\ u[i] = t[j]
            BY <1>1, <3>1 DEF Drives
        <3>3. j < Len(t) => i < Len(u) /\ u[i + 1] = t[j + 1]
            <4>1. j < Len(t) => i < Len(u) /\ i + 1 = Len(s) + (j + 1) /\ j + 1 \in 1..Len(t)
                BY <1>1, <3>1
            <4>. QED BY <1>1, <4>1
        <3>. QED BY <3>2, <3>3 DEF Follows
    <2>. QED BY <2>1, <2>2
<1>. QED BY <1>2 DEF Drives, u

\* What is open before a block is read is not so after it.
LEMMA BlockIsRead ==
    ASSUME NEW s \in Seq(Steps), NEW n \in Nat \ {0},
           \A i \in 1..Len(s) - 1 : Follows(s, i)
    PROVE  s \o ReadBlock(n) \in Seq(Steps) /\ Drives(s \o ReadBlock(n))
<1> DEFINE t == ReadBlock(n)
           u == s \o t
<1>1. /\ t \in Seq(Steps) /\ Len(t) = n
      /\ \A i \in 1..n : t[i].op = "read" /\ (i # n => ~ Opens(t[i])) /\ (i = n => ~ Asks(t[i]) /\ ~ Opens(t[i]))
    <2>1. \A i \in 1..n : t[i] = read(IF i = n THEN "NACK" ELSE "ACK") /\ t[i] \in Steps
        BY StepTypes DEF ReadBlock
    <2>2. t \in Seq(Steps) /\ Len(t) = n
        <3>1. t \in [1..n -> Steps]
            BY StepTypes DEF ReadBlock
        <3> HIDE DEF t
        <3>. QED BY <3>1
    <2>. QED BY <2>1, <2>2, StepKinds DEF Opens, Asks
<1> HIDE DEF t
<1>2. /\ u \in Seq(Steps) /\ Len(s) \in Nat /\ Len(u) = Len(s) + n
      /\ \A i \in 1..Len(s) : u[i] = s[i]
      /\ \A i \in 1..n : u[Len(s) + i] = t[i]
    <2>1. t \in Seq(Steps) /\ Len(t) = n
        BY <1>1
    <2>2. /\ u \in Seq(Steps) /\ Len(u) = Len(s) + Len(t)
          /\ \A i \in 1..Len(s) : u[i] = s[i]
          /\ \A i \in 1..Len(t) : u[Len(s) + i] = t[i]
        BY <2>1, Concatenated
    <2>3. Len(s) \in Nat
        OBVIOUS
    <2> HIDE DEF u
    <2>. QED BY <2>1, <2>2, <2>3, Zenon
<1> HIDE DEF u
<1>3. ASSUME NEW i \in 1..Len(u) PROVE Follows(u, i)
    <2>1. CASE i \in 1..Len(s) - 1
        <3>1. Follows(s, i) /\ u[i] = s[i] /\ u[i + 1] = s[i + 1] /\ i < Len(u)
            BY <1>2, <2>1
        <3>. QED BY <3>1 DEF Follows
    <2>2. CASE i = Len(s)
        <3>1. i < Len(u) /\ u[i + 1] = t[1]
            BY <1>2, <2>2
        <3>. QED BY <1>1, <3>1 DEF Follows
    <2>3. CASE i > Len(s)
        <3>1. PICK j \in 1..n : i = Len(s) + j
            <4>1. i - Len(s) \in 1..n /\ i = Len(s) + (i - Len(s))
                BY <1>2, <2>3
            <4>. QED BY <4>1
        <3>2. CASE j = n
            BY <1>1, <1>2, <3>1, <3>2 DEF Follows
        <3>3. CASE j # n
            <4>1. i < Len(u) /\ i + 1 = Len(s) + (j + 1) /\ j + 1 \in 1..n
                BY <1>2, <3>1, <3>3
            <4>2. u[i + 1] = t[j + 1]
                BY <1>2, <4>1
            <4>. QED BY <1>1, <4>1, <4>2 DEF Follows
        <3>. QED BY <3>2, <3>3
    <2>. QED BY <1>2, <2>1, <2>2, <2>3
<1>. QED BY <1>2, <1>3 DEF Drives, u, t

LEMMA BlockIsWritten ==
    ASSUME NEW data \in Seq(DataBytes)
    PROVE  /\ WriteBlock(data) \in Seq(Steps)
           /\ \A i \in 1..Len(WriteBlock(data)) : WriteBlock(data)[i].op = "write"
           /\ Drives(WriteBlock(data))
<1> DEFINE t == WriteBlock(data)
<1>1. t \in [1..Len(data) -> Steps]
    BY StepTypes DEF WriteBlock
<1>2. \A i \in 1..Len(data) : t[i].op = "write"
    BY StepKinds DEF WriteBlock
<1> HIDE DEF t
<1>3. t \in Seq(Steps) /\ Len(t) = Len(data)
    BY <1>1
<1>. QED BY <1>2, <1>3 DEF Drives, Follows, Opens, Asks, t

LEMMA RegisterAddressBytes ==
    ASSUME NEW width \in 0..2, NEW reg \in Nat
    PROVE  RegisterAddress(width, reg) \in Seq(DataBytes)
<1>1. reg \in DataBytes /\ reg \div 256 \in DataBytes /\ reg % 256 \in DataBytes
    BY DEF DataBytes
<1>2. <<>> \in Seq(DataBytes) /\ <<reg>> \in Seq(DataBytes)
      /\ <<reg \div 256, reg % 256>> \in Seq(DataBytes)
    BY <1>1
<1>3. CASE width = 0
    BY <1>2, <1>3 DEF RegisterAddress
<1>4. CASE width = 1
    BY <1>2, <1>4 DEF RegisterAddress
<1>5. CASE width = 2
    BY <1>2, <1>5 DEF RegisterAddress
<1>. QED BY <1>3, <1>4, <1>5

LEMMA OneStep ==
    /\ <<stop>> \in Seq(Steps) /\ Drives(<<stop>>)
    /\ \A a \in Nat : \A s \in {start, repeated_start} :
        /\ <<s, address(a, "WRITE")>> \in Seq(Steps) /\ Drives(<<s, address(a, "WRITE")>>)
        /\ <<s, address(a, "READ")>> \in Seq(Steps) /\ Len(<<s, address(a, "READ")>>) = 2
        /\ Follows(<<s, address(a, "READ")>>, 1)
<1>1. stop.op = "stop" /\ stop \in Steps
    BY StepTypes, StepKinds
<1>2. <<stop>> \in Seq(Steps) /\ Drives(<<stop>>)
    BY <1>1 DEF Drives, Follows, Opens, Asks
<1>3. ASSUME NEW a \in Nat, NEW s \in {start, repeated_start}
      PROVE  /\ <<s, address(a, "WRITE")>> \in Seq(Steps) /\ Drives(<<s, address(a, "WRITE")>>)
             /\ <<s, address(a, "READ")>> \in Seq(Steps) /\ Len(<<s, address(a, "READ")>>) = 2
             /\ Follows(<<s, address(a, "READ")>>, 1)
    <2>1. s.op \notin {"address", "read"} /\ s \in Steps
        BY StepTypes, StepKinds
    <2>2. PICK w, r \in Steps : /\ w = address(a, "WRITE") /\ r = address(a, "READ")
                                /\ w.op = "address" /\ w.operation = "WRITE"
        BY StepTypes, StepKinds DEF Operations
    <2>3. <<s, w>> \in Seq(Steps) /\ <<s, r>> \in Seq(Steps) /\ Len(<<s, r>>) = 2
        BY <2>1, <2>2
    <2>4. Drives(<<s, w>>) /\ Follows(<<s, r>>, 1)
        BY <2>1, <2>2 DEF Drives, Follows, Opens, Asks
    <2>. QED BY <2>2, <2>3, <2>4
<1>. QED BY <1>2, <1>3

LEMMA ReadScriptDrives ==
    ASSUME NEW d \in I2CDevices, NEW reg \in d.registers, NEW n \in BlockSizes
    PROVE  ReadScript(d, reg, n) \in Seq(Steps) /\ Drives(ReadScript(d, reg, n))
<1>1. PICK a \in Nat : a = ToTransmitted(d.address)
    BY DevicesAssumption DEF ToTransmitted
<1>2. n \in Nat \ {0} /\ reg \in Nat /\ d.width \in 0..2
    BY BlockSizesAssumption, DevicesAssumption
<1>3. CASE d.width = 0
    <2> DEFINE s == <<start, address(a, "READ")>>
    <2>1. s \in Seq(Steps) /\ \A i \in 1..Len(s) - 1 : Follows(s, i)
        <3>1. s \in Seq(Steps) /\ Len(s) = 2 /\ Follows(s, 1)
            BY OneStep
        <3> HIDE DEF s
        <3>. QED BY <3>1
    <2> HIDE DEF s
    <2>2. s \o ReadBlock(n) \in Seq(Steps) /\ Drives(s \o ReadBlock(n))
        BY <1>2, <2>1, BlockIsRead
    <2>3. s \o ReadBlock(n) \o <<stop>> \in Seq(Steps) /\ Drives(s \o ReadBlock(n) \o <<stop>>)
        BY <2>2, OneStep, DrivesInTurn, Concatenated
    <2>. QED BY <1>1, <1>3, <2>3 DEF ReadScript, s
<1>4. CASE d.width # 0
    <2> DEFINE r == RegisterAddress(d.width, reg)
               s == <<start, address(a, "WRITE")>> \o WriteBlock(r)
               t == <<repeated_start, address(a, "READ")>>
               u == s \o t
    <2>1. s \in Seq(Steps) /\ Drives(s)
        <3>1. WriteBlock(r) \in Seq(Steps) /\ Drives(WriteBlock(r))
            BY <1>2, RegisterAddressBytes, BlockIsWritten
        <3> HIDE DEF r
        <3>. QED BY <3>1, OneStep, DrivesInTurn, Concatenated
    <2>2. t \in Seq(Steps) /\ Len(t) = 2 /\ Follows(t, 1)
        BY OneStep
    <2> HIDE DEF s, t
    <2>3. /\ u \in Seq(Steps) /\ Len(s) \in Nat /\ Len(u) = Len(s) + 2
          /\ \A i \in 1..Len(s) : u[i] = s[i]
          /\ \A i \in 1..2 : u[Len(s) + i] = t[i]
        BY <2>1, <2>2, Concatenated
    <2> HIDE DEF u
    <2>4. ASSUME NEW i \in 1..Len(u) - 1 PROVE Follows(u, i)
        <3>1. CASE i \in 1..Len(s)
            <4>1. Follows(s, i) /\ u[i] = s[i] /\ (i < Len(s) => i < Len(u) /\ u[i + 1] = s[i + 1])
                BY <2>1, <2>3, <3>1 DEF Drives
            <4>. QED BY <4>1 DEF Follows
        <3>2. CASE i = Len(s) + 1
            <4>1. u[i] = t[1] /\ i < Len(u) /\ i + 1 = Len(s) + 2
                BY <2>3, <3>2
            <4>2. u[i + 1] = t[2]
                BY <2>3, <4>1
            <4>. QED BY <2>2, <4>1, <4>2 DEF Follows
        <3>. QED BY <2>3, <3>1, <3>2
    <2>5. u \o ReadBlock(n) \in Seq(Steps) /\ Drives(u \o ReadBlock(n))
        BY <1>2, <2>3, <2>4, BlockIsRead
    <2>6. u \o ReadBlock(n) \o <<stop>> \in Seq(Steps) /\ Drives(u \o ReadBlock(n) \o <<stop>>)
        BY <2>5, OneStep, DrivesInTurn, Concatenated
    <2>. QED BY <1>1, <1>4, <2>6 DEF ReadScript, r, s, t, u
<1>. QED BY <1>3, <1>4

LEMMA WriteScriptDrives ==
    ASSUME NEW d \in I2CDevices, NEW reg \in d.registers, NEW n \in BlockSizes,
           NEW data \in [1..n -> I2CBytes]
    PROVE  WriteScript(d, reg, data) \in Seq(Steps) /\ Drives(WriteScript(d, reg, data))
<1>1. PICK a \in Nat : a = ToTransmitted(d.address)
    BY DevicesAssumption DEF ToTransmitted
<1>2. n \in Nat \ {0} /\ reg \in Nat /\ d.width \in 0..2
    BY BlockSizesAssumption, DevicesAssumption
<1>3. data \in Seq(DataBytes)
    <2>1. data \in [1..n -> DataBytes]
        BY DEF DataBytes
    <2>. QED BY <1>2, <2>1
<1> DEFINE r == RegisterAddress(d.width, reg)
           s == <<start, address(a, "WRITE")>>
<1>4. WriteBlock(r) \in Seq(Steps) /\ Drives(WriteBlock(r))
    BY <1>2, RegisterAddressBytes, BlockIsWritten
<1>5. WriteBlock(data) \in Seq(Steps) /\ Drives(WriteBlock(data))
    BY <1>3, BlockIsWritten
<1>6. s \in Seq(Steps) /\ Drives(s)
    BY OneStep
<1> HIDE DEF r, s
<1>7. s \o WriteBlock(r) \in Seq(Steps) /\ Drives(s \o WriteBlock(r))
    BY <1>4, <1>6, DrivesInTurn, Concatenated
<1>8. s \o WriteBlock(r) \o WriteBlock(data) \in Seq(Steps) /\ Drives(s \o WriteBlock(r) \o WriteBlock(data))
    BY <1>5, <1>7, DrivesInTurn, Concatenated
<1>9. /\ s \o WriteBlock(r) \o WriteBlock(data) \o <<stop>> \in Seq(Steps)
      /\ Drives(s \o WriteBlock(r) \o WriteBlock(data) \o <<stop>>)
    BY <1>8, OneStep, DrivesInTurn, Concatenated
<1>. QED BY <1>1, <1>9 DEF WriteScript, r, s

LEMMA PingScriptPings ==
    ASSUME NEW ping \in Nat \X Operations
    PROVE  PingScript(ping) \in Seq(Steps) /\ Pings(PingScript(ping))
<1>1. PICK a \in Steps : a = address(ToTransmitted(ping[1]), ping[2]) /\ a.op = "address"
    <2>1. ToTransmitted(ping[1]) \in Nat /\ ping[2] \in Operations
        BY DEF ToTransmitted
    <2>. QED BY <2>1, StepTypes, StepKinds
<1>2. start \in Steps /\ stop \in Steps /\ start.op = "start" /\ stop.op = "stop"
    BY StepTypes, StepKinds
<1>3. <<start, a, stop>> \in Seq(Steps) /\ Pings(<<start, a, stop>>)
    BY <1>1, <1>2 DEF Pings, Asks
<1>. QED BY <1>1, <1>3 DEF PingScript

-----------------------------------------------------------------------------
ScriptInv ==
    /\ script \in Seq(Steps)
    /\ todo \in Seq(Nat \X Operations)
    /\ IF IsPing THEN Pings(script) ELSE Drives(script) /\ todo = <<>>
    /\ transfer = NoTransfer => script = <<>>

\* A device that drives SDA is read next.
DrivingInv == driving => script # <<>> /\ Head(script).op = "read"

WireInv == driving \in BOOLEAN /\ ScriptInv /\ DrivingInv

LEMMA WireInvInit == WireInit => WireInv
<1> SUFFICES ASSUME WireInit PROVE WireInv
    OBVIOUS
<1>1. script = <<>> /\ todo = <<>> /\ driving = FALSE /\ ~ IsPing
    BY DEF WireInit, IsPing, NoTransfer
<1>2. script \in Seq(Steps) /\ todo \in Seq(Nat \X Operations) /\ Len(script) = 0
    BY <1>1
<1>3. Drives(script)
    BY <1>2 DEF Drives
<1>. QED BY <1>1, <1>2, <1>3 DEF WireInv, ScriptInv, DrivingInv

\* What is left of a script when its first step has been taken.
LEMMA TailKeeps ==
    ASSUME NEW s \in Seq(Steps), s # <<>>
    PROVE  /\ Tail(s) \in Seq(Steps) /\ Head(s) \in Steps
           /\ Drives(s) => /\ Drives(Tail(s))
                           /\ Opens(Head(s)) \/ Asks(Head(s)) => Tail(s) # <<>> /\ Head(Tail(s)).op = "read"
           /\ Pings(s) => Pings(Tail(s)) /\ ~ Asks(Head(s)) /\ Head(s).op # "write"
<1> DEFINE t == Tail(s)
<1>1. /\ t \in Seq(Steps) /\ Len(s) \in Nat \ {0} /\ Len(t) = Len(s) - 1 /\ Head(s) = s[1] /\ s[1] \in Steps
      /\ \A i \in 1..Len(t) : t[i] = s[i + 1]
    OBVIOUS
<1> HIDE DEF t
<1>2. Len(t) > 0 => t # <<>> /\ Head(t) = t[1]
    BY <1>1
<1>3. ASSUME Drives(s) PROVE Drives(t)
    <2>1. ASSUME NEW i \in 1..Len(t) PROVE Follows(t, i)
        <3>1. i + 1 \in 1..Len(s) /\ t[i] = s[i + 1]
            BY <1>1
        <3>2. Follows(s, i + 1)
            BY <1>3, <3>1 DEF Drives
        <3>3. i + 1 < Len(s) => i < Len(t) /\ t[i + 1] = s[(i + 1) + 1]
            BY <1>1
        <3>. QED BY <3>1, <3>2, <3>3 DEF Follows
    <2>. QED BY <2>1 DEF Drives
<1>4. ASSUME Drives(s), Opens(Head(s)) \/ Asks(Head(s)) PROVE t # <<>> /\ Head(t).op = "read"
    <2>1. Follows(s, 1)
        BY <1>1, <1>4 DEF Drives
    <2>2. 1 < Len(s) /\ s[1 + 1].op = "read"
        BY <1>1, <1>4, <2>1 DEF Follows
    <2>3. Len(t) > 0 /\ t[1] = s[1 + 1]
        BY <1>1, <2>2
    <2>. QED BY <1>2, <2>2, <2>3
<1>5. ASSUME Pings(s) PROVE Pings(t) /\ ~ Asks(Head(s)) /\ Head(s).op # "write"
    <2>1. \A i \in 1..Len(t) : i + 1 \in 1..Len(s)
        BY <1>1
    <2>. QED BY <1>1, <1>5, <2>1 DEF Pings
<1>. QED BY <1>1, <1>3, <1>4, <1>5 DEF t

\* A call begins; no device drives SDA, since there is no script.
LEMMA BeginKeepsInv ==
    ASSUME WireInv, NEW begun, NEW steps \in Seq(Steps), NEW pings \in Seq(Nat \X Operations),
           IF begun.kind \in {"ping", "scan"} THEN Pings(steps) ELSE Drives(steps) /\ pings = <<>>,
           begun # NoTransfer,
           Begin(begun, steps, pings)
    PROVE  WireInv'
<1>1. ~ driving /\ driving' = driving /\ script' = steps /\ todo' = pings /\ transfer' = begun
    BY DEF Begin, WireInv, ScriptInv, DrivingInv
<1>2. ScriptInv'
    BY <1>1 DEF ScriptInv, IsPing
<1>. QED BY <1>1, <1>2 DEF WireInv, DrivingInv

LEMMA AllPingsTyped ==
    /\ AllPings \in Seq(Nat \X Operations) /\ AllPings # <<>>
<1>1. PICK n \in Nat \ {0} : n = 2 * (LastAddress + 1)
    BY DevicesAssumption
<1>2. \A i \in 1..n : <<(i - 1) \div 2, IF i % 2 = 1 THEN "READ" ELSE "WRITE">> \in Nat \X Operations
    BY DEF Operations
<1>3. AllPings \in [1..n -> Nat \X Operations]
    BY <1>1, <1>2 DEF AllPings
<1>4. AllPings \in Seq(Nat \X Operations) /\ Len(AllPings) = n
    BY <1>3
<1>. QED BY <1>4

LEMMA HeadAndTail ==
    ASSUME NEW S, NEW s \in Seq(S), s # <<>>
    PROVE  Head(s) \in S /\ s[1] \in S /\ Tail(s) \in Seq(S)
OBVIOUS

LEMMA CallsKeepInv ==
    ASSUME WireInv,
           \/ \E d \in I2CDevices : \E reg \in d.registers, n \in BlockSizes :
                \/ ReadCall(d, reg, n)
                \/ \E data \in [1..n -> I2CBytes] : WriteCall(d, reg, data)
           \/ \E a \in Address_Numeric :
                PingCall(a) \/ \E operation \in Operations : PingOneCall(a, operation)
           \/ ScanCall
    PROVE  WireInv'
<1>0. <<>> \in Seq(Nat \X Operations)
    OBVIOUS
<1>1. ASSUME NEW d \in I2CDevices, NEW reg \in d.registers, NEW n \in BlockSizes,
             ReadCall(d, reg, n)
      PROVE  WireInv'
    <2> DEFINE begun == [kind |-> "read", device |-> d, register |-> reg, size |-> n]
    <2>1. begun.kind = "read" /\ NoTransfer.kind = "none"
        BY DEF NoTransfer
    <2>2. Begin(begun, ReadScript(d, reg, n), <<>>)
        BY <1>1 DEF ReadCall
    <2> HIDE DEF begun
    <2>. QED BY <1>0, <2>1, <2>2, ReadScriptDrives, BeginKeepsInv
<1>2. ASSUME NEW d \in I2CDevices, NEW reg \in d.registers, NEW n \in BlockSizes,
             NEW data \in [1..n -> I2CBytes], WriteCall(d, reg, data)
      PROVE  WireInv'
    <2> DEFINE begun == [kind |-> "write", device |-> d, register |-> reg, data |-> data]
    <2>1. begun.kind = "write" /\ NoTransfer.kind = "none"
        BY DEF NoTransfer
    <2>2. Begin(begun, WriteScript(d, reg, data), <<>>)
        BY <1>2 DEF WriteCall
    <2> HIDE DEF begun
    <2>. QED BY <1>0, <2>1, <2>2, WriteScriptDrives, BeginKeepsInv
<1>3. ASSUME NEW begun, NEW ping \in Nat \X Operations, NEW pings \in Seq(Nat \X Operations),
             begun.kind \in {"ping", "scan"}, Begin(begun, PingScript(ping), pings)
      PROVE  WireInv'
    <2>1. begun # NoTransfer
        BY <1>3 DEF NoTransfer
    <2>. QED BY <1>3, <2>1, PingScriptPings, BeginKeepsInv
<1>4. ASSUME NEW a \in Address_Numeric, PingCall(a) PROVE WireInv'
    <2>1. a \in Nat /\ BothPings(a) \in Seq(Nat \X Operations) /\ BothPings(a) # <<>>
        BY DevicesAssumption DEF Address_Numeric, BothPings, Operations
    <2>2. BothPings(a)[1] \in Nat \X Operations /\ Tail(BothPings(a)) \in Seq(Nat \X Operations)
        BY <2>1, HeadAndTail
    <2> DEFINE begun == [kind |-> "ping", pings |-> {a} \X Operations]
    <2>3. begun.kind = "ping" /\ Begin(begun, PingScript(BothPings(a)[1]), Tail(BothPings(a)))
        BY <1>4 DEF PingCall
    <2> HIDE DEF begun
    <2>. QED BY <1>3, <2>2, <2>3
<1>5. ASSUME NEW a \in Address_Numeric, NEW operation \in Operations, PingOneCall(a, operation)
      PROVE  WireInv'
    <2>1. <<a, operation>> \in Nat \X Operations
        BY DevicesAssumption DEF Address_Numeric
    <2> DEFINE begun == [kind |-> "ping", pings |-> {<<a, operation>>}]
    <2>2. begun.kind = "ping" /\ Begin(begun, PingScript(<<a, operation>>), <<>>)
        BY <1>5 DEF PingOneCall
    <2> HIDE DEF begun
    <2>. QED BY <1>0, <1>3, <2>1, <2>2
<1>6. CASE ScanCall
    <2>1. AllPings[1] \in Nat \X Operations /\ Tail(AllPings) \in Seq(Nat \X Operations)
        BY AllPingsTyped, HeadAndTail
    <2> DEFINE begun == [kind |-> "scan", pings |-> Address_Numeric \X Operations]
    <2>2. begun.kind = "scan" /\ Begin(begun, PingScript(AllPings[1]), Tail(AllPings))
        BY <1>6 DEF ScanCall
    <2> HIDE DEF begun
    <2>. QED BY <1>3, <2>1, <2>2
<1>. QED BY <1>1, <1>2, <1>4, <1>5, <1>6

LEMMA PingIsRead ==
    ASSUME NEW s \in Seq(Steps), Pings(s)
    PROVE  /\ PingRead \o s \in Seq(Steps) /\ Pings(PingRead \o s)
           /\ PingRead \o s # <<>> /\ Head(PingRead \o s).op = "read"
<1>1. PICK r \in Steps : r = read("NACK") /\ r.op = "read" /\ ~ Asks(r)
    BY StepTypes, StepKinds DEF Asks
<1> DEFINE u == <<r>> \o s
<1>2. <<r>> \in Seq(Steps) /\ Len(<<r>>) = 1 /\ <<r>>[1] = r
    BY <1>1
<1>3. /\ u \in Seq(Steps) /\ Len(s) \in Nat /\ Len(u) = 1 + Len(s) /\ u[1] = r
      /\ \A i \in 1..Len(s) : u[1 + i] = s[i]
    BY <1>2, Concatenated
<1> HIDE DEF u
<1>4. u # <<>> /\ Head(u) = r
    BY <1>3
<1>5. ASSUME NEW i \in 1..Len(u) PROVE ~ Asks(u[i]) /\ u[i].op # "write"
    <2>1. CASE i = 1
        BY <1>1, <1>3, <2>1
    <2>2. CASE i # 1
        <3>1. i - 1 \in 1..Len(s) /\ u[i] = s[i - 1]
            BY <1>3, <2>2
        <3>. QED BY <3>1 DEF Pings
    <2>. QED BY <2>1, <2>2
<1>. QED BY <1>1, <1>3, <1>4, <1>5 DEF Pings, PingRead, u

\* Where the program ends no device drives SDA.
LEMMA FatalKeepsInv ==
    ASSUME WireInv, ~ driving, driving' = driving, todo' = todo, todo = <<>>, Fatal
    PROVE  WireInv'
<1>1. script' = <<>> /\ ~ IsPing' /\ transfer' # NoTransfer
    BY DEF Fatal, IsPing, NoTransfer
<1>2. script' \in Seq(Steps) /\ Drives(script') /\ todo \in Seq(Nat \X Operations)
    BY <1>1 DEF Drives, WireInv, ScriptInv
<1>. QED BY <1>1, <1>2 DEF WireInv, ScriptInv, DrivingInv

LEMMA WireInvNext == WireInv /\ [WireNext]_wire => WireInv'
<1> SUFFICES ASSUME WireInv, [WireNext]_wire PROVE WireInv'
    OBVIOUS
<1> USE DEF WireInv
<1>1. ASSUME NEW op, Comes(op) PROVE /\ script # <<>> /\ script \in Seq(Steps) /\ Head(script).op = op
                                     /\ transfer # NoTransfer
                                     /\ op # "read" => ~ driving
    BY <1>1 DEF Comes, ScriptInv, DrivingInv
<1>2. CASE Condition
    <2>1. script # <<>> /\ script \in Seq(Steps) /\ transfer # NoTransfer
        BY <1>1, <1>2 DEF Condition
    <2>2. /\ script' = Tail(script) /\ driving' = FALSE /\ todo' = todo /\ transfer' = transfer
        BY <1>2 DEF Condition, Step
    <2>. QED BY <2>1, <2>2, TailKeeps DEF ScriptInv, DrivingInv, IsPing
<1>3. CASE Acknowledged
    <2>1. /\ script # <<>> /\ script \in Seq(Steps) /\ Head(script).op = "address"
          /\ transfer # NoTransfer
        BY <1>1, <1>3 DEF Acknowledged
    <2>2. /\ driving' = (Head(script).operation = "READ")
          /\ script' = IF IsPing /\ driving' THEN PingRead \o Tail(script) ELSE Tail(script)
          /\ todo' = todo /\ transfer' = transfer
        BY <1>3 DEF Acknowledged
    <2>3. /\ Tail(script) \in Seq(Steps)
          /\ Drives(script) => /\ Drives(Tail(script))
                               /\ Opens(Head(script)) => Tail(script) # <<>> /\ Head(Tail(script)).op = "read"
          /\ Pings(script) => Pings(Tail(script))
        BY <2>1, TailKeeps
    <2>4. driving' => Opens(Head(script))
        BY <2>1, <2>2 DEF Opens
    <2>5. CASE IsPing
        <3>1. Pings(Tail(script))
            BY <2>3, <2>5 DEF ScriptInv
        <3>2. /\ PingRead \o Tail(script) \in Seq(Steps) /\ Pings(PingRead \o Tail(script))
              /\ PingRead \o Tail(script) # <<>> /\ Head(PingRead \o Tail(script)).op = "read"
            BY <2>3, <3>1, PingIsRead
        <3>. QED BY <2>1, <2>2, <2>3, <2>5, <3>1, <3>2 DEF ScriptInv, DrivingInv, IsPing
    <2>6. CASE ~ IsPing
        BY <2>1, <2>2, <2>3, <2>4, <2>6 DEF ScriptInv, DrivingInv, IsPing
    <2>. QED BY <2>5, <2>6
<1>4. CASE NotAcknowledged
    <2>1. /\ script # <<>> /\ script \in Seq(Steps) /\ ~ driving /\ transfer # NoTransfer
          /\ driving' = driving /\ todo' = todo
        BY <1>1, <1>4 DEF NotAcknowledged
    <2>2. CASE IsPing
        <3>1. script' = Tail(script) /\ transfer' = transfer
            BY <1>4, <2>2 DEF NotAcknowledged, Step
        <3>. QED BY <2>1, <2>2, <3>1, TailKeeps DEF ScriptInv, DrivingInv, IsPing
    <2>3. CASE ~ IsPing
        <3>1. Fatal
            BY <1>4, <2>3 DEF NotAcknowledged
        <3>2. todo = <<>>
            BY <2>3 DEF ScriptInv
        <3>. QED BY <2>1, <3>1, <3>2, FatalKeepsInv
    <2>. QED BY <2>2, <2>3
<1>5. CASE WriteByte
    <2>1. /\ script # <<>> /\ script \in Seq(Steps) /\ ~ driving /\ transfer # NoTransfer
          /\ driving' = driving /\ todo' = todo /\ Head(script).op = "write"
        BY <1>1, <1>5 DEF WriteByte
    <2>2. ~ IsPing /\ todo = <<>>
        BY <2>1, TailKeeps DEF ScriptInv
    <2>3. CASE Fatal
        BY <2>1, <2>2, <2>3, FatalKeepsInv
    <2>4. CASE Step /\ transfer' = transfer
        BY <2>1, <2>2, <2>4, TailKeeps DEF ScriptInv, DrivingInv, IsPing, Step
    <2>. QED BY <1>5, <2>3, <2>4 DEF WriteByte
<1>6. CASE ReadByte
    <2>1. /\ script # <<>> /\ script \in Seq(Steps) /\ transfer # NoTransfer /\ Head(script).op = "read"
        BY <1>1, <1>6 DEF ReadByte
    <2>2. /\ script' = Tail(script) /\ todo' = todo /\ transfer' = transfer
          /\ driving' = (Head(script).response = "ACK")
        BY <1>6 DEF ReadByte, Step
    <2>3. driving' => Asks(Head(script))
        BY <2>1, <2>2 DEF Asks
    <2>4. CASE IsPing
        BY <2>1, <2>2, <2>3, <2>4, TailKeeps DEF ScriptInv, DrivingInv, IsPing
    <2>5. CASE ~ IsPing
        BY <2>1, <2>2, <2>3, <2>5, TailKeeps DEF ScriptInv, DrivingInv, IsPing
    <2>. QED BY <2>4, <2>5
<1>7. CASE NextPing
    <2>1. /\ script = <<>> /\ todo # <<>> /\ transfer # NoTransfer /\ ~ driving
          /\ script' = PingScript(Head(todo)) /\ todo' = Tail(todo)
          /\ transfer' = transfer /\ driving' = driving
        BY <1>7 DEF NextPing, DrivingInv
    <2>2. IsPing /\ todo \in Seq(Nat \X Operations)
        BY <2>1 DEF ScriptInv
    <2>3. Head(todo) \in Nat \X Operations /\ Tail(todo) \in Seq(Nat \X Operations)
        BY <2>1, <2>2, HeadAndTail
    <2>4. PingScript(Head(todo)) \in Seq(Steps) /\ Pings(PingScript(Head(todo)))
        BY <2>3, PingScriptPings
    <2>. QED BY <2>1, <2>2, <2>3, <2>4 DEF ScriptInv, DrivingInv, IsPing
<1>8. CASE Finish
    <2>1. /\ script = <<>> /\ script' = script /\ driving' = driving /\ ~ driving
          /\ transfer' = NoTransfer /\ todo' = <<>> /\ script \in Seq(Steps)
        BY <1>8 DEF Finish, DrivingInv, ScriptInv
    <2>2. ~ IsPing'
        BY <2>1 DEF IsPing, NoTransfer
    <2>3. Drives(script) /\ <<>> \in Seq(Nat \X Operations)
        BY <2>1 DEF Drives
    <2>. QED BY <2>1, <2>2, <2>3 DEF ScriptInv, DrivingInv
<1>9. CASE UNCHANGED wire
    BY <1>9 DEF wire, ScriptInv, DrivingInv, IsPing
<1>. QED BY <1>2, <1>3, <1>4, <1>5, <1>6, <1>7, <1>8, <1>9, CallsKeepInv DEF WireNext

\* For any devices and any block sizes: whoever is addressed for reading is
\* read until it has got a NACK, and only then the controller drives SDA.
THEOREM BusIsGivenBack == WireSpec => []BusIsFree
<1>1. WireSpec => []WireInv
    BY WireInvInit, WireInvNext, PTL DEF WireSpec
<1>2. WireInv => BusIsFree
    BY DEF WireInv, DrivingInv, BusIsFree
<1>. QED BY <1>1, <1>2, PTL


-----------------------------------------------------------------------------
(* I2CWire: TransfersAreAtomic, for any devices with different addresses,  *)
(* any registers and any sizes of blocks. The steps that are left of a     *)
(* script tell how far the call is, and with it what the device has        *)
(* received, where its pointer is, and what has been read or written.      *)

\* A script is the end of another one.
IsRest(rest, steps) ==
    /\ Len(rest) =< Len(steps)
    /\ \A i \in 1..Len(rest) : rest[i] = steps[Len(steps) - Len(rest) + i]

\* Reading begins after this many steps: those that write the register pointer.
Pointed(d) == IF d.width = 0 THEN 0 ELSE d.width + 2

\* The first n bytes
First(n, bytes) == [i \in 1..n |-> bytes[i]]

\* A device listens to what is sent, and has received the first n bytes.
Received(d, bytes, n) == listening = d /\ ~ driving /\ written = First(n, bytes)

\* The pointer of a device was set to reg, and n bytes have followed.
PointsTo(d, reg, n) == d.width # 0 => pointer[d] = reg + n

\* The memory of a device, from reg on
ContentsFrom(d, reg) == [i \in Nat |-> at_start[d][IF d.width = 0 THEN 0 ELSE reg + i - 1]]

\* The memory of the devices is what it was, except that the first n bytes have
\* been written.
HasWritten(now, past, d, reg, bytes, n) ==
    now = [past EXCEPT ![d] =
        [r \in d.registers |->
            IF d.width = 0 THEN (IF n = 0 THEN past[d][r] ELSE bytes[n])
            ELSE IF r \in reg..(reg + n - 1) THEN bytes[r - reg + 1] ELSE past[d][r]]]

\* A call that reads n registers, after k steps
ReadAt(d, reg, n, k) ==
    LET b == Pointed(d) IN
    /\ cells = at_start
    /\ k = 1 => written = <<>>
    /\ k \in 2..b => Received(d, RegisterAddress(d.width, reg), k - 2)
    /\ k \in b..(b + 1) => PointsTo(d, reg, 0)
    /\ k \in (b + 2)..(b + 2 + n) => listening = d /\ PointsTo(d, reg, k - b - 2)
    /\ buffer = First(IF k < b + 2 THEN 0 ELSE IF k = b + 3 + n THEN n ELSE k - b - 2,
                      ContentsFrom(d, reg))

\* A call that writes n registers, after k steps
WriteAt(d, reg, data, n, k) ==
    LET b == d.width + 2 IN
    /\ k = 1 => written = <<>>
    /\ k \in 2..(b + n) => Received(d, RegisterAddress(d.width, reg) \o data, k - 2)
    /\ k \in b..(b + n) => PointsTo(d, reg, k - b)
    /\ HasWritten(cells, at_start, d, reg, data, IF k < b THEN 0 ELSE IF k = b + n + 1 THEN n ELSE k - b)

ReadCallInv ==
    transfer.kind = "read" =>
        \E d \in I2CDevices : \E reg \in d.registers, n \in BlockSizes :
            LET steps == ReadScript(d, reg, n) IN
            /\ transfer.device = d /\ transfer.register = reg /\ transfer.size = n
            /\ Block(d, reg, n) \subseteq d.registers
            /\ IsRest(script, steps)
            /\ ReadAt(d, reg, n, Len(steps) - Len(script))

WriteCallInv ==
    transfer.kind = "write" =>
        \E d \in I2CDevices : \E reg \in d.registers, n \in BlockSizes : \E data \in [1..n -> I2CBytes] :
            LET steps == WriteScript(d, reg, data) IN
            /\ transfer.device = d /\ transfer.register = reg /\ transfer.data = data
            /\ Block(d, reg, n) \subseteq d.registers
            /\ IsRest(script, steps)
            /\ WriteAt(d, reg, data, n, Len(steps) - Len(script))

AddressOf(ping) == address(ToTransmitted(ping[1]), ping[2])

\* The address of the ping in progress has not been sent.
Pending == script # <<>> /\ Head(script).op \in {"start", "address"}

\* The pings of a call, in the order of "plan", have been made up to one.
PlanInv(plan) ==
    LET p == Len(plan) - Len(todo) IN
    /\ p \in 1..Len(plan)
    /\ \A i \in 1..Len(todo) : todo[i] = plan[p + i]
    /\ script \in {PingScript(plan[p]), <<AddressOf(plan[p]), stop>>, PingRead \o <<stop>>, <<stop>>, <<>>}
    /\ responses = Answered({plan[i] : i \in 1..(IF Pending THEN p - 1 ELSE p)})

PingsInv ==
    IsPing =>
        /\ cells = at_start
        /\ \E plan \in Seq(Nat \X Operations) :
            /\ transfer.kind = "scan" => plan = AllPings
            /\ transfer.kind = "ping" => transfer.pings = {plan[i] : i \in 1..Len(plan)}
            /\ PlanInv(plan)

\* Memory and pointers have the devices and registers that there are, and the
\* pointer of a device that has none stays.
MemoryInv ==
    /\ cells = [d \in I2CDevices |-> [r \in d.registers |-> cells[d][r]]]
    /\ pointer = [d \in I2CDevices |-> pointer[d]]
    /\ \A d \in I2CDevices : d.width = 0 => pointer[d] = 0

\* No step is left when the program has ended.
KindInv ==
    \/ transfer = NoTransfer
    \/ transfer.kind = "fatal" /\ script = <<>>
    \/ transfer.kind \in {"read", "write", "ping", "scan"}

TransferInv == MemoryInv /\ KindInv /\ ReadCallInv /\ WriteCallInv /\ PingsInv

-----------------------------------------------------------------------------
\* What the steps of a script are.
LEMMA StepFields ==
    /\ \A a, operation : address(a, operation).address = a
    /\ \A data : write(data).data = data
BY DEF address, write

LEMMA AddressReturns == \A a \in Nat : ToTransmitted(a) \in Nat /\ ToNumeric(ToTransmitted(a)) = a
BY DEF ToTransmitted, ToNumeric

LEMMA RegisterAddressLength ==
    ASSUME NEW width \in 0..2, NEW reg \in Nat
    PROVE  /\ RegisterAddress(width, reg) \in Seq(Nat) /\ Len(RegisterAddress(width, reg)) = width
           /\ width = 1 => RegisterAddress(width, reg)[1] = reg
           /\ width = 2 => RegisterAddress(width, reg)[1] * 256 + RegisterAddress(width, reg)[2] = reg
<1>1. CASE width = 0
    BY <1>1 DEF RegisterAddress
<1>2. CASE width = 1
    BY <1>2 DEF RegisterAddress
<1>3. CASE width = 2
    <2>1. PICK h, l \in Nat : h = reg \div 256 /\ l = reg % 256 /\ h * 256 + l = reg
        OBVIOUS
    <2>2. RegisterAddress(width, reg) = <<h, l>>
        BY <1>3, <2>1 DEF RegisterAddress
    <2>3. <<h, l>> \in Seq(Nat) /\ Len(<<h, l>>) = 2 /\ <<h, l>>[1] = h /\ <<h, l>>[2] = l
        OBVIOUS
    <2>4. width # 1
        BY <1>3
    <2> HIDE DEF RegisterAddress
    <2> DEFINE r == RegisterAddress(width, reg)
    <2>5. r \in Seq(Nat) /\ Len(r) = width
        BY <1>3, <2>2, <2>3
    <2>6. r[1] * 256 + r[2] = reg
        <3>1. r[1] = h /\ r[2] = l
            BY <2>2, <2>3
        <3>. QED BY <2>1, <3>1
    <2>. QED BY <2>4, <2>5, <2>6
<1>. QED BY <1>1, <1>2, <1>3

\* The bytes of a register's address are as many as the device has in its
\* pointer, and make up the address.
MakesUp(bytes, width, reg) ==
    /\ bytes \in Seq(Nat) /\ Len(bytes) = width
    /\ width = 1 => bytes[1] = reg
    /\ width = 2 => bytes[1] * 256 + bytes[2] = reg

LEMMA RegisterAddressMakesUp ==
    ASSUME NEW width \in 0..2, NEW reg \in Nat
    PROVE  MakesUp(RegisterAddress(width, reg), width, reg)
BY RegisterAddressLength DEF MakesUp

\* The steps that write a block of bytes
LEMMA BlockOfWrites ==
    ASSUME NEW bytes \in Seq(DataBytes)
    PROVE  /\ WriteBlock(bytes) \in Seq(Steps) /\ Len(WriteBlock(bytes)) = Len(bytes)
           /\ \A i \in 1..Len(bytes) : /\ WriteBlock(bytes)[i].op = "write"
                                       /\ WriteBlock(bytes)[i].data = bytes[i]
<1> DEFINE t == WriteBlock(bytes)
<1>1. \A i \in 1..Len(bytes) : bytes[i] \in DataBytes /\ write(bytes[i]) \in Steps
    BY StepTypes
<1>2. t \in [1..Len(bytes) -> Steps] /\ \A i \in 1..Len(bytes) : t[i] = write(bytes[i])
    BY <1>1 DEF WriteBlock
<1> HIDE DEF t
<1>3. t \in Seq(Steps) /\ Len(t) = Len(bytes)
    BY <1>2
<1>. QED BY <1>2, <1>3, StepKinds, StepFields DEF t

\* The steps that read a block
LEMMA BlockOfReads ==
    ASSUME NEW n \in Nat
    PROVE  /\ ReadBlock(n) \in Seq(Steps) /\ Len(ReadBlock(n)) = n
           /\ \A i \in 1..n : ReadBlock(n)[i].op = "read"
<1> DEFINE t == ReadBlock(n)
<1>1. \A i \in 1..n : read(IF i = n THEN "NACK" ELSE "ACK") \in Steps
    BY StepTypes
<1>2. t \in [1..n -> Steps] /\ \A i \in 1..n : t[i].op = "read"
    BY <1>1, StepKinds DEF ReadBlock
<1> HIDE DEF t
<1>. QED BY <1>2 DEF t

LEMMA Three ==
    ASSUME NEW x \in Steps, NEW y \in Steps
    PROVE  /\ <<x, y>> \in Seq(Steps) /\ Len(<<x, y>>) = 2 /\ <<x, y>>[1] = x /\ <<x, y>>[2] = y
           /\ <<x>> \in Seq(Steps) /\ Len(<<x>>) = 1 /\ <<x>>[1] = x
OBVIOUS

\* Where the steps of two scripts are when they follow each other
LEMMA Joining ==
    ASSUME NEW s \in Seq(Steps), NEW t \in Seq(Steps), NEW u, u = s \o t
    PROVE  /\ u \in Seq(Steps) /\ Len(u) = Len(s) + Len(t)
           /\ \A i \in 1..Len(s) : u[i] = s[i]
           /\ \A i \in (Len(s) + 1)..(Len(s) + Len(t)) : u[i] = t[i - Len(s)]
<1>1. /\ u \in Seq(Steps) /\ Len(u) = Len(s) + Len(t) /\ Len(s) \in Nat /\ Len(t) \in Nat
      /\ \A i \in 1..Len(s) : u[i] = s[i]
      /\ \A i \in 1..Len(t) : u[Len(s) + i] = t[i]
    BY Concatenated
<1>2. ASSUME NEW i \in (Len(s) + 1)..(Len(s) + Len(t)) PROVE u[i] = t[i - Len(s)]
    <2>1. i - Len(s) \in 1..Len(t) /\ Len(s) + (i - Len(s)) = i
        BY <1>1
    <2>. QED BY <1>1, <2>1
<1>. QED BY <1>1, <1>2

\* What the scripts of a write and of a read are: b is the number of steps
\* before the first that writes or reads a register.
WritesTo(d, bytes, b, n, steps) ==
    /\ n \in Nat \ {0} /\ b \in 2..4
    /\ steps \in Seq(Steps) /\ Len(steps) = b + n + 1
    /\ steps[1].op = "start"
    /\ steps[2].op = "address" /\ ToNumeric(steps[2].address) = d.address
    /\ steps[2].operation = "WRITE"
    /\ \A i \in 3..(b + n) : steps[i].op = "write" /\ steps[i].data = bytes[i - 2]
    /\ steps[b + n + 1].op = "stop"

ReadsFrom(d, bytes, b, n, steps) ==
    /\ n \in Nat \ {0} /\ b \in {0, 3, 4}
    /\ steps \in Seq(Steps) /\ Len(steps) = b + n + 3
    /\ b # 0 => /\ steps[1].op = "start"
                /\ steps[2].op = "address" /\ ToNumeric(steps[2].address) = d.address
                /\ steps[2].operation = "WRITE"
    /\ \A i \in 3..b : steps[i].op = "write" /\ steps[i].data = bytes[i - 2]
    /\ steps[b + 1].op \in {"start", "repeated_start"}
    /\ steps[b + 2].op = "address" /\ ToNumeric(steps[b + 2].address) = d.address
    /\ steps[b + 2].operation = "READ"
    /\ \A i \in (b + 3)..(b + 2 + n) : steps[i].op = "read"
    /\ steps[b + n + 3].op = "stop"

LEMMA StepsOfWrite ==
    ASSUME NEW d \in I2CDevices, NEW reg \in d.registers, NEW n \in BlockSizes,
           NEW data \in [1..n -> I2CBytes]
    PROVE  WritesTo(d, RegisterAddress(d.width, reg) \o data, d.width + 2, n, WriteScript(d, reg, data))
<1> DEFINE ra == RegisterAddress(d.width, reg)
           w == d.width
<1>1. n \in Nat \ {0} /\ reg \in Nat /\ w \in 0..2 /\ d.address \in Nat
    BY BlockSizesAssumption, DevicesAssumption
<1>2. ra \in Seq(DataBytes) /\ Len(ra) = w
    BY <1>1, RegisterAddressBytes, RegisterAddressLength
<1>3. data \in Seq(DataBytes) /\ data \in Seq(I2CBytes) /\ Len(data) = n
    <2>1. data \in [1..n -> DataBytes]
        BY DEF DataBytes
    <2>. QED BY <1>1, <2>1
<1>4. PICK a \in Nat : a = ToTransmitted(d.address) /\ ToNumeric(a) = d.address
    BY <1>1, AddressReturns
<1> DEFINE s0 == <<start, address(a, "WRITE")>>
           s1 == s0 \o WriteBlock(ra)
           s2 == s1 \o WriteBlock(data)
           s3 == s2 \o <<stop>>
           bytes == ra \o data
<1>5. WriteScript(d, reg, data) = s3
    BY <1>4 DEF WriteScript
<1>6. /\ s0 \in Seq(Steps) /\ Len(s0) = 2
      /\ s0[1].op = "start" /\ s0[2].op = "address" /\ s0[2].operation = "WRITE" /\ s0[2].address = a
      /\ <<stop>> \in Seq(Steps) /\ Len(<<stop>>) = 1 /\ <<stop>>[1].op = "stop"
    <2>1. start \in Steps /\ stop \in Steps /\ address(a, "WRITE") \in Steps
        BY StepTypes DEF Operations
    <2>. QED BY <2>1, Three, StepKinds, StepFields
<1>7. /\ WriteBlock(ra) \in Seq(Steps) /\ Len(WriteBlock(ra)) = w
      /\ \A i \in 1..w : WriteBlock(ra)[i].op = "write" /\ WriteBlock(ra)[i].data = ra[i]
    BY <1>2, BlockOfWrites
<1>8. /\ WriteBlock(data) \in Seq(Steps) /\ Len(WriteBlock(data)) = n
      /\ \A i \in 1..n : WriteBlock(data)[i].op = "write" /\ WriteBlock(data)[i].data = data[i]
    BY <1>3, BlockOfWrites
<1>9. /\ bytes \in Seq(DataBytes) /\ Len(bytes) = w + n
      /\ \A i \in 1..w : bytes[i] = ra[i]
      /\ \A i \in (w + 1)..(w + n) : bytes[i] = data[i - w]
    <2>1. ra \in Seq(DataBytes) /\ data \in Seq(DataBytes) /\ bytes = ra \o data
        BY <1>2, <1>3
    <2>2. /\ bytes \in Seq(DataBytes) /\ Len(bytes) = Len(ra) + Len(data)
          /\ \A i \in 1..Len(ra) : bytes[i] = ra[i]
          /\ \A i \in (Len(ra) + 1)..(Len(ra) + Len(data)) : bytes[i] = data[i - Len(ra)]
        BY <2>1
    <2>. QED BY <1>2, <1>3, <2>2
<1>10. s1 = s0 \o WriteBlock(ra) /\ s2 = s1 \o WriteBlock(data) /\ s3 = s2 \o <<stop>>
    OBVIOUS
<1> HIDE DEF ra, w, s0, s1, s2, s3, bytes
<1>11. w \in Nat /\ n \in Nat /\ w + 2 \in Nat /\ w + 2 + n \in Nat /\ w + n + 3 \in Nat
    BY <1>1
<1>12. /\ s1 \in Seq(Steps) /\ Len(s1) = w + 2
       /\ \A i \in 1..2 : s1[i] = s0[i]
       /\ \A i \in (2 + 1)..(w + 2) : s1[i] = WriteBlock(ra)[i - 2]
    <2>0. s0 \in Seq(Steps) /\ WriteBlock(ra) \in Seq(Steps)
        BY <1>6, <1>7
    <2>1. /\ s1 \in Seq(Steps) /\ Len(s1) = Len(s0) + Len(WriteBlock(ra))
          /\ \A i \in 1..Len(s0) : s1[i] = s0[i]
          /\ \A i \in (Len(s0) + 1)..(Len(s0) + Len(WriteBlock(ra))) : s1[i] = WriteBlock(ra)[i - Len(s0)]
        BY <1>10, <2>0, Joining
    <2>2. 2 + w = w + 2
        BY <1>11
    <2>. QED BY <1>6, <1>7, <2>1, <2>2
<1>13. /\ s2 \in Seq(Steps) /\ Len(s2) = w + 2 + n
       /\ \A i \in 1..(w + 2) : s2[i] = s1[i]
       /\ \A i \in ((w + 2) + 1)..(w + 2 + n) : s2[i] = WriteBlock(data)[i - (w + 2)]
    <2>0. s1 \in Seq(Steps) /\ WriteBlock(data) \in Seq(Steps)
        BY <1>8, <1>12
    <2>1. /\ s2 \in Seq(Steps) /\ Len(s2) = Len(s1) + Len(WriteBlock(data))
          /\ \A i \in 1..Len(s1) : s2[i] = s1[i]
          /\ \A i \in (Len(s1) + 1)..(Len(s1) + Len(WriteBlock(data))) :
                s2[i] = WriteBlock(data)[i - Len(s1)]
        BY <1>10, <2>0, Joining
    <2>. QED BY <1>8, <1>12, <2>1
<1>14. /\ s3 \in Seq(Steps) /\ Len(s3) = w + n + 3
       /\ \A i \in 1..(w + 2 + n) : s3[i] = s2[i]
       /\ s3[w + n + 3] = <<stop>>[1]
    <2>1. w + n + 3 = (w + 2 + n) + 1
        BY <1>11
    <2>2. /\ s3 \in Seq(Steps) /\ Len(s3) = w + n + 3
          /\ \A i \in 1..(w + 2 + n) : s3[i] = s2[i]
          /\ \A i \in ((w + 2 + n) + 1)..(w + n + 3) : s3[i] = <<stop>>[i - (w + 2 + n)]
        <3>0. s2 \in Seq(Steps) /\ <<stop>> \in Seq(Steps)
            BY <1>6, <1>13
        <3>1. /\ s3 \in Seq(Steps) /\ Len(s3) = Len(s2) + Len(<<stop>>)
              /\ \A i \in 1..Len(s2) : s3[i] = s2[i]
              /\ \A i \in (Len(s2) + 1)..(Len(s2) + Len(<<stop>>)) : s3[i] = <<stop>>[i - Len(s2)]
            BY <1>10, <3>0, Joining
        <3>. QED BY <1>6, <1>13, <2>1, <3>1
    <2>3. w + n + 3 \in ((w + 2 + n) + 1)..(w + n + 3) /\ (w + n + 3) - (w + 2 + n) = 1
        BY <1>11
    <2>. QED BY <2>2, <2>3
<1>15. /\ s3[1] = s0[1] /\ s3[2] = s0[2]
    <2>1. \A i \in 1..2 : i \in 1..(w + 2) /\ i \in 1..(w + 2 + n)
        BY <1>1
    <2>2. 1 \in 1..2 /\ 2 \in 1..2
        OBVIOUS
    <2>. QED BY <1>12, <1>13, <1>14, <2>1, <2>2
<1>16. ASSUME NEW i \in 3..(w + 2 + n)
       PROVE  s3[i].op = "write" /\ s3[i].data = bytes[i - 2]
    <2>0. w \in Nat /\ n \in Nat /\ i \in Nat
        BY <1>1 DEF w
    <2>1. CASE i =< w + 2
        <3>1. s3[i] = WriteBlock(ra)[i - 2] /\ i - 2 \in 1..w
            <4>1. i \in (2 + 1)..(w + 2) /\ i \in 1..(w + 2) /\ i \in 1..(w + 2 + n) /\ i - 2 \in 1..w
                BY <2>0, <2>1
            <4>. QED BY <1>12, <1>13, <1>14, <4>1
        <3>. QED BY <1>7, <1>9, <3>1
    <2>2. CASE i > w + 2
        <3>1. s3[i] = WriteBlock(data)[i - (w + 2)] /\ i - (w + 2) \in 1..n
            <4>1. i \in ((w + 2) + 1)..(w + 2 + n) /\ i \in 1..(w + 2 + n) /\ i - (w + 2) \in 1..n
                BY <2>0, <2>2
            <4>. QED BY <1>13, <1>14, <4>1
        <3>2. i - 2 \in (w + 1)..(w + n) /\ (i - 2) - w = i - (w + 2)
            BY <2>0, <2>2
        <3>3. bytes[i - 2] = data[i - (w + 2)]
            BY <1>9, <3>2
        <3>. QED BY <1>8, <3>1, <3>3
    <2>. QED BY <2>0, <2>1, <2>2
<1>17. w + 2 \in 2..4 /\ (w + 2) + n + 1 = w + n + 3 /\ (w + 2) + n = w + 2 + n
    BY <1>1 DEF w
<1>18. s3[1].op = "start" /\ s3[2].op = "address" /\ s3[2].operation = "WRITE"
       /\ ToNumeric(s3[2].address) = d.address /\ s3[w + n + 3].op = "stop"
    BY <1>4, <1>6, <1>14, <1>15
<1>19. WritesTo(d, bytes, w + 2, n, s3)
    BY <1>1, <1>14, <1>16, <1>17, <1>18 DEF WritesTo
<1>. QED BY <1>5, <1>19 DEF w, bytes, ra

LEMMA StepsOfRead ==
    ASSUME NEW d \in I2CDevices, NEW reg \in d.registers, NEW n \in BlockSizes
    PROVE  ReadsFrom(d, RegisterAddress(d.width, reg), Pointed(d), n, ReadScript(d, reg, n))
<1> DEFINE ra == RegisterAddress(d.width, reg)
           w == d.width
           b == Pointed(d)
<1>1. n \in Nat \ {0} /\ reg \in Nat /\ w \in 0..2 /\ d.address \in Nat
    BY BlockSizesAssumption, DevicesAssumption
<1>2. ra \in Seq(DataBytes) /\ Len(ra) = w
    BY <1>1, RegisterAddressBytes, RegisterAddressLength
<1>3. PICK a \in Nat : a = ToTransmitted(d.address) /\ ToNumeric(a) = d.address
    BY <1>1, AddressReturns
<1> DEFINE s0 == <<start, address(a, "WRITE")>>
           s1 == s0 \o WriteBlock(ra)
           past == IF w = 0 THEN <<>> ELSE s1
           first == IF w = 0 THEN start ELSE repeated_start
           s2 == IF w = 0 THEN <<start, address(a, "READ")>> ELSE s1 \o <<first, address(a, "READ")>>
           s3 == s2 \o ReadBlock(n)
           s4 == s3 \o <<stop>>
<1>4. ReadScript(d, reg, n) = s4
    BY <1>3 DEF ReadScript
<1>5. /\ s0 \in Seq(Steps) /\ Len(s0) = 2
      /\ s0[1].op = "start" /\ s0[2].op = "address" /\ s0[2].operation = "WRITE" /\ s0[2].address = a
      /\ <<stop>> \in Seq(Steps) /\ Len(<<stop>>) = 1 /\ <<stop>>[1].op = "stop"
    <2>1. start \in Steps /\ stop \in Steps /\ address(a, "WRITE") \in Steps
        BY StepTypes DEF Operations
    <2>. QED BY <2>1, Three, StepKinds, StepFields
<1>6. /\ WriteBlock(ra) \in Seq(Steps) /\ Len(WriteBlock(ra)) = w
      /\ \A i \in 1..w : WriteBlock(ra)[i].op = "write" /\ WriteBlock(ra)[i].data = ra[i]
    BY <1>2, BlockOfWrites
<1>7. /\ ReadBlock(n) \in Seq(Steps) /\ Len(ReadBlock(n)) = n
      /\ \A i \in 1..n : ReadBlock(n)[i].op = "read"
    BY <1>1, BlockOfReads
<1>8. PICK f, r \in Steps : /\ f = first /\ r = address(a, "READ")
                            /\ f.op \in {"start", "repeated_start"} /\ r.op = "address"
                            /\ r.operation = "READ" /\ r.address = a
    <2>1. start \in Steps /\ repeated_start \in Steps /\ address(a, "READ") \in Steps
        BY StepTypes DEF Operations
    <2>. QED BY <2>1, StepKinds, StepFields
<1>9. /\ <<f, r>> \in Seq(Steps) /\ Len(<<f, r>>) = 2 /\ <<f, r>>[1] = f /\ <<f, r>>[2] = r
    BY <1>8, Three
<1>10. s2 = IF w = 0 THEN <<f, r>> ELSE s1 \o <<f, r>>
    BY <1>8
<1>11. s1 = s0 \o WriteBlock(ra) /\ s3 = s2 \o ReadBlock(n) /\ s4 = s3 \o <<stop>>
    OBVIOUS
<1> HIDE DEF ra, w, s0, s1, s2, s3, s4, b
<1>12. w \in Nat /\ n \in Nat /\ w + 2 \in Nat
    BY <1>1
<1>13. /\ s1 \in Seq(Steps) /\ Len(s1) = w + 2
       /\ \A i \in 1..2 : s1[i] = s0[i]
       /\ \A i \in (2 + 1)..(w + 2) : s1[i] = WriteBlock(ra)[i - 2]
    <2>0. s0 \in Seq(Steps) /\ WriteBlock(ra) \in Seq(Steps)
        BY <1>5, <1>6
    <2>1. /\ s1 \in Seq(Steps) /\ Len(s1) = Len(s0) + Len(WriteBlock(ra))
          /\ \A i \in 1..Len(s0) : s1[i] = s0[i]
          /\ \A i \in (Len(s0) + 1)..(Len(s0) + Len(WriteBlock(ra))) : s1[i] = WriteBlock(ra)[i - Len(s0)]
        BY <1>11, <2>0, Joining
    <2>2. 2 + w = w + 2
        BY <1>12
    <2>. QED BY <1>5, <1>6, <2>1, <2>2
<1>14. b = (IF w = 0 THEN 0 ELSE w + 2) /\ b \in {0, 3, 4} /\ w \in 0..2
    BY <1>1 DEF b, w, Pointed
<1>15. /\ s2 \in Seq(Steps) /\ Len(s2) = b + 2 /\ s2[b + 1] = f /\ s2[b + 2] = r
       /\ b # 0 => \A i \in 1..b : s2[i] = s1[i]
    <2>1. CASE w = 0
        BY <1>9, <1>10, <1>14, <2>1
    <2>2. CASE w # 0
        <3> DEFINE t == <<f, r>>
        <3>1. t \in Seq(Steps) /\ Len(t) = 2 /\ t[1] = f /\ t[2] = r
            BY <1>9
        <3> HIDE DEF t
        <3>2. s2 = s1 \o t /\ b + 2 \in Nat /\ b \in Nat /\ b = w + 2
            BY <1>10, <1>14, <2>2 DEF t
        <3>3. /\ s2 \in Seq(Steps) /\ Len(s2) = b + 2
              /\ \A i \in 1..b : s2[i] = s1[i]
              /\ \A i \in (b + 1)..(b + 2) : s2[i] = t[i - b]
            <4>0. s1 \in Seq(Steps) /\ t \in Seq(Steps) /\ s2 = s1 \o t
                BY <1>13, <3>1, <3>2
            <4>1. /\ s2 \in Seq(Steps) /\ Len(s2) = Len(s1) + Len(t)
                  /\ \A i \in 1..Len(s1) : s2[i] = s1[i]
                  /\ \A i \in (Len(s1) + 1)..(Len(s1) + Len(t)) : s2[i] = t[i - Len(s1)]
                BY <4>0, Joining
            <4>2. Len(s1) = b
                BY <1>13, <3>2
            <4>. QED BY <3>1, <4>1, <4>2
        <3>4. b + 1 \in (b + 1)..(b + 2) /\ b + 2 \in (b + 1)..(b + 2) /\ (b + 1) - b = 1 /\ (b + 2) - b = 2
            BY <3>2
        <3>. QED BY <3>1, <3>2, <3>3, <3>4
    <2>. QED BY <2>1, <2>2
<1>16. b \in Nat /\ b + 2 \in Nat /\ b + 2 + n \in Nat /\ b + n + 3 \in Nat /\ b + n + 3 = (b + 2 + n) + 1
    BY <1>12, <1>14
<1>17. /\ s3 \in Seq(Steps) /\ Len(s3) = b + 2 + n
       /\ \A i \in 1..(b + 2) : s3[i] = s2[i]
       /\ \A i \in ((b + 2) + 1)..(b + 2 + n) : s3[i] = ReadBlock(n)[i - (b + 2)]
    <2>0. s2 \in Seq(Steps) /\ ReadBlock(n) \in Seq(Steps)
        BY <1>7, <1>15
    <2>1. /\ s3 \in Seq(Steps) /\ Len(s3) = Len(s2) + Len(ReadBlock(n))
          /\ \A i \in 1..Len(s2) : s3[i] = s2[i]
          /\ \A i \in (Len(s2) + 1)..(Len(s2) + Len(ReadBlock(n))) : s3[i] = ReadBlock(n)[i - Len(s2)]
        BY <1>11, <2>0, Joining
    <2>. QED BY <1>7, <1>15, <2>1
<1>18. /\ s4 \in Seq(Steps) /\ Len(s4) = b + n + 3
       /\ \A i \in 1..(b + 2 + n) : s4[i] = s3[i]
       /\ s4[b + n + 3] = <<stop>>[1]
    <2>1. /\ s4 \in Seq(Steps) /\ Len(s4) = b + n + 3
          /\ \A i \in 1..(b + 2 + n) : s4[i] = s3[i]
          /\ \A i \in ((b + 2 + n) + 1)..(b + n + 3) : s4[i] = <<stop>>[i - (b + 2 + n)]
        <3>0. s3 \in Seq(Steps) /\ <<stop>> \in Seq(Steps)
            BY <1>5, <1>17
        <3>1. /\ s4 \in Seq(Steps) /\ Len(s4) = Len(s3) + Len(<<stop>>)
              /\ \A i \in 1..Len(s3) : s4[i] = s3[i]
              /\ \A i \in (Len(s3) + 1)..(Len(s3) + Len(<<stop>>)) : s4[i] = <<stop>>[i - Len(s3)]
            BY <1>11, <3>0, Joining
        <3>. QED BY <1>16, <1>5, <1>17, <3>1
    <2>2. b + n + 3 \in ((b + 2 + n) + 1)..(b + n + 3) /\ (b + n + 3) - (b + 2 + n) = 1
        BY <1>16
    <2>. QED BY <2>1, <2>2
<1>19. \A i \in 1..(b + 2) : s4[i] = s2[i]
    <2>1. \A i \in 1..(b + 2) : i \in 1..(b + 2 + n)
        BY <1>12, <1>16
    <2>. QED BY <1>17, <1>18, <2>1
<1>20. s4[b + 1] = f /\ s4[b + 2] = r
    <2>1. b + 1 \in 1..(b + 2) /\ b + 2 \in 1..(b + 2)
        BY <1>16
    <2>. QED BY <1>15, <1>19, <2>1
<1>21. b # 0 => \A i \in 1..b : s4[i] = s1[i]
    <2>1. \A i \in 1..b : i \in 1..(b + 2)
        BY <1>16
    <2>. QED BY <1>15, <1>19, <2>1
<1>22. b # 0 => s4[1] = s0[1] /\ s4[2] = s0[2]
    BY <1>13, <1>14, <1>21
<1>23. \A i \in 3..b : s4[i].op = "write" /\ s4[i].data = ra[i - 2]
    <2>1. \A i \in 3..b : i \in (2 + 1)..(w + 2) /\ i \in 1..b /\ i - 2 \in 1..w /\ b # 0
        BY <1>14
    <2>. QED BY <1>6, <1>13, <1>21, <2>1
<1>24. \A i \in (b + 3)..(b + 2 + n) : s4[i].op = "read"
    <2>1. \A i \in (b + 3)..(b + 2 + n) : i \in 1..(b + 2 + n) /\ i \in ((b + 2) + 1)..(b + 2 + n) /\ i - (b + 2) \in 1..n
        BY <1>1, <1>14
    <2>. QED BY <1>7, <1>17, <1>18, <2>1
<1>25. /\ b # 0 => /\ s4[1].op = "start" /\ s4[2].op = "address"
                    /\ ToNumeric(s4[2].address) = d.address /\ s4[2].operation = "WRITE"
       /\ s4[b + 1].op \in {"start", "repeated_start"} /\ s4[b + 2].op = "address"
       /\ ToNumeric(s4[b + 2].address) = d.address /\ s4[b + 2].operation = "READ"
       /\ s4[b + n + 3].op = "stop"
    BY <1>3, <1>5, <1>8, <1>18, <1>20, <1>22
<1>26. ReadsFrom(d, ra, b, n, s4)
    BY <1>1, <1>14, <1>18, <1>23, <1>24, <1>25 DEF ReadsFrom
<1>. QED BY <1>4, <1>26 DEF b, ra

-----------------------------------------------------------------------------
LEMMA RestOfTail ==
    ASSUME NEW s \in Seq(Steps), NEW steps \in Seq(Steps), IsRest(s, steps), s # <<>>
    PROVE  /\ Len(steps) - Len(s) \in Nat /\ Len(steps) - Len(s) + 1 =< Len(steps)
           /\ Head(s) = steps[Len(steps) - Len(s) + 1]
           /\ IsRest(Tail(s), steps)
           /\ Len(steps) - Len(Tail(s)) = Len(steps) - Len(s) + 1
<1> DEFINE t == Tail(s)
           k == Len(steps) - Len(s)
<1>1. /\ t \in Seq(Steps) /\ Len(s) \in Nat \ {0} /\ Len(t) = Len(s) - 1 /\ Head(s) = s[1]
      /\ \A i \in 1..Len(t) : t[i] = s[i + 1]
    OBVIOUS
<1> HIDE DEF t
<1>2. Len(steps) \in Nat /\ Len(s) =< Len(steps) /\ \A i \in 1..Len(s) : s[i] = steps[k + i]
    BY DEF IsRest
<1>3. k \in Nat /\ k + 1 =< Len(steps) /\ Len(steps) - Len(t) = k + 1
    BY <1>1, <1>2
<1>4. \A i \in 1..Len(t) : i + 1 \in 1..Len(s) /\ k + (i + 1) = (k + 1) + i
    BY <1>1, <1>3
<1> HIDE DEF k
<1>5. \A i \in 1..Len(t) : t[i] = steps[(k + 1) + i]
    BY <1>1, <1>2, <1>4
<1>6. Len(t) =< Len(steps)
    BY <1>1, <1>2
<1>7. 1 \in 1..Len(s)
    BY <1>1
<1>8. IsRest(t, steps)
    BY <1>3, <1>5, <1>6 DEF IsRest
<1>. QED BY <1>1, <1>2, <1>3, <1>7, <1>8 DEF t, k

LEMMA WholeIsRest ==
    ASSUME NEW steps \in Seq(Steps)
    PROVE  IsRest(steps, steps) /\ Len(steps) - Len(steps) = 0
BY DEF IsRest

LEMMA FirstGrows ==
    ASSUME NEW bytes, NEW n \in Nat
    PROVE  /\ First(n, bytes) \in Seq({bytes[i] : i \in 1..n}) /\ Len(First(n, bytes)) = n
           /\ Append(First(n, bytes), bytes[n + 1]) = First(n + 1, bytes)
           /\ First(0, bytes) = <<>>
<1> DEFINE s == First(n, bytes)
           S == {bytes[i] : i \in 1..n}
           T == {bytes[i] : i \in 1..(n + 1)}
<1>1. s \in [1..n -> S] /\ s \in [1..n -> T] /\ bytes[n + 1] \in T
    BY DEF First
<1>2. s \in Seq(S) /\ s \in Seq(T) /\ Len(s) = n
    <2> HIDE DEF s, S, T
    <2>. QED BY <1>1
<1>3. \A i \in 1..n : s[i] = bytes[i]
    BY DEF First
<1>4. First(n + 1, bytes) \in [1..(n + 1) -> T] /\ \A i \in 1..(n + 1) : First(n + 1, bytes)[i] = bytes[i]
    BY DEF First
<1>5. Append(s, bytes[n + 1]) = First(n + 1, bytes)
    <2> DEFINE e == bytes[n + 1]
               u == Append(s, e)
    <2>1. /\ u \in Seq(T) /\ Len(u) = n + 1 /\ u[n + 1] = e
          /\ \A i \in 1..n : u[i] = s[i]
        <3> HIDE DEF s, e, T
        <3>. QED BY <1>1, <1>2 DEF e
    <2>2. \A i \in 1..(n + 1) : i \in 1..n \/ i = n + 1
        OBVIOUS
    <2>3. u \in [1..(n + 1) -> T]
        <3> HIDE DEF u, T
        <3>. QED BY <2>1
    <2> HIDE DEF u, s, T
    <2>4. \A i \in 1..(n + 1) : u[i] = First(n + 1, bytes)[i]
        BY <1>3, <1>4, <2>1, <2>2
    <2>. QED BY <1>4, <2>3, <2>4 DEF u
<1>6. First(0, bytes) = <<>>
    BY DEF First
<1>. QED BY <1>2, <1>5, <1>6

\* The next step of a script
LEMMA NextStep ==
    ASSUME WireInv, NEW steps \in Seq(Steps), IsRest(script, steps), NEW op, Comes(op)
    PROVE  LET k == Len(steps) - Len(script) IN
           /\ k \in Nat /\ k + 1 =< Len(steps) /\ Head(script) = steps[k + 1] /\ steps[k + 1].op = op
           /\ IsRest(Tail(script), steps) /\ Len(steps) - Len(Tail(script)) = k + 1
<1>1. script # <<>> /\ script \in Seq(Steps) /\ Head(script).op = op
    BY DEF Comes, WireInv, ScriptInv
<1>. QED BY <1>1, RestOfTail

\* Reading: where the steps are of which the code makes one
LEMMA ReadStepsAt ==
    ASSUME NEW d, NEW bytes, NEW b, NEW n, NEW steps, ReadsFrom(d, bytes, b, n, steps),
           NEW k \in Nat, k + 1 =< Len(steps)
    PROVE  /\ steps[k + 1].op \in {"start", "repeated_start", "stop"} =>
                 k = 0 \/ k = b \/ k = b + n + 2
           /\ steps[k + 1].op = "address" =>
                 /\ ToNumeric(steps[k + 1].address) = d.address
                 /\ \/ k = 1 /\ b # 0 /\ steps[k + 1].operation = "WRITE"
                    \/ k = b + 1 /\ steps[k + 1].operation = "READ"
           /\ steps[k + 1].op = "write" => k \in 2..(b - 1) /\ steps[k + 1].data = bytes[k - 1]
           /\ steps[k + 1].op = "read" => k \in (b + 2)..(b + n + 1)
<1>1. n \in Nat \ {0} /\ b \in {0, 3, 4} /\ k + 1 =< b + n + 3
    BY DEF ReadsFrom
<1> DEFINE move == steps[k + 1]
<1>2. CASE k = 0 /\ b # 0
    <2>1. move.op = "start"
        BY <1>2 DEF ReadsFrom
    <2>. QED BY <1>2, <2>1
<1>3. CASE k = 1 /\ b # 0
    <2>1. move.op = "address" /\ ToNumeric(move.address) = d.address /\ move.operation = "WRITE"
        BY <1>3 DEF ReadsFrom
    <2>. QED BY <1>3, <2>1
<1>4. CASE k + 1 \in 3..b
    <2>1. move.op = "write" /\ move.data = bytes[(k + 1) - 2] /\ (k + 1) - 2 = k - 1
        BY <1>4 DEF ReadsFrom
    <2>2. k \in 2..(b - 1)
        BY <1>1, <1>4
    <2>. QED BY <2>1, <2>2
<1>5. CASE k = b
    <2>1. move.op \in {"start", "repeated_start"}
        BY <1>5 DEF ReadsFrom
    <2>. QED BY <1>5, <2>1
<1>6. CASE k = b + 1
    <2>1. k + 1 = b + 2
        BY <1>1, <1>6
    <2>2. move.op = "address" /\ ToNumeric(move.address) = d.address /\ move.operation = "READ"
        BY <2>1 DEF ReadsFrom
    <2>. QED BY <1>6, <2>2
<1>7. CASE k + 1 \in (b + 3)..(b + 2 + n)
    <2>1. move.op = "read"
        BY <1>7 DEF ReadsFrom
    <2>2. k \in (b + 2)..(b + n + 1)
        BY <1>1, <1>7
    <2>. QED BY <2>1, <2>2
<1>8. CASE k = b + n + 2
    <2>1. k + 1 = b + n + 3
        BY <1>1, <1>8
    <2>2. move.op = "stop"
        BY <2>1 DEF ReadsFrom
    <2>. QED BY <1>8, <2>2
<1>. QED BY <1>1, <1>2, <1>3, <1>4, <1>5, <1>6, <1>7, <1>8

LEMMA WriteStepsAt ==
    ASSUME NEW d, NEW bytes, NEW b, NEW n, NEW steps, WritesTo(d, bytes, b, n, steps),
           NEW k \in Nat, k + 1 =< Len(steps)
    PROVE  /\ steps[k + 1].op \in {"start", "repeated_start", "stop"} => k = 0 \/ k = b + n
           /\ steps[k + 1].op = "address" =>
                 ToNumeric(steps[k + 1].address) = d.address /\ k = 1 /\ steps[k + 1].operation = "WRITE"
           /\ steps[k + 1].op = "write" => k \in 2..(b + n - 1) /\ steps[k + 1].data = bytes[k - 1]
           /\ steps[k + 1].op # "read"
<1>1. n \in Nat \ {0} /\ b \in 2..4 /\ k + 1 =< b + n + 1
    BY DEF WritesTo
<1> DEFINE move == steps[k + 1]
<1>2. CASE k = 0
    <2>1. move.op = "start"
        BY <1>2 DEF WritesTo
    <2>. QED BY <1>2, <2>1
<1>3. CASE k = 1
    <2>1. move.op = "address" /\ ToNumeric(move.address) = d.address /\ move.operation = "WRITE"
        BY <1>3 DEF WritesTo
    <2>. QED BY <1>3, <2>1
<1>4. CASE k + 1 \in 3..(b + n)
    <2>1. move.op = "write" /\ move.data = bytes[(k + 1) - 2] /\ (k + 1) - 2 = k - 1
        BY <1>4 DEF WritesTo
    <2>2. k \in 2..(b + n - 1)
        BY <1>1, <1>4
    <2>. QED BY <2>1, <2>2
<1>5. CASE k = b + n
    <2>1. move.op = "stop"
        BY <1>5 DEF WritesTo
    <2>. QED BY <1>5, <2>1
<1>. QED BY <1>1, <1>2, <1>3, <1>4, <1>5

-----------------------------------------------------------------------------
\* The devices: those with registers keep them, and a pointer of no bytes stays.
LEMMA DeviceFacts ==
    ASSUME NEW d \in I2CDevices
    PROVE  /\ d.address \in Nat /\ d.width \in 0..2 /\ d.registers \subseteq Nat /\ d # NoDevice
           /\ d.width = 0 => d.registers = {0}
           /\ \A e \in I2CDevices : d.address = e.address => d = e
<1>1. NoDevice.address = -1
    BY DEF NoDevice
<1>2. d.address \in Nat
    BY DevicesAssumption
<1>3. d # NoDevice
    BY <1>1, <1>2
<1>. QED BY <1>3, DevicesAssumption

\* A read goes on with its next step.
LEMMA ReadCallSteps ==
    ASSUME WireInv, TransferInv, transfer.kind = "read", transfer' = transfer, at_start' = at_start,
           script' = Tail(script),
           Condition \/ Acknowledged \/ WriteByte \/ ReadByte
    PROVE  TransferInv'
<1>1. PICK d \in I2CDevices : \E reg \in d.registers, n \in BlockSizes :
            LET steps == ReadScript(d, reg, n) IN
            /\ transfer.device = d /\ transfer.register = reg /\ transfer.size = n
            /\ Block(d, reg, n) \subseteq d.registers
            /\ IsRest(script, steps)
            /\ ReadAt(d, reg, n, Len(steps) - Len(script))
    BY DEF TransferInv, ReadCallInv
<1>2. PICK reg \in d.registers, n \in BlockSizes :
            LET steps == ReadScript(d, reg, n) IN
            /\ transfer.device = d /\ transfer.register = reg /\ transfer.size = n
            /\ Block(d, reg, n) \subseteq d.registers
            /\ IsRest(script, steps)
            /\ ReadAt(d, reg, n, Len(steps) - Len(script))
    BY <1>1
<1>3. PICK steps : steps = ReadScript(d, reg, n)
    OBVIOUS
<1>4. PICK bytes : bytes = RegisterAddress(d.width, reg)
    OBVIOUS
<1>5. PICK b : b = Pointed(d)
    OBVIOUS
<1>6. ReadsFrom(d, bytes, b, n, steps)
    BY <1>3, <1>4, <1>5, StepsOfRead
<1>7. steps \in Seq(Steps) /\ n \in Nat \ {0} /\ b \in {0, 3, 4} /\ Len(steps) = b + n + 3
    BY <1>6 DEF ReadsFrom
<1>8. IsRest(script, steps) /\ ReadAt(d, reg, n, Len(steps) - Len(script))
    BY <1>2, <1>3
<1>9. script # <<>> /\ script \in Seq(Steps) /\ ~ IsPing
    BY DEF Condition, Acknowledged, WriteByte, ReadByte, Comes, WireInv, ScriptInv, IsPing
<1>10. PICK k \in Nat : /\ k = Len(steps) - Len(script) /\ k + 1 =< Len(steps)
                        /\ Head(script) = steps[k + 1]
                        /\ IsRest(script', steps) /\ Len(steps) - Len(script') = k + 1
    BY <1>7, <1>8, <1>9, RestOfTail
<1>11. ReadAt(d, reg, n, k)
    BY <1>8, <1>10
<1>12. /\ Head(script).op \in {"start", "repeated_start", "stop"} => k = 0 \/ k = b \/ k = b + n + 2
       /\ Head(script).op = "address" =>
            /\ ToNumeric(Head(script).address) = d.address
            /\ \/ k = 1 /\ b # 0 /\ Head(script).operation = "WRITE"
               \/ k = b + 1 /\ Head(script).operation = "READ"
       /\ Head(script).op = "write" => k \in 2..(b - 1) /\ Head(script).data = bytes[k - 1]
       /\ Head(script).op = "read" => k \in (b + 2)..(b + n + 1)
    <2> DEFINE move == steps[k + 1]
    <2>1. /\ move.op \in {"start", "repeated_start", "stop"} => k = 0 \/ k = b \/ k = b + n + 2
          /\ move.op = "address" =>
                /\ ToNumeric(move.address) = d.address
                /\ \/ k = 1 /\ b # 0 /\ move.operation = "WRITE"
                   \/ k = b + 1 /\ move.operation = "READ"
          /\ move.op = "write" => k \in 2..(b - 1) /\ move.data = bytes[k - 1]
          /\ move.op = "read" => k \in (b + 2)..(b + n + 1)
        <3>1. k + 1 =< Len(steps)
            BY <1>10
        <3>. QED BY <1>6, <3>1, ReadStepsAt
    <2>2. Head(script) = move
        BY <1>10
    <2> HIDE DEF move
    <2>. QED BY <2>1, <2>2
<1>13. /\ cells = at_start
       /\ k = 1 => written = <<>>
       /\ k \in 2..b => Received(d, bytes, k - 2)
       /\ k \in b..(b + 1) => PointsTo(d, reg, 0)
       /\ k \in (b + 2)..(b + 2 + n) => listening = d /\ PointsTo(d, reg, k - b - 2)
       /\ buffer = First(IF k < b + 2 THEN 0 ELSE IF k = b + 3 + n THEN n ELSE k - b - 2,
                         ContentsFrom(d, reg))
    BY <1>4, <1>5, <1>11 DEF ReadAt
<1>14. ContentsFrom(d, reg)' = ContentsFrom(d, reg)
    BY DEF ContentsFrom
<1> DEFINE Now(m) ==
            /\ cells' = at_start
            /\ m = 1 => written' = <<>>
            /\ m \in 2..b => Received(d, bytes, m - 2)'
            /\ m \in b..(b + 1) => PointsTo(d, reg, 0)'
            /\ m \in (b + 2)..(b + 2 + n) => listening' = d /\ PointsTo(d, reg, m - b - 2)'
            /\ buffer' = First(IF m < b + 2 THEN 0 ELSE IF m = b + 3 + n THEN n ELSE m - b - 2,
                               ContentsFrom(d, reg))
<1>15. SUFFICES Now(k + 1) /\ MemoryInv'
    <2>1. ReadAt(d, reg, n, k + 1)'
        BY <1>4, <1>5, <1>14, <1>15 DEF ReadAt
    <2>2. (Len(steps) - Len(script))' = k + 1
        BY <1>10
    <2>3. ReadAt(d, reg, n, Len(steps) - Len(script))'
        BY <2>1, <2>2 DEF ReadAt
    <2>4. IsRest(script, steps)'
        BY <1>10 DEF IsRest
    <2>5. transfer.device = d /\ transfer.register = reg /\ transfer.size = n
          /\ Block(d, reg, n) \subseteq d.registers
        BY <1>2
    <2>6. ReadCallInv'
        BY <1>3, <2>3, <2>4, <2>5 DEF ReadCallInv
    <2>. QED BY <1>15, <2>6 DEF TransferInv, KindInv, WriteCallInv, PingsInv, IsPing
<1>16. MemoryInv /\ (d.width # 0 <=> b # 0) /\ d # NoDevice
    BY <1>5, DeviceFacts DEF TransferInv, Pointed
<1>17. CASE Condition
    <2>1. /\ Head(script).op \in {"start", "repeated_start", "stop"}
          /\ written' = <<>> /\ cells' = cells /\ pointer' = pointer /\ buffer' = buffer
        BY <1>17 DEF Condition, Comes
    <2>2. MemoryInv'
        BY <1>16, <2>1 DEF MemoryInv
    <2>3. CASE k = 0 /\ b # 0
        <3>1. k + 1 = 1 /\ k + 1 \notin 2..b /\ k + 1 \notin b..(b + 1) /\ k + 1 \notin (b + 2)..(b + 2 + n)
              /\ k < b + 2 /\ k + 1 < b + 2
            BY <1>7, <2>3
        <3>. QED BY <1>13, <2>1, <2>2, <3>1
    <2>4. CASE k = b
        <3>1. k + 1 \notin 2..b /\ k \in b..(b + 1) /\ k + 1 \notin (b + 2)..(b + 2 + n)
              /\ k < b + 2 /\ k + 1 < b + 2
            BY <1>7, <2>4
        <3>2. PointsTo(d, reg, 0)'
            BY <1>13, <2>1, <3>1 DEF PointsTo
        <3>. QED BY <1>13, <2>1, <2>2, <3>1, <3>2
    <2>5. CASE k = b + n + 2
        <3>1. k \notin {1} /\ k + 1 # 1 /\ k + 1 \notin 2..b /\ k + 1 \notin b..(b + 1)
              /\ k + 1 \notin (b + 2)..(b + 2 + n) /\ k + 1 = b + 3 + n /\ ~ k < b + 2 /\ ~ k + 1 < b + 2
              /\ k # b + 3 + n /\ k - b - 2 = n
            BY <1>7, <2>5
        <3>. QED BY <1>13, <2>1, <2>2, <3>1
    <2>. QED BY <1>12, <2>1, <2>2, <2>3, <2>4, <2>5
<1>18. CASE Acknowledged
    <2>1. /\ Head(script).op = "address" /\ cells' = cells /\ pointer' = pointer
          /\ buffer' = buffer /\ written' = written
        BY <1>18 DEF Acknowledged, Comes
    <2>2. PICK e \in Addressed : listening' = e /\ driving' = (Head(script).operation = "READ")
        BY <1>18 DEF Acknowledged
    <2>3. e = d
        BY <1>12, <2>1, <2>2, DeviceFacts DEF Addressed
    <2>4. MemoryInv'
        BY <1>16, <2>1 DEF MemoryInv
    <2>5. CASE k = 1 /\ b # 0 /\ Head(script).operation = "WRITE"
        <3>1. Received(d, bytes, 0)'
            BY <1>13, <2>1, <2>2, <2>3, <2>5, FirstGrows DEF Received
        <3>2. k + 1 # 1 /\ (k + 1) - 2 = 0 /\ k + 1 \notin b..(b + 1) /\ k + 1 < b + 2
              /\ k + 1 \notin (b + 2)..(b + 2 + n) /\ k < b + 2
            BY <1>7, <2>5
        <3>. QED BY <1>13, <2>1, <2>4, <3>1, <3>2
    <2>6. CASE k = b + 1 /\ Head(script).operation = "READ"
        <3>1. PointsTo(d, reg, 0)'
            <4>1. k \in b..(b + 1)
                BY <1>7, <2>6
            <4>. QED BY <1>13, <2>1, <4>1 DEF PointsTo
        <3>2. k + 1 # 1 /\ k + 1 \notin 2..b /\ k + 1 \notin b..(b + 1) /\ ~ k + 1 < b + 2
              /\ (k + 1) - b - 2 = 0 /\ k < b + 2 /\ k + 1 # b + 3 + n
            BY <1>7, <2>6
        <3>. QED BY <1>13, <2>1, <2>2, <2>3, <2>4, <3>1, <3>2
    <2>. QED BY <1>12, <2>1, <2>5, <2>6
<1>19. CASE WriteByte
    <2>1. k \in 2..(b - 1) /\ Head(script).data = bytes[k - 1]
        BY <1>12, <1>19 DEF WriteByte, Comes
    <2>2. b \in {3, 4} /\ k - 1 \in Nat /\ k - 2 \in Nat /\ (k - 2) + 1 = k - 1 /\ k \in 2..b
        BY <1>7, <2>1
    <2>3. listening = d /\ ~ driving /\ written = First(k - 2, bytes)
        BY <1>13, <2>2 DEF Received
    <2>4. transfer' # [kind |-> "fatal"]
        <3>1. [kind |-> "fatal"].kind # transfer.kind
            OBVIOUS
        <3>. QED BY <3>1
    <2>5. Take(d, bytes[k - 1]) /\ listening' = listening /\ driving' = driving /\ buffer' = buffer
        BY <1>19, <2>1, <2>3, <2>4 DEF WriteByte, Fatal
    <2>6. Append(written, bytes[k - 1]) = First(k - 1, bytes) /\ Len(First(k - 1, bytes)) = k - 1
        BY <2>2, <2>3, FirstGrows
    <2>7. d.width = b - 2 /\ d.width \in {1, 2} /\ ~ (k - 1 > d.width)
        BY <1>5, <1>7, <2>1, <2>2, DeviceFacts DEF Pointed
    <2>8. /\ written' = First(k - 1, bytes) /\ cells' = cells
          /\ pointer' = [pointer EXCEPT ![d] =
                            IF d.width = 1 THEN bytes[k - 1]
                            ELSE IF k - 1 = 2
                                 THEN First(k - 1, bytes)[1] * 256 + First(k - 1, bytes)[2] ELSE pointer[d]]
        BY <2>5, <2>6, <2>7 DEF Take
    <2>9. d \in DOMAIN pointer
        BY <1>16 DEF MemoryInv
    <2>10. PointsTo(d, reg, 0)' \/ k + 1 # b
        <3>1. ASSUME k + 1 = b PROVE pointer'[d] = reg
            <4>0. reg \in Nat
                BY DeviceFacts
            <4>1. d.width = 1 => bytes[1] = reg
                <5>1. ASSUME d.width = 1 PROVE bytes[1] = reg
                    BY <1>4, <4>0, <5>1 DEF RegisterAddress
                <5>. QED BY <5>1
            <4>2. d.width = 2 => bytes[1] * 256 + bytes[2] = reg
                <5>1. d.width \in 0..2
                    BY <2>7
                <5>. QED BY <1>4, <4>0, <5>1, RegisterAddressLength
            <4>3. CASE d.width = 1
                <5>1. k - 1 = 1
                    BY <2>7, <3>1, <4>3
                <5>. QED BY <2>8, <2>9, <4>1, <4>3, <5>1
            <4>4. CASE d.width = 2
                <5>1. k - 1 = 2
                    BY <2>7, <3>1, <4>4
                <5>2. First(2, bytes)[1] = bytes[1] /\ First(2, bytes)[2] = bytes[2]
                    BY DEF First
                <5>. QED BY <2>8, <2>9, <4>2, <4>4, <5>1, <5>2
            <4>. QED BY <2>7, <4>3, <4>4
        <3>2. reg + 0 = reg
            BY DeviceFacts
        <3>. QED BY <3>1, <3>2 DEF PointsTo
    <2>11. Received(d, bytes, k - 1)'
        BY <2>3, <2>5, <2>8 DEF Received
    <2>12. MemoryInv'
        <3>1. \A e \in I2CDevices : e.width = 0 => e # d
            BY <2>7
        <3>. QED BY <1>16, <2>8, <3>1 DEF MemoryInv
    <2>13. k + 1 # 1 /\ (k + 1) - 2 = k - 1 /\ (k + 1 \in b..(b + 1) => k + 1 = b) /\ k + 1 < b + 2
           /\ k + 1 \notin (b + 2)..(b + 2 + n) /\ k < b + 2
        BY <1>7, <2>1, <2>2
    <2>. QED BY <1>13, <2>5, <2>8, <2>10, <2>11, <2>12, <2>13
<1>20. CASE ReadByte
    <2>1. k \in (b + 2)..(b + n + 1)
        BY <1>12, <1>20 DEF ReadByte, Comes
    <2>2. PICK m \in Nat : m = k - b - 2 /\ m < n
        BY <1>7, <2>1
    <2>3. k \in (b + 2)..(b + 2 + n) /\ ~ k < b + 2 /\ k # b + 3 + n
        BY <1>7, <2>1
    <2>4. listening = d /\ PointsTo(d, reg, m) /\ buffer = First(m, ContentsFrom(d, reg))
        BY <1>13, <2>2, <2>3
    <2>5. reg \in Nat /\ pointer[d] = IF d.width = 0 THEN 0 ELSE reg + m
        BY <1>16, <2>4, DeviceFacts DEF PointsTo, MemoryInv
    <2>6. pointer[d] \in d.registers
        <3>1. CASE d.width = 0
            BY <2>5, <3>1, DeviceFacts
        <3>2. CASE d.width # 0
            <4>1. reg + m \in reg..(reg + n - 1)
                BY <1>7, <2>2, <2>5
            <4>. QED BY <1>2, <2>5, <3>2, <4>1 DEF Block
        <3>. QED BY <3>1, <3>2
    <2>7. ContentsFrom(d, reg)[m + 1] = cells[d][pointer[d]]
        <3>1. reg + (m + 1) - 1 = reg + m
            BY <2>2, <2>5
        <3>2. m + 1 \in Nat
            BY <2>2
        <3>. QED BY <1>13, <2>5, <3>1, <3>2 DEF ContentsFrom
    <2>8. buffer' = First(m + 1, ContentsFrom(d, reg))
        <3>1. buffer' = Append(buffer, cells[d][pointer[d]])
            BY <1>9, <1>20, <2>4, <2>6 DEF ReadByte
        <3>. QED BY <2>4, <2>7, <3>1, FirstGrows
    <2>9. /\ pointer' = IF d.width = 0 THEN pointer ELSE [pointer EXCEPT ![d] = pointer[d] + 1]
          /\ cells' = cells /\ listening' = d
        BY <1>20, <2>4 DEF ReadByte
    <2>10. PointsTo(d, reg, m + 1)'
        <3>1. d \in DOMAIN pointer
            BY <1>16 DEF MemoryInv
        <3>2. (reg + m) + 1 = reg + (m + 1)
            BY <2>5
        <3>. QED BY <2>5, <2>9, <3>1, <3>2 DEF PointsTo
    <2>11. MemoryInv'
        BY <1>16, <2>9 DEF MemoryInv
    <2>12. k + 1 # 1 /\ k + 1 \notin 2..b /\ k + 1 \notin b..(b + 1) /\ ~ k + 1 < b + 2
           /\ k + 1 # b + 3 + n /\ (k + 1) - b - 2 = m + 1
        BY <1>7, <2>1, <2>2
    <2>. QED BY <1>13, <2>8, <2>9, <2>10, <2>11, <2>12
<1>. QED BY <1>17, <1>18, <1>19, <1>20

\* One more byte has been written.
LEMMA OneMoreWritten ==
    ASSUME MemoryInv, NEW d \in I2CDevices, NEW reg \in d.registers, NEW bytes, NEW m \in Nat, NEW p,
           HasWritten(cells, at_start, d, reg, bytes, m),
           p \in d.registers, d.width = 0 => p = 0, d.width # 0 => p = reg + m,
           NEW byte, byte = bytes[m + 1], cells' = [cells EXCEPT ![d][p] = byte]
    PROVE  HasWritten(cells', at_start, d, reg, bytes, m + 1)
<1>1. d.registers \subseteq Nat /\ reg \in Nat /\ (d.width = 0 => d.registers = {0})
    BY DeviceFacts
<1> DEFINE Row(n) == [r \in d.registers |->
            IF d.width = 0 THEN (IF n = 0 THEN at_start[d][r] ELSE bytes[n])
            ELSE IF r \in reg..(reg + n - 1) THEN bytes[r - reg + 1] ELSE at_start[d][r]]
<1>2. \A now, n : HasWritten(now, at_start, d, reg, bytes, n) <=> now = [at_start EXCEPT ![d] = Row(n)]
    BY DEF HasWritten
<1>3. [Row(m) EXCEPT ![p] = bytes[m + 1]] = Row(m + 1)
    <2>1. CASE d.width = 0
        <3>1. p = 0 /\ d.registers = {0} /\ m + 1 # 0
            BY <1>1, <2>1
        <3>. QED BY <2>1, <3>1
    <2>2. CASE d.width # 0
        <3>1. p = reg + m /\ p - reg + 1 = m + 1 /\ p \in reg..(reg + (m + 1) - 1)
            BY <1>1, <2>2
        <3>2. \A r \in d.registers : r # p =>
                 (r \in reg..(reg + m - 1) <=> r \in reg..(reg + (m + 1) - 1))
            BY <1>1, <2>2
        <3>3. \A r \in d.registers :
                [Row(m) EXCEPT ![p] = bytes[m + 1]][r] = Row(m + 1)[r]
            <4>1. ASSUME NEW r \in d.registers, r = p
                  PROVE  [Row(m) EXCEPT ![p] = bytes[m + 1]][r] = Row(m + 1)[r]
                BY <2>2, <3>1, <4>1
            <4>2. ASSUME NEW r \in d.registers, r # p
                  PROVE  [Row(m) EXCEPT ![p] = bytes[m + 1]][r] = Row(m + 1)[r]
                BY <2>2, <3>2, <4>2
            <4>. QED BY <4>1, <4>2
        <3>4. DOMAIN [Row(m) EXCEPT ![p] = bytes[m + 1]] = d.registers /\ DOMAIN Row(m + 1) = d.registers
            OBVIOUS
        <3> HIDE DEF Row
        <3>5. Row(m + 1) = [r \in d.registers |-> Row(m + 1)[r]]
            BY DEF Row
        <3>6. [Row(m) EXCEPT ![p] = bytes[m + 1]]
                = [r \in d.registers |-> [Row(m) EXCEPT ![p] = bytes[m + 1]][r]]
            BY <3>4
        <3>. QED BY <3>3, <3>5, <3>6
    <2>. QED BY <2>1, <2>2
<1> HIDE DEF Row
<1>4. cells = [at_start EXCEPT ![d] = Row(m)]
    BY <1>2
<1>5. d \in DOMAIN cells
    BY DEF MemoryInv
<1>6. d \in DOMAIN at_start
    BY <1>4, <1>5
<1>7. cells[d] = Row(m)
    BY <1>4, <1>6
<1>8. cells' = [cells EXCEPT ![d] = [Row(m) EXCEPT ![p] = bytes[m + 1]]]
    BY <1>7
<1>9. [cells EXCEPT ![d] = Row(m + 1)] = [at_start EXCEPT ![d] = Row(m + 1)]
    BY <1>4
<1>. QED BY <1>2, <1>3, <1>8, <1>9

LEMMA MemoryIsKept ==
    ASSUME MemoryInv, NEW d \in I2CDevices, NEW p \in d.registers, NEW byte,
           cells' = [cells EXCEPT ![d][p] = byte]
    PROVE  cells' = [e \in I2CDevices |-> [r \in e.registers |-> cells'[e][r]]]
<1> DEFINE new == [cells EXCEPT ![d][p] = byte]
<1>1. DOMAIN new = I2CDevices
    BY DEF MemoryInv
<1>2. \A e \in I2CDevices : cells[e] = [r \in e.registers |-> cells[e][r]]
    BY DEF MemoryInv
<1>3. ASSUME NEW e \in I2CDevices PROVE new[e] = [r \in e.registers |-> new[e][r]]
    <2>1. CASE e = d
        <3>1. new[d] = [cells[d] EXCEPT ![p] = byte]
            BY DEF MemoryInv
        <3>2. DOMAIN cells[d] = d.registers
            BY <1>2
        <3>. QED BY <2>1, <3>1, <3>2
    <2>2. CASE e # d
        BY <1>2, <2>2 DEF MemoryInv
    <2>. QED BY <2>1, <2>2
<1>4. new = [e \in I2CDevices |-> new[e]]
    BY <1>1
<1> HIDE DEF new
<1>5. new = [e \in I2CDevices |-> [r \in e.registers |-> new[e][r]]]
    BY <1>3, <1>4
<1>. QED BY <1>5 DEF new

\* A write goes on with its next step.
LEMMA WriteCallSteps ==
    ASSUME WireInv, TransferInv, transfer.kind = "write", transfer' = transfer, at_start' = at_start,
           script' = Tail(script),
           Condition \/ Acknowledged \/ WriteByte \/ ReadByte
    PROVE  TransferInv'
<1>1. PICK d \in I2CDevices : \E reg \in d.registers, n \in BlockSizes : \E data \in [1..n -> I2CBytes] :
            LET steps == WriteScript(d, reg, data) IN
            /\ transfer.device = d /\ transfer.register = reg /\ transfer.data = data
            /\ Block(d, reg, n) \subseteq d.registers
            /\ IsRest(script, steps)
            /\ WriteAt(d, reg, data, n, Len(steps) - Len(script))
    BY DEF TransferInv, WriteCallInv
<1>2. PICK reg \in d.registers, n \in BlockSizes : \E data \in [1..n -> I2CBytes] :
            LET steps == WriteScript(d, reg, data) IN
            /\ transfer.device = d /\ transfer.register = reg /\ transfer.data = data
            /\ Block(d, reg, n) \subseteq d.registers
            /\ IsRest(script, steps)
            /\ WriteAt(d, reg, data, n, Len(steps) - Len(script))
    BY <1>1
<1>3. PICK data \in [1..n -> I2CBytes] :
            LET steps == WriteScript(d, reg, data) IN
            /\ transfer.device = d /\ transfer.register = reg /\ transfer.data = data
            /\ Block(d, reg, n) \subseteq d.registers
            /\ IsRest(script, steps)
            /\ WriteAt(d, reg, data, n, Len(steps) - Len(script))
    BY <1>2
<1>4. PICK steps : steps = WriteScript(d, reg, data)
    OBVIOUS
<1>5. PICK bytes : bytes = RegisterAddress(d.width, reg) \o data
    OBVIOUS
<1>6. PICK b : b = d.width + 2
    OBVIOUS
<1>7. WritesTo(d, bytes, b, n, steps)
    BY <1>4, <1>5, <1>6, StepsOfWrite
<1>8. steps \in Seq(Steps) /\ n \in Nat \ {0} /\ b \in 2..4 /\ Len(steps) = b + n + 1
    BY <1>7 DEF WritesTo
<1>9. IsRest(script, steps) /\ WriteAt(d, reg, data, n, Len(steps) - Len(script))
    BY <1>3, <1>4
<1>10. script # <<>> /\ script \in Seq(Steps) /\ ~ IsPing
    BY DEF Condition, Acknowledged, WriteByte, ReadByte, Comes, WireInv, ScriptInv, IsPing
<1>11. PICK k \in Nat : /\ k = Len(steps) - Len(script) /\ k + 1 =< Len(steps)
                        /\ Head(script) = steps[k + 1]
                        /\ IsRest(script', steps) /\ Len(steps) - Len(script') = k + 1
    BY <1>8, <1>9, <1>10, RestOfTail
<1>12. WriteAt(d, reg, data, n, k)
    BY <1>9, <1>11
<1>13. /\ Head(script).op \in {"start", "repeated_start", "stop"} => k = 0 \/ k = b + n
       /\ Head(script).op = "address" =>
             ToNumeric(Head(script).address) = d.address /\ k = 1 /\ Head(script).operation = "WRITE"
       /\ Head(script).op = "write" => k \in 2..(b + n - 1) /\ Head(script).data = bytes[k - 1]
       /\ Head(script).op # "read"
    <2> DEFINE move == steps[k + 1]
    <2>1. /\ move.op \in {"start", "repeated_start", "stop"} => k = 0 \/ k = b + n
          /\ move.op = "address" =>
                ToNumeric(move.address) = d.address /\ k = 1 /\ move.operation = "WRITE"
          /\ move.op = "write" => k \in 2..(b + n - 1) /\ move.data = bytes[k - 1]
          /\ move.op # "read"
        <3>1. k + 1 =< Len(steps)
            BY <1>11
        <3>. QED BY <1>7, <3>1, WriteStepsAt
    <2>2. Head(script) = move
        BY <1>11
    <2> HIDE DEF move
    <2>. QED BY <2>1, <2>2
<1> DEFINE Count(m) == IF m < b THEN 0 ELSE IF m = b + n + 1 THEN n ELSE m - b
<1>14. /\ k = 1 => written = <<>>
       /\ k \in 2..(b + n) => Received(d, bytes, k - 2)
       /\ k \in b..(b + n) => PointsTo(d, reg, k - b)
       /\ HasWritten(cells, at_start, d, reg, data, Count(k))
    BY <1>5, <1>6, <1>12 DEF WriteAt
<1>15. \A m : HasWritten(cells, at_start, d, reg, data, m)' <=> HasWritten(cells', at_start, d, reg, data, m)
    BY DEF HasWritten
<1> DEFINE Now(m) ==
            /\ m = 1 => written' = <<>>
            /\ m \in 2..(b + n) => Received(d, bytes, m - 2)'
            /\ m \in b..(b + n) => PointsTo(d, reg, m - b)'
            /\ HasWritten(cells', at_start, d, reg, data, Count(m))
<1>16. SUFFICES Now(k + 1) /\ MemoryInv'
    <2>1. WriteAt(d, reg, data, n, k + 1)'
        BY <1>5, <1>6, <1>15, <1>16 DEF WriteAt
    <2>2. (Len(steps) - Len(script))' = k + 1
        BY <1>11
    <2>3. WriteAt(d, reg, data, n, Len(steps) - Len(script))'
        BY <2>1, <2>2 DEF WriteAt
    <2>4. IsRest(script, steps)'
        BY <1>11 DEF IsRest
    <2>5. transfer.device = d /\ transfer.register = reg /\ transfer.data = data
          /\ Block(d, reg, n) \subseteq d.registers
        BY <1>3
    <2>6. WriteCallInv'
        BY <1>4, <2>3, <2>4, <2>5 DEF WriteCallInv
    <2>. QED BY <1>16, <2>6 DEF TransferInv, KindInv, ReadCallInv, PingsInv, IsPing
<1>17. MemoryInv /\ d # NoDevice /\ reg \in Nat /\ d.width \in 0..2 /\ d.width = b - 2
    BY <1>6, DeviceFacts DEF TransferInv
<1>18. CASE Condition
    <2>1. /\ Head(script).op \in {"start", "repeated_start", "stop"}
          /\ written' = <<>> /\ cells' = cells /\ pointer' = pointer
        BY <1>18 DEF Condition, Comes
    <2>2. MemoryInv'
        BY <1>17, <2>1 DEF MemoryInv
    <2>3. CASE k = 0
        <3>1. k + 1 \notin 2..(b + n) /\ k + 1 \notin b..(b + n) /\ Count(k) = 0 /\ Count(k + 1) = 0
            BY <1>8, <2>3
        <3>. QED BY <1>14, <2>1, <2>2, <3>1
    <2>4. CASE k = b + n
        <3>1. k + 1 # 1 /\ k + 1 \notin 2..(b + n) /\ k + 1 \notin b..(b + n)
              /\ Count(k) = n /\ Count(k + 1) = n
            BY <1>8, <2>4
        <3>. QED BY <1>14, <2>1, <2>2, <3>1
    <2>. QED BY <1>13, <2>1, <2>3, <2>4
<1>19. CASE Acknowledged
    <2>1. /\ Head(script).op = "address" /\ cells' = cells /\ pointer' = pointer /\ written' = written
        BY <1>19 DEF Acknowledged, Comes
    <2>2. PICK e \in Addressed : listening' = e /\ driving' = (Head(script).operation = "READ")
        BY <1>19 DEF Acknowledged
    <2>3. e = d /\ k = 1 /\ Head(script).operation = "WRITE"
        BY <1>13, <2>1, <2>2, DeviceFacts DEF Addressed
    <2>4. MemoryInv'
        BY <1>17, <2>1 DEF MemoryInv
    <2>5. Received(d, bytes, 0)'
        BY <1>14, <2>1, <2>2, <2>3, FirstGrows DEF Received
    <2>6. k + 1 # 1 /\ (k + 1) - 2 = 0 /\ Count(k) = 0 /\ Count(k + 1) = 0
          /\ (k + 1 \in b..(b + n) => d.width = 0)
        BY <1>8, <1>17, <2>3
    <2>7. k + 1 \in b..(b + n) => PointsTo(d, reg, (k + 1) - b)'
        BY <2>6 DEF PointsTo
    <2>. QED BY <1>14, <2>1, <2>4, <2>5, <2>6, <2>7
<1>20. CASE WriteByte
    <2>1. k \in 2..(b + n - 1) /\ Head(script).data = bytes[k - 1]
        BY <1>13, <1>20 DEF WriteByte, Comes
    <2>2. k - 1 \in Nat /\ k - 2 \in Nat /\ (k - 2) + 1 = k - 1 /\ k \in 2..(b + n)
        <3>1. b \in Nat /\ n \in Nat /\ k \in Nat /\ 2 =< k /\ k =< b + n - 1
            BY <1>8, <2>1
        <3>. QED BY <3>1
    <2>3. listening = d /\ ~ driving /\ written = First(k - 2, bytes)
        BY <1>14, <2>2 DEF Received
    <2>4. transfer' # [kind |-> "fatal"]
        <3>1. [kind |-> "fatal"].kind # transfer.kind
            OBVIOUS
        <3>. QED BY <3>1
    <2>5. Take(d, bytes[k - 1]) /\ listening' = listening /\ driving' = driving
        BY <1>20, <2>1, <2>3, <2>4 DEF WriteByte, Fatal
    <2>6. Append(written, bytes[k - 1]) = First(k - 1, bytes) /\ Len(First(k - 1, bytes)) = k - 1
        BY <2>2, <2>3, FirstGrows
    <2>7. written' = First(k - 1, bytes)
        BY <2>5, <2>6 DEF Take
    <2>8. Received(d, bytes, k - 1)'
        BY <2>3, <2>5, <2>7 DEF Received
    <2>9. k + 1 # 1 /\ (k + 1) - 2 = k - 1 /\ k # b + n + 1 /\ k + 1 # b + n + 1
        BY <1>8, <2>1, <2>2
    <2>10. d \in DOMAIN pointer
        BY <1>17 DEF MemoryInv
    <2>11. CASE k < b
        <3>1. ~ (k - 1 > d.width) /\ d.width \in {1, 2}
            BY <1>8, <1>17, <2>1, <2>11
        <3>2. /\ cells' = cells
              /\ pointer' = [pointer EXCEPT ![d] =
                            IF d.width = 1 THEN bytes[k - 1]
                            ELSE IF k - 1 = 2
                                 THEN First(k - 1, bytes)[1] * 256 + First(k - 1, bytes)[2] ELSE pointer[d]]
            BY <2>5, <2>6, <3>1 DEF Take
        <3>3. ASSUME k + 1 = b PROVE PointsTo(d, reg, 0)'
            <4> DEFINE ra == RegisterAddress(d.width, reg)
            <4>1. /\ ra \in Seq(Nat) /\ Len(ra) = d.width
                  /\ d.width = 1 => ra[1] = reg
                  /\ d.width = 2 => ra[1] * 256 + ra[2] = reg
                <5>1. d.width \in 0..2 /\ reg \in Nat
                    BY <1>17
                <5>2. MakesUp(RegisterAddress(d.width, reg), d.width, reg)
                    BY <5>1, RegisterAddressMakesUp
                <5>. QED BY <5>2 DEF MakesUp
            <4> HIDE DEF ra
            <4>2. data \in Seq(I2CBytes)
                BY <1>8
            <4>3. \A i \in 1..d.width : bytes[i] = ra[i]
                BY <1>5, <4>1, <4>2 DEF ra
            <4>4. CASE d.width = 1
                <5>1. k - 1 = 1 /\ bytes[1] = reg
                    BY <1>17, <3>3, <4>1, <4>3, <4>4
                <5>. QED BY <1>17, <2>10, <3>2, <4>4, <5>1 DEF PointsTo
            <4>5. CASE d.width = 2
                <5>1. k - 1 = 2 /\ bytes[1] * 256 + bytes[2] = reg
                    BY <1>8, <1>17, <3>3, <4>1, <4>3, <4>5
                <5>2. First(2, bytes)[1] = bytes[1] /\ First(2, bytes)[2] = bytes[2]
                    BY DEF First
                <5>3. pointer'[d] = reg
                    BY <2>10, <3>2, <4>5, <5>1, <5>2
                <5>. QED BY <1>17, <5>3 DEF PointsTo
            <4>. QED BY <3>1, <4>4, <4>5
        <3>4. MemoryInv'
            <4>1. \A e \in I2CDevices : e.width = 0 => e # d
                BY <3>1
            <4>. QED BY <1>17, <3>2, <4>1 DEF MemoryInv
        <3>5. Count(k) = 0 /\ Count(k + 1) = 0 /\ (k + 1 \in b..(b + n) => k + 1 = b /\ (k + 1) - b = 0)
            BY <1>8, <2>11
        <3>. QED BY <1>14, <2>8, <2>9, <3>2, <3>3, <3>4, <3>5
    <2>12. CASE ~ k < b
        <3>1. PICK m \in Nat : m = k - b /\ m < n
            BY <1>8, <2>1, <2>12
        <3>2. k - 1 > d.width /\ k \in b..(b + n) /\ Count(k) = m /\ Count(k + 1) = m + 1
            <4>0. k \in Nat /\ b \in Nat /\ b >= 2 /\ n \in Nat /\ d.width = b - 2
                BY <1>8, <1>17
            <4>1. k >= b /\ k =< b + n - 1
                BY <2>1, <2>12, <4>0
            <4>2. k - 1 > d.width /\ k \in b..(b + n)
                BY <4>0, <4>1
            <4>3. ~ k + 1 < b /\ k # b + n + 1 /\ k + 1 # b + n + 1 /\ (k + 1) - b = m + 1
                BY <3>1, <4>0, <4>1
            <4>. QED BY <2>12, <3>1, <4>2, <4>3
        <3>3. bytes[k - 1] = data[m + 1]
            <4> DEFINE ra == RegisterAddress(d.width, reg)
            <4>0. d.width \in 0..2 /\ reg \in Nat
                BY <1>17
            <4>1. ra \in Seq(Nat) /\ Len(ra) = d.width
                BY <4>0, RegisterAddressLength
            <4> HIDE DEF ra
            <4>2. data \in Seq(I2CBytes) /\ Len(data) = n
                BY <1>8
            <4>3. k - 1 = d.width + (m + 1) /\ m + 1 \in 1..n
                BY <1>8, <1>17, <3>1
            <4>4. (ra \o data)[d.width + (m + 1)] = data[m + 1]
                BY <4>1, <4>2, <4>3
            <4>. QED BY <1>5, <4>3, <4>4 DEF ra
        <3>4. PointsTo(d, reg, m)
            BY <1>14, <3>1, <3>2
        <3>5. pointer[d] = IF d.width = 0 THEN 0 ELSE reg + m
            BY <1>17, <3>4 DEF PointsTo, MemoryInv
        <3>6. pointer[d] \in d.registers
            <4>1. CASE d.width = 0
                BY <3>5, <4>1, DeviceFacts
            <4>2. CASE d.width # 0
                <5>1. reg + m \in reg..(reg + n - 1)
                    BY <1>8, <1>17, <3>1
                <5>. QED BY <1>3, <3>5, <4>2, <5>1 DEF Block
            <4>. QED BY <4>1, <4>2
        <3>7. /\ cells' = [cells EXCEPT ![d][pointer[d]] = data[m + 1]]
              /\ pointer' = [pointer EXCEPT ![d] = IF d.width = 0 THEN pointer[d] ELSE pointer[d] + 1]
            BY <2>5, <2>6, <3>2, <3>3, <3>6 DEF Take
        <3>8. HasWritten(cells', at_start, d, reg, data, m + 1)
            <4>1. HasWritten(cells, at_start, d, reg, data, m)
                BY <1>14, <3>2
            <4>2. PICK p : p = pointer[d]
                OBVIOUS
            <4>3. (d.width = 0 => p = 0) /\ (d.width # 0 => p = reg + m) /\ p \in d.registers
                BY <3>5, <3>6, <4>2
            <4>4. MemoryInv
                BY <1>17
            <4>5. PICK byte : byte = data[m + 1]
                OBVIOUS
            <4>6. cells' = [cells EXCEPT ![d][p] = byte]
                BY <3>7, <4>2, <4>5
            <4>. QED BY <4>1, <4>3, <4>4, <4>5, <4>6, OneMoreWritten
        <3>9. PointsTo(d, reg, m + 1)'
            <4>1. (reg + m) + 1 = reg + (m + 1)
                BY <1>17
            <4>. QED BY <2>10, <3>5, <3>7, <4>1 DEF PointsTo
        <3>10. MemoryInv'
            <4>1. cells' = [e \in I2CDevices |-> [r \in e.registers |-> cells'[e][r]]]
                BY <1>17, <3>6, <3>7, MemoryIsKept
            <4>2. pointer' = [e \in I2CDevices |-> pointer'[e]]
                BY <1>17, <3>7 DEF MemoryInv
            <4>3. \A e \in I2CDevices : e.width = 0 => pointer'[e] = 0
                BY <1>17, <3>7 DEF MemoryInv
            <4>. QED BY <4>1, <4>2, <4>3 DEF MemoryInv
        <3>11. (k + 1) - b = m + 1
            BY <1>8, <3>1
        <3> HIDE DEF Count
        <3>. QED BY <2>8, <2>9, <3>2, <3>8, <3>9, <3>10, <3>11
    <2>. QED BY <2>11, <2>12
<1>21. CASE ReadByte
    BY <1>13, <1>21 DEF ReadByte, Comes
<1>. QED BY <1>18, <1>19, <1>20, <1>21

-----------------------------------------------------------------------------
\* What is left of the script of a ping, step by step
LEMMA RestsOfPing ==
    ASSUME NEW ping \in Nat \X Operations
    PROVE  /\ PingScript(ping) # <<>> /\ Head(PingScript(ping)).op = "start"
           /\ Tail(PingScript(ping)) = <<AddressOf(ping), stop>>
           /\ <<AddressOf(ping), stop>> # <<>>
           /\ Head(<<AddressOf(ping), stop>>).op = "address"
           /\ ToNumeric(Head(<<AddressOf(ping), stop>>).address) = ping[1]
           /\ Head(<<AddressOf(ping), stop>>).operation = ping[2]
           /\ Tail(<<AddressOf(ping), stop>>) = <<stop>>
           /\ PingRead \o <<stop>> # <<>> /\ Head(PingRead \o <<stop>>).op = "read"
           /\ Tail(PingRead \o <<stop>>) = <<stop>>
           /\ <<stop>> # <<>> /\ Head(<<stop>>).op = "stop" /\ Tail(<<stop>>) = <<>>
<1>1. PICK a, b, c, r : /\ a = start /\ b = AddressOf(ping) /\ c = stop /\ r = read("NACK")
                        /\ a.op = "start" /\ b.op = "address" /\ c.op = "stop" /\ r.op = "read"
                        /\ ToNumeric(b.address) = ping[1] /\ b.operation = ping[2]
    BY StepKinds, StepFields, AddressReturns DEF AddressOf
<1>2. PingScript(ping) = <<a, b, c>>
    BY <1>1 DEF PingScript, AddressOf
<1>3. PingRead \o <<stop>> = <<r, c>>
    <2>1. <<r>> \in Seq({r, c}) /\ <<c>> \in Seq({r, c})
        OBVIOUS
    <2>2. <<r>> \o <<c>> = <<r, c>>
        <3> DEFINE u == <<r>> \o <<c>>
                   t == <<r, c>>
        <3>1. u \in Seq({r, c}) /\ Len(u) = 2 /\ u[1] = r /\ u[2] = c
            BY <2>1
        <3>2. t \in Seq({r, c}) /\ Len(t) = 2 /\ t[1] = r /\ t[2] = c
            OBVIOUS
        <3> HIDE DEF u, t
        <3>3. u \in [1..2 -> {r, c}] /\ t \in [1..2 -> {r, c}] /\ \A i \in 1..2 : u[i] = t[i]
            BY <3>1, <3>2
        <3>4. u = t
            BY <3>3
        <3>. QED BY <3>4 DEF u, t
    <2>. QED BY <1>1, <2>2 DEF PingRead
<1>4. /\ <<a, b, c>> # <<>> /\ Head(<<a, b, c>>) = a /\ Tail(<<a, b, c>>) = <<b, c>>
      /\ <<b, c>> # <<>> /\ Head(<<b, c>>) = b /\ Tail(<<b, c>>) = <<c>>
      /\ <<r, c>> # <<>> /\ Head(<<r, c>>) = r /\ Tail(<<r, c>>) = <<c>>
      /\ <<c>> # <<>> /\ Head(<<c>>) = c /\ Tail(<<c>>) = <<>>
    OBVIOUS
<1>. QED BY <1>1, <1>2, <1>3, <1>4

\* The pings among the first n of a plan that somebody answers
AnsweredOf(plan, n) == {q \in {plan[i] : i \in 1..n} :
    \E d \in I2CDevices : d.address = q[1] /\ <<d, q[2]>> \in answers}

\* A ping goes on, or the next one begins.
LEMMA PingSteps ==
    ASSUME WireInv, TransferInv, IsPing,
           Condition \/ Acknowledged \/ NotAcknowledged \/ WriteByte \/ ReadByte \/ NextPing
    PROVE  TransferInv'
<1>1. PICK plan \in Seq(Nat \X Operations) :
            /\ transfer.kind = "scan" => plan = AllPings
            /\ transfer.kind = "ping" => transfer.pings = {plan[i] : i \in 1..Len(plan)}
            /\ PlanInv(plan)
    BY DEF TransferInv, PingsInv
<1>2. /\ todo \in Seq(Nat \X Operations) /\ script \in Seq(Steps) /\ Pings(script)
      /\ MemoryInv /\ cells = at_start
    BY DEF TransferInv, PingsInv, WireInv, ScriptInv
<1>3. PICK p \in 1..Len(plan) : p = Len(plan) - Len(todo)
    BY <1>1 DEF PlanInv
<1>4. PICK ping \in Nat \X Operations : ping = plan[p]
    BY <1>3
<1>5. /\ \A i \in 1..Len(todo) : todo[i] = plan[p + i]
      /\ script \in {PingScript(ping), <<AddressOf(ping), stop>>, PingRead \o <<stop>>, <<stop>>, <<>>}
      /\ responses = AnsweredOf(plan, IF Pending THEN p - 1 ELSE p)
    BY <1>1, <1>3, <1>4 DEF PlanInv, Answered, AnsweredOf
<1>6. ASSUME transfer' = transfer, cells' = cells, at_start' = at_start, MemoryInv', PlanInv(plan)'
      PROVE  TransferInv'
    <2>1. PingsInv'
        BY <1>1, <1>2, <1>6 DEF PingsInv
    <2>2. KindInv' /\ ReadCallInv' /\ WriteCallInv'
        BY <1>6 DEF IsPing, KindInv, ReadCallInv, WriteCallInv
    <2>. QED BY <1>6, <2>1, <2>2 DEF TransferInv
<1>7. ASSUME todo' = todo,
             script' \in {<<AddressOf(ping), stop>>, PingRead \o <<stop>>, <<stop>>, <<>>},
             responses' = AnsweredOf(plan, IF Pending' THEN p - 1 ELSE p), answers' = answers
      PROVE  PlanInv(plan)'
    BY <1>3, <1>4, <1>5, <1>7 DEF PlanInv, Answered, AnsweredOf
<1>8. CASE Condition
    <2>1. /\ script # <<>> /\ Head(script).op \in {"start", "repeated_start", "stop"}
          /\ script' = Tail(script) /\ todo' = todo /\ responses' = responses /\ answers' = answers
          /\ transfer' = transfer /\ cells' = cells /\ pointer' = pointer /\ at_start' = at_start
        BY <1>8 DEF Condition, Comes, Step
    <2>2. MemoryInv'
        BY <1>2, <2>1 DEF MemoryInv
    <2>3. CASE script = PingScript(ping)
        <3>1. script' = <<AddressOf(ping), stop>> /\ Pending /\ Pending'
            BY <2>1, <2>3, RestsOfPing DEF Pending
        <3>. QED BY <1>5, <1>6, <1>7, <2>1, <2>2, <3>1
    <2>4. CASE script = <<stop>>
        <3>1. script' = <<>> /\ ~ Pending /\ ~ Pending'
            BY <2>1, <2>4, RestsOfPing DEF Pending
        <3>. QED BY <1>5, <1>6, <1>7, <2>1, <2>2, <3>1
    <2>. QED BY <1>5, <2>1, <2>3, <2>4, RestsOfPing
<1>9. CASE Acknowledged
    <2>1. /\ script # <<>> /\ Head(script).op = "address"
          /\ todo' = todo /\ answers' = answers
          /\ transfer' = transfer /\ cells' = cells /\ pointer' = pointer /\ at_start' = at_start
        BY <1>9 DEF Acknowledged, Comes
    <2>2. MemoryInv'
        BY <1>2, <2>1 DEF MemoryInv
    <2>3. script = <<AddressOf(ping), stop>>
        BY <1>5, <2>1, RestsOfPing
    <2>4. PICK d \in Addressed :
            /\ script' = IF driving' THEN PingRead \o Tail(script) ELSE Tail(script)
            /\ responses' = responses \cup {<<d.address, Head(script).operation>>}
        BY <1>9 DEF Acknowledged
    <2>5. /\ script' \in {PingRead \o <<stop>>, <<stop>>} /\ Pending /\ ~ Pending'
          /\ ToNumeric(Head(script).address) = ping[1] /\ Head(script).operation = ping[2]
        BY <2>1, <2>3, <2>4, RestsOfPing DEF Pending
    <2>6. d \in I2CDevices /\ d.address = ping[1] /\ <<d, ping[2]>> \in answers
        BY <2>5 DEF Addressed
    <2>7. responses' = responses \cup {ping}
        <3>1. ping = <<ping[1], ping[2]>>
            OBVIOUS
        <3>. QED BY <2>4, <2>5, <2>6, <3>1
    <2>8. AnsweredOf(plan, p) = AnsweredOf(plan, p - 1) \cup {ping}
        <3>1. 1..p = (1..(p - 1)) \cup {p}
            <4>1. p \in Nat \ {0}
                BY <1>3
            <4>. QED BY <4>1
        <3>. QED BY <1>4, <2>6, <3>1 DEF AnsweredOf
    <2>. QED BY <1>5, <1>6, <1>7, <2>1, <2>2, <2>5, <2>7, <2>8
<1>10. CASE NotAcknowledged
    <2>1. /\ script # <<>> /\ Head(script).op = "address" /\ Addressed = {}
          /\ script' = Tail(script) /\ responses' = responses
          /\ todo' = todo /\ answers' = answers
          /\ transfer' = transfer /\ cells' = cells /\ pointer' = pointer /\ at_start' = at_start
        BY <1>10 DEF NotAcknowledged, Comes, Step
    <2>2. MemoryInv'
        BY <1>2, <2>1 DEF MemoryInv
    <2>3. script = <<AddressOf(ping), stop>>
        BY <1>5, <2>1, RestsOfPing
    <2>4. /\ script' = <<stop>> /\ Pending /\ ~ Pending'
          /\ ToNumeric(Head(script).address) = ping[1] /\ Head(script).operation = ping[2]
        BY <2>1, <2>3, RestsOfPing DEF Pending
    <2>5. ~ \E d \in I2CDevices : d.address = ping[1] /\ <<d, ping[2]>> \in answers
        BY <2>1, <2>4 DEF Addressed
    <2>6. AnsweredOf(plan, p) = AnsweredOf(plan, p - 1)
        <3>1. 1..p = (1..(p - 1)) \cup {p}
            <4>1. p \in Nat \ {0}
                BY <1>3
            <4>. QED BY <4>1
        <3>. QED BY <1>4, <2>5, <3>1 DEF AnsweredOf
    <2>. QED BY <1>5, <1>6, <1>7, <2>1, <2>2, <2>4, <2>6
<1>11. CASE WriteByte
    <2>1. script # <<>> /\ Head(script).op = "write"
        BY <1>11 DEF WriteByte, Comes
    <2>. QED BY <1>5, <2>1, RestsOfPing
<1>12. CASE ReadByte
    <2>1. /\ script # <<>> /\ Head(script).op = "read"
          /\ script' = Tail(script) /\ todo' = todo /\ responses' = responses /\ answers' = answers
          /\ transfer' = transfer /\ cells' = cells /\ at_start' = at_start
          /\ pointer' = IF listening.width = 0 THEN pointer
                        ELSE [pointer EXCEPT ![listening] = pointer[listening] + 1]
        BY <1>12 DEF ReadByte, Comes, Step
    <2>2. MemoryInv'
        BY <1>2, <2>1 DEF MemoryInv
    <2>3. script = PingRead \o <<stop>>
        BY <1>5, <2>1, RestsOfPing
    <2>4. script' = <<stop>> /\ ~ Pending /\ ~ Pending'
        BY <2>1, <2>3, RestsOfPing DEF Pending
    <2>. QED BY <1>5, <1>6, <1>7, <2>1, <2>2, <2>4
<1>13. CASE NextPing
    <2>1. /\ script = <<>> /\ todo # <<>> /\ script' = PingScript(Head(todo)) /\ todo' = Tail(todo)
          /\ responses' = responses /\ answers' = answers
          /\ transfer' = transfer /\ cells' = cells /\ pointer' = pointer /\ at_start' = at_start
        BY <1>13 DEF NextPing
    <2>2. MemoryInv'
        BY <1>2, <2>1 DEF MemoryInv
    <2>3. /\ Len(todo) \in Nat \ {0} /\ Len(Tail(todo)) = Len(todo) - 1 /\ Head(todo) = todo[1]
          /\ Head(todo) \in Nat \X Operations
          /\ \A i \in 1..(Len(todo) - 1) : Tail(todo)[i] = todo[i + 1]
        BY <1>2, <2>1
    <2>4. Head(todo) = plan[p + 1]
        BY <1>5, <2>3
    <2>5. p + 1 \in 1..Len(plan) /\ Len(plan) - Len(Tail(todo)) = p + 1
        BY <1>3, <2>3
    <2>6. \A i \in 1..Len(Tail(todo)) : Tail(todo)[i] = plan[(p + 1) + i]
        <3>1. \A i \in 1..Len(Tail(todo)) : i \in 1..(Len(todo) - 1) /\ i + 1 \in 1..Len(todo)
                                            /\ p + (i + 1) = (p + 1) + i
            BY <1>3, <2>3
        <3>. QED BY <1>5, <2>3, <3>1
    <2>7. ~ Pending /\ Pending'
        BY <2>1, <2>3, RestsOfPing DEF Pending
    <2>8. PlanInv(plan)'
        <3>1. (p + 1) - 1 = p
            BY <1>3
        <3>. QED BY <1>5, <2>1, <2>4, <2>5, <2>6, <2>7, <3>1 DEF PlanInv, Answered, AnsweredOf
    <2>. QED BY <1>6, <2>1, <2>2, <2>8
<1>. QED BY <1>8, <1>9, <1>10, <1>11, <1>12, <1>13

-----------------------------------------------------------------------------
LEMMA ReadBeginsInv ==
    ASSUME WireInv, TransferInv,
           NEW d \in I2CDevices, NEW reg \in d.registers, NEW n \in BlockSizes,
           Block(d, reg, n) \subseteq d.registers, ReadCall(d, reg, n)
    PROVE  TransferInv'
<1>1. /\ transfer' = [kind |-> "read", device |-> d, register |-> reg, size |-> n]
      /\ script' = ReadScript(d, reg, n) /\ buffer' = <<>>
      /\ at_start' = cells /\ cells' = cells /\ pointer' = pointer
    BY DEF ReadCall, Begin
<1>2. PICK steps : steps = ReadScript(d, reg, n)
    OBVIOUS
<1>3. steps \in Seq(Steps) /\ n \in Nat \ {0} /\ Pointed(d) \in {0, 3, 4}
    BY <1>2, StepsOfRead DEF ReadsFrom
<1>4. IsRest(steps, steps) /\ Len(steps) - Len(steps) = 0
    BY <1>3, WholeIsRest
<1>5. ReadAt(d, reg, n, 0)'
    <2>1. 0 \notin 2..Pointed(d) /\ 0 \notin (Pointed(d) + 2)..(Pointed(d) + 2 + n) /\ 0 < Pointed(d) + 2
        BY <1>3
    <2>2. PointsTo(d, reg, 0)' \/ 0 \notin Pointed(d)..(Pointed(d) + 1)
        BY DeviceFacts DEF Pointed, PointsTo
    <2>3. First(0, ContentsFrom(d, reg)') = <<>>
        BY FirstGrows
    <2>. QED BY <1>1, <2>1, <2>2, <2>3 DEF ReadAt
<1>6. ReadCallInv'
    <2>1. IsRest(script, steps)' /\ (Len(steps) - Len(script))' = 0
        BY <1>1, <1>2, <1>4
    <2>2. ReadAt(d, reg, n, Len(steps) - Len(script))'
        BY <1>5, <2>1 DEF ReadAt
    <2>3. (transfer.device = d /\ transfer.register = reg /\ transfer.size = n)'
        BY <1>1
    <2>. QED BY <1>2, <2>1, <2>2, <2>3 DEF ReadCallInv
<1>7. MemoryInv'
    BY <1>1 DEF TransferInv, MemoryInv
<1>8. transfer'.kind = "read"
    BY <1>1
<1>. QED BY <1>6, <1>7, <1>8 DEF TransferInv, KindInv, WriteCallInv, PingsInv, IsPing

LEMMA WriteBeginsInv ==
    ASSUME WireInv, TransferInv,
           NEW d \in I2CDevices, NEW reg \in d.registers, NEW n \in BlockSizes,
           NEW data \in [1..n -> I2CBytes],
           Block(d, reg, n) \subseteq d.registers, WriteCall(d, reg, data)
    PROVE  TransferInv'
<1>1. /\ transfer' = [kind |-> "write", device |-> d, register |-> reg, data |-> data]
      /\ script' = WriteScript(d, reg, data)
      /\ at_start' = cells /\ cells' = cells /\ pointer' = pointer
    BY DEF WriteCall, Begin
<1>2. PICK steps : steps = WriteScript(d, reg, data)
    OBVIOUS
<1>3. steps \in Seq(Steps) /\ n \in Nat \ {0} /\ d.width + 2 \in 2..4
    BY <1>2, StepsOfWrite DEF WritesTo
<1>4. IsRest(steps, steps) /\ Len(steps) - Len(steps) = 0
    BY <1>3, WholeIsRest
<1>5. MemoryInv /\ MemoryInv'
    BY <1>1 DEF TransferInv, MemoryInv
<1>6. HasWritten(cells, cells, d, reg, data, 0)
    <2>1. reg \in Nat /\ reg..(reg + 0 - 1) = {}
        BY DeviceFacts
    <2>2. [r \in d.registers |->
            IF d.width = 0 THEN (IF 0 = 0 THEN cells[d][r] ELSE data[0])
            ELSE IF r \in reg..(reg + 0 - 1) THEN data[r - reg + 1] ELSE cells[d][r]]
          = [r \in d.registers |-> cells[d][r]]
        BY <2>1
    <2>3. cells[d] = [r \in d.registers |-> cells[d][r]] /\ cells = [e \in I2CDevices |-> cells[e]]
        BY <1>5 DEF MemoryInv
    <2>4. cells = [cells EXCEPT ![d] = cells[d]]
        BY <2>3
    <2>. QED BY <2>2, <2>3, <2>4 DEF HasWritten
<1>7. WriteAt(d, reg, data, n, 0)'
    <2>1. 0 \notin 2..(d.width + 2 + n) /\ 0 \notin (d.width + 2)..(d.width + 2 + n) /\ 0 < d.width + 2
        BY <1>3
    <2>2. HasWritten(cells, at_start, d, reg, data, 0)'
        BY <1>1, <1>6 DEF HasWritten
    <2>. QED BY <2>1, <2>2 DEF WriteAt
<1>8. WriteCallInv'
    <2>1. IsRest(script, steps)' /\ (Len(steps) - Len(script))' = 0
        BY <1>1, <1>2, <1>4
    <2>2. WriteAt(d, reg, data, n, Len(steps) - Len(script))'
        BY <1>7, <2>1 DEF WriteAt
    <2>3. (transfer.device = d /\ transfer.register = reg /\ transfer.data = data)'
        BY <1>1
    <2>. QED BY <1>2, <2>1, <2>2, <2>3 DEF WriteCallInv
<1>9. transfer'.kind = "write"
    BY <1>1
<1>. QED BY <1>5, <1>8, <1>9 DEF TransferInv, KindInv, ReadCallInv, PingsInv, IsPing

LEMMA PingsBeginInv ==
    ASSUME TransferInv, NEW begun, NEW plan \in Seq(Nat \X Operations), plan # <<>>,
           \/ begun.kind = "scan" /\ plan = AllPings
           \/ begun.kind = "ping" /\ begun.pings = {plan[i] : i \in 1..Len(plan)},
           Begin(begun, PingScript(plan[1]), Tail(plan))
    PROVE  TransferInv'
<1>1. /\ transfer' = begun /\ script' = PingScript(plan[1]) /\ todo' = Tail(plan) /\ responses' = {}
      /\ at_start' = cells /\ cells' = cells /\ pointer' = pointer
    BY DEF Begin
<1>2. /\ Len(plan) \in Nat \ {0} /\ Len(Tail(plan)) = Len(plan) - 1 /\ plan[1] \in Nat \X Operations
      /\ \A i \in 1..(Len(plan) - 1) : Tail(plan)[i] = plan[i + 1]
    OBVIOUS
<1>3. Pending'
    BY <1>1, <1>2, RestsOfPing DEF Pending
<1>4. PlanInv(plan)'
    <2>1. Len(plan) - Len(Tail(plan)) = 1 /\ 1 \in 1..Len(plan)
        BY <1>2
    <2>2. \A i \in 1..Len(Tail(plan)) : Tail(plan)[i] = plan[1 + i]
        BY <1>2
    <2>3. {plan[i] : i \in 1..(1 - 1)} = {}
        OBVIOUS
    <2>. QED BY <1>1, <1>3, <2>1, <2>2, <2>3 DEF PlanInv, Answered
<1>5. PingsInv'
    <2>1. (transfer.kind = "scan")' => plan = AllPings
        BY <1>1
    <2>2. (transfer.kind = "ping")' => (transfer.pings)' = {plan[i] : i \in 1..Len(plan)}
        BY <1>1
    <2>. QED BY <1>1, <1>4, <2>1, <2>2 DEF PingsInv
<1>6. MemoryInv'
    BY <1>1 DEF TransferInv, MemoryInv
<1>. QED BY <1>1, <1>5, <1>6 DEF TransferInv, KindInv, ReadCallInv, WriteCallInv

LEMMA CallsBeginInv ==
    ASSUME WireInv, TransferInv,
           \/ \E d \in I2CDevices : \E reg \in d.registers, n \in BlockSizes :
                /\ Block(d, reg, n) \subseteq d.registers
                /\ \/ ReadCall(d, reg, n)
                   \/ \E data \in [1..n -> I2CBytes] : WriteCall(d, reg, data)
           \/ \E a \in Address_Numeric :
                PingCall(a) \/ \E operation \in Operations : PingOneCall(a, operation)
           \/ ScanCall
    PROVE  TransferInv'
<1>1. ASSUME NEW a \in Address_Numeric, PingCall(a) PROVE TransferInv'
    <2> DEFINE plan == BothPings(a)
               begun == [kind |-> "ping", pings |-> {a} \X Operations]
    <2>1. a \in Nat
        BY DevicesAssumption DEF Address_Numeric
    <2>2. plan \in Seq(Nat \X Operations) /\ plan # <<>> /\ Len(plan) = 2
          /\ plan[1] = <<a, "READ">> /\ plan[2] = <<a, "WRITE">>
        BY <2>1 DEF BothPings, Operations
    <2>3. {plan[i] : i \in 1..2} = {plan[1], plan[2]}
        OBVIOUS
    <2>4. {a} \X Operations = {<<a, "READ">>, <<a, "WRITE">>}
        BY DEF Operations
    <2>5. begun.kind = "ping" /\ begun.pings = {plan[i] : i \in 1..Len(plan)}
        BY <2>2, <2>3, <2>4
    <2>6. Begin(begun, PingScript(plan[1]), Tail(plan))
        BY <1>1 DEF PingCall
    <2> HIDE DEF plan, begun
    <2>. QED BY <2>2, <2>5, <2>6, PingsBeginInv
<1>2. ASSUME NEW a \in Address_Numeric, NEW operation \in Operations, PingOneCall(a, operation)
      PROVE  TransferInv'
    <2> DEFINE plan == << <<a, operation>> >>
               begun == [kind |-> "ping", pings |-> {<<a, operation>>}]
    <2>1. a \in Nat
        BY DevicesAssumption DEF Address_Numeric
    <2>2. plan \in Seq(Nat \X Operations) /\ plan # <<>> /\ Len(plan) = 1 /\ plan[1] = <<a, operation>>
          /\ Tail(plan) = <<>>
        BY <2>1
    <2>3. {plan[i] : i \in 1..1} = {plan[1]}
        OBVIOUS
    <2>4. begun.kind = "ping" /\ begun.pings = {plan[i] : i \in 1..Len(plan)}
        BY <2>2, <2>3
    <2>5. Begin(begun, PingScript(<<a, operation>>), <<>>)
        BY <1>2 DEF PingOneCall
    <2> HIDE DEF plan, begun
    <2>6. Begin(begun, PingScript(plan[1]), Tail(plan))
        BY <2>2, <2>5
    <2>. QED BY <2>2, <2>4, <2>6, PingsBeginInv
<1>3. CASE ScanCall
    <2> DEFINE begun == [kind |-> "scan", pings |-> Address_Numeric \X Operations]
    <2>1. begun.kind = "scan" /\ Begin(begun, PingScript(AllPings[1]), Tail(AllPings))
        BY <1>3 DEF ScanCall
    <2> HIDE DEF begun
    <2>. QED BY <2>1, AllPingsTyped, PingsBeginInv
<1>. QED BY <1>1, <1>2, <1>3, ReadBeginsInv, WriteBeginsInv

LEMMA TransferInvInit == WireInit => TransferInv
<1> SUFFICES ASSUME WireInit PROVE TransferInv
    OBVIOUS
<1>1. MemoryInv
    BY DEF WireInit, MemoryInv
<1>2. transfer = NoTransfer /\ transfer.kind = "none"
    BY DEF WireInit, NoTransfer
<1>. QED BY <1>1, <1>2 DEF TransferInv, KindInv, ReadCallInv, WriteCallInv, PingsInv, IsPing

\* No call is in progress any more.
LEMMA EndKeepsInv ==
    ASSUME TransferInv, cells' = cells, pointer' = pointer,
           transfer' = NoTransfer \/ Fatal
    PROVE  TransferInv'
<1>1. MemoryInv'
    BY DEF TransferInv, MemoryInv
<1>2. transfer'.kind \in {"none", "fatal"} /\ KindInv'
    BY DEF Fatal, NoTransfer, KindInv
<1>. QED BY <1>1, <1>2 DEF TransferInv, ReadCallInv, WriteCallInv, PingsInv, IsPing

LEMMA TransferInvNext == WireInv /\ TransferInv /\ [WireNext]_wire => TransferInv'
<1> SUFFICES ASSUME WireInv, TransferInv, [WireNext]_wire PROVE TransferInv'
    OBVIOUS
<1>1. CASE Condition \/ Acknowledged \/ NotAcknowledged \/ WriteByte \/ ReadByte \/ NextPing
    <2>1. transfer # NoTransfer /\ (script # <<>> \/ todo # <<>>)
        BY <1>1 DEF Condition, Acknowledged, NotAcknowledged, WriteByte, ReadByte, NextPing, Comes
    <2>2. todo # <<>> => IsPing
        BY DEF WireInv, ScriptInv
    <2>3. transfer.kind \in {"read", "write", "ping", "scan"}
        BY <2>1, <2>2 DEF TransferInv, KindInv, IsPing
    <2>4. CASE IsPing
        BY <1>1, <2>4, PingSteps
    <2>5. CASE ~ IsPing
        <3>1. transfer.kind \in {"read", "write"}
            BY <2>3, <2>5 DEF IsPing
        <3>2. CASE NotAcknowledged
            BY <2>5, <3>2, EndKeepsInv DEF NotAcknowledged
        <3>3. CASE Condition \/ Acknowledged \/ ReadByte
            <4>1. /\ script' = Tail(script) /\ transfer' = transfer /\ at_start' = at_start
                BY <2>5, <3>3 DEF Condition, Acknowledged, ReadByte, Step
            <4>. QED BY <3>1, <3>3, <4>1, ReadCallSteps, WriteCallSteps
        <3>4. CASE WriteByte
            <4>1. CASE Fatal /\ UNCHANGED <<written, pointer, cells>>
                BY <4>1, EndKeepsInv
            <4>2. CASE Step /\ transfer' = transfer
                <5>1. script' = Tail(script) /\ at_start' = at_start
                    BY <3>4, <4>2 DEF WriteByte, Step
                <5>. QED BY <3>1, <3>4, <4>2, <5>1, ReadCallSteps, WriteCallSteps
            <4>. QED BY <3>4, <4>1, <4>2 DEF WriteByte
        <3>5. CASE NextPing
            BY <2>2, <2>5, <3>5 DEF NextPing
        <3>. QED BY <1>1, <3>2, <3>3, <3>4, <3>5
    <2>. QED BY <2>4, <2>5
<1>2. CASE Finish
    BY <1>2, EndKeepsInv DEF Finish
<1>3. CASE UNCHANGED wire
    <2>1. /\ cells' = cells /\ pointer' = pointer /\ at_start' = at_start /\ transfer' = transfer
          /\ script' = script /\ todo' = todo /\ responses' = responses /\ answers' = answers
          /\ listening' = listening /\ driving' = driving /\ written' = written /\ buffer' = buffer
        BY <1>3 DEF wire
    <2>2. MemoryInv' /\ KindInv'
        BY <2>1 DEF TransferInv, MemoryInv, KindInv
    <2>3. ReadCallInv'
        <3>1. ASSUME NEW d, NEW reg, NEW n, NEW steps,
                     ReadAt(d, reg, n, Len(steps) - Len(script))
              PROVE  ReadAt(d, reg, n, Len(steps) - Len(script))'
            <4>1. ContentsFrom(d, reg)' = ContentsFrom(d, reg)
                BY <2>1 DEF ContentsFrom
            <4>2. PICK k : k = Len(steps) - Len(script) /\ k = Len(steps) - Len(script')
                BY <2>1
            <4>3. ReadAt(d, reg, n, k)'
                BY <2>1, <3>1, <4>1, <4>2 DEF ReadAt, Received, PointsTo
            <4>. QED BY <4>2, <4>3 DEF ReadAt
        <3>2. ASSUME transfer.kind = "read" PROVE ReadCallInv'
            <4>1. PICK d \in I2CDevices : \E reg \in d.registers, n \in BlockSizes :
                    LET steps == ReadScript(d, reg, n) IN
                    /\ transfer.device = d /\ transfer.register = reg /\ transfer.size = n
                    /\ Block(d, reg, n) \subseteq d.registers
                    /\ IsRest(script, steps)
                    /\ ReadAt(d, reg, n, Len(steps) - Len(script))
                BY <3>2 DEF TransferInv, ReadCallInv
            <4>2. PICK reg \in d.registers, n \in BlockSizes :
                    LET steps == ReadScript(d, reg, n) IN
                    /\ transfer.device = d /\ transfer.register = reg /\ transfer.size = n
                    /\ Block(d, reg, n) \subseteq d.registers
                    /\ IsRest(script, steps)
                    /\ ReadAt(d, reg, n, Len(steps) - Len(script))
                BY <4>1
            <4>3. PICK steps : steps = ReadScript(d, reg, n)
                OBVIOUS
            <4>4. ReadAt(d, reg, n, Len(steps) - Len(script))'
                BY <3>1, <4>2, <4>3
            <4>5. IsRest(script, steps)'
                BY <2>1, <4>2, <4>3
            <4>. QED BY <2>1, <4>2, <4>3, <4>4, <4>5 DEF ReadCallInv
        <3>. QED BY <2>1, <3>2 DEF ReadCallInv
    <2>4. WriteCallInv'
        BY <2>1 DEF TransferInv, WriteCallInv, WriteAt, Received, PointsTo
    <2>5. PingsInv'
        BY <2>1 DEF TransferInv, PingsInv, PlanInv, Pending, Answered, IsPing
    <2>. QED BY <2>2, <2>3, <2>4, <2>5 DEF TransferInv
<1>. QED BY <1>1, <1>2, <1>3, CallsBeginInv DEF WireNext

LEMMA TransferInvImplies == WireInv /\ TransferInv => TransfersAreAtomic
<1> SUFFICES ASSUME WireInv, TransferInv, script = <<>>, transfer.kind \notin {"none", "fatal"}
             PROVE  TransfersAreAtomic
    BY DEF TransfersAreAtomic
<1>1. transfer.kind \in {"read", "write", "ping", "scan"}
    BY DEF TransferInv, KindInv, NoTransfer
<1>2. CASE transfer.kind = "read"
    <2>1. PICK d \in I2CDevices : \E reg \in d.registers, n \in BlockSizes :
            LET steps == ReadScript(d, reg, n) IN
            /\ transfer.device = d /\ transfer.register = reg /\ transfer.size = n
            /\ ReadAt(d, reg, n, Len(steps) - Len(script))
        BY <1>2 DEF TransferInv, ReadCallInv
    <2>2. PICK reg \in d.registers, n \in BlockSizes :
            LET steps == ReadScript(d, reg, n) IN
            /\ transfer.device = d /\ transfer.register = reg /\ transfer.size = n
            /\ ReadAt(d, reg, n, Len(steps) - Len(script))
        BY <2>1
    <2>3. PICK b : b = Pointed(d)
        OBVIOUS
    <2>4. Len(ReadScript(d, reg, n)) = b + n + 3 /\ n \in Nat \ {0} /\ b \in {0, 3, 4}
        BY <2>3, StepsOfRead DEF ReadsFrom
    <2>5. Len(ReadScript(d, reg, n)) - Len(script) = b + 3 + n
        BY <2>4
    <2>6. ReadAt(d, reg, n, b + 3 + n)
        BY <2>2, <2>5
    <2>7. cells = at_start /\ buffer = First(n, ContentsFrom(d, reg))
        <3>1. ~ (b + 3 + n < b + 2)
            BY <2>4
        <3>. QED BY <2>3, <2>6, <3>1 DEF ReadAt
    <2>8. buffer = [i \in 1..n |-> at_start[d][IF d.width = 0 THEN 0 ELSE reg + i - 1]]
        <3>1. \A i \in 1..n : i \in Nat
            BY <2>4
        <3>. QED BY <2>7, <3>1 DEF First, ContentsFrom
    <2>. QED BY <1>2, <2>2, <2>7, <2>8 DEF TransfersAreAtomic
<1>3. CASE transfer.kind = "write"
    <2>1. PICK d \in I2CDevices : \E reg \in d.registers, n \in BlockSizes : \E data \in [1..n -> I2CBytes] :
            LET steps == WriteScript(d, reg, data) IN
            /\ transfer.device = d /\ transfer.register = reg /\ transfer.data = data
            /\ WriteAt(d, reg, data, n, Len(steps) - Len(script))
        BY <1>3 DEF TransferInv, WriteCallInv
    <2>2. PICK reg \in d.registers, n \in BlockSizes : \E data \in [1..n -> I2CBytes] :
            LET steps == WriteScript(d, reg, data) IN
            /\ transfer.device = d /\ transfer.register = reg /\ transfer.data = data
            /\ WriteAt(d, reg, data, n, Len(steps) - Len(script))
        BY <2>1
    <2>3. PICK data \in [1..n -> I2CBytes] :
            LET steps == WriteScript(d, reg, data) IN
            /\ transfer.device = d /\ transfer.register = reg /\ transfer.data = data
            /\ WriteAt(d, reg, data, n, Len(steps) - Len(script))
        BY <2>2
    <2>4. PICK b : b = d.width + 2
        OBVIOUS
    <2>5. Len(WriteScript(d, reg, data)) = b + n + 1 /\ n \in Nat \ {0} /\ b \in 2..4
        BY <2>4, StepsOfWrite DEF WritesTo
    <2>6. Len(WriteScript(d, reg, data)) - Len(script) = b + n + 1 /\ Len(data) = n
        BY <2>5
    <2>7. WriteAt(d, reg, data, n, b + n + 1)
        BY <2>3, <2>6
    <2>8. HasWritten(cells, at_start, d, reg, data, n)
        <3>1. ~ (b + n + 1 < b)
            BY <2>5
        <3>. QED BY <2>4, <2>7, <3>1 DEF WriteAt
    <2>9. cells = [at_start EXCEPT ![d] =
                    [r \in d.registers |->
                        IF d.width = 0 THEN data[n]
                        ELSE IF r \in Block(d, reg, n) THEN data[r - reg + 1] ELSE at_start[d][r]]]
        <3>1. d.width # 0 => Block(d, reg, n) = reg..(reg + n - 1)
            BY DEF Block
        <3>2. [r \in d.registers |->
                    IF d.width = 0 THEN (IF n = 0 THEN at_start[d][r] ELSE data[n])
                    ELSE IF r \in reg..(reg + n - 1) THEN data[r - reg + 1] ELSE at_start[d][r]]
              = [r \in d.registers |->
                    IF d.width = 0 THEN data[n]
                    ELSE IF r \in Block(d, reg, n) THEN data[r - reg + 1] ELSE at_start[d][r]]
            BY <2>5, <3>1
        <3>. QED BY <2>8, <3>2 DEF HasWritten
    <2>. QED BY <1>3, <2>3, <2>6, <2>9 DEF TransfersAreAtomic
<1>4. CASE IsPing
    <2>1. PICK plan \in Seq(Nat \X Operations) :
            /\ transfer.kind = "scan" => plan = AllPings
            /\ transfer.kind = "ping" => transfer.pings = {plan[i] : i \in 1..Len(plan)}
            /\ PlanInv(plan)
        BY <1>4 DEF TransferInv, PingsInv
    <2>2. cells = at_start /\ responses = Answered({plan[i] : i \in 1..(Len(plan) - Len(todo))})
        BY <1>4, <2>1 DEF TransferInv, PingsInv, PlanInv, Pending
    <2>3. CASE transfer.kind = "ping"
        <3>1. ASSUME todo = <<>> PROVE Len(plan) - Len(todo) = Len(plan)
            BY <3>1
        <3>2. todo = <<>> => responses = Answered(transfer.pings)
            BY <2>1, <2>2, <2>3, <3>1
        <3>. QED BY <2>2, <2>3, <3>2 DEF TransfersAreAtomic
    <2>4. CASE transfer.kind = "scan"
        <3>1. responses = Answered(Made)
            BY <2>1, <2>2, <2>4 DEF Made
        <3>. QED BY <2>2, <2>4, <3>1 DEF TransfersAreAtomic
    <2>. QED BY <1>4, <2>3, <2>4 DEF IsPing
<1>. QED BY <1>1, <1>2, <1>3, <1>4 DEF IsPing

\* For any devices at different addresses, any registers and block sizes:
\* a call of Device::read() or write(), ping() or scan() that has run to its
\* end has read, written or found what it was to, and changed nothing else.
THEOREM TransfersAreWhole == WireSpec => []TransfersAreAtomic
<1>1. WireSpec => []WireInv
    BY WireInvInit, WireInvNext, PTL DEF WireSpec
<1>2. WireSpec => []TransferInv
    BY <1>1, TransferInvInit, TransferInvNext, PTL DEF WireSpec
<1>. QED BY <1>1, <1>2, TransferInvImplies, PTL

-----------------------------------------------------------------------------
(* SPIBus, for any sockets, buffer offsets that do not overlap, bytes and  *)
(* noise.  The registers of the W5500 and of the expanders lie in cells    *)
(* that no two of them share, because of the tables of the driver; the     *)
(* header of a frame tells the chip which cell it begins at; and so every  *)
(* byte that follows comes from or goes to a cell of the register that the *)
(* call is about.  When the last one has, the call has read the register,  *)
(* or the register has what the call was given.                            *)

(* The register map.                                                       *)

RegisterTypes == {"8_bit", "16_bit", "4_bytes", "6_bytes"}

\* The registers of a table lie from one offset to before another one, side
\* by side.
Table(registers, first, last) ==
    \A x \in DOMAIN registers :
        /\ registers[x].type \in RegisterTypes
        /\ registers[x].offset \in first..last
        /\ registers[x].offset + Width(registers[x].type) =< last
        /\ \A y \in DOMAIN registers :
              x = y \/ registers[x].offset + Width(registers[x].type) =< registers[y].offset
                    \/ registers[y].offset + Width(registers[y].type) =< registers[x].offset

LEMMA WidthIs ==
    /\ Width("8_bit") = 1
    /\ Width("16_bit") = 2
    /\ Width("4_bytes") = 4
    /\ Width("6_bytes") = 6
BY DEF Width

LEMMA TablesJoin ==
    ASSUME NEW f, NEW g, NEW first \in Nat, NEW middle \in Nat, NEW last \in Nat,
           first =< middle, middle =< last, Table(f, first, middle), Table(g, middle, last)
    PROVE  Table(Joined(f, g), first, last)
<1> SUFFICES ASSUME NEW x \in DOMAIN Joined(f, g), NEW y \in DOMAIN Joined(f, g)
    PROVE  /\ Joined(f, g)[x].type \in RegisterTypes
           /\ Joined(f, g)[x].offset \in first..last
           /\ Joined(f, g)[x].offset + Width(Joined(f, g)[x].type) =< last
           /\ x = y \/ Joined(f, g)[x].offset + Width(Joined(f, g)[x].type) =< Joined(f, g)[y].offset
                    \/ Joined(f, g)[y].offset + Width(Joined(f, g)[y].type) =< Joined(f, g)[x].offset
    BY DEF Table
<1>1. /\ x \in DOMAIN f \cup DOMAIN g
      /\ y \in DOMAIN f \cup DOMAIN g
      /\ Joined(f, g)[x] = IF x \in DOMAIN f THEN f[x] ELSE g[x]
      /\ Joined(f, g)[y] = IF y \in DOMAIN f THEN f[y] ELSE g[y]
    BY DEF Joined
<1>2. \A t \in RegisterTypes : Width(t) \in 1..6
    BY WidthIs DEF RegisterTypes
<1> QED
    BY <1>1, <1>2 DEF Table

LEMMA AddressTable == Table(AddressRegisters, 0, 19)
BY WidthIs DEF Table, AddressRegisters, At, RegisterTypes

LEMMA InterruptTable == Table(InterruptRegisters, 19, 25)
BY WidthIs DEF Table, InterruptRegisters, At, RegisterTypes

LEMMA RetransmissionTable == Table(RetransmissionRegisters, 25, 40)
BY WidthIs DEF Table, RetransmissionRegisters, At, RegisterTypes

LEMMA StatusTable == Table(StatusRegisters, 40, 58)
BY WidthIs DEF Table, StatusRegisters, At, RegisterTypes

LEMMA CommonTable == Table(CommonRegisters, 0, 58)
<1>1. Table(Joined(AddressRegisters, InterruptRegisters), 0, 25)
    BY AddressTable, InterruptTable, TablesJoin
<1>2. Table(Joined(RetransmissionRegisters, StatusRegisters), 25, 58)
    BY RetransmissionTable, StatusTable, TablesJoin
<1> QED
    BY <1>1, <1>2, TablesJoin DEF CommonRegisters

LEMMA SocketControlTable == Table(SocketControlRegisters, 0, 2)
BY WidthIs DEF Table, SocketControlRegisters, At, RegisterTypes

LEMMA SocketStatusTable == Table(SocketStatusRegisters, 2, 4)
BY WidthIs DEF Table, SocketStatusRegisters, At, RegisterTypes

LEMMA SocketAddressTable == Table(SocketAddressRegisters, 4, 23)
BY WidthIs DEF Table, SocketAddressRegisters, At, RegisterTypes

LEMMA SocketBufferTable == Table(SocketBufferRegisters, 23, 44)
BY WidthIs DEF Table, SocketBufferRegisters, At, RegisterTypes

LEMMA SocketOptionTable == Table(SocketOptionRegisters, 44, 49)
BY WidthIs DEF Table, SocketOptionRegisters, At, RegisterTypes

LEMMA SocketTable == Table(SocketRegisters, 0, 49)
<1>1. Table(Joined(SocketControlRegisters, SocketStatusRegisters), 0, 4)
    BY SocketControlTable, SocketStatusTable, TablesJoin
<1>2. Table(Joined(SocketBufferRegisters, SocketOptionRegisters), 23, 49)
    BY SocketBufferTable, SocketOptionTable, TablesJoin
<1>3. Table(Joined(SocketAddressRegisters, Joined(SocketBufferRegisters, SocketOptionRegisters)), 4, 49)
    BY <1>2, SocketAddressTable, TablesJoin
<1> QED
    BY <1>1, <1>3, TablesJoin DEF SocketRegisters

LEMMA ExpanderTable ==
    /\ \A x \in DOMAIN ExpanderRegisters : ExpanderRegisters[x] \in 0..10
    /\ \A x, y \in DOMAIN ExpanderRegisters :
          ExpanderRegisters[x] = ExpanderRegisters[y] => x = y
BY DEF ExpanderRegisters

-----------------------------------------------------------------------------
(* The constants.                                                          *)

Octets == 0..255

LEMMA SocketsAre == \A s \in SpiSockets : s \in 0..7
<1>1. SpiSockets \subseteq 0..7
    BY SpiAssumption, Zenon
<1> QED
    BY <1>1

LEMMA OffsetsAre ==
    /\ BufferOffsets \subseteq Nat
    /\ \A a, b \in BufferOffsets : b # a + 1
<1>1. BufferOffsets \subseteq 0..(BYTES * BYTES - 2)
    BY SpiAssumption, Zenon
<1>2. \A a, b \in BufferOffsets : b # a + 1
    BY SpiAssumption, Zenon
<1> QED
    BY <1>1, <1>2

LEMMA PatternsAre ==
    ASSUME NEW p \in Patterns, NEW k \in 1..6
    PROVE  p[k] \in Octets
<1>1. Patterns \subseteq [1..6 -> 0..(BYTES - 1)]
    BY SpiAssumption, Zenon
<1>2. BYTES - 1 = 255
    BY DEF BYTES
<1> QED
    BY <1>1, <1>2 DEF Octets

LEMMA JunkIs == Junk \subseteq Octets
<1>1. Junk \subseteq 0..(BYTES - 1)
    BY SpiAssumption, Zenon
<1>2. BYTES - 1 = 255
    BY DEF BYTES
<1> QED
    BY <1>1, <1>2 DEF Octets

-----------------------------------------------------------------------------
(* The names, and the cells of the chips that they stand for.              *)

\* The five kinds of names, told apart by their first component.
LEMMA NameKinds ==
    ASSUME NEW n \in Names
    PROVE  \/ /\ n[1] = "common"
              /\ n = <<"common", n[2]>>
              /\ n[2] \in DOMAIN CommonRegisters
           \/ /\ n[1] = "socket"
              /\ n = <<"socket", n[2], n[3]>>
              /\ n[2] \in DOMAIN SocketRegisters
              /\ n[3] \in SpiSockets
           \/ /\ n[1] = "buffer"
              /\ n = <<"buffer", n[2], n[3], n[4]>>
              /\ n[2] \in {"rx_buffer", "tx_buffer"}
              /\ n[3] \in SpiSockets
              /\ n[4] \in BufferOffsets
           \/ /\ n[1] = "expander"
              /\ n = <<"expander", n[2], n[3]>>
              /\ n[2] \in DOMAIN ExpanderRegisters
              /\ n[3] \in ExpanderAddresses
           \/ /\ n[1] = "sample"
              /\ n = <<"sample", n[2]>>
              /\ n[2] \in Inputs
              /\ n \in Sample
<1>1. CASE n \in Common
    BY <1>1 DEF Common
<1>2. CASE n \in Socket
    BY <1>2 DEF Socket
<1>3. CASE n \in Buffer
    BY <1>3 DEF Buffer
<1>4. CASE n \in Expander
    BY <1>4 DEF Expander
<1>5. CASE n \in Sample
    BY <1>5 DEF Sample
<1> QED
    BY <1>1, <1>2, <1>3, <1>4, <1>5 DEF Names

\* The registers that lie in the memory of a chip.
StoredNames == Names \ Sample

LEMMA StoredKinds ==
    ASSUME NEW n \in Names
    PROVE  n \in Sample <=> n[1] = "sample"
BY NameKinds DEF Sample

BlockOf(n) ==
    IF n[1] = "common" THEN 0
    ELSE IF n[1] = "socket" THEN 4 * n[3] + 1
    ELSE IF n[1] = "buffer" THEN 4 * n[3] + BLOCK[n[2]]
    ELSE n[3]

OffsetOf(n) ==
    IF n[1] = "common" THEN CommonRegisters[n[2]].offset
    ELSE IF n[1] = "socket" THEN SocketRegisters[n[2]].offset
    ELSE IF n[1] = "buffer" THEN n[4]
    ELSE ExpanderRegisters[n[2]]

SizeOf(n) == Size(Type[n])

LEMMA TypeOfName ==
    ASSUME NEW n \in Names
    PROVE  /\ n[1] = "common" => Type[n] = CommonRegisters[n[2]].type
           /\ n[1] = "socket" => Type[n] = SocketRegisters[n[2]].type
           /\ n[1] = "buffer" => Type[n] = "2_bytes"
           /\ n[1] = "expander" => Type[n] = "8_bit"
           /\ n[1] = "sample" => Type[n] = "8_bit"
BY DEF Type

LEMMA SizeIs ==
    /\ Size("8_bit") = 1
    /\ Size("16_bit") = 2
    /\ Size("2_bytes") = 2
    /\ Size("4_bytes") = 4
    /\ Size("6_bytes") = 6
BY WidthIs DEF Size

LEMMA SizeOfName ==
    ASSUME NEW n \in Names
    PROVE  /\ n[1] = "common" => SizeOf(n) = Width(CommonRegisters[n[2]].type)
           /\ n[1] = "socket" => SizeOf(n) = Width(SocketRegisters[n[2]].type)
           /\ n[1] = "buffer" => SizeOf(n) = 2
           /\ n[1] = "expander" => SizeOf(n) = 1
           /\ SizeOf(n) \in 1..6
           /\ Type[n] \in RegisterTypes \cup {"2_bytes"}
           /\ Type[n] = "16_bit" => SizeOf(n) = 2
<1>1. \A t \in RegisterTypes : Size(t) = Width(t) /\ Size(t) \in 1..6
    BY SizeIs, WidthIs DEF RegisterTypes
<1>2. \A x \in DOMAIN CommonRegisters : CommonRegisters[x].type \in RegisterTypes
    BY CommonTable DEF Table
<1>3. \A x \in DOMAIN SocketRegisters : SocketRegisters[x].type \in RegisterTypes
    BY SocketTable DEF Table
<1>4. Type[n] \in RegisterTypes \cup {"2_bytes"}
    BY <1>2, <1>3, NameKinds, TypeOfName DEF RegisterTypes
<1>5. SizeOf(n) \in 1..6
    BY <1>1, <1>4, SizeIs DEF SizeOf
<1>6. n[1] = "common" => SizeOf(n) = Width(CommonRegisters[n[2]].type)
    BY <1>1, <1>2, NameKinds, TypeOfName DEF SizeOf
<1>7. n[1] = "socket" => SizeOf(n) = Width(SocketRegisters[n[2]].type)
    BY <1>1, <1>3, NameKinds, TypeOfName DEF SizeOf
<1>8. n[1] = "buffer" => SizeOf(n) = 2
    BY TypeOfName, SizeIs DEF SizeOf
<1>9. n[1] = "expander" => SizeOf(n) = 1
    BY TypeOfName, SizeIs DEF SizeOf
<1>10. Type[n] = "16_bit" => SizeOf(n) = 2
    BY SizeIs DEF SizeOf
<1> QED
    BY <1>4, <1>5, <1>6, <1>7, <1>8, <1>9, <1>10

\* The cells of a register follow each other in a block of its chip.
LEMMA CellsAre ==
    ASSUME NEW n \in StoredNames
    PROVE  Cells[n] = [k \in 1..SizeOf(n) |-> <<Chip(n), BlockOf(n), OffsetOf(n) + k - 1>>]
<1> DEFINE From(block, offset) == [k \in 1..SizeOf(n) |-> <<"w5500", block, offset + k - 1>>]
<1>0. n \in Names /\ n[1] # "sample"
    BY StoredKinds DEF StoredNames
<1>1. CASE n[1] = "common"
    <2>1. Cells[n] = From(0, CommonRegisters[n[2]].offset)
        BY <1>0, <1>1 DEF Cells, StoredNames, SizeOf
    <2> QED
        BY <2>1, <1>1 DEF Chip, BlockOf, OffsetOf
<1>2. CASE n[1] = "socket"
    <2>1. Cells[n] = From(4 * n[3] + 1, SocketRegisters[n[2]].offset)
        BY <1>0, <1>2 DEF Cells, StoredNames, SizeOf
    <2> QED
        BY <2>1, <1>2 DEF Chip, BlockOf, OffsetOf
<1>3. CASE n[1] = "buffer"
    <2>1. Cells[n] = From(4 * n[3] + BLOCK[n[2]], n[4])
        BY <1>0, <1>3 DEF Cells, StoredNames, SizeOf
    <2> QED
        BY <2>1, <1>3 DEF Chip, BlockOf, OffsetOf
<1>4. CASE n[1] = "expander"
    <2>1. Cells[n] = << <<"mcp23s08", n[3], ExpanderRegisters[n[2]]>> >>
        BY <1>0, <1>4 DEF Cells, StoredNames
    <2>2. SizeOf(n) = 1 /\ ExpanderRegisters[n[2]] \in Int
        BY <1>0, <1>4, SizeOfName, NameKinds, ExpanderTable
    <2> QED
        BY <2>1, <2>2, <1>4 DEF Chip, BlockOf, OffsetOf
<1> QED
    BY <1>0, <1>1, <1>2, <1>3, <1>4, NameKinds

\* Where a register may lie: its header has room for the offset and the block.
LEMMA TableBounds ==
    ASSUME NEW T, NEW last \in Nat, Table(T, 0, last), NEW x \in DOMAIN T
    PROVE  /\ T[x].offset \in Nat
           /\ Width(T[x].type) \in 1..6
           /\ T[x].offset + Width(T[x].type) =< last
<1>1. T[x].type \in RegisterTypes /\ T[x].offset \in 0..last /\ T[x].offset + Width(T[x].type) =< last
    BY DEF Table
<1>2. \A t \in RegisterTypes : Width(t) \in 1..6
    BY WidthIs DEF RegisterTypes
<1> QED
    BY <1>1, <1>2

LEMMA CommonPlace ==
    ASSUME NEW n \in Names, n[1] = "common"
    PROVE  /\ BlockOf(n) = 0
           /\ OffsetOf(n) = CommonRegisters[n[2]].offset
           /\ SizeOf(n) = Width(CommonRegisters[n[2]].type)
           /\ OffsetOf(n) \in Nat
           /\ OffsetOf(n) + SizeOf(n) =< 58
<1>1. n[2] \in DOMAIN CommonRegisters
    BY NameKinds
<1>2. BlockOf(n) = 0 /\ OffsetOf(n) = CommonRegisters[n[2]].offset
    BY DEF BlockOf, OffsetOf
<1> QED
    BY <1>1, <1>2, SizeOfName, TableBounds, CommonTable

LEMMA SocketPlace ==
    ASSUME NEW n \in Names, n[1] = "socket"
    PROVE  /\ n[3] \in 0..7
           /\ BlockOf(n) = 4 * n[3] + 1
           /\ OffsetOf(n) = SocketRegisters[n[2]].offset
           /\ SizeOf(n) = Width(SocketRegisters[n[2]].type)
           /\ OffsetOf(n) \in Nat
           /\ OffsetOf(n) + SizeOf(n) =< 49
<1>1. n[2] \in DOMAIN SocketRegisters /\ n[3] \in 0..7
    BY NameKinds, SocketsAre
<1>2. BlockOf(n) = 4 * n[3] + 1 /\ OffsetOf(n) = SocketRegisters[n[2]].offset
    BY DEF BlockOf, OffsetOf
<1> QED
    BY <1>1, <1>2, SizeOfName, TableBounds, SocketTable

LEMMA BufferPlace ==
    ASSUME NEW n \in Names, n[1] = "buffer"
    PROVE  /\ n[3] \in 0..7
           /\ n[2] = "tx_buffer" => BlockOf(n) = 4 * n[3] + 2
           /\ n[2] = "rx_buffer" => BlockOf(n) = 4 * n[3] + 3
           /\ n[2] \in {"rx_buffer", "tx_buffer"}
           /\ OffsetOf(n) = n[4]
           /\ SizeOf(n) = 2
           /\ n[4] \in BufferOffsets
           /\ OffsetOf(n) \in Nat
<1>1. n[2] \in {"rx_buffer", "tx_buffer"} /\ n[3] \in 0..7 /\ n[4] \in BufferOffsets
    BY NameKinds, SocketsAre
<1>2. BlockOf(n) = 4 * n[3] + BLOCK[n[2]] /\ OffsetOf(n) = n[4]
    BY DEF BlockOf, OffsetOf
<1>3. BLOCK["tx_buffer"] = 2 /\ BLOCK["rx_buffer"] = 3
    BY DEF BLOCK
<1>5. SizeOf(n) = 2
    BY SizeOfName
<1>6. /\ n[2] = "tx_buffer" => BlockOf(n) = 4 * n[3] + 2
      /\ n[2] = "rx_buffer" => BlockOf(n) = 4 * n[3] + 3
    BY <1>2, <1>3
<1>7. n[4] \in Nat
    BY <1>1, OffsetsAre
<1> QED
    BY <1>1, <1>2, <1>5, <1>6, <1>7

LEMMA ExpanderPlace ==
    ASSUME NEW n \in Names, n[1] = "expander"
    PROVE  /\ n[3] \in {32, 33}
           /\ BlockOf(n) = n[3]
           /\ OffsetOf(n) = ExpanderRegisters[n[2]]
           /\ SizeOf(n) = 1
           /\ OffsetOf(n) \in 0..10
<1>1. n[2] \in DOMAIN ExpanderRegisters /\ n[3] \in {32, 33}
    BY NameKinds DEF ExpanderAddresses
<1>2. BlockOf(n) = n[3] /\ OffsetOf(n) = ExpanderRegisters[n[2]]
    BY DEF BlockOf, OffsetOf
<1>3. SizeOf(n) = 1
    BY SizeOfName
<1> QED
    BY <1>1, <1>2, <1>3, ExpanderTable

LEMMA PlaceOf ==
    ASSUME NEW n \in StoredNames
    PROVE  /\ n \in Names
           /\ n[1] \in {"common", "socket", "buffer", "expander"}
           /\ OffsetOf(n) \in Nat
           /\ SizeOf(n) \in 1..6
           /\ BlockOf(n) \in Nat
<1>1. n \in Names /\ n[1] # "sample" /\ SizeOf(n) \in 1..6
    BY StoredKinds, SizeOfName DEF StoredNames
<1>2. CASE n[1] = "common"
    BY <1>1, <1>2, CommonPlace
<1>3. CASE n[1] = "socket"
    BY <1>1, <1>3, SocketPlace
<1>4. CASE n[1] = "buffer"
    BY <1>1, <1>4, BufferPlace
<1>5. CASE n[1] = "expander"
    BY <1>1, <1>5, ExpanderPlace
<1> QED
    BY <1>1, <1>2, <1>3, <1>4, <1>5, NameKinds

LEMMA ChipOf ==
    ASSUME NEW n \in Names
    PROVE  /\ Chip(n) \in {"w5500", "mcp23s08", "mcp3008"}
           /\ Chip(n) = "w5500" <=> n[1] \in {"common", "socket", "buffer"}
           /\ Chip(n) = "mcp23s08" <=> n[1] = "expander"
           /\ Chip(n) = "mcp3008" <=> n[1] = "sample"
<1>1. /\ n[1] = "expander" => Chip(n) = "mcp23s08"
      /\ n[1] = "sample" => Chip(n) = "mcp3008"
      /\ n[1] \notin {"expander", "sample"} => Chip(n) = "w5500"
    BY DEF Chip
<1> QED
    BY <1>1, NameKinds

\* The block of a register of the W5500 tells what it belongs to.
LEMMA BlocksTell ==
    ASSUME NEW m \in StoredNames, NEW n \in StoredNames, Chip(m) = Chip(n), BlockOf(m) = BlockOf(n)
    PROVE  /\ m[1] = n[1]
           /\ m[1] = "socket" => m[3] = n[3]
           /\ m[1] = "buffer" => m[3] = n[3] /\ m[2] = n[2]
           /\ m[1] = "expander" => m[3] = n[3]
<1>1. /\ m \in Names /\ m[1] \in {"common", "socket", "buffer", "expander"}
      /\ n \in Names /\ n[1] \in {"common", "socket", "buffer", "expander"}
    BY PlaceOf
<1>2. m[1] = "expander" <=> n[1] = "expander"
    BY <1>1, ChipOf
<1>3. CASE m[1] = "expander"
    BY <1>1, <1>2, <1>3, ExpanderPlace
<1>4. CASE m[1] = "common"
    BY <1>1, <1>2, <1>4, CommonPlace, SocketPlace, BufferPlace
<1>5. CASE m[1] = "socket"
    BY <1>1, <1>2, <1>5, CommonPlace, SocketPlace, BufferPlace
<1>6. CASE m[1] = "buffer"
    BY <1>1, <1>2, <1>6, CommonPlace, SocketPlace, BufferPlace
<1> QED
    BY <1>1, <1>3, <1>4, <1>5, <1>6

LEMMA TableIsDisjoint ==
    ASSUME NEW T, NEW last \in Nat, Table(T, 0, last), NEW x \in DOMAIN T, NEW y \in DOMAIN T,
           NEW i \in 1..Width(T[x].type), NEW j \in 1..Width(T[y].type),
           T[x].offset + i = T[y].offset + j
    PROVE  x = y
<1>1. /\ T[x].offset \in Nat /\ Width(T[x].type) \in 1..6
      /\ T[y].offset \in Nat /\ Width(T[y].type) \in 1..6
    BY TableBounds
<1>2. x = y \/ T[x].offset + Width(T[x].type) =< T[y].offset
            \/ T[y].offset + Width(T[y].type) =< T[x].offset
    BY DEF Table
<1> QED
    BY <1>1, <1>2

LEMMA TripleParts ==
    ASSUME NEW a, NEW b, NEW c, NEW d, NEW e, NEW f, <<a, b, c>> = <<d, e, f>>
    PROVE  a = d /\ b = e /\ c = f
OBVIOUS

\* No two registers share a cell, and no register has a cell twice.
LEMMA CellsAreDisjoint ==
    ASSUME NEW m \in StoredNames, NEW n \in StoredNames,
           NEW i \in 1..SizeOf(m), NEW j \in 1..SizeOf(n),
           Cells[m][i] = Cells[n][j]
    PROVE  m = n /\ i = j
<1>1. /\ m \in Names /\ OffsetOf(m) \in Nat /\ SizeOf(m) \in 1..6
      /\ m[1] \in {"common", "socket", "buffer", "expander"}
    BY PlaceOf
<1>2. /\ n \in Names /\ OffsetOf(n) \in Nat /\ SizeOf(n) \in 1..6
      /\ n[1] \in {"common", "socket", "buffer", "expander"}
    BY PlaceOf
<1>3. Cells[m][i] = <<Chip(m), BlockOf(m), OffsetOf(m) + i - 1>>
    BY CellsAre
<1>4. Cells[n][j] = <<Chip(n), BlockOf(n), OffsetOf(n) + j - 1>>
    BY CellsAre
<1>5. Chip(m) = Chip(n) /\ BlockOf(m) = BlockOf(n) /\ OffsetOf(m) + i - 1 = OffsetOf(n) + j - 1
    <2>1. <<Chip(m), BlockOf(m), OffsetOf(m) + i - 1>> = <<Chip(n), BlockOf(n), OffsetOf(n) + j - 1>>
        BY <1>3, <1>4, Zenon
    <2> QED
        BY <2>1, TripleParts, Zenon
<1>6. OffsetOf(m) + i = OffsetOf(n) + j
    BY <1>1, <1>2, <1>5
<1>7. /\ m[1] = n[1]
      /\ m[1] = "socket" => m[3] = n[3]
      /\ m[1] = "buffer" => m[3] = n[3] /\ m[2] = n[2]
      /\ m[1] = "expander" => m[3] = n[3]
    BY <1>5, BlocksTell
<1>8. ASSUME m[1] = "common" PROVE m = n
    <2>1. m[2] \in DOMAIN CommonRegisters /\ n[2] \in DOMAIN CommonRegisters
        BY <1>1, <1>2, <1>7, <1>8, NameKinds
    <2>2. /\ i \in 1..Width(CommonRegisters[m[2]].type) /\ j \in 1..Width(CommonRegisters[n[2]].type)
          /\ CommonRegisters[m[2]].offset + i = CommonRegisters[n[2]].offset + j
        BY <1>1, <1>2, <1>6, <1>7, <1>8, CommonPlace
    <2>3. m[2] = n[2]
        BY <2>1, <2>2, TableIsDisjoint, CommonTable
    <2>4. m = <<"common", m[2]>> /\ n = <<"common", n[2]>>
        BY <1>1, <1>2, <1>7, <1>8, NameKinds
    <2> QED
        BY <2>3, <2>4, Zenon
<1>9. ASSUME m[1] = "socket" PROVE m = n
    <2>1. m[2] \in DOMAIN SocketRegisters /\ n[2] \in DOMAIN SocketRegisters
        BY <1>1, <1>2, <1>7, <1>9, NameKinds
    <2>2. /\ i \in 1..Width(SocketRegisters[m[2]].type) /\ j \in 1..Width(SocketRegisters[n[2]].type)
          /\ SocketRegisters[m[2]].offset + i = SocketRegisters[n[2]].offset + j
        BY <1>1, <1>2, <1>6, <1>7, <1>9, SocketPlace
    <2>3. m[2] = n[2]
        BY <2>1, <2>2, TableIsDisjoint, SocketTable
    <2>4. m = <<"socket", m[2], m[3]>> /\ n = <<"socket", n[2], n[3]>>
        BY <1>1, <1>2, <1>7, <1>9, NameKinds
    <2> QED
        BY <1>7, <1>9, <2>3, <2>4, Zenon
<1>10. ASSUME m[1] = "buffer" PROVE m = n
    <2>0. n[1] = "buffer"
        BY <1>7, <1>10
    <2>1. /\ m[4] \in BufferOffsets /\ SizeOf(m) = 2 /\ OffsetOf(m) = m[4]
          /\ n[4] \in BufferOffsets /\ SizeOf(n) = 2 /\ OffsetOf(n) = n[4]
        <3>1. \A x \in Names : x[1] = "buffer" =>
                 x[4] \in BufferOffsets /\ SizeOf(x) = 2 /\ OffsetOf(x) = x[4]
            BY BufferPlace, Zenon
        <3> QED
            BY <1>1, <1>2, <1>10, <2>0, <3>1, Zenon
    <2>2. i \in 1..2 /\ j \in 1..2 /\ m[4] + i = n[4] + j
        BY <1>6, <2>1
    <2>3. m[4] # n[4] + 1 /\ n[4] # m[4] + 1
        BY <2>1, OffsetsAre
    <2>4. m[4] = n[4]
        BY <1>1, <1>2, <2>1, <2>2, <2>3
    <2>5. m = <<"buffer", m[2], m[3], m[4]>> /\ n = <<"buffer", n[2], n[3], n[4]>>
        BY <1>1, <1>2, <1>7, <1>10, NameKinds
    <2> QED
        BY <1>7, <1>10, <2>4, <2>5, Zenon
<1>11. ASSUME m[1] = "expander" PROVE m = n
    <2>1. m[2] \in DOMAIN ExpanderRegisters /\ n[2] \in DOMAIN ExpanderRegisters
        BY <1>1, <1>2, <1>7, <1>11, NameKinds
    <2>0. n[1] = "expander"
        BY <1>7, <1>11
    <2>a. SizeOf(m) = 1 /\ SizeOf(n) = 1
        BY <1>1, <1>2, <1>11, <2>0, SizeOfName
    <2>b. OffsetOf(m) = OffsetOf(n)
        BY <1>1, <1>2, <1>6, <2>a
    <2>2. ExpanderRegisters[m[2]] = ExpanderRegisters[n[2]]
        BY <1>11, <2>0, <2>b DEF OffsetOf
    <2>3. m[2] = n[2]
        BY <2>1, <2>2, ExpanderTable
    <2>4. m = <<"expander", m[2], m[3]>> /\ n = <<"expander", n[2], n[3]>>
        BY <1>1, <1>2, <1>7, <1>11, NameKinds
    <2> QED
        BY <1>7, <1>11, <2>3, <2>4, Zenon
<1>12. m = n
    BY <1>1, <1>8, <1>9, <1>10, <1>11
<1> QED
    BY <1>1, <1>6, <1>12

-----------------------------------------------------------------------------
(* Values, and the bytes of them.                                          *)

LEMMA TwoBytes ==
    ASSUME NEW upper \in Octets, NEW lower \in Octets
    PROVE  \A v : v = upper * 256 + lower => v \in Nat /\ v \div 256 = upper /\ v % 256 = lower
BY DEF Octets

\* What is written comes out of the bytes that it is sent as.
LEMMA ValuesAre ==
    ASSUME NEW n \in Names, NEW data \in Values(n)
    PROVE  /\ data \in Seq(Nat)
           /\ ToBytes(Type[n], data) \in Seq(Nat)
           /\ Len(ToBytes(Type[n], data)) = SizeOf(n)
           /\ FromBytes(Type[n], ToBytes(Type[n], data)) = data
<1>1. PICK p \in Patterns : data = FromBytes(Type[n], SubSeq(p, 1, SizeOf(n)))
    BY DEF Values, SizeOf
<1> DEFINE s == SubSeq(p, 1, SizeOf(n))
<1>2. SizeOf(n) \in 1..6 /\ (Type[n] = "16_bit" => SizeOf(n) = 2)
    BY SizeOfName
<1>3. \A i \in 1..SizeOf(n) : p[i] \in Octets
    BY <1>2, PatternsAre
<1>4. s \in Seq(Octets) /\ Len(s) = SizeOf(n)
    BY <1>2, <1>3, SubSeqProperties
<1>5. s \in Seq(Nat)
    <2>1. Octets \subseteq Nat
        BY DEF Octets
    <2> QED
        BY <1>4, <2>1, SeqMonotonic
<1> HIDE DEF s
<1>6. CASE Type[n] = "16_bit"
    <2>0. Len(s) = 2
        BY <1>2, <1>4, <1>6
    <2>1. s[1] \in Octets /\ s[2] \in Octets
        BY <1>4, <2>0, ElementOfSeq
    <2>2. data = <<s[1] * 256 + s[2]>>
        BY <1>1, <1>6 DEF FromBytes, s, BYTES
    <2> DEFINE d == s[1] * 256 + s[2]
    <2>3. d \in Nat /\ d \div 256 = s[1] /\ d % 256 = s[2]
        <3>1. d = s[1] * 256 + s[2]
            OBVIOUS
        <3> HIDE DEF d
        <3> QED
            BY <2>1, <3>1, TwoBytes
    <2>4. data[1] = d
        BY <2>2
    <2> HIDE DEF d
    <2>5. ToBytes(Type[n], data) = <<s[1], s[2]>>
        BY <1>6, <2>3, <2>4 DEF ToBytes, BYTES
    <2>6. FromBytes(Type[n], <<s[1], s[2]>>) = data
        BY <1>6, <2>2 DEF FromBytes, BYTES
    <2>7. <<s[1], s[2]>> \in Seq(Nat) /\ Len(<<s[1], s[2]>>) = 2
        BY <2>1 DEF Octets
    <2>8. data \in Seq(Nat)
        BY <2>2, <2>3 DEF d
    <2> QED
        BY <1>2, <1>6, <2>5, <2>6, <2>7, <2>8
<1>7. CASE Type[n] # "16_bit"
    <2>1. data = s
        BY <1>1, <1>7 DEF FromBytes, s
    <2>2. ToBytes(Type[n], data) = data /\ FromBytes(Type[n], data) = data
        BY <1>7 DEF ToBytes, FromBytes
    <2> QED
        BY <1>4, <1>5, <2>1, <2>2
<1> QED
    BY <1>6, <1>7

-----------------------------------------------------------------------------
(* The frames.                                                             *)

HeaderOf(n) == IF n[1] = "expander" THEN 2 ELSE 3

\* The call c may be made.
IsCall(c) ==
    /\ c \in [operation : {"read", "write"}, name : Names, data : Seq(Nat)]
    /\ Allowed(c.operation, c.name)
    /\ c.operation = "write" => c.data \in Values(c.name)

\* What follows the header.
BodyOf(c) == IF c.operation = "read" THEN Zeros(SizeOf(c.name)) ELSE ToBytes(Type[c.name], c.data)

LEMMA BodyIs ==
    ASSUME NEW c, IsCall(c)
    PROVE  /\ BodyOf(c) \in Seq(Nat)
           /\ Len(BodyOf(c)) = SizeOf(c.name)
           /\ c.operation = "write" => FromBytes(Type[c.name], BodyOf(c)) = c.data
<1>1. c.name \in Names /\ SizeOf(c.name) \in 1..6
    BY SizeOfName DEF IsCall
<1>2. CASE c.operation = "read"
    <2>1. BodyOf(c) = [i \in 1..SizeOf(c.name) |-> 0]
        BY <1>2 DEF BodyOf, Zeros
    <2> QED
        BY <1>1, <1>2, <2>1
<1>3. CASE c.operation = "write"
    <2>1. BodyOf(c) = ToBytes(Type[c.name], c.data)
        BY <1>3 DEF BodyOf
    <2> QED
        BY <1>1, <1>3, <2>1, ValuesAre DEF IsCall
<1> QED
    BY <1>2, <1>3 DEF IsCall

Access(operation) == IF operation = "write" THEN 1 ELSE 0

\* A header as the W5500 takes it apart.
IsHeader(header, block, offset, operation) ==
    /\ header \in Seq(Nat)
    /\ Len(header) = 3
    /\ header[1] * BYTES + header[2] = offset
    /\ header[3] \div 8 = block
    /\ (header[3] \div 4) % 2 = Access(operation)

LEMMA OperationIs ==
    /\ Operation["read"] = 0
    /\ Operation["write"] = 1
    /\ Control_Byte.rwb = 4
    /\ Control_Byte.block = 8
    /\ Control_Byte.socket = 32
    /\ BLOCK["registers"] = 1
    /\ BLOCK["tx_buffer"] = 2
    /\ BLOCK["rx_buffer"] = 3
    /\ BSB_COMMON_REGISTERS = 0
    /\ BYTES = 256
BY DEF Operation, Control_Byte, BLOCK, BSB_COMMON_REGISTERS, BYTES

LEMMA HeaderFits ==
    ASSUME NEW offset \in Nat, NEW block \in Nat, NEW operation \in {"read", "write"}
    PROVE  IsHeader(<<offset \div BYTES, offset % BYTES, block * 8 + Access(operation) * 4>>,
                    block, offset, operation)
<1>1. BYTES = 256
    BY DEF BYTES
<1> DEFINE q == offset \div 256
           r == offset % 256
           a == Access(operation)
           c == block * 8 + a * 4
<1>2. q \in Nat /\ r \in Nat /\ q * 256 + r = offset
    OBVIOUS
<1>3. a \in 0..1
    BY DEF Access
<1> HIDE DEF a
<1>4. c \in Nat /\ c \div 8 = block /\ (c \div 4) % 2 = a
    BY <1>3
<1> HIDE DEF q, r, c
<1>5. <<q, r, c>> \in Seq(Nat) /\ Len(<<q, r, c>>) = 3
    BY <1>2, <1>4
<1>6. <<q, r, c>>[1] = q /\ <<q, r, c>>[2] = r /\ <<q, r, c>>[3] = c
    OBVIOUS
<1>7. IsHeader(<<q, r, c>>, block, offset, operation)
    BY <1>1, <1>2, <1>4, <1>5, <1>6 DEF IsHeader, a
<1> QED
    BY <1>1, <1>7 DEF q, r, c, a

LEMMA CommonHeaderFits ==
    ASSUME NEW offset \in Nat, NEW operation \in {"read", "write"}
    PROVE  IsHeader(CommonHeader(offset, operation), 0, offset, operation)
<1>1. BSB_COMMON_REGISTERS + Operation[operation] * Control_Byte.rwb = 0 * 8 + Access(operation) * 4
    BY OperationIs DEF Access
<1>2. IsHeader(<<offset \div BYTES, offset % BYTES, 0 * 8 + Access(operation) * 4>>,
               0, offset, operation)
    BY HeaderFits
<1> QED
    BY <1>1, <1>2, Zenon DEF CommonHeader

LEMMA SocketHeaderFits ==
    ASSUME NEW offset \in Nat, NEW operation \in {"read", "write"}, NEW socket \in Nat,
           NEW block \in {"registers", "tx_buffer", "rx_buffer"}
    PROVE  IsHeader(SocketHeader(socket, block, offset, operation),
                    4 * socket + BLOCK[block], offset, operation)
<1>1. BLOCK[block] \in Nat
    BY OperationIs
<1>2. socket * Control_Byte.socket + BLOCK[block] * Control_Byte.block + Operation[operation] * Control_Byte.rwb
        = (4 * socket + BLOCK[block]) * 8 + Access(operation) * 4
    BY <1>1, OperationIs DEF Access
<1>3. 4 * socket + BLOCK[block] \in Nat
    BY <1>1
<1>4. IsHeader(<<offset \div BYTES, offset % BYTES, (4 * socket + BLOCK[block]) * 8 + Access(operation) * 4>>,
               4 * socket + BLOCK[block], offset, operation)
    BY <1>3, HeaderFits
<1> QED
    BY <1>2, <1>4, Zenon DEF SocketHeader

\* A frame of the W5500 is a header and what follows it.
LEMMA W5500Frame ==
    ASSUME IsCall(call), call.name[1] \in {"common", "socket", "buffer"}
    PROVE  \E header : /\ IsHeader(header, BlockOf(call.name), OffsetOf(call.name), call.operation)
                       /\ Frame = header \o BodyOf(call)
<1> DEFINE n == call.name
           op == call.operation
<1>0. n \in Names /\ op \in {"read", "write"}
    BY DEF IsCall
<1>1. CASE n[1] = "common"
    <2>1. /\ OffsetOf(n) \in Nat /\ OffsetOf(n) = CommonRegisters[n[2]].offset
          /\ BlockOf(n) = 0
          /\ SizeOf(n) = Width(CommonRegisters[n[2]].type)
          /\ Type[n] = CommonRegisters[n[2]].type
        BY <1>0, <1>1, CommonPlace, TypeOfName
    <2>2. Frame = IF op = "read" THEN CommonReadFrame(n[2]) ELSE CommonWriteFrame(n[2], call.data)
        BY <1>1 DEF Frame
    <2>3. Frame = CommonHeader(OffsetOf(n), op) \o BodyOf(call)
        BY <1>0, <2>1, <2>2, Zenon DEF CommonReadFrame, CommonWriteFrame, BodyOf
    <2>4. IsHeader(CommonHeader(OffsetOf(n), op), 0, OffsetOf(n), op)
        BY <1>0, <2>1, CommonHeaderFits
    <2> QED
        BY <2>1, <2>3, <2>4
<1>2. CASE n[1] = "socket"
    <2>1. /\ OffsetOf(n) \in Nat /\ OffsetOf(n) = SocketRegisters[n[2]].offset
          /\ BlockOf(n) = 4 * n[3] + 1
          /\ n[3] \in Nat
          /\ SizeOf(n) = Width(SocketRegisters[n[2]].type)
          /\ Type[n] = SocketRegisters[n[2]].type
        BY <1>0, <1>2, SocketPlace, TypeOfName
    <2>2. Frame = IF op = "read" THEN SocketReadFrame(n[3], n[2]) ELSE SocketWriteFrame(n[3], n[2], call.data)
        BY <1>2 DEF Frame
    <2>3. Frame = SocketHeader(n[3], "registers", OffsetOf(n), op) \o BodyOf(call)
        BY <1>0, <2>1, <2>2, Zenon DEF SocketReadFrame, SocketWriteFrame, BodyOf
    <2>4. IsHeader(SocketHeader(n[3], "registers", OffsetOf(n), op),
                   4 * n[3] + BLOCK["registers"], OffsetOf(n), op)
        BY <1>0, <2>1, SocketHeaderFits
    <2>5. BlockOf(n) = 4 * n[3] + BLOCK["registers"]
        BY <2>1, OperationIs
    <2> QED
        BY <2>3, <2>4, <2>5
<1>3. CASE n[1] = "buffer"
    <2>1. /\ OffsetOf(n) \in Nat /\ OffsetOf(n) = n[4]
          /\ BlockOf(n) = 4 * n[3] + BLOCK[n[2]]
          /\ n[2] \in {"registers", "tx_buffer", "rx_buffer"}
          /\ n[3] \in Nat
          /\ SizeOf(n) = 2
          /\ Type[n] = "2_bytes"
        BY <1>0, <1>3, BufferPlace, TypeOfName DEF BlockOf
    <2>2. Frame = BufferFrame(n[3], n[2], n[4], op, IF op = "read" THEN Zeros(2) ELSE call.data)
        BY <1>3 DEF Frame
    <2>3. ToBytes("2_bytes", call.data) = call.data
        BY DEF ToBytes
    <2>4. BodyOf(call) = IF op = "read" THEN Zeros(2) ELSE call.data
        BY <2>1, <2>3, Zenon DEF BodyOf
    <2>5. Frame = SocketHeader(n[3], n[2], OffsetOf(n), op) \o BodyOf(call)
        BY <2>1, <2>2, <2>4, Zenon DEF BufferFrame
    <2>6. IsHeader(SocketHeader(n[3], n[2], OffsetOf(n), op), 4 * n[3] + BLOCK[n[2]], OffsetOf(n), op)
        BY <1>0, <2>1, SocketHeaderFits
    <2> QED
        BY <2>1, <2>5, <2>6
<1> QED
    BY <1>1, <1>2, <1>3

IsHeaderThenBody(f, h, b) ==
    /\ f \in Seq(Nat)
    /\ Len(f) = 3 + Len(b)
    /\ f[1] = h[1] /\ f[2] = h[2] /\ f[3] = h[3]
    /\ \A k \in 1..Len(b) : f[3 + k] = b[k]

LEMMA HeaderThenBody ==
    ASSUME NEW h \in Seq(Nat), NEW b \in Seq(Nat), Len(h) = 3
    PROVE  IsHeaderThenBody(h \o b, h, b)
<1>1. Len(b) \in Nat
    OBVIOUS
<1>2. /\ h \o b \in Seq(Nat)
      /\ Len(h \o b) = 3 + Len(b)
      /\ \A i \in 1..(3 + Len(b)) : (h \o b)[i] = IF i <= 3 THEN h[i] ELSE b[i - 3]
    <2>1. /\ h \o b \in Seq(Nat)
          /\ Len(h \o b) = Len(h) + Len(b)
          /\ \A i \in 1..(Len(h) + Len(b)) : (h \o b)[i] = IF i <= Len(h) THEN h[i] ELSE b[i - Len(h)]
        BY ConcatProperties, Zenon
    <2> QED
        BY <2>1
<1>3. \A k \in 1..Len(b) : 3 + k \in 1..(3 + Len(b)) /\ ~ (3 + k =< 3) /\ (3 + k) - 3 = k
    BY <1>1
<1>4. 1 \in 1..(3 + Len(b)) /\ 2 \in 1..(3 + Len(b)) /\ 3 \in 1..(3 + Len(b))
    BY <1>1
<1> QED
    BY <1>2, <1>3, <1>4 DEF IsHeaderThenBody

\* The chips find in the frame of a call what the call is about.
AboutCall ==
    LET n == call.name IN
    /\ Frame \in Seq(Nat)
    /\ Len(Frame) = HeaderOf(n) + SizeOf(n)
    /\ \A k \in 1..SizeOf(n) : Frame[HeaderOf(n) + k] = BodyOf(call)[k]
    /\ n[1] # "expander" =>
          /\ Frame[1] * BYTES + Frame[2] = OffsetOf(n)
          /\ Frame[3] \div 8 = BlockOf(n)
          /\ (Frame[3] \div 4) % 2 = Access(call.operation)
    /\ n[1] = "expander" =>
          /\ Frame[1] \div 2 = BlockOf(n)
          /\ Frame[1] % 2 = 1 - Access(call.operation)
          /\ Frame[2] = OffsetOf(n)

LEMMA FrameFits ==
    ASSUME IsCall(call), call.name \in StoredNames
    PROVE  AboutCall
<1> DEFINE n == call.name
           body == BodyOf(call)
<1>1. /\ n \in Names /\ n[1] \in {"common", "socket", "buffer", "expander"}
      /\ SizeOf(n) \in 1..6 /\ OffsetOf(n) \in Nat /\ BlockOf(n) \in Nat
    BY PlaceOf
<1>2. body \in Seq(Nat) /\ Len(body) = SizeOf(n)
    BY BodyIs
<1>3. call.operation \in {"read", "write"} /\ Access(call.operation) \in 0..1
    BY DEF IsCall, Access
<1>4. CASE n[1] # "expander"
    <2>1. PICK h : IsHeader(h, BlockOf(n), OffsetOf(n), call.operation) /\ Frame = h \o body
        BY <1>1, <1>4, W5500Frame
    <2>2. h \in Seq(Nat) /\ Len(h) = 3
        BY <2>1 DEF IsHeader
    <2> HIDE DEF body, n
    <2>3. /\ Frame \in Seq(Nat)
          /\ Len(Frame) = 3 + Len(body)
          /\ Frame[1] = h[1] /\ Frame[2] = h[2] /\ Frame[3] = h[3]
          /\ \A k \in 1..Len(body) : Frame[3 + k] = body[k]
        <3>1. IsHeaderThenBody(h \o body, h, body)
            BY <1>2, <2>2, HeaderThenBody, Zenon
        <3>2. IsHeaderThenBody(Frame, h, body)
            BY <2>1, <3>1, Zenon
        <3> QED
            BY <3>2 DEF IsHeaderThenBody
    <2>5. \A k \in 1..SizeOf(n) : Frame[3 + k] = body[k]
        BY <1>2, <2>3
    <2>6. HeaderOf(n) = 3
        BY <1>4 DEF HeaderOf
    <2>7. Len(Frame) = HeaderOf(n) + SizeOf(n)
        BY <1>2, <2>3, <2>6
    <2>8. /\ Frame[1] * BYTES + Frame[2] = OffsetOf(n)
          /\ Frame[3] \div 8 = BlockOf(n)
          /\ (Frame[3] \div 4) % 2 = Access(call.operation)
        BY <2>1, <2>3 DEF IsHeader
    <2> QED
        BY <1>4, <2>3, <2>5, <2>6, <2>7, <2>8 DEF AboutCall, n, body
<1>5. CASE n[1] = "expander"
    <2>1. SizeOf(n) = 1 /\ Type[n] = "8_bit" /\ OffsetOf(n) = ExpanderRegisters[n[2]] /\ BlockOf(n) = n[3] /\ n[3] \in Nat
        BY <1>1, <1>5, ExpanderPlace, TypeOfName
    <2> DEFINE a == n[3] * 2 + (IF call.operation = "read" THEN 1 ELSE 0)
               b == ExpanderRegisters[n[2]]
               c == IF call.operation = "read" THEN 0 ELSE call.data[1]
    <2>2. Frame = <<a, b, c>>
        BY <1>5 DEF Frame, ExpanderFrame, Transmitted
    <2>3. c = body[1]
        <3>1. CASE call.operation = "read"
            BY <2>1, <3>1 DEF BodyOf, Zeros
        <3>2. CASE call.operation = "write"
            BY <2>1, <3>2 DEF BodyOf, ToBytes
        <3> QED
            BY <1>3, <3>1, <3>2
    <2>4. a \in Nat /\ a \div 2 = n[3] /\ a % 2 = 1 - Access(call.operation)
        BY <1>3, <2>1 DEF Access
    <2>5. b \in Nat
        BY <1>1, <2>1
    <2> HIDE DEF a, b, c, body
    <2>6. body[1] \in Nat
        <3>1. body \in Seq(Nat) /\ Len(body) = 1
            BY <1>2, <2>1
        <3> QED
            BY <3>1, ElementOfSeq
    <2>7. Frame \in Seq(Nat) /\ Len(Frame) = 3 /\ Frame[1] = a /\ Frame[2] = b /\ Frame[3] = c
        BY <2>2, <2>3, <2>4, <2>5, <2>6
    <2>8. HeaderOf(n) = 2
        BY <1>5 DEF HeaderOf
    <2>9. \A k \in 1..SizeOf(n) : Frame[HeaderOf(n) + k] = body[k]
        BY <2>1, <2>3, <2>7, <2>8
    <2>10. /\ Frame[1] \div 2 = BlockOf(n)
           /\ Frame[1] % 2 = 1 - Access(call.operation)
           /\ Frame[2] = OffsetOf(n)
        BY <2>1, <2>4, <2>7 DEF b
    <2>11. Len(Frame) = HeaderOf(n) + SizeOf(n)
        BY <2>1, <2>7, <2>8
    <2> QED
        BY <1>5, <2>7, <2>9, <2>10, <2>11 DEF AboutCall, body
<1> QED
    BY <1>4, <1>5

\* MCP3008::Driver::sample()
LEMMA SampleFrameIs ==
    ASSUME IsCall(call), call.name \in Sample
    PROVE  /\ call.operation = "read"
           /\ Frame \in Seq(Nat)
           /\ Len(Frame) = 3
           /\ Frame[1] = 1
           /\ Frame[2] = InputBits(call.name[2])
           /\ Frame[2] \div 16 = Code(call.name[2])
<1> DEFINE n == call.name
<1>1. n \in Names /\ n[1] = "sample" /\ n[2] \in Inputs
    BY NameKinds, StoredKinds DEF IsCall
<1>2. call.operation = "read"
    BY <1>1 DEF IsCall, Allowed
<1>3. Frame = <<1, InputBits(n[2]), 0>>
    BY <1>1 DEF Frame, SampleFrame
<1>4. PICK i \in {"single", "differential"}, j \in 0..7 : n[2] = <<i, j>>
    BY <1>1 DEF Inputs
<1>5. n[2][1] = i /\ n[2][2] = j
    BY <1>4
<1>6. InputBits(n[2]) \in Nat /\ InputBits(n[2]) \div 16 = Code(n[2])
    BY <1>5 DEF InputBits, Code
<1> HIDE DEF n
<1> QED
    BY <1>2, <1>3, <1>6 DEF n

-----------------------------------------------------------------------------
(* The memory of the chips.                                                *)

ByteIn(m, cell) == IF cell \in DOMAIN m THEN m[cell] ELSE 0

StoredIn(m, cell, byte) == [c \in DOMAIN m \cup {cell} |-> IF c = cell THEN byte ELSE m[c]]

IsMemory(m) == m = [c \in DOMAIN m |-> m[c]] /\ \A c \in DOMAIN m : m[c] \in Nat

BytesIn(m, n) == [k \in 1..SizeOf(n) |-> ByteIn(m, Cells[n][k])]

ContentsIn(m, n) ==
    IF n[1] = "sample" THEN <<Level(Code(n[2]))>> ELSE FromBytes(Type[n], BytesIn(m, n))

LEMMA ByteInNat ==
    ASSUME NEW m, IsMemory(m), NEW cell
    PROVE  ByteIn(m, cell) \in Nat
BY DEF ByteIn, IsMemory

LEMMA StoredBytes ==
    ASSUME NEW m, IsMemory(m), NEW cell, NEW byte \in Nat
    PROVE  /\ IsMemory(StoredIn(m, cell, byte))
           /\ \A c : ByteIn(StoredIn(m, cell, byte), c) = IF c = cell THEN byte ELSE ByteIn(m, c)
BY DEF ByteIn, IsMemory, StoredIn

LEMMA ContentsAre ==
    ASSUME NEW n \in Names
    PROVE  Contents(n) = ContentsIn(memory, n)
<1>1. CASE n[1] = "sample"
    BY <1>1 DEF Contents, ContentsIn
<1>2. CASE n[1] # "sample"
    <2>1. n \in StoredNames
        BY <1>2, StoredKinds DEF StoredNames
    <2>2. DOMAIN Cells[n] = 1..SizeOf(n)
        BY <2>1, CellsAre
    <2>3. [k \in DOMAIN Cells[n] |-> Byte(Cells[n][k])] = BytesIn(memory, n)
        BY <2>2 DEF BytesIn, ByteIn, Byte
    <2> QED
        BY <1>2, <2>3, Zenon DEF Contents, ContentsIn
<1> QED
    BY <1>1, <1>2

\* The same of the next state.
LEMMA NextContentsAre ==
    ASSUME NEW n \in Names
    PROVE  Contents(n)' = ContentsIn(memory', n)
<1>1. CASE n[1] = "sample"
    BY <1>1 DEF Contents, ContentsIn
<1>2. CASE n[1] # "sample"
    <2>1. n \in StoredNames
        BY <1>2, StoredKinds DEF StoredNames
    <2>2. DOMAIN Cells[n] = 1..SizeOf(n)
        BY <2>1, CellsAre
    <2>3. [k \in DOMAIN Cells[n] |-> Byte(Cells[n][k])'] = BytesIn(memory', n)
        BY <2>2 DEF BytesIn, ByteIn, Byte
    <2> QED
        BY <1>2, <2>3, Zenon DEF Contents, ContentsIn
<1> QED
    BY <1>1, <1>2

\* A change of the cells of one register is none of another one.
LEMMA OthersStay ==
    ASSUME NEW m, NEW w, NEW n \in Names, NEW o \in StoredNames, n # o,
           \A c : (\A k \in 1..SizeOf(o) : c # Cells[o][k]) => ByteIn(w, c) = ByteIn(m, c)
    PROVE  ContentsIn(w, n) = ContentsIn(m, n)
<1>1. CASE n[1] = "sample"
    BY <1>1 DEF ContentsIn
<1>2. CASE n[1] # "sample"
    <2>1. n \in StoredNames
        BY <1>2, StoredKinds DEF StoredNames
    <2>2. \A i \in 1..SizeOf(n) : \A k \in 1..SizeOf(o) : Cells[n][i] # Cells[o][k]
        BY <2>1, CellsAreDisjoint
    <2>3. \A i \in 1..SizeOf(n) : ByteIn(w, Cells[n][i]) = ByteIn(m, Cells[n][i])
        BY <2>2
    <2>4. BytesIn(w, n) = BytesIn(m, n)
        BY <2>3 DEF BytesIn
    <2> QED
        BY <2>4 DEF ContentsIn
<1> QED
    BY <1>1, <1>2

-----------------------------------------------------------------------------
(* The invariant: how far the call has come.                               *)

StepInv == step \in {"idle", "configure", "select", "exchange"}

CallInv ==
    /\ step = "idle" => call = NoSpiCall
    /\ step # "idle" => IsCall(call) /\ returned = NoSpiCall

BusInv ==
    /\ step # "exchange" => selected = {} /\ frame = <<>> /\ received = <<>>
    /\ step \in {"select", "exchange"} => configuration = Chip(call.name)
    /\ step = "exchange" => selected = {Chip(call.name)}

\* The chip has received what the driver has sent of its frame.
FrameInv ==
    step = "exchange" =>
        /\ frame \in Seq(Nat)
        /\ received \in Seq(Nat)
        /\ Len(frame) = Len(received)
        /\ Len(received) =< Len(Frame)
        /\ \A k \in 1..Len(frame) : frame[k] = Frame[k]

\* Every byte after the header was read from or written to its cell.
CellInv ==
    (step = "exchange" /\ call.name \in StoredNames) =>
        \A k \in 1..SizeOf(call.name) :
            HeaderOf(call.name) + k =< Len(received) =>
                IF call.operation = "read"
                THEN received[HeaderOf(call.name) + k] = ByteIn(memory, Cells[call.name][k])
                ELSE ByteIn(memory, Cells[call.name][k]) = Frame[HeaderOf(call.name) + k]

SampleInv ==
    (step = "exchange" /\ call.name \in Sample) =>
        /\ Len(received) >= 2 => received[2] % 4 = Level(Code(call.name[2])) \div BYTES
        /\ Len(received) >= 3 => received[3] = Level(Code(call.name[2])) % BYTES

SpiInv ==
    /\ IsMemory(memory)
    /\ StepInv
    /\ CallInv
    /\ BusInv
    /\ FrameInv
    /\ CellInv
    /\ SampleInv

LEMMA SpiInvInit == SpiInit => SpiInv
BY DEF SpiInit, SpiInv, IsMemory, StepInv, CallInv, BusInv, FrameInv, CellInv, SampleInv

LEMMA FrameStays ==
    ASSUME call' = call
    PROVE  Frame' = Frame
BY DEF Frame

LEMMA SpiCallStep ==
    ASSUME SpiInv, NEW operation \in {"read", "write"}, NEW name \in Names, NEW data \in Seq(Nat),
           operation = "write" => data \in Values(name),
           SpiCall(operation, name, data)
    PROVE  SpiInv'
<1> DEFINE c == [operation |-> operation, name |-> name, data |-> data]
<1>1. call' = c /\ step' = "configure" /\ step = "idle" /\ returned' = NoSpiCall /\ Allowed(operation, name)
    BY DEF SpiCall
<1>2. c.operation = operation /\ c.name = name /\ c.data = data
    OBVIOUS
<1>3. c \in [operation : {"read", "write"}, name : Names, data : Seq(Nat)]
    OBVIOUS
<1> HIDE DEF c
<1>4. IsCall(c)
    BY <1>1, <1>2, <1>3 DEF IsCall
<1>5. selected' = {} /\ frame' = <<>> /\ received' = <<>> /\ memory' = memory
    BY <1>1 DEF SpiCall, SpiInv, BusInv
<1> QED
    BY <1>1, <1>4, <1>5 DEF SpiInv, IsMemory, StepInv, CallInv, BusInv, FrameInv, CellInv, SampleInv

LEMMA ConfigureStep ==
    ASSUME SpiInv, Configure
    PROVE  SpiInv'
BY DEF Configure, SpiInv, IsMemory, StepInv, CallInv, BusInv, FrameInv, CellInv, SampleInv

LEMMA SelectStep ==
    ASSUME SpiInv, Select
    PROVE  SpiInv'
<1>1. /\ step = "select" /\ step' = "exchange" /\ call' = call /\ memory' = memory
      /\ frame' = frame /\ received' = received /\ configuration' = configuration /\ returned' = returned
      /\ selected' = selected \cup {Chip(call.name)}
    BY DEF Select
<1>2. IsCall(call) /\ selected = {} /\ frame = <<>> /\ received = <<>> /\ configuration = Chip(call.name)
    BY <1>1 DEF SpiInv, CallInv, BusInv
<1>3. Len(Frame') \in Nat
    <2>1. call.name \in StoredNames \/ call.name \in Sample
        BY <1>2 DEF IsCall, StoredNames
    <2>2. Frame \in Seq(Nat)
        BY <1>2, <2>1, FrameFits, SampleFrameIs DEF AboutCall
    <2> QED
        BY <1>1, <2>2, FrameStays
<1>4. HeaderOf(call.name) \in {2, 3}
    BY DEF HeaderOf
<1>5. StepInv' /\ CallInv' /\ BusInv'
    BY <1>1, <1>2 DEF SpiInv, StepInv, CallInv, BusInv
<1>6. FrameInv'
    BY <1>1, <1>2, <1>3 DEF FrameInv
<1>7. CellInv' /\ SampleInv'
    BY <1>1, <1>2, <1>4 DEF CellInv, SampleInv
<1>8. IsMemory(memory)'
    BY <1>1 DEF SpiInv, IsMemory
<1> QED
    BY <1>5, <1>6, <1>7, <1>8 DEF SpiInv

\* The number of the cell that the next byte is about.
LEMMA NextCell ==
    ASSUME NEW l \in Nat, NEW h \in {2, 3}, NEW z \in 1..6, l >= h, l < h + z
    PROVE  l + 1 - h \in 1..z
OBVIOUS

LEMMA NextOffset ==
    ASSUME NEW l \in Nat, NEW o \in Nat
    PROVE  o + (l - 2) - 1 = o + l - 3 /\ l - 2 = l + 1 - 3
OBVIOUS

\* The states in which another byte is exchanged.
Exchanging ==
    /\ SpiInv
    /\ step = "exchange"
    /\ Len(received) < Len(Frame)

\* What a chip of registers does with it: the header tells which cell it is
\* about, and then the bytes come from or go to this cell and the next ones.
LEMMA ChipHears ==
    ASSUME Exchanging, call.name \in StoredNames
    PROVE  LET n == call.name
               h == HeaderOf(n)
               l == Len(received)
               byte == Frame[l + 1]
           IN /\ Reply(Chip(n), byte) \subseteq Nat
              /\ l < h => MemoryAfter(Chip(n), byte) = memory
              /\ (l >= h /\ call.operation = "read") =>
                    /\ MemoryAfter(Chip(n), byte) = memory
                    /\ Reply(Chip(n), byte) = {ByteIn(memory, Cells[n][l + 1 - h])}
              /\ (l >= h /\ call.operation = "write") =>
                    MemoryAfter(Chip(n), byte) = StoredIn(memory, Cells[n][l + 1 - h], byte)
<1> DEFINE n == call.name
           l == Len(received)
           byte == Frame[l + 1]
<1>1. IsCall(call) /\ AboutCall
    BY FrameFits DEF Exchanging, SpiInv, CallInv
<1>2. /\ n \in Names /\ n[1] \in {"common", "socket", "buffer", "expander"}
      /\ SizeOf(n) \in 1..6 /\ OffsetOf(n) \in Nat /\ BlockOf(n) \in Nat
    BY PlaceOf
<1>3. call.operation \in {"read", "write"}
    BY <1>1 DEF IsCall
<1>4. /\ frame \in Seq(Nat) /\ l \in Nat /\ Len(frame) = l
      /\ \A k \in 1..l : frame[k] = Frame[k]
    BY DEF Exchanging, SpiInv, FrameInv
<1>5. IsMemory(memory)
    BY DEF Exchanging, SpiInv
<1>6. Junk \subseteq Nat
    BY JunkIs DEF Octets
<1>7. l < HeaderOf(n) + SizeOf(n)
    BY <1>1 DEF AboutCall, Exchanging
<1>8. \A k \in 1..SizeOf(n) : Cells[n][k] = <<Chip(n), BlockOf(n), OffsetOf(n) + k - 1>>
    BY CellsAre
<1>9. \A c : Byte(c) = ByteIn(memory, c)
    BY DEF Byte, ByteIn
<1>10. \A c, b : Stored(c, b) = StoredIn(memory, c, b)
    BY DEF Stored, StoredIn
<1>11. CASE n[1] # "expander"
    <2>1. Chip(n) = "w5500" /\ HeaderOf(n) = 3
        BY <1>2, <1>11, ChipOf DEF HeaderOf
    <2>2. /\ Frame[1] * BYTES + Frame[2] = OffsetOf(n)
          /\ Frame[3] \div 8 = BlockOf(n)
          /\ (Frame[3] \div 4) % 2 = Access(call.operation)
        BY <1>1, <1>11 DEF AboutCall
    <2>3. ASSUME l >= 3
          PROVE  /\ W5500Cell = Cells[n][l - 2]
                 /\ (frame[3] \div 4) % 2 = Access(call.operation)
        <3>1. frame[1] = Frame[1] /\ frame[2] = Frame[2] /\ frame[3] = Frame[3]
            BY <1>4, <2>3
        <3>2. W5500Cell = <<"w5500", BlockOf(n), OffsetOf(n) + Len(frame) - 3>>
            BY <2>2, <3>1, Zenon DEF W5500Cell
        <3>3. l - 2 \in 1..SizeOf(n) /\ OffsetOf(n) + (l - 2) - 1 = OffsetOf(n) + l - 3
            <4>1. l \in Nat /\ SizeOf(n) \in 1..6 /\ OffsetOf(n) \in Nat /\ l >= 3 /\ l < 3 + SizeOf(n)
                BY <1>2, <1>4, <1>7, <2>1, <2>3
            <4> HIDE DEF l, n
            <4>2. l + 1 - 3 \in 1..SizeOf(n)
                BY <4>1, NextCell
            <4> QED
                BY <4>1, <4>2, NextOffset
        <3> HIDE DEF l
        <3>4. Cells[n][l - 2] = <<"w5500", BlockOf(n), OffsetOf(n) + l - 3>>
            BY <1>8, <2>1, <3>3
        <3>5. W5500Cell = Cells[n][l - 2]
            BY <1>4, <3>2, <3>4
        <3> QED
            BY <2>2, <3>1, <3>5
    <2>4. Reply(Chip(n), byte) = W5500Reply
        BY <2>1 DEF Reply
    <2>5. MemoryAfter(Chip(n), byte) =
            IF Len(frame) >= 3 /\ (frame[3] \div 4) % 2 = 1 THEN Stored(W5500Cell, byte) ELSE memory
        BY <2>1 DEF MemoryAfter
    <2>6. W5500Reply \subseteq Nat
        BY <1>5, <1>6, <1>9, ByteInNat DEF W5500Reply
    <2>7. l < 3 => MemoryAfter(Chip(n), byte) = memory
        BY <1>4, <2>5
    <2>8. (l >= 3 /\ call.operation = "read") =>
             MemoryAfter(Chip(n), byte) = memory /\ W5500Reply = {ByteIn(memory, Cells[n][l - 2])}
        BY <1>4, <1>9, <2>3, <2>5 DEF W5500Reply, Access
    <2>9. (l >= 3 /\ call.operation = "write") =>
             MemoryAfter(Chip(n), byte) = StoredIn(memory, Cells[n][l - 2], byte)
        BY <1>4, <1>10, <2>3, <2>5 DEF Access
    <2>10. l + 1 - 3 = l - 2
        BY <1>4
    <2> QED
        BY <2>1, <2>4, <2>6, <2>7, <2>8, <2>9, <2>10
<1>12. CASE n[1] = "expander"
    <2>1. Chip(n) = "mcp23s08" /\ HeaderOf(n) = 2 /\ SizeOf(n) = 1
        BY <1>2, <1>12, ChipOf, SizeOfName DEF HeaderOf
    <2>2. /\ Frame[1] \div 2 = BlockOf(n)
          /\ Frame[1] % 2 = 1 - Access(call.operation)
          /\ Frame[2] = OffsetOf(n)
        BY <1>1, <1>12 DEF AboutCall
    <2>3. BlockOf(n) \in ExpanderAddresses
        BY <1>2, <1>12, ExpanderPlace DEF ExpanderAddresses
    <2>4. ASSUME l >= 2
          PROVE  /\ l = 2
                 /\ ExpanderCell = Cells[n][1]
                 /\ frame[1] % 2 = 1 - Access(call.operation)
                 /\ frame[1] \div 2 \in ExpanderAddresses
        <3>0. l = 2
            BY <1>4, <1>7, <2>1, <2>4
        <3>1. frame[1] = Frame[1] /\ frame[2] = Frame[2]
            BY <1>4, <3>0
        <3>2. ExpanderCell = <<"mcp23s08", BlockOf(n), OffsetOf(n)>>
            BY <2>2, <3>1, Zenon DEF ExpanderCell
        <3>3. Cells[n][1] = <<"mcp23s08", BlockOf(n), OffsetOf(n)>>
            BY <1>2, <1>8, <2>1
        <3> QED
            BY <2>2, <2>3, <3>0, <3>1, <3>2, <3>3
    <2>5. Reply(Chip(n), byte) = ExpanderReply
        BY <2>1 DEF Reply
    <2>6. MemoryAfter(Chip(n), byte) =
            IF Len(frame) = 2 /\ frame[1] % 2 = 0 THEN Stored(ExpanderCell, byte) ELSE memory
        BY <2>1 DEF MemoryAfter
    <2>7. ExpanderReply \subseteq Nat
        BY <1>5, <1>6, <1>9, ByteInNat DEF ExpanderReply
    <2>8. l < 2 => MemoryAfter(Chip(n), byte) = memory
        BY <1>4, <2>6
    <2>9. (l >= 2 /\ call.operation = "read") =>
             MemoryAfter(Chip(n), byte) = memory /\ ExpanderReply = {ByteIn(memory, Cells[n][1])}
        BY <1>4, <1>9, <2>4, <2>6 DEF ExpanderReply, Access
    <2>10. (l >= 2 /\ call.operation = "write") =>
             MemoryAfter(Chip(n), byte) = StoredIn(memory, Cells[n][1], byte)
        BY <1>4, <1>10, <2>4, <2>6 DEF Access
    <2>11. l >= 2 => l + 1 - 2 = 1
        BY <2>4
    <2> QED
        BY <2>1, <2>5, <2>7, <2>8, <2>9, <2>10, <2>11
<1> QED
    BY <1>11, <1>12

LEMMA LevelIs ==
    ASSUME NEW code \in Int
    PROVE  /\ Level(code) \in Nat
           /\ Level(code) \div BYTES \in 0..3
           /\ Level(code) % BYTES \in Nat
<1>1. Level(code) \in 0..1023
    BY DEF Level
<1> QED
    BY <1>1 DEF BYTES

\* The converter samples the input that the second byte is about.
LEMMA ConverterHears ==
    ASSUME Exchanging, call.name \in Sample
    PROVE  LET n == call.name
               l == Len(received)
               byte == Frame[l + 1]
           IN /\ Chip(n) = "mcp3008"
              /\ l \in 0..2
              /\ MemoryAfter(Chip(n), byte) = memory
              /\ Reply(Chip(n), byte) \subseteq Nat
              /\ l = 1 => \A r \in Reply(Chip(n), byte) : r % 4 = Level(Code(n[2])) \div BYTES
              /\ l = 2 => Reply(Chip(n), byte) = {Level(Code(n[2])) % BYTES}
<1> DEFINE n == call.name
           l == Len(received)
           byte == Frame[l + 1]
           level == Level(Code(n[2]))
<1>1. IsCall(call) /\ n \in Names
    BY DEF Exchanging, SpiInv, CallInv, IsCall
<1>2. /\ Len(Frame) = 3 /\ Frame \in Seq(Nat)
      /\ Frame[2] \div 16 = Code(n[2])
    BY <1>1, SampleFrameIs
<1>3. /\ frame \in Seq(Nat) /\ l \in 0..2 /\ Len(frame) = l
      /\ \A k \in 1..l : frame[k] = Frame[k]
    <2>1. /\ frame \in Seq(Nat) /\ received \in Seq(Nat) /\ Len(frame) = Len(received)
          /\ Len(received) < Len(Frame)
          /\ \A k \in 1..Len(frame) : frame[k] = Frame[k]
        BY DEF Exchanging, SpiInv, FrameInv
    <2>2. Len(received) \in Nat
        BY <2>1
    <2>3. Len(Frame) = 3
        BY <1>2
    <2>4. l \in 0..2
        BY <2>1, <2>2, <2>3
    <2> QED
        BY <2>1, <2>4
<1>4. Chip(n) = "mcp3008"
    BY <1>1, StoredKinds, ChipOf
<1>5. MemoryAfter(Chip(n), byte) = memory
    BY <1>4 DEF MemoryAfter
<1>6. Reply(Chip(n), byte) = ConverterReply(byte)
    BY <1>4 DEF Reply
<1>7. level \in Nat /\ level \div BYTES \in 0..3 /\ level % BYTES \in Nat
    <2>1. Frame[2] \in Nat
        <3>1. 2 \in 1..Len(Frame)
            BY <1>2
        <3> QED
            BY <1>2, <3>1, ElementOfSeq
    <2>2. Code(n[2]) \in Int
        BY <1>2, <2>1
    <2> QED
        BY <2>2, LevelIs
<1> HIDE DEF level
<1>8. CASE l = 0
    <2>1. ConverterReply(byte) = Junk
        BY <1>3, <1>8 DEF ConverterReply
    <2>2. Junk \subseteq Nat
        BY JunkIs DEF Octets
    <2>3. l # 1 /\ l # 2 /\ Reply(Chip(n), byte) \subseteq Nat
        BY <1>6, <1>8, <2>1, <2>2
    <2> QED
        BY <1>3, <1>4, <1>5, <2>3, Zenon
<1>9. CASE l = 1
    <2>1. ConverterReply(byte) = {(junk % 32) * 8 + Level(byte \div 16) \div BYTES : junk \in Junk}
        BY <1>3, <1>9 DEF ConverterReply
    <2>2. Level(byte \div 16) = level
        BY <1>2, <1>9 DEF level
    <2>3. \A junk \in Junk : \A q \in 0..3 : (junk % 32) * 8 + q \in Nat /\ ((junk % 32) * 8 + q) % 4 = q
        BY JunkIs DEF Octets
    <2> DEFINE q == level \div BYTES
    <2>4. q \in 0..3 /\ ConverterReply(byte) = {(junk % 32) * 8 + q : junk \in Junk}
        BY <1>7, <2>1, <2>2, Zenon
    <2> HIDE DEF q
    <2>5. \A r \in ConverterReply(byte) : r \in Nat /\ r % 4 = q
        BY <2>3, <2>4
    <2> QED
        BY <1>3, <1>4, <1>5, <1>6, <1>9, <2>5 DEF level, q
<1>10. CASE l = 2
    <2>1. ConverterReply(byte) = {Level(frame[2] \div 16) % BYTES}
        BY <1>3, <1>10 DEF ConverterReply
    <2>2. frame[2] = Frame[2]
        BY <1>3, <1>10
    <2>3. Level(frame[2] \div 16) = level
        BY <1>2, <2>2 DEF level
    <2> QED
        BY <1>3, <1>4, <1>5, <1>6, <1>7, <1>10, <2>1, <2>3 DEF level
<1> QED
    BY <1>3, <1>8, <1>9, <1>10

\* What every exchange does to the bytes.
LEMMA ExchangeIs ==
    ASSUME SpiInv, Exchange
    PROVE  /\ Exchanging
           /\ IsCall(call)
           /\ Frame \in Seq(Nat)
           /\ \E reply \in Reply(Chip(call.name), Frame[Len(received) + 1]) : received' = Append(received, reply)
           /\ frame' = Append(frame, Frame[Len(received) + 1])
           /\ memory' = MemoryAfter(Chip(call.name), Frame[Len(received) + 1])
           /\ UNCHANGED <<configuration, selected, call, step, previous_data, before, returned, calls>>
<1>1. Exchanging
    BY DEF Exchange, Exchanging
<1>2. IsCall(call) /\ call.name \in Names /\ configuration = Chip(call.name) /\ selected = {Chip(call.name)}
    BY <1>1 DEF Exchanging, SpiInv, CallInv, BusInv, IsCall
<1>3. Listener = Chip(call.name)
    BY <1>2 DEF Listener
<1>4. Chip(call.name) # "none"
    BY <1>2, ChipOf
<1>5. Frame \in Seq(Nat)
    <2>1. call.name \in StoredNames \/ call.name \in Sample
        BY <1>2 DEF StoredNames
    <2> QED
        BY <1>2, <2>1, FrameFits, SampleFrameIs DEF AboutCall
<1> QED
    BY <1>1, <1>2, <1>3, <1>4, <1>5, Zenon DEF Exchange

\* The bytes of a frame go to the cells of the call, one after the other.
LEMMA ExchangeTransfers ==
    ASSUME SpiInv, Exchange, call.name \in StoredNames
    PROVE  /\ IsMemory(memory')
           /\ CellInv'
           /\ call.operation = "read" => memory' = memory
           /\ \A c : (\A k \in 1..SizeOf(call.name) : c # Cells[call.name][k]) =>
                        ByteIn(memory', c) = ByteIn(memory, c)
<1> DEFINE n == call.name
           h == HeaderOf(n)
           l == Len(received)
           byte == Frame[l + 1]
           k0 == l + 1 - h
<1>1. /\ Exchanging /\ IsCall(call) /\ Frame \in Seq(Nat) /\ call' = call /\ step' = step
      /\ memory' = MemoryAfter(Chip(n), byte)
    BY ExchangeIs
<1>2. PICK reply \in Reply(Chip(n), byte) : received' = Append(received, reply)
    BY ExchangeIs
<1>3. AboutCall
    BY <1>1, FrameFits
<1>4. n \in Names /\ SizeOf(n) \in 1..6 /\ h \in {2, 3} /\ call.operation \in {"read", "write"}
    BY <1>1, PlaceOf DEF HeaderOf, IsCall
<1>5. /\ received \in Seq(Nat) /\ l \in Nat /\ l < h + SizeOf(n) /\ IsMemory(memory)
      /\ step = "exchange"
    BY <1>1, <1>3 DEF Exchanging, SpiInv, FrameInv, AboutCall
<1>6. byte \in Nat /\ reply \in Nat
    <2>1. l + 1 \in 1..Len(Frame)
        BY <1>1, <1>5 DEF Exchanging
    <2>2. byte \in Nat
        BY <1>1, <2>1, ElementOfSeq
    <2> QED
        BY <1>1, <1>2, <2>2, ChipHears
<1>7. /\ l < h => memory' = memory
      /\ (l >= h /\ call.operation = "read") => memory' = memory /\ reply = ByteIn(memory, Cells[n][k0])
      /\ (l >= h /\ call.operation = "write") => memory' = StoredIn(memory, Cells[n][k0], byte)
    BY <1>1, <1>2, ChipHears
<1>8. l >= h => k0 \in 1..SizeOf(n)
    <2>1. l \in Nat /\ SizeOf(n) \in 1..6 /\ h \in {2, 3} /\ l < h + SizeOf(n)
        BY <1>4, <1>5
    <2> HIDE DEF l, h, n
    <2> QED
        BY <2>1, NextCell
<1>9. /\ Len(received') = l + 1
      /\ received'[l + 1] = reply
      /\ \A i \in 1..l : received'[i] = received[i]
    BY <1>2, <1>5, <1>6
<1>10. CellInv
    BY DEF SpiInv
<1>11. Frame' = Frame
    BY <1>1, FrameStays
<1> HIDE DEF n, h, l, byte, k0
<1>12. \A k \in 1..SizeOf(n) : h + k =< l =>
          IF call.operation = "read"
          THEN received[h + k] = ByteIn(memory, Cells[n][k])
          ELSE ByteIn(memory, Cells[n][k]) = Frame[h + k]
    BY <1>5, <1>10 DEF CellInv, n, h, l
<1>13. ASSUME \A k \in 1..SizeOf(n) : h + k =< l + 1 =>
                 IF call.operation = "read"
                 THEN received'[h + k] = ByteIn(memory', Cells[n][k])
                 ELSE ByteIn(memory', Cells[n][k]) = Frame[h + k]
       PROVE  CellInv'
    BY <1>1, <1>9, <1>11, <1>13 DEF CellInv, n, h
<1>14. \A k \in 1..SizeOf(n) : h + k \in Nat /\ h + k >= 1
    BY <1>4
<1>15. CASE memory' = memory
    <2>1. ASSUME NEW k \in 1..SizeOf(n), h + k =< l + 1
          PROVE  IF call.operation = "read"
                 THEN received'[h + k] = ByteIn(memory', Cells[n][k])
                 ELSE ByteIn(memory', Cells[n][k]) = Frame[h + k]
        <3>1. CASE h + k =< l
            BY <1>5, <1>9, <1>12, <1>14, <1>15, <2>1, <3>1
        <3>2. CASE h + k = l + 1
            <4>1. l >= h /\ k0 = k
                BY <1>4, <1>5, <3>2 DEF k0
            <4>2. CASE call.operation = "read"
                BY <1>7, <1>9, <1>15, <3>2, <4>1, <4>2
            <4>3. CASE call.operation = "write"
                <5>1. memory' = StoredIn(memory, Cells[n][k], byte)
                    BY <1>7, <4>1, <4>3
                <5>2. ByteIn(memory', Cells[n][k]) = byte
                    BY <1>5, <1>6, <5>1, StoredBytes
                <5> QED
                    BY <3>2, <4>3, <5>2 DEF byte
            <4> QED
                BY <1>4, <4>2, <4>3
        <3> QED
            BY <1>5, <1>14, <2>1, <3>1, <3>2
    <2> QED
        BY <1>5, <1>13, <1>15, <2>1
<1>16. CASE memory' # memory
    <2>1. l >= h /\ call.operation = "write"
        BY <1>4, <1>5, <1>7, <1>16
    <2>2. memory' = StoredIn(memory, Cells[n][k0], byte)
        BY <1>7, <2>1
    <2>3. /\ IsMemory(memory')
          /\ \A c : ByteIn(memory', c) = IF c = Cells[n][k0] THEN byte ELSE ByteIn(memory, c)
        BY <1>5, <1>6, <2>2, StoredBytes
    <2>4. k0 \in 1..SizeOf(n)
        BY <1>8, <2>1
    <2>5. \A k \in 1..SizeOf(n) : Cells[n][k] = Cells[n][k0] => k = k0
        BY <2>4, CellsAreDisjoint DEF n
    <2>6. ASSUME NEW k \in 1..SizeOf(n), h + k =< l + 1
          PROVE  ByteIn(memory', Cells[n][k]) = Frame[h + k]
        <3>1. CASE k = k0
            <4>1. h + k = l + 1
                BY <1>4, <1>5, <3>1 DEF k0
            <4> QED
                BY <2>3, <3>1, <4>1 DEF byte
        <3>2. CASE k # k0
            <4>1. h + k =< l
                BY <1>4, <1>5, <2>6, <3>2 DEF k0
            <4>2. ByteIn(memory, Cells[n][k]) = Frame[h + k]
                BY <1>12, <2>1, <4>1
            <4> QED
                BY <2>3, <2>5, <3>2, <4>2
        <3> QED
            BY <3>1, <3>2
    <2>7. CellInv'
        BY <1>13, <2>1, <2>6
    <2> QED
        BY <2>1, <2>3, <2>4, <2>7 DEF n
<1> QED
    BY <1>15, <1>16

LEMMA SampleTransfers ==
    ASSUME SpiInv, Exchange, call.name \in Sample
    PROVE  memory' = memory /\ SampleInv'
<1> DEFINE n == call.name
           l == Len(received)
           byte == Frame[l + 1]
           level == Level(Code(n[2]))
<1>1. /\ Exchanging /\ call' = call /\ step' = step
      /\ memory' = MemoryAfter(Chip(n), byte)
    BY ExchangeIs
<1>2. PICK reply \in Reply(Chip(n), byte) : received' = Append(received, reply)
    BY ExchangeIs
<1>3. /\ l \in 0..2
      /\ MemoryAfter(Chip(n), byte) = memory
      /\ reply \in Nat
      /\ l = 1 => reply % 4 = level \div BYTES
      /\ l = 2 => reply = level % BYTES
    BY <1>1, <1>2, ConverterHears
<1>4. received \in Seq(Nat) /\ step = "exchange" /\ SampleInv
    BY <1>1 DEF Exchanging, SpiInv, FrameInv
<1>5. /\ Len(received') = l + 1
      /\ received'[l + 1] = reply
      /\ \A i \in 1..l : received'[i] = received[i]
    BY <1>2, <1>3, <1>4
<1>6. /\ l >= 2 => received[2] % 4 = level \div BYTES
      /\ l >= 3 => received[3] = level % BYTES
    BY <1>4 DEF SampleInv
<1> HIDE DEF l, level, byte
<1>7. (l + 1) >= 2 => received'[2] % 4 = level \div BYTES
    <2>1. CASE l = 1
        BY <1>3, <1>5, <2>1
    <2>2. CASE l = 2
        BY <1>5, <1>6, <2>2
    <2> QED
        BY <1>3, <2>1, <2>2
<1>8. (l + 1) >= 3 => received'[3] = level % BYTES
    <2>1. CASE l = 2
        BY <1>3, <1>5, <2>1
    <2> QED
        BY <1>3, <2>1
<1>9. /\ Len(received') >= 2 => received'[2] % 4 = level \div BYTES
      /\ Len(received') >= 3 => received'[3] = level % BYTES
    BY <1>5, <1>7, <1>8
<1>10. SampleInv'
    BY <1>1, <1>9, Zenon DEF SampleInv, level
<1> QED
    BY <1>1, <1>3, <1>10

LEMMA ExchangeStep ==
    ASSUME SpiInv, Exchange
    PROVE  SpiInv'
<1> DEFINE l == Len(received)
           byte == Frame[l + 1]
<1>1. /\ Exchanging /\ IsCall(call) /\ Frame \in Seq(Nat) /\ frame' = Append(frame, byte)
      /\ UNCHANGED <<configuration, selected, call, step, previous_data, before, returned, calls>>
    BY ExchangeIs
<1>2. PICK reply \in Reply(Chip(call.name), byte) : received' = Append(received, reply)
    BY ExchangeIs
<1>3. step = "exchange"
    BY <1>1 DEF Exchanging
<1>4. call.name \in StoredNames \/ call.name \in Sample
    BY <1>1 DEF IsCall, StoredNames
<1>5. reply \in Nat
    BY <1>1, <1>2, <1>4, ChipHears, ConverterHears
<1>6. /\ frame \in Seq(Nat) /\ received \in Seq(Nat) /\ Len(frame) = l /\ l < Len(Frame)
      /\ \A k \in 1..l : frame[k] = Frame[k]
    BY <1>1 DEF Exchanging, SpiInv, FrameInv
<1>7. l \in Nat /\ Len(Frame) \in Nat
    BY <1>1, <1>6
<1>8. byte \in Nat
    <2>1. l + 1 \in 1..Len(Frame)
        BY <1>6, <1>7
    <2> QED
        BY <1>1, <2>1, ElementOfSeq
<1>9. Frame' = Frame
    BY <1>1, FrameStays
<1> HIDE DEF l, byte
<1>10. /\ frame' \in Seq(Nat) /\ Len(frame') = l + 1 /\ frame'[l + 1] = byte
       /\ \A k \in 1..l : frame'[k] = frame[k]
    BY <1>1, <1>6, <1>7, <1>8
<1>11. received' \in Seq(Nat) /\ Len(received') = l + 1
    BY <1>2, <1>5, <1>6 DEF l
<1>12. \A k \in 1..(l + 1) : frame'[k] = Frame[k]
    <2> SUFFICES ASSUME NEW k \in 1..(l + 1) PROVE frame'[k] = Frame[k]
        OBVIOUS
    <2>1. CASE k = l + 1
        BY <1>10, <2>1 DEF byte
    <2>2. CASE k \in 1..l
        BY <1>6, <1>10, <2>2
    <2>3. k = l + 1 \/ k \in 1..l
        BY <1>7
    <2> QED
        BY <2>1, <2>2, <2>3
<1>13. FrameInv'
    BY <1>6, <1>7, <1>9, <1>10, <1>11, <1>12 DEF FrameInv
<1>14. StepInv' /\ CallInv' /\ BusInv'
    BY <1>1, <1>3 DEF SpiInv, StepInv, CallInv, BusInv
<1>15. CASE call.name \in StoredNames
    <2>1. IsMemory(memory)' /\ CellInv'
        BY <1>15, ExchangeTransfers
    <2>2. SampleInv'
        BY <1>1, <1>15 DEF SampleInv, StoredNames
    <2> QED
        BY <1>13, <1>14, <2>1, <2>2 DEF SpiInv
<1>16. CASE call.name \in Sample
    <2>1. memory' = memory /\ SampleInv'
        BY <1>16, SampleTransfers
    <2>2. CellInv'
        BY <1>1, <1>16 DEF CellInv, StoredNames
    <2>3. IsMemory(memory)'
        BY <2>1 DEF SpiInv, IsMemory
    <2> QED
        BY <1>13, <1>14, <2>1, <2>2, <2>3 DEF SpiInv
<1> QED
    BY <1>4, <1>15, <1>16

LEMMA DeselectStep ==
    ASSUME SpiInv, Deselect
    PROVE  SpiInv'
<1>1. /\ step = "exchange" /\ frame' = <<>> /\ received' = <<>> /\ memory' = memory
      /\ selected' = selected \ {Chip(call.name)}
    BY DEF Deselect
<1>2. IsCall(call) /\ returned = NoSpiCall /\ selected = {Chip(call.name)}
    BY <1>1 DEF SpiInv, CallInv, BusInv
<1>3. selected' = {}
    BY <1>1, <1>2
<1>4. \/ step' = "configure" /\ call' = call /\ returned' = returned
      \/ step' = "idle" /\ call' = NoSpiCall
    BY DEF Deselect
<1>5. StepInv' /\ CallInv'
    BY <1>2, <1>4 DEF StepInv, CallInv
<1>6. BusInv' /\ FrameInv' /\ CellInv' /\ SampleInv'
    BY <1>1, <1>3, <1>4 DEF BusInv, FrameInv, CellInv, SampleInv
<1>7. IsMemory(memory)'
    BY <1>1 DEF SpiInv, IsMemory
<1> QED
    BY <1>5, <1>6, <1>7 DEF SpiInv

\* A chip writes the cells of one of its registers.
LEMMA ChipWrites ==
    ASSUME SpiInv, NEW name \in Names, NEW bytes \in Patterns, ChipChanges(name, bytes)
    PROVE  /\ name \in StoredNames
           /\ IsMemory(memory')
           /\ \A c : (\A k \in 1..SizeOf(name) : c # Cells[name][k]) =>
                        ByteIn(memory', c) = ByteIn(memory, c)
<1> DEFINE own == Cells[name]
           K == 1..SizeOf(name)
<1>1. name[1] # "sample"
    BY DEF ChipChanges
<1>2. name \in StoredNames
    BY <1>1, StoredKinds DEF StoredNames
<1>3. DOMAIN own = K /\ K \subseteq 1..6
    <2>1. SizeOf(name) \in 1..6
        BY <1>2, PlaceOf
    <2>2. DOMAIN own = K
        BY <1>2, CellsAre
    <2> QED
        BY <2>1, <2>2
<1>4. \A k \in K : bytes[k] \in Nat
    <2>1. \A k \in 1..6 : bytes[k] \in Octets
        BY PatternsAre
    <2>2. Octets \subseteq Nat
        BY DEF Octets
    <2> QED
        BY <1>3, <2>1, <2>2, Zenon
<1>5. IsMemory(memory)
    BY DEF SpiInv
<1>6. memory' = [c \in DOMAIN memory \cup {own[k] : k \in DOMAIN own} |->
                    IF \E k \in DOMAIN own : own[k] = c
                    THEN bytes[CHOOSE k \in DOMAIN own : own[k] = c] ELSE memory[c]]
    BY DEF ChipChanges
<1> HIDE DEF own, K
<1>7. /\ memory' = [c \in DOMAIN memory' |-> memory'[c]]
      /\ DOMAIN memory' = DOMAIN memory \cup {own[k] : k \in K}
      /\ \A c \in DOMAIN memory' :
            memory'[c] = IF \E k \in K : own[k] = c
                         THEN bytes[CHOOSE k \in K : own[k] = c] ELSE memory[c]
    BY <1>3, <1>6
<1>8. ASSUME NEW c \in DOMAIN memory' PROVE memory'[c] \in Nat
    <2>1. CASE \E k \in K : own[k] = c
        <3>1. (CHOOSE k \in K : own[k] = c) \in K
            BY <2>1
        <3> QED
            BY <1>4, <1>7, <2>1, <3>1
    <2>2. CASE ~ \E k \in K : own[k] = c
        BY <1>5, <1>7, <2>2 DEF IsMemory
    <2> QED
        BY <2>1, <2>2
<1>9. ASSUME NEW c, \A k \in K : c # own[k] PROVE ByteIn(memory', c) = ByteIn(memory, c)
    BY <1>7, <1>9 DEF ByteIn
<1>10. IsMemory(memory')
    BY <1>7, <1>8 DEF IsMemory
<1> QED
    BY <1>2, <1>9, <1>10 DEF own, K

LEMMA ChipChangesStep ==
    ASSUME SpiInv, NEW name \in Names, NEW bytes \in Patterns, ChipChanges(name, bytes)
    PROVE  SpiInv'
<1>1. /\ step = "idle"
      /\ UNCHANGED <<configuration, selected, frame, call, step, received, previous_data, before, returned>>
    BY DEF ChipChanges
<1>2. IsMemory(memory)'
    BY ChipWrites
<1> QED
    BY <1>1, <1>2 DEF SpiInv, StepInv, CallInv, BusInv, FrameInv, CellInv, SampleInv

LEMMA SpiInvNext == SpiInv /\ [SpiNext]_spi => SpiInv'
<1> SUFFICES ASSUME SpiInv, [SpiNext]_spi PROVE SpiInv'
    OBVIOUS
<1>1. ASSUME NEW name \in Names, SpiCall("read", name, <<>>) PROVE SpiInv'
    <2>1. <<>> \in Seq(Nat) /\ "read" \in {"read", "write"} /\ "read" # "write"
        OBVIOUS
    <2> QED
        BY <1>1, <2>1, SpiCallStep
<1>2. ASSUME NEW name \in Names, NEW data \in Values(name), SpiCall("write", name, data) PROVE SpiInv'
    <2>1. data \in Seq(Nat)
        BY ValuesAre
    <2> QED
        BY <1>2, <2>1, SpiCallStep
<1>3. CASE Configure
    BY <1>3, ConfigureStep
<1>4. CASE Select
    BY <1>4, SelectStep
<1>5. CASE Exchange
    BY <1>5, ExchangeStep
<1>6. CASE Deselect
    BY <1>6, DeselectStep
<1>7. ASSUME NEW name \in Names, NEW p \in Patterns, ChipChanges(name, p) PROVE SpiInv'
    BY <1>7, ChipChangesStep
<1>8. CASE UNCHANGED spi
    <2>1. /\ memory' = memory /\ configuration' = configuration /\ selected' = selected
          /\ frame' = frame /\ call' = call /\ step' = step /\ received' = received /\ returned' = returned
        BY <1>8 DEF spi
    <2>2. Frame' = Frame
        BY <2>1, FrameStays
    <2> QED
        BY <2>1, <2>2 DEF SpiInv, IsMemory, StepInv, CallInv, BusInv, FrameInv, CellInv, SampleInv
<1> QED
    BY <1>1, <1>2, <1>3, <1>4, <1>5, <1>6, <1>7, <1>8 DEF SpiNext

-----------------------------------------------------------------------------
(* The register file.                                                      *)

LEMMA ACallIsMade ==
    ASSUME NEW c, IsCall(c)
    PROVE  /\ c # NoSpiCall
           /\ c.name \in Names
           /\ c.operation \in {"read", "write"}
BY NoSpiCallAssumption DEF IsCall

\* The contents that the register file has while a call writes are those
\* before it.
FileContents ==
    [name \in Names |->
        IF call # NoSpiCall /\ call.name = name /\ call.operation = "write"
        THEN before ELSE Contents(name)]

LEMMA FileContentsIs ==
    FileContents = [name \in Names |->
        IF call # NoSpiCall /\ call.name = name /\ call.operation = "write"
        THEN before ELSE ContentsIn(memory, name)]
BY ContentsAre DEF FileContents

LEMMA NextFileContentsIs ==
    FileContents' = [name \in Names |->
        IF call' # NoSpiCall /\ call'.name = name /\ call'.operation = "write"
        THEN before' ELSE ContentsIn(memory', name)]
<1>1. \A name \in Names : Contents(name)' = ContentsIn(memory', name)
    BY NextContentsAre
<1> QED
    BY <1>1 DEF FileContents

\* The steps in which nothing happens to the register file.
LEMMA NothingHappens ==
    ASSUME FileContents' = FileContents, call' = call, returned' = returned
    PROVE  File!Step
BY Zenon DEF File!Step, FileContents

LEMMA CallBegins ==
    ASSUME SpiInv, NEW operation \in {"read", "write"}, NEW name \in Names, NEW data \in Seq(Nat),
           operation = "write" => data \in Values(name),
           SpiCall(operation, name, data)
    PROVE  File!Step
<1> DEFINE c == [operation |-> operation, name |-> name, data |-> data]
<1>1. /\ call' = c /\ step = "idle" /\ returned' = NoSpiCall /\ Allowed(operation, name)
      /\ memory' = memory /\ before' = Contents(name)
    BY DEF SpiCall
<1>2. call = NoSpiCall
    BY <1>1 DEF SpiInv, CallInv
<1>3. c.operation = operation /\ c.name = name /\ c.data = data
    OBVIOUS
<1>4. c \in [operation : {"read", "write"}, name : Names, data : Seq(Nat)]
    OBVIOUS
<1> HIDE DEF c
<1>5. call' # NoSpiCall /\ call'.operation = operation /\ call'.name = name
    BY <1>1, <1>3, <1>4, NoSpiCallAssumption
<1>6. before' = ContentsIn(memory, name)
    BY <1>1, ContentsAre
<1>7. FileContents' = FileContents
    BY <1>1, <1>2, <1>5, <1>6, FileContentsIs, NextFileContentsIs
<1>8. File!Begin
    BY <1>1, <1>2, <1>5, <1>7 DEF File!Begin, FileContents
<1> QED
    BY <1>8 DEF File!Step, File!Next

LEMMA ExchangeIsHidden ==
    ASSUME SpiInv, Exchange
    PROVE  File!Step
<1>1. /\ IsCall(call) /\ call' = call /\ before' = before /\ returned' = returned
    BY ExchangeIs
<1>2. call # NoSpiCall /\ call.name \in Names /\ call.operation \in {"read", "write"}
    BY <1>1, ACallIsMade
<1>3. ASSUME NEW name \in Names, ~ (call.name = name /\ call.operation = "write")
      PROVE  ContentsIn(memory', name) = ContentsIn(memory, name)
    <2>1. CASE call.name \in Sample
        BY <2>1, SampleTransfers
    <2>2. CASE call.name \in StoredNames /\ call.operation = "read"
        BY <2>2, ExchangeTransfers
    <2>3. CASE call.name \in StoredNames /\ call.operation = "write"
        <3>1. \A c : (\A k \in 1..SizeOf(call.name) : c # Cells[call.name][k]) =>
                        ByteIn(memory', c) = ByteIn(memory, c)
            BY <2>3, ExchangeTransfers
        <3>2. name # call.name
            BY <1>3, <2>3
        <3> QED
            BY <2>3, <3>1, <3>2, OthersStay
    <2> QED
        BY <1>2, <2>1, <2>2, <2>3 DEF StoredNames
<1>4. FileContents' = FileContents
    BY <1>1, <1>2, <1>3, FileContentsIs, NextFileContentsIs
<1> QED
    BY <1>1, <1>4, NothingHappens

\* At the end of its frame, a call has read or written all of its register.
LEMMA CallIsDone ==
    ASSUME SpiInv, step = "exchange", Len(received) = Len(Frame)
    PROVE  IF call.operation = "read"
           THEN Result = ContentsIn(memory, call.name)
           ELSE ContentsIn(memory, call.name) = call.data
<1> DEFINE n == call.name
           h == HeaderOf(n)
           z == SizeOf(n)
           l == Len(received)
<1>1. IsCall(call) /\ received \in Seq(Nat)
    BY DEF SpiInv, CallInv, FrameInv
<1>2. n \in Names /\ call.operation \in {"read", "write"}
    BY <1>1, ACallIsMade
<1>3. CASE n \in Sample
    <2>1. call.operation = "read" /\ Len(Frame) = 3 /\ n[1] = "sample"
        BY <1>1, <1>2, <1>3, SampleFrameIs, StoredKinds
    <2> DEFINE level == Level(Code(n[2]))
    <2>2. received[2] % 4 = level \div BYTES /\ received[3] = level % BYTES
        BY <1>3, <2>1 DEF SpiInv, SampleInv
    <2>3. level \in Nat
        <3>1. Frame \in Seq(Nat) /\ Frame[2] \div 16 = Code(n[2])
            BY <1>1, <1>3, SampleFrameIs
        <3>2. 2 \in 1..Len(Frame)
            BY <2>1
        <3>3. Frame[2] \in Nat
            BY <3>1, <3>2, ElementOfSeq
        <3>4. Code(n[2]) \in Int
            BY <3>1, <3>3
        <3> QED
            BY <3>4, LevelIs
    <2> HIDE DEF level
    <2>4. (level \div BYTES) * BYTES + (level % BYTES) = level
        BY <2>3 DEF BYTES
    <2>5. Result = <<(received[2] % 4) * BYTES + received[3]>>
        BY <2>1 DEF Result
    <2>6. Result = <<level>>
        BY <2>2, <2>4, <2>5, Zenon
    <2> QED
        BY <2>1, <2>6 DEF ContentsIn, level
<1>4. CASE n \in StoredNames
    <2>1. AboutCall /\ n[1] # "sample" /\ z \in 1..6 /\ h \in {2, 3}
        BY <1>1, <1>4, FrameFits, PlaceOf DEF HeaderOf
    <2>2. l = h + z
        BY <2>1 DEF AboutCall
    <2>3. CellInv
        BY DEF SpiInv
    <2> HIDE DEF n, h, z, l
    <2>4. \A k \in 1..z : h + k =< l
        BY <2>1, <2>2
    <2>5. \A k \in 1..z : IF call.operation = "read"
                           THEN received[h + k] = ByteIn(memory, Cells[n][k])
                           ELSE ByteIn(memory, Cells[n][k]) = Frame[h + k]
        BY <1>4, <2>3, <2>4 DEF CellInv, n, h, z, l
    <2>6. CASE call.operation = "read"
        <3> DEFINE s == SubSeq(received, l - z + 1, l)
        <3>1. Result = FromBytes(Type[n], s)
            BY <2>1 DEF Result, SizeOf, n, z, l
        <3>2. l - z + 1 = h + 1
            BY <2>1, <2>2
        <3>3. \A i \in (h + 1)..l : received[i] \in Nat
            BY <1>1, <2>1, <2>2, ElementOfSeq DEF l
        <3>4. /\ s \in Seq(Nat) /\ Len(s) = z
              /\ \A i \in 1..z : s[i] = received[h + i]
            <4>1. h + 1 \in Int /\ l \in Int /\ h + 1 =< l /\ l - (h + 1) + 1 = z
                BY <2>1, <2>2
            <4>2. /\ SubSeq(received, h + 1, l) \in Seq(Nat)
                  /\ Len(SubSeq(received, h + 1, l)) = z
                  /\ \A i \in 1..z : SubSeq(received, h + 1, l)[i] = received[(h + 1) + i - 1]
                BY <3>3, <4>1, SubSeqProperties
            <4>3. \A i \in 1..z : (h + 1) + i - 1 = h + i
                BY <2>1
            <4> QED
                BY <3>2, <4>2, <4>3
        <3> HIDE DEF s
        <3>5. s = BytesIn(memory, n)
            BY <2>1, <2>5, <2>6, <3>4 DEF BytesIn, z
        <3> QED
            BY <2>1, <2>6, <3>1, <3>5 DEF ContentsIn, n
    <2>7. CASE call.operation = "write"
        <3>1. \A k \in 1..z : ByteIn(memory, Cells[n][k]) = BodyOf(call)[k]
            BY <2>1, <2>5, <2>7 DEF AboutCall, n, h, z
        <3>2. /\ BodyOf(call) \in Seq(Nat) /\ Len(BodyOf(call)) = z
              /\ FromBytes(Type[n], BodyOf(call)) = call.data
            BY <1>1, <2>7, BodyIs DEF n, z
        <3>3. BytesIn(memory, n) = BodyOf(call)
            BY <2>1, <3>1, <3>2 DEF BytesIn, z
        <3> QED
            BY <2>1, <2>7, <3>2, <3>3 DEF ContentsIn, n
    <2> QED
        BY <1>2, <2>6, <2>7
<1> QED
    BY <1>2, <1>3, <1>4 DEF StoredNames

LEMMA CallEnds ==
    ASSUME SpiInv, Deselect
    PROVE  File!Step
<1>1. /\ step = "exchange" /\ Len(received) = Len(Frame) /\ memory' = memory
    BY DEF Deselect
<1>2. IsCall(call) /\ returned = NoSpiCall
    BY <1>1 DEF SpiInv, CallInv
<1>3. call # NoSpiCall /\ call.name \in Names /\ call.operation \in {"read", "write"}
    BY <1>2, ACallIsMade
<1>4. CASE call' = call /\ before' = before /\ returned' = returned
    <2>1. FileContents' = FileContents
        BY <1>1, <1>4, FileContentsIs, NextFileContentsIs
    <2> QED
        BY <1>4, <2>1, NothingHappens
<1>5. CASE /\ call' = NoSpiCall
           /\ returned' = IF call.operation = "read" THEN <<call.name, Result>> ELSE NoSpiCall
    <2>1. FileContents' = [name \in Names |-> ContentsIn(memory, name)]
        BY <1>1, <1>5, NextFileContentsIs
    <2>2. CASE call.operation = "read"
        <3>1. FileContents = [name \in Names |-> ContentsIn(memory, name)]
            BY <2>2, FileContentsIs
        <3>2. Result = FileContents[call.name]
            BY <1>1, <1>3, <2>2, <3>1, CallIsDone
        <3>3. returned' = <<call.name, FileContents[call.name]>>
            BY <1>5, <2>2, <3>2
        <3>4. FileContents' = FileContents
            BY <2>1, <3>1
        <3>5. File!Read
            BY <1>3, <1>5, <2>2, <3>3, <3>4, Zenon DEF File!Read, FileContents
        <3> QED
            BY <3>5 DEF File!Step, File!Next
    <2>3. CASE call.operation = "write"
        <3>1. FileContents'[call.name] = call.data
            BY <1>1, <1>3, <2>1, <2>3, CallIsDone
        <3>2. \A name \in Names \ {call.name} : FileContents'[name] = FileContents[name]
            BY <2>1, FileContentsIs
        <3>3. returned' = returned
            BY <1>2, <1>5, <2>3
        <3>4. File!Write
            BY <1>3, <1>5, <2>3, <3>1, <3>2, <3>3, Zenon DEF File!Write, FileContents
        <3> QED
            BY <3>4 DEF File!Step, File!Next
    <2> QED
        BY <1>3, <2>2, <2>3
<1> QED
    BY <1>4, <1>5 DEF Deselect

LEMMA ChipChangesOne ==
    ASSUME SpiInv, NEW name \in Names, NEW bytes \in Patterns, ChipChanges(name, bytes)
    PROVE  File!Step
<1>1. step = "idle" /\ call' = call /\ returned' = returned /\ before' = before
    BY DEF ChipChanges
<1>2. call = NoSpiCall
    BY <1>1 DEF SpiInv, CallInv
<1>3. \A n \in Names \ {name} : ContentsIn(memory', n) = ContentsIn(memory, n)
    BY ChipWrites, OthersStay
<1>4. /\ FileContents = [n \in Names |-> ContentsIn(memory, n)]
      /\ FileContents' = [n \in Names |-> ContentsIn(memory', n)]
    BY <1>1, <1>2, FileContentsIs, NextFileContentsIs
<1>5. CASE ContentsIn(memory', name) = ContentsIn(memory, name)
    <2>1. FileContents' = FileContents
        BY <1>3, <1>4, <1>5
    <2> QED
        BY <1>1, <2>1, NothingHappens
<1>6. CASE ContentsIn(memory', name) # ContentsIn(memory, name)
    <2>1. /\ FileContents'[name] # FileContents[name]
          /\ \A other \in Names \ {name} : FileContents'[other] = FileContents[other]
        BY <1>3, <1>4, <1>6
    <2>2. File!Change
        BY <1>1, <1>2, <2>1, Zenon DEF File!Change, FileContents
    <2> QED
        BY <2>2 DEF File!Step, File!Next
<1> QED
    BY <1>5, <1>6

(* Whatever the frames, the byte order and the other devices on the bus:   *)
(* a write changes the one register that it is about, and to what it was   *)
(* given, and a read returns what its register has.                        *)
THEOREM RegistersAreIndependent == SpiSpec => IsRegisterFile
<1>1. SpiInit => SpiInv
    BY SpiInvInit
<1>2. SpiInv /\ [SpiNext]_spi => SpiInv'
    BY SpiInvNext
<1>3. SpiInv /\ [SpiNext]_spi => [UNCHANGED spi \/ File!Step]_spi
    <2> SUFFICES ASSUME SpiInv, SpiNext PROVE File!Step
        OBVIOUS
    <2>1. ASSUME NEW name \in Names, SpiCall("read", name, <<>>) PROVE File!Step
        <3>1. <<>> \in Seq(Nat) /\ "read" \in {"read", "write"} /\ "read" # "write"
            OBVIOUS
        <3> QED
            BY <2>1, <3>1, CallBegins
    <2>2. ASSUME NEW name \in Names, NEW data \in Values(name), SpiCall("write", name, data) PROVE File!Step
        <3>1. data \in Seq(Nat)
            BY ValuesAre
        <3> QED
            BY <2>2, <3>1, CallBegins
    <2>3. CASE Configure \/ Select
        <3>1. /\ call' = call /\ returned' = returned /\ before' = before /\ memory' = memory
            BY <2>3 DEF Configure, Select
        <3>2. FileContents' = FileContents
            BY <3>1, FileContentsIs, NextFileContentsIs
        <3> QED
            BY <3>1, <3>2, NothingHappens
    <2>4. CASE Exchange
        BY <2>4, ExchangeIsHidden
    <2>5. CASE Deselect
        BY <2>5, CallEnds
    <2>6. ASSUME NEW name \in Names, NEW p \in Patterns, ChipChanges(name, p) PROVE File!Step
        BY <2>6, ChipChangesOne
    <2> QED
        BY <2>1, <2>2, <2>3, <2>4, <2>5, <2>6 DEF SpiNext
<1> QED
    BY <1>1, <1>2, <1>3, PTL DEF SpiSpec, IsRegisterFile
=============================================================================
