------------------------ MODULE W5500Configuration ------------------------
(***************************************************************************)
(* The network-wide configuration of Network_Stack: initialize(), the      *)
(* calls that change one field of a register that has others, and the      *)
(* getters, which answer from the registers.  The registers are those of   *)
(* RegisterFile.  A register with fields is the set of its bits that are   *)
(* 1; any other holds the argument that was written to it.                 *)
(*                                                                         *)
(* A call that changes a field reads the register and writes it back, and  *)
(* the chip may act in between: the link goes up and down, interrupts are  *)
(* raised.  The program serves interrupts as interrupt_context() and       *)
(* clear_interrupts() suggest: it reads them, and clears those it read.    *)
(***************************************************************************)
EXTENDS Integers

CONSTANTS
    Interrupts       \* bits of IR and IMR

VARIABLES
    mr, phycfgr, imr, ir, simr,
    others,          \* the registers without fields: the argument they hold
    update,          \* a register that has been read and is to be written
    context,         \* the interrupts that the program has read, or NoContext
    asked,           \* history: what the program has configured
    unserved         \* history: interrupts raised that the program has not read

configured == <<mr, phycfgr, imr, ir, simr, others, update, context, asked, unserved>>

NoUpdate == [register |-> "none", bits |-> {}]
NoContext == {"none"}

\* ARP_Forcing, Ping_Blocking: one bit each, set when enabled
Ping_Blocking == SUBSET {"PB"}
ARP_Forcing == SUBSET {"FARP"}

OPMDC == {"OPMDC0", "OPMDC1", "OPMDC2"}

\* PHY_Mode: the mode pins, or a mode in OPMDC; one of the three not listed
\* here (power down) is not allowed in initialize()
PHY_Mode ==
    {{}} \cup {{"OPMD"} \cup mode : mode \in {{}, {"OPMDC0"}, {"OPMDC1"}, {"OPMDC0", "OPMDC1"},
                                              {"OPMDC2"}, OPMDC}}

Link == {"LNK", "SPD", "DPX"}

\* which argument of initialize() goes to which register
Written ==
    [rtr |-> "retransmission_retry_time", rcr |-> "retransmission_retry_count", shar |-> "mac_address",
     sipr |-> "ipv4_address", gar |-> "ipv4_gateway_address", subr |-> "ipv4_subnet_mask",
     intlevel |-> "interrupt_assert_wait_time"]

\* The chip only takes the mode and the reset bit of PHYCFGR.
PHYWritten(bits) == bits \cup (phycfgr \cap Link)

ConfiguredInit ==
    /\ mr = {}
    /\ phycfgr = {"RST"} \cup OPMDC
    /\ imr = {}
    /\ ir = {}
    /\ simr = {}
    /\ others = [register \in DOMAIN Written |-> "reset"]
    /\ update = NoUpdate
    /\ context = NoContext
    /\ asked = [initialized |-> FALSE]
    /\ unserved = {}

Ready == update = NoUpdate /\ asked.initialized

\* initialize(), which resets the PHY on the way; what it does for the
\* sockets is in W5500Sockets
InitializeNetwork(phy_mode, ping_blocking, arp_forcing) ==
    /\ ~ asked.initialized
    /\ phycfgr' = PHYWritten(phy_mode \cup {"RST"})
    /\ mr' = ping_blocking \cup arp_forcing
    /\ others' = Written
    /\ asked' = [initialized |-> TRUE, phy_mode |-> phy_mode,
                 ping_blocking |-> ping_blocking, arp_forcing |-> arp_forcing,
                 interrupts |-> {}, socket_interrupts |-> FALSE]
    /\ UNCHANGED <<imr, ir, simr, update, context, unserved>>

\* A call has read a register and is about to write bits to it.
Update(register, bits) == update' = [register |-> register, bits |-> bits]

\* A mutant: the other fields of MR are written as zeros.
ConfigurePingBlocking_WritesAll(configuration) ==
    /\ Ready
    /\ Update("mr", configuration)
    /\ asked' = [asked EXCEPT !.ping_blocking = configuration]
    /\ UNCHANGED <<mr, phycfgr, imr, ir, simr, others, context, unserved>>

ConfigurePingBlocking(configuration) ==
    /\ Ready
    /\ Update("mr", (mr \ {"PB"}) \cup configuration)
    /\ asked' = [asked EXCEPT !.ping_blocking = configuration]
    /\ UNCHANGED <<mr, phycfgr, imr, ir, simr, others, context, unserved>>

EnableInterrupts(mask) ==
    /\ Ready
    /\ Update("imr", imr \cup mask)
    /\ asked' = [asked EXCEPT !.interrupts = @ \cup mask]
    /\ UNCHANGED <<mr, phycfgr, imr, ir, simr, others, context, unserved>>

\* disable_interrupts( mask ); disable_interrupts() is that of all
DisableInterrupts(mask) ==
    /\ Ready
    /\ Update("imr", imr \ mask)
    /\ asked' = [asked EXCEPT !.interrupts = @ \ mask]
    /\ UNCHANGED <<mr, phycfgr, imr, ir, simr, others, context, unserved>>

WriteBack ==
    /\ update # NoUpdate
    /\ mr' = IF update.register = "mr" THEN update.bits ELSE mr
    /\ imr' = IF update.register = "imr" THEN update.bits ELSE imr
    /\ update' = NoUpdate
    /\ UNCHANGED <<phycfgr, ir, simr, others, context, asked, unserved>>

\* enable_socket_interrupts(), disable_socket_interrupts()
ConfigureSocketInterrupts(enable) ==
    /\ Ready
    /\ simr' = IF enable THEN 0..7 ELSE {}
    /\ asked' = [asked EXCEPT !.socket_interrupts = enable]
    /\ UNCHANGED <<mr, phycfgr, imr, ir, others, update, context, unserved>>

\* interrupt_context()
ReadContext ==
    /\ Ready
    /\ context = NoContext
    /\ context' = ir
    /\ UNCHANGED <<mr, phycfgr, imr, ir, simr, others, update, asked, unserved>>

\* clear_interrupts( context ), after which the program serves them
ClearInterrupts ==
    /\ Ready
    /\ context # NoContext
    /\ ir' = ir \ context
    /\ unserved' = unserved \ context
    /\ context' = NoContext
    /\ UNCHANGED <<mr, phycfgr, imr, simr, others, update, asked>>

\* The chip raises an interrupt, or its link changes.
Raise(interrupt) ==
    /\ ir' = ir \cup {interrupt}
    /\ unserved' = unserved \cup {interrupt}
    /\ UNCHANGED <<mr, phycfgr, imr, simr, others, update, context, asked>>

LinkChanges ==
    /\ \E link \in SUBSET Link : phycfgr' = (phycfgr \ Link) \cup link
    /\ UNCHANGED <<mr, imr, ir, simr, others, update, context, asked, unserved>>

ConfiguredNext ==
    \/ \E phy_mode \in PHY_Mode, ping_blocking \in Ping_Blocking, arp_forcing \in ARP_Forcing :
            InitializeNetwork(phy_mode, ping_blocking, arp_forcing)
    \/ \E configuration \in Ping_Blocking : ConfigurePingBlocking(configuration)
    \/ \E mask \in SUBSET Interrupts : EnableInterrupts(mask) \/ DisableInterrupts(mask)
    \/ WriteBack
    \/ \E enable \in BOOLEAN : ConfigureSocketInterrupts(enable)
    \/ ReadContext
    \/ ClearInterrupts
    \/ \E interrupt \in Interrupts : Raise(interrupt)
    \/ LinkChanges

ConfiguredSpec == ConfiguredInit /\ [][ConfiguredNext]_configured

-----------------------------------------------------------------------------
(* The getters.                                                            *)

phy_mode_of(register) == register \cap ({"OPMD"} \cup OPMDC)

ping_blocking_configuration == mr \cap {"PB"}

arp_forcing_configuration == mr \cap {"FARP"}

socket_interrupts_are_enabled == simr # {}

\* retransmission_retry_time(), ..., interrupt_assert_wait_time()
ReadFrom ==
    [retransmission_retry_time |-> "rtr", retransmission_retry_count |-> "rcr", mac_address |-> "shar",
     ipv4_address |-> "sipr", ipv4_gateway_address |-> "gar", ipv4_subnet_mask |-> "subr",
     interrupt_assert_wait_time |-> "intlevel"]

(* Every getter answers what the program last configured, whatever it      *)
(* configured before and after in other fields of the same register and    *)
(* whatever the chip does meanwhile, and an interrupt that is raised while *)
(* others are cleared is not lost.                                         *)
ConfigurationStays ==
    /\ Ready =>
        /\ phy_mode_of(phycfgr) = asked.phy_mode
        /\ ping_blocking_configuration = asked.ping_blocking
        /\ arp_forcing_configuration = asked.arp_forcing
        /\ imr = asked.interrupts
        /\ socket_interrupts_are_enabled = asked.socket_interrupts
        /\ \A parameter \in DOMAIN ReadFrom : others[ReadFrom[parameter]] = parameter
    /\ unserved \subseteq ir

=============================================================================
