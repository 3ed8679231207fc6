------------------------------- MODULE I2CBus -------------------------------
(***************************************************************************)
(* An I2C bus with a TCA9548A multiplexer and, on each of its channels, a  *)
(* device: the devices have the same address, so that it takes the         *)
(* multiplexer to tell them apart.                                         *)
(*                                                                         *)
(* I2C::Device aligns the multiplexer before each of its transactions;     *)
(* TCA9548A::Bus_Multiplexer_Aligner decides from the cached Control       *)
(* register whether it has to write the register, which is a transaction   *)
(* of its own.  A transaction is three steps: the device is addressed      *)
(* (Bus_Control_Guard, address()), a byte is written or read, and the      *)
(* guard gives the bus back.  A device that does not acknowledge is a      *)
(* fatal error, which ends the program.                                    *)
(***************************************************************************)
CONSTANTS
    Devices,      \* a device also stands for the channel that it is on
    mux,          \* the TCA9548A
    none

ASSUME DevicesAssumption == mux \notin Devices /\ none \notin Devices \cup {mux}

VARIABLES
    control,      \* the Control register of the TCA9548A: channels enabled
    m_control,    \* the Caching_Driver's copy of it
    transaction,  \* the transaction in progress, or the last one
    pc

bus == <<control, m_control, transaction>>

NoTransaction == [to |-> none, data |-> {}]

BusInit ==
    /\ control = {}
    /\ m_control = {}
    /\ transaction = NoTransaction
    /\ pc = "idle"

\* the device that the address of the device "to" reaches, or the devices
Reachable(to) == IF to = mux THEN {mux} ELSE control

\* A mutant: channels that are enabled stay enabled.
Aligned_DisablesNothing(device) == m_control \cup {device}

\* The channels that an aligner with mask_enable for the channel of the
\* device, and mask_disable for all others, asks for.
Aligned(device) == (m_control \cup {device}) \ (Devices \ {device})

\* m_align_bus_multiplexer(): nothing, or a transaction with the TCA9548A.
AlignmentNeeded(device) ==
    device \notin m_control \/ m_control \cap (Devices \ {device}) # {}

Align(device, data) ==
    /\ pc = "align"
    /\ transaction' = IF AlignmentNeeded(device) THEN [to |-> mux, data |-> Aligned(device)]
                                                 ELSE [to |-> device, data |-> data]
    /\ pc' = "address"
    /\ UNCHANGED <<control, m_control>>

\* The transaction itself, when the multiplexer has been aligned for it.
Transact(device, data) ==
    /\ pc = "aligned"
    /\ transaction' = [to |-> device, data |-> data]
    /\ pc' = "address"
    /\ UNCHANGED <<control, m_control>>

\* Bus_Control_Guard's start(), then address()
Address ==
    /\ pc = "address"
    /\ pc' = IF Reachable(transaction.to) = {} THEN "fatal" ELSE "data"
    /\ UNCHANGED bus

\* A device does not acknowledge its address or a byte.
NotAcknowledged ==
    /\ pc \in {"address", "data"}
    /\ pc' = "fatal"
    /\ UNCHANGED bus

\* Caching_Driver::write_control(), once the driver's write() has returned;
\* channels change with the stop condition.
SwitchChannels ==
    /\ pc = "data"
    /\ transaction.to = mux
    /\ control' = transaction.data
    /\ m_control' = transaction.data
    /\ pc' = "aligned"
    /\ UNCHANGED transaction

\* The program resets the TCA9548A and calls reset_cache().
ResetMultiplexer ==
    /\ pc = "idle"
    /\ control' = {}
    /\ m_control' = {}
    /\ UNCHANGED <<transaction, pc>>

(* A transaction reaches the device that it is meant for, and no other one *)
(* with the same address: the cached Control register, from which the      *)
(* aligner decides whether to do anything, is what the multiplexer has.    *)
OnlyTargetAnswers ==
    pc \in {"address", "data", "finish"} => Reachable(transaction.to) = {transaction.to}

=============================================================================
