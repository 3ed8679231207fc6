------------------------- MODULE W5500NonAtomicRead -------------------------
(***************************************************************************)
(* Driver::read_non_atomic(): how SN_TX_FSR and SN_RX_RSR are read while   *)
(* the chip changes them.                                                  *)
(*                                                                         *)
(* The SPI frame that reads a 16 bit register carries one byte after the   *)
(* other, and the chip may change the register between the two: the bytes  *)
(* of one read may belong to different values.  The driver reads until two *)
(* reads agree.  A value of the register is a pair of bytes, most          *)
(* significant first.                                                      *)
(*                                                                         *)
(* While a call is in progress the driver gives no SEND and no RECV        *)
(* command, so the register only grows: data is acknowledged or arrives.   *)
(***************************************************************************)
EXTENDS Integers

CONSTANTS BYTE,      \* 2 ^ the width of a byte
          None       \* no read has been made yet

ASSUME ByteAssumption == BYTE \in Nat \ {0}
ASSUME NoneAssumption == None \notin (0..(BYTE - 1)) \X (0..(BYTE - 1))

Bytes == 0..(BYTE - 1)
Registers == Bytes \X Bytes

\* the order of the values
AtMost(a, b) == a[1] < b[1] \/ (a[1] = b[1] /\ a[2] =< b[2])

VARIABLES
    register,        \* the register
    pc,              \* the byte that the driver reads next, or "idle"
    high,            \* buffer[ 0 ]
    previous,        \* previous_data
    result,          \* what the last call returned
    at_high, at_low, \* history: the register when high, and when the second
                     \* byte of previous, were read
    seen             \* history: the values of the register during the call

vars == <<register, pc, high, previous, result, at_high, at_low, seen>>

Init ==
    /\ register \in Registers
    /\ pc = "idle"
    /\ high = 0
    /\ previous = None
    /\ result = register
    /\ at_high = register
    /\ at_low = register
    /\ seen = {}

Call ==
    /\ pc = "idle"
    /\ pc' = "high"
    /\ previous' = None
    /\ seen' = {register}
    /\ UNCHANGED <<register, high, result, at_high, at_low>>

ReadHigh ==
    /\ pc = "high"
    /\ high' = register[1]
    /\ at_high' = register
    /\ pc' = "low"
    /\ UNCHANGED <<register, previous, result, at_low, seen>>

\* A mutant: the first read is believed.
Agrees_TrustsFirst(new_data) == previous = None \/ new_data = previous

Agrees(new_data) == new_data = previous

\* A mutant: every read is compared with nothing.
ReadLow_ForgetsPrevious ==
    LET new_data == <<high, register[2]>> IN
    /\ pc = "low"
    /\ IF Agrees(new_data)
       THEN pc' = "idle" /\ result' = new_data /\ UNCHANGED previous
       ELSE pc' = "high" /\ UNCHANGED previous /\ UNCHANGED result
    /\ at_low' = register
    /\ UNCHANGED <<register, high, at_high, seen>>

ReadLow ==
    LET new_data == <<high, register[2]>> IN
    /\ pc = "low"
    /\ IF Agrees(new_data)
       THEN pc' = "idle" /\ result' = new_data /\ UNCHANGED previous
       ELSE pc' = "high" /\ previous' = new_data /\ UNCHANGED result
    /\ at_low' = register
    /\ UNCHANGED <<register, high, at_high, seen>>

\* The chip frees transmit buffer space or stores received data.
Grow ==
    /\ \E value \in Registers : /\ AtMost(register, value)
                                /\ value # register
                                /\ register' = value
                                /\ seen' = IF pc = "idle" THEN seen ELSE seen \cup {value}
    /\ UNCHANGED <<pc, high, previous, result, at_high, at_low>>

\* A SEND or RECV command of the driver, between two calls.
Command ==
    /\ pc = "idle"
    /\ \E value \in Registers : /\ AtMost(value, register)
                                /\ register' = value
    /\ UNCHANGED <<pc, high, previous, result, at_high, at_low, seen>>

Next == Call \/ ReadHigh \/ ReadLow \/ Grow \/ Command

Spec == Init /\ [][Next]_vars

\* The driver does not stop in the middle of a call.
FairSpec == Spec /\ WF_vars(ReadHigh) /\ WF_vars(ReadLow)

TypeOK ==
    /\ register \in Registers
    /\ pc \in {"idle", "high", "low"}
    /\ high \in Bytes
    /\ previous \in Registers \cup {None}
    /\ result \in Registers
    /\ at_high \in Registers
    /\ at_low \in Registers
    /\ seen \in SUBSET Registers

(* The value that read_non_atomic() returns is one that the register had   *)
(* at some moment of the call, never a mix of the bytes of two values.     *)
ResultWasSeen == [][(pc = "low" /\ pc' = "idle") => result' \in seen]_vars

(* A call returns, although the chip can change the register between any   *)
(* two reads: the register is bounded and only grows during the call.      *)
CallReturns == pc # "idle" ~> pc = "idle"

=============================================================================
