--------------------------- MODULE BufferPointers ---------------------------
(***************************************************************************)
(* The pointers of a socket's transmit and receive buffers (SN_TX_WR,      *)
(* SN_RX_RD and those that the chip keeps): they wrap at the width of      *)
(* their registers, and the place in the buffer is what is left of one     *)
(* when it is divided by the buffer's size.                                *)
(***************************************************************************)
EXTENDS Integers

CONSTANTS
    Size,             \* bytes in the transmit, and in the receive, buffer
    POINTERS          \* 2 ^ the width of SN_TX_WR, SN_RX_RD, ...

ASSUME SizeAssumption == Size \in Nat \ {0}
ASSUME PointersAssumption == POINTERS \in Nat /\ POINTERS > Size /\ POINTERS % Size = 0

Pointers == 0..(POINTERS - 1)
Places == 0..(Size - 1)

\* How far one pointer is ahead of another.
Ahead(p, q) == (p - q) % POINTERS

Add(p, n) == (p + n) % POINTERS

Place(p) == p % Size

\* How far a place is from where a pointer points.
From(i, p) == Ahead(i, Place(p)) % Size
=============================================================================
