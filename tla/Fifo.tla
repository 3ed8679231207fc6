-------------------------------- MODULE Fifo --------------------------------
(***************************************************************************)
(* What a Circular_Buffer promises: a first-in first-out queue of at most  *)
(* N values.                                                               *)
(***************************************************************************)
EXTENDS Integers, Sequences

CONSTANTS Values, N, NoValue

VARIABLES queue, out      \* out is the value taken by the last pop

Init == queue = <<>> /\ out = NoValue

Push(v) == /\ Len(queue) < N
           /\ queue' = Append(queue, v)
           /\ UNCHANGED out

Pop == /\ queue # <<>>
       /\ out' = Head(queue)
       /\ queue' = Tail(queue)

Clear == queue' = <<>> /\ UNCHANGED out

Next == (\E v \in Values : Push(v)) \/ Pop \/ Clear

Spec == Init /\ [][Next]_<<queue, out>>
=============================================================================
