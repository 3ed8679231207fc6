-------------------------- MODULE BoundedSequence --------------------------
(***************************************************************************)
(* What a vector of fixed capacity promises: sequences of at most N        *)
(* elements, each changed by one call at a time, and a fatal error in the  *)
(* place of a call that would need more room or reach past the end.        *)
(***************************************************************************)
EXTENDS Integers, Sequences, SequencesExt

CONSTANT N

VARIABLES
    contents,    \* a sequence for each name
    call,        \* the last call: operation, name, argument and answer
    failed

Answers(c, answer) == c.answer = answer /\ UNCHANGED <<contents, failed>>

Leaves(c, s) ==
    IF Len(s) <= N
    THEN contents' = [contents EXCEPT ![c.name] = s] /\ UNCHANGED failed
    ELSE failed' = TRUE /\ UNCHANGED contents

Old(c) == contents[c.name]

Replace(c) == c.operation \in {"constructor", "assign"} /\ Leaves(c, c.argument)

PushBack(c) == c.operation = "push_back" /\ Leaves(c, Append(Old(c), c.argument))

PopBack(c) == c.operation = "pop_back" /\ Leaves(c, Front(Old(c)))

Resize(c) ==
    /\ c.operation = "resize"
    /\ Leaves(c, [k \in 1 .. c.argument[1] |-> IF k <= Len(Old(c)) THEN Old(c)[k] ELSE c.argument[2]])

Erase(c) ==
    /\ c.operation = "erase"
    /\ c.answer = c.argument
    /\ Leaves(c, RemoveAt(Old(c), c.argument + 1))

Copy(c) == c.operation = "copy" /\ Leaves(c, contents[c.argument])

Move(c) ==
    /\ c.operation = "move"
    /\ contents' = [contents EXCEPT ![c.name] = contents[c.argument],
                                    ![c.argument] = IF c.name = c.argument THEN @ ELSE <<>>]
    /\ UNCHANGED failed

At(c) ==
    /\ c.operation = "at"
    /\ IF c.argument < Len(Old(c))
       THEN Answers(c, Old(c)[c.argument + 1])
       ELSE failed' = TRUE /\ UNCHANGED contents

Observe(c) ==
    /\ c.operation = "observe"
    /\ Answers(c, <<Old(c), Reverse(Old(c)), Old(c) = <<>>, Len(Old(c)) = N>>)

Equal(c) == c.operation = "equal" /\ Answers(c, Old(c) = contents[c.argument])

Call(c) ==
    \/ Replace(c) \/ PushBack(c) \/ PopBack(c) \/ Resize(c) \/ Erase(c) \/ Copy(c) \/ Move(c)
    \/ At(c) \/ Observe(c) \/ Equal(c)

Step == ~failed /\ Call(call')

Bounded == [][Step]_<<contents, call, failed>>

=============================================================================
