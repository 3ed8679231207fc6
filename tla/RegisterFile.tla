--------------------------- MODULE RegisterFile ---------------------------
(***************************************************************************)
(* What a driver promises: registers that are independent of each other,   *)
(* and calls that read or write one of them at once.                       *)
(***************************************************************************)

CONSTANTS
    Names,       \* the registers
    Idle         \* no call is in progress

VARIABLES
    contents,    \* of every register
    request,     \* the call in progress: an operation, a name and the data
    answer       \* what the last call returned, if it reads

Begin ==
    /\ request = Idle
    /\ request' # Idle
    /\ request'.operation \in {"read", "write"}
    /\ request'.name \in Names
    /\ answer' = Idle
    /\ UNCHANGED contents

Read ==
    /\ request # Idle
    /\ request' = Idle
    /\ request.operation = "read"
    /\ answer' = <<request.name, contents[request.name]>>
    /\ UNCHANGED contents

Write ==
    /\ request # Idle
    /\ request' = Idle
    /\ request.operation = "write"
    /\ contents'[request.name] = request.data
    /\ \A name \in Names \ {request.name} : contents'[name] = contents[name]
    /\ UNCHANGED answer

\* The device itself changes a register between two calls.
Change ==
    /\ request = Idle
    /\ UNCHANGED <<request, answer>>
    /\ \E name \in Names :
          /\ contents'[name] # contents[name]
          /\ \A other \in Names \ {name} : contents'[other] = contents[other]

Next == Begin \/ Read \/ Write \/ Change

Step == [Next]_<<contents, request, answer>>

File == [][Step]_<<contents, request, answer>>

=============================================================================
