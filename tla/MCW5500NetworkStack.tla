------------------------- MODULE MCW5500NetworkStack -------------------------
(* Model-checking instances of W5500NetworkStack.                          *)
EXTENDS W5500NetworkStack, TLC

ServerSymmetry ==
    Permutations(Handlers) \cup Permutations(Servers) \cup Permutations(Ports)

FullSymmetry ==
    Permutations(Clients) \cup Permutations(UdpSockets) \cup Permutations(Handlers)
        \cup Permutations(Ports)

(* A bound: two servers where there are two hardware sockets, one where    *)
(* there are three.                                                        *)
OneServerOfThree ==
    sockets = 3 => \E s \in Servers : \A t \in Servers \ {s} : server[t] = NoServer
=============================================================================
