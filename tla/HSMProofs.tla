----------------------------- MODULE HSMProofs ------------------------------
(***************************************************************************)
(* The safety properties of HSM, for every set of states, every hierarchy  *)
(* of them and every depth.                                                *)
(*                                                                         *)
(* The argument.  A hierarchy is a tree, so what holds of top, and of each *)
(* state of whose superstate it holds, holds of every state (IsTree); the  *)
(* superstates of a state therefore exist as a chain that ends at top, and *)
(* from each of its places on it is the chain of that place                *)
(* (ChainsEndAlike).  Whatever the two ends of a transition are, the calls *)
(* that Transition() plans are the exits of the first m states of one      *)
(* chain followed by the entries, outermost first, of the first n states   *)
(* of another, and what is above the m is above the n: the two chains meet *)
(* (Plan, Leads, TransitionIsPlan).  That is what the inductive invariant  *)
(* HSMInv keeps while the calls are made one by one: the states that are   *)
(* entered are some place and all above it, and the calls that are left    *)
(* lead from that place to the target.                                     *)
(*                                                                         *)
(* Induction over the hierarchy, over the chains and over the paths is     *)
(* induction over sets: WFMin gives each nonempty set of natural numbers a *)
(* least element.                                                          *)
(***************************************************************************)
EXTENDS HSM, WellFoundedInduction, TLAPS

-----------------------------------------------------------------------------
(* Induction over the natural numbers, for sets of them.                   *)

LEMMA Smallest ==
    ASSUME NEW T \in SUBSET Nat, T # {}
    PROVE  \E n \in T : \A m \in T : n =< m
<1> DEFINE R == {ss \in Nat \X Nat : ss[1] < ss[2]}
<1>1. IsWellFoundedOn(R, Nat)
    BY NatLessThanWellFounded DEF OpToRel
<1>2. \E n \in T : \A m \in T : ~ (<<m, n>> \in R)
    <2> HIDE DEF R
    <2>. QED BY <1>1, WFMin
<1>3. \A m, n \in T : ~ (<<m, n>> \in R) => n =< m
    OBVIOUS
<1>. QED BY <1>2, <1>3

LEMMA NaturalInduction ==
    ASSUME NEW S, 0 \in S, \A n \in Nat : n \in S => n + 1 \in S
    PROVE  Nat \subseteq S
<1>1. SUFFICES ASSUME Nat \ S # {} PROVE FALSE
    OBVIOUS
<1>2. PICK n \in Nat \ S : \A m \in Nat \ S : n =< m
    BY <1>1, Smallest
<1>3. n # 0 /\ n - 1 \in Nat /\ n - 1 \in S
    BY <1>2
<1>. QED BY <1>2, <1>3

-----------------------------------------------------------------------------
(* The hierarchy: what it is to be a tree, and the states on the way up.   *)

Places == States \cup {top}

\* The sets of states of at most so many levels.
IsLevels(parent, levels, n) ==
    levels = [depth \in 0..n |->
                IF depth = 0 THEN {top}
                ELSE {top} \cup {s \in States : parent[s] \in levels[depth - 1]}]

LEMMA LevelsExist ==
    ASSUME NEW parent \in [States -> Places]
    PROVE  \A n \in Nat : \E levels : IsLevels(parent, levels, n)
<1> DEFINE S == {n \in Nat : \E levels : IsLevels(parent, levels, n)}
<1>1. 0 \in S
    <2>1. IsLevels(parent, [depth \in 0..0 |-> {top}], 0)
        BY DEF IsLevels
    <2>. QED BY <2>1
<1>2. ASSUME NEW n \in Nat, n \in S PROVE n + 1 \in S
    <2>1. PICK levels : IsLevels(parent, levels, n)
        BY <1>2
    <2> DEFINE next == [depth \in 0..(n + 1) |->
                           IF depth = 0 THEN {top}
                           ELSE {top} \cup {s \in States : parent[s] \in levels[depth - 1]}]
    <2>2. \A depth \in 0..n : next[depth] = levels[depth]
        <3>1. \A depth \in 0..n : depth \in 0..(n + 1)
            OBVIOUS
        <3>2. \A depth \in 0..n :
                levels[depth] = IF depth = 0 THEN {top}
                                ELSE {top} \cup {s \in States : parent[s] \in levels[depth - 1]}
            BY <2>1 DEF IsLevels
        <3>. QED BY <3>1, <3>2
    <2>3. \A depth \in 0..(n + 1) : depth # 0 => next[depth - 1] = levels[depth - 1]
        <3>1. \A depth \in 0..(n + 1) : depth # 0 => depth - 1 \in 0..n
            OBVIOUS
        <3>. QED BY <2>2, <3>1
    <2>4. next = [depth \in 0..(n + 1) |->
                           IF depth = 0 THEN {top}
                           ELSE {top} \cup {s \in States : parent[s] \in next[depth - 1]}]
        BY <2>3
    <2>5. IsLevels(parent, next, n + 1)
        BY <2>4 DEF IsLevels
    <2>. QED BY <2>5
<1>3. Nat \subseteq S
    <2> HIDE DEF S
    <2>. QED BY <1>1, <1>2, NaturalInduction
<1>. QED BY <1>3

\* Induction over the hierarchy: what holds of top, and of each state of
\* whose superstate it holds, holds of all.
IsTree(parent) ==
    /\ parent \in [States -> Places]
    /\ \A T : top \in T /\ (\A s \in States : parent[s] \in T => s \in T) => Places \subseteq T

LEMMA LevelsOfHierarchy ==
    ASSUME NEW parent \in Hierarchies
    PROVE  \E levels : /\ IsLevels(parent, levels, MAX_STATE_DEPTH)
                       /\ levels[MAX_STATE_DEPTH] = Places
<1>1. parent \in [States -> Places]
    BY DEF Hierarchies, Places
<1> DEFINE Within == CHOOSE levels : IsLevels(parent, levels, MAX_STATE_DEPTH)
<1>2. IsLevels(parent, Within, MAX_STATE_DEPTH)
    BY <1>1, LevelsExist, DepthAssumption
<1>3. States \subseteq Within[MAX_STATE_DEPTH]
    BY DEF Hierarchies, IsLevels
<1>4. Within[MAX_STATE_DEPTH] \subseteq Places /\ top \in Within[MAX_STATE_DEPTH]
    <2> HIDE DEF Within
    <2>1. MAX_STATE_DEPTH \in 0..MAX_STATE_DEPTH
        BY DepthAssumption
    <2>. QED BY <1>2, <2>1 DEF IsLevels, Places
<1>5. Within[MAX_STATE_DEPTH] = Places
    <2> HIDE DEF Within
    <2>. QED BY <1>3, <1>4 DEF Places
<1>. QED BY <1>2, <1>5

LEMMA HierarchiesAreTrees == \A parent \in Hierarchies : IsTree(parent)
<1> SUFFICES ASSUME NEW parent \in Hierarchies PROVE IsTree(parent)
    OBVIOUS
<1>1. parent \in [States -> Places]
    BY DEF Hierarchies, Places
<1>2. PICK levels : /\ IsLevels(parent, levels, MAX_STATE_DEPTH)
                    /\ levels[MAX_STATE_DEPTH] = Places
    BY LevelsOfHierarchy
<1>3. SUFFICES ASSUME NEW T, top \in T, \A s \in States : parent[s] \in T => s \in T
               PROVE  Places \subseteq T
    BY <1>1 DEF IsTree
<1> DEFINE S == {n \in Nat : n =< MAX_STATE_DEPTH => levels[n] \subseteq T}
<1>4. 0 \in S
    BY <1>2, <1>3, DepthAssumption DEF IsLevels
<1>5. ASSUME NEW n \in Nat, n \in S PROVE n + 1 \in S
    <2>1. SUFFICES ASSUME n + 1 =< MAX_STATE_DEPTH PROVE levels[n + 1] \subseteq T
        OBVIOUS
    <2>2. levels[n] \subseteq T
        BY <1>5, <2>1, DepthAssumption
    <2>3. n + 1 \in 0..MAX_STATE_DEPTH /\ n + 1 # 0 /\ (n + 1) - 1 = n
        BY <2>1, DepthAssumption
    <2>4. levels[n + 1] = {top} \cup {s \in States : parent[s] \in levels[n]}
        BY <1>2, <2>3 DEF IsLevels
    <2>. QED BY <1>3, <2>2, <2>4
<1>6. MAX_STATE_DEPTH \in S
    <2> HIDE DEF S
    <2>. QED BY <1>4, <1>5, NaturalInduction, DepthAssumption
<1>. QED BY <1>2, <1>3, <1>6, DepthAssumption DEF Places

\* A state and its superstates, innermost first.
IsChain(parent, chain, S) ==
    chain = [s \in S |-> IF s = top THEN <<>> ELSE <<s>> \o chain[parent[s]]]

LEMMA ChainsExist ==
    ASSUME NEW parent \in Hierarchies
    PROVE  \E chain : IsChain(parent, chain, Places)
<1>1. PICK levels : /\ IsLevels(parent, levels, MAX_STATE_DEPTH)
                    /\ levels[MAX_STATE_DEPTH] = Places
    BY LevelsOfHierarchy
<1>2. \A n \in 0..MAX_STATE_DEPTH :
        levels[n] = IF n = 0 THEN {top}
                    ELSE {top} \cup {s \in States : parent[s] \in levels[n - 1]}
    BY <1>1 DEF IsLevels
<1> DEFINE S == {n \in Nat : n =< MAX_STATE_DEPTH =>
                    /\ n # 0 => levels[n - 1] \subseteq levels[n]
                    /\ \E chain : IsChain(parent, chain, levels[n])}
<1>3. 0 \in S
    <2>0. 0 \in 0..MAX_STATE_DEPTH
        BY DepthAssumption
    <2>1. levels[0] = {top}
        BY <1>2, <2>0
    <2>2. IsChain(parent, [s \in {top} |-> <<>>], {top})
        BY DEF IsChain
    <2>. QED BY <2>1, <2>2
<1>4. ASSUME NEW n \in Nat, n \in S PROVE n + 1 \in S
    <2>1. SUFFICES ASSUME n + 1 =< MAX_STATE_DEPTH
                   PROVE  /\ levels[n] \subseteq levels[n + 1]
                          /\ \E chain : IsChain(parent, chain, levels[n + 1])
        <3>1. (n + 1) - 1 = n /\ n + 1 \in Nat
            OBVIOUS
        <3>. QED BY <2>1, <3>1
    <2>2. PICK chain : IsChain(parent, chain, levels[n])
        BY <1>4, <2>1, DepthAssumption
    <2>3. n + 1 \in 0..MAX_STATE_DEPTH /\ n \in 0..MAX_STATE_DEPTH /\ n + 1 # 0 /\ (n + 1) - 1 = n
        BY <2>1, DepthAssumption
    <2>4. levels[n + 1] = {top} \cup {s \in States : parent[s] \in levels[n]}
        BY <1>2, <2>3
    <2>5. levels[n] \subseteq levels[n + 1]
        <3>1. CASE n = 0
            BY <1>2, <2>3, <2>4, <3>1
        <3>2. CASE n # 0
            <4>1. levels[n] = {top} \cup {s \in States : parent[s] \in levels[n - 1]}
                BY <1>2, <2>3, <3>2
            <4>2. levels[n - 1] \subseteq levels[n]
                BY <1>4, <2>3, <3>2
            <4>. QED BY <2>4, <4>1, <4>2
        <3>. QED BY <3>1, <3>2
    <2> DEFINE next == [s \in levels[n + 1] |-> IF s = top THEN <<>> ELSE <<s>> \o chain[parent[s]]]
    <2>6. \A s \in levels[n] : next[s] = chain[s]
        <3>1. \A s \in levels[n] : chain[s] = IF s = top THEN <<>> ELSE <<s>> \o chain[parent[s]]
            BY <2>2 DEF IsChain
        <3>. QED BY <2>5, <3>1
    <2>7. \A s \in levels[n + 1] : s # top => next[parent[s]] = chain[parent[s]]
        <3> HIDE DEF next
        <3>. QED BY <2>4, <2>6
    <2>8. next = [s \in levels[n + 1] |-> IF s = top THEN <<>> ELSE <<s>> \o next[parent[s]]]
        BY <2>7
    <2>9. IsChain(parent, next, levels[n + 1])
        <3> HIDE DEF next
        <3>. QED BY <2>8 DEF IsChain
    <2>. QED BY <2>5, <2>9
<1>5. MAX_STATE_DEPTH \in S
    <2> HIDE DEF S
    <2>. QED BY <1>3, <1>4, NaturalInduction, DepthAssumption
<1>. QED BY <1>1, <1>5

\* What the proofs use of a hierarchy and its chains.
IsHierarchy(parent, chain) ==
    /\ IsTree(parent)
    /\ chain \in [Places -> Seq(States)]
    /\ chain[top] = <<>>
    /\ \A s \in States : chain[s] = <<s>> \o chain[parent[s]]

LEMMA SuperstatesAreChains ==
    ASSUME superstate \in Hierarchies
    PROVE  IsHierarchy(superstate, Superstates)
<1>1. IsTree(superstate)
    BY HierarchiesAreTrees
<1>2. PICK chain : IsChain(superstate, chain, Places)
    BY ChainsExist
<1>3. IsChain(superstate, Superstates, Places)
    BY <1>2 DEF IsChain, Superstates, Places
<1> DEFINE c == Superstates
<1> HIDE DEF c
<1>4. c = [s \in Places |-> IF s = top THEN <<>> ELSE <<s>> \o c[superstate[s]]]
    BY <1>3 DEF IsChain, c
<1>5. top \in Places /\ States \subseteq Places /\ \A s \in States : s # top
    BY StatesAssumption DEF Places
<1>6. c[top] = <<>> /\ \A s \in States : c[s] = <<s>> \o c[superstate[s]]
    BY <1>4, <1>5
<1> DEFINE T == {s \in Places : c[s] \in Seq(States)}
<1>7. top \in T
    <2>1. <<>> \in Seq(States)
        OBVIOUS
    <2>. QED BY <1>5, <1>6, <2>1
<1>8. ASSUME NEW s \in States, superstate[s] \in T PROVE s \in T
    <2>1. <<s>> \in Seq(States)
        OBVIOUS
    <2>2. <<s>> \o c[superstate[s]] \in Seq(States)
        BY <1>8, <2>1
    <2>. QED BY <1>5, <1>6, <2>2
<1>9. Places \subseteq T
    <2> HIDE DEF T
    <2>. QED BY <1>1, <1>7, <1>8 DEF IsTree
<1>10. DOMAIN c = Places /\ c = [s \in Places |-> c[s]]
    BY <1>4
<1>11. c \in [Places -> Seq(States)]
    BY <1>9, <1>10
<1>. QED BY <1>1, <1>6, <1>11 DEF IsHierarchy, c

-----------------------------------------------------------------------------
(* The chain of a state: its places are the states above it.               *)

LEMMA ChainOfState ==
    ASSUME NEW parent, NEW chain, IsHierarchy(parent, chain), NEW s \in States
    PROVE  /\ parent[s] \in Places
           /\ chain[s] \in Seq(States) /\ chain[parent[s]] \in Seq(States)
           /\ Len(chain[s]) = Len(chain[parent[s]]) + 1
           /\ chain[s][1] = s
           /\ \A k \in 1..Len(chain[parent[s]]) : chain[s][k + 1] = chain[parent[s]][k]
<1>1. /\ parent[s] \in Places /\ s \in Places
      /\ chain \in [Places -> Seq(States)] /\ chain[s] = <<s>> \o chain[parent[s]]
    BY DEF IsHierarchy, IsTree, Places
<1> DEFINE c == chain[parent[s]]
<1>2. chain[s] \in Seq(States) /\ c \in Seq(States)
    BY <1>1
<1>3. chain[s] = <<s>> \o c
    BY <1>1
<1> HIDE DEF c
<1>4. /\ Len(<<s>> \o c) = Len(c) + 1
      /\ (<<s>> \o c)[1] = s
      /\ \A k \in 1..Len(c) : (<<s>> \o c)[k + 1] = c[k]
    BY <1>2
<1>. QED BY <1>1, <1>2, <1>3, <1>4 DEF c

LEMMA TreeInduction ==
    ASSUME NEW parent, NEW chain, IsHierarchy(parent, chain), NEW T,
           top \in T, \A s \in States : parent[s] \in T => s \in T
    PROVE  Places \subseteq T
BY DEF IsHierarchy, IsTree

\* The place that is reached from x after k states have been left.
Above(chain, x, k) == IF k = Len(chain[x]) THEN top ELSE chain[x][k + 1]

LEMMA AboveStart ==
    ASSUME NEW parent, NEW chain, IsHierarchy(parent, chain), NEW x \in Places
    PROVE  /\ chain[x] \in Seq(States) /\ Len(chain[x]) \in Nat
           /\ Above(chain, x, 0) = x
           /\ x = top <=> Len(chain[x]) = 0
<1>1. chain[x] \in Seq(States) /\ Len(chain[x]) \in Nat /\ chain[top] = <<>>
    BY DEF IsHierarchy
<1>2. CASE x = top
    BY <1>1, <1>2 DEF Above
<1>3. CASE x \in States
    <2>1. /\ Len(chain[parent[x]]) \in Nat /\ Len(chain[x]) = Len(chain[parent[x]]) + 1
          /\ chain[x][1] = x
        BY <1>3, ChainOfState
    <2>2. x # top
        BY <1>3, StatesAssumption
    <2>. QED BY <1>1, <2>1, <2>2 DEF Above
<1>. QED BY <1>2, <1>3 DEF Places

LEMMA AboveParent ==
    ASSUME NEW parent, NEW chain, IsHierarchy(parent, chain), NEW x \in States,
           NEW k \in 1..Len(chain[x])
    PROVE  Above(chain, x, k) = Above(chain, parent[x], k - 1)
<1> DEFINE p == parent[x]
<1>1. /\ Len(chain[p]) \in Nat /\ Len(chain[x]) = Len(chain[p]) + 1
      /\ \A j \in 1..Len(chain[p]) : chain[x][j + 1] = chain[p][j]
    BY ChainOfState
<1> HIDE DEF p
<1>2. Above(chain, x, k) = Above(chain, p, k - 1)
    <2>1. CASE k = Len(chain[x])
        BY <1>1, <2>1 DEF Above
    <2>2. CASE k # Len(chain[x])
        <3>1. k \in 1..Len(chain[p]) /\ (k - 1) + 1 = k /\ k - 1 # Len(chain[p])
            BY <1>1, <2>2
        <3>. QED BY <1>1, <2>2, <3>1 DEF Above
    <2>. QED BY <2>1, <2>2
<1>. QED BY <1>2 DEF p

\* From a place above x on, the chain of x is the chain of that place.
EndsWith(chain, x, k, s) ==
    /\ s \in Places
    /\ chain[s] \in Seq(States)
    /\ Len(chain[s]) = Len(chain[x]) - k
    /\ \A j \in 1..Len(chain[s]) : chain[s][j] = chain[x][k + j]

LEMMA ChainsEndAlike ==
    ASSUME NEW parent, NEW chain, IsHierarchy(parent, chain)
    PROVE  \A x \in Places : \A k \in 0..Len(chain[x]) : EndsWith(chain, x, k, Above(chain, x, k))
<1> DEFINE Holds(x, k) == EndsWith(chain, x, k, Above(chain, x, k))
           T == {x \in Places : \A k \in 0..Len(chain[x]) : Holds(x, k)}
<1>0. ASSUME NEW x \in Places PROVE Holds(x, 0)
    <2>1. chain[x] \in Seq(States) /\ Len(chain[x]) \in Nat /\ Above(chain, x, 0) = x
        BY AboveStart
    <2>2. EndsWith(chain, x, 0, x)
        BY <2>1 DEF EndsWith
    <2>. QED BY <2>1, <2>2
<1>1. top \in T
    <2>1. top \in Places /\ Len(chain[top]) = 0
        BY AboveStart DEF Places
    <2> HIDE DEF Holds
    <2>. QED BY <1>0, <2>1
<1>2. ASSUME NEW x \in States, parent[x] \in T PROVE x \in T
    <2> DEFINE p == parent[x]
    <2>1. /\ x \in Places /\ p \in Places /\ chain[x] \in Seq(States)
          /\ Len(chain[p]) \in Nat /\ Len(chain[x]) = Len(chain[p]) + 1
          /\ \A j \in 1..Len(chain[p]) : chain[x][j + 1] = chain[p][j]
        BY ChainOfState, AboveStart DEF Places
    <2>2. \A k \in 0..Len(chain[p]) : Holds(p, k)
        BY <1>2
    <2>3. \A k \in 1..Len(chain[x]) : Above(chain, x, k) = Above(chain, p, k - 1)
        BY AboveParent
    <2> HIDE DEF p
    <2>4. SUFFICES ASSUME NEW k \in 1..Len(chain[x]) PROVE Holds(x, k)
        <3> HIDE DEF Holds
        <3>. QED BY <1>0, <2>1
    <2> DEFINE s == Above(chain, x, k)
    <2>5. k - 1 \in 0..Len(chain[p]) /\ s = Above(chain, p, k - 1)
        BY <2>1, <2>3
    <2>6. EndsWith(chain, p, k - 1, s)
        BY <2>2, <2>5
    <2> HIDE DEF s
    <2>7. /\ s \in Places /\ chain[s] \in Seq(States) /\ Len(chain[s]) = Len(chain[p]) - (k - 1)
          /\ \A j \in 1..Len(chain[s]) : chain[s][j] = chain[p][(k - 1) + j]
        BY <2>6 DEF EndsWith
    <2>8. Len(chain[s]) = Len(chain[x]) - k
        BY <2>1, <2>7
    <2>9. ASSUME NEW j \in 1..Len(chain[s]) PROVE chain[s][j] = chain[x][k + j]
        <3>1. (k - 1) + j \in 1..Len(chain[p]) /\ ((k - 1) + j) + 1 = k + j
            BY <2>1, <2>7
        <3>. QED BY <2>1, <2>7, <3>1
    <2>. QED BY <2>7, <2>8, <2>9 DEF EndsWith, s
<1>3. Places \subseteq T
    <2> HIDE DEF T
    <2>. QED BY <1>1, <1>2, TreeInduction
<1>. QED BY <1>3

LEMMA ChainAbove ==
    ASSUME NEW parent, NEW chain, IsHierarchy(parent, chain), NEW x \in Places,
           NEW k \in 0..Len(chain[x])
    PROVE  EndsWith(chain, x, k, Above(chain, x, k))
BY ChainsEndAlike

\* The states of a chain, and what is above each of them.
LEMMA ChainStep ==
    ASSUME NEW parent, NEW chain, IsHierarchy(parent, chain), NEW x \in Places,
           NEW k \in 1..Len(chain[x])
    PROVE  /\ chain[x][k] \in States
           /\ Above(chain, x, k - 1) = chain[x][k]
           /\ Above(chain, x, k) = parent[chain[x][k]]
<1>1. chain[x] \in Seq(States) /\ Len(chain[x]) \in Nat
    BY AboveStart
<1>2. PICK s \in States : s = chain[x][k]
    BY <1>1
<1>3. Above(chain, x, k - 1) = s /\ k - 1 \in 0..Len(chain[x])
    BY <1>1, <1>2 DEF Above
<1>4. /\ Len(chain[s]) = Len(chain[x]) - (k - 1) /\ s \in Places /\ Len(chain[s]) \in Nat
      /\ \A j \in 1..Len(chain[s]) : chain[s][j] = chain[x][(k - 1) + j]
    <2>1. EndsWith(chain, x, k - 1, Above(chain, x, k - 1))
        BY <1>3, ChainAbove
    <2>2. EndsWith(chain, x, k - 1, s)
        BY <1>3, <2>1
    <2>3. Len(chain[s]) \in Nat
        BY <2>2 DEF EndsWith
    <2>. QED BY <2>2, <2>3 DEF EndsWith
<1>5. 1 \in 1..Len(chain[s])
    BY <1>1, <1>4
<1>6. Above(chain, s, 1) = Above(chain, parent[s], 0) /\ parent[s] \in Places
    BY <1>5, AboveParent, ChainOfState
<1>7. Above(chain, s, 1) = parent[s]
    BY <1>6, AboveStart
<1>8. Above(chain, s, 1) = Above(chain, x, k)
    <2>1. CASE k = Len(chain[x])
        <3>1. Len(chain[s]) = 1
            BY <1>1, <1>4, <2>1
        <3>. QED BY <2>1, <3>1 DEF Above
    <2>2. CASE k # Len(chain[x])
        <3>1. 2 \in 1..Len(chain[s]) /\ Len(chain[s]) # 1 /\ (k - 1) + 2 = k + 1
            BY <1>1, <1>4, <2>2
        <3>2. chain[s][2] = chain[x][k + 1]
            BY <1>4, <3>1
        <3>. QED BY <2>2, <3>1, <3>2 DEF Above
    <2>. QED BY <2>1, <2>2
<1>. QED BY <1>2, <1>3, <1>7, <1>8

\* A place is above another in one way only.
LEMMA AboveOnce ==
    ASSUME NEW parent, NEW chain, IsHierarchy(parent, chain), NEW x \in Places,
           NEW j \in 0..Len(chain[x]), NEW k \in 0..Len(chain[x]),
           Above(chain, x, j) = Above(chain, x, k)
    PROVE  j = k
<1>1. EndsWith(chain, x, j, Above(chain, x, j)) /\ EndsWith(chain, x, k, Above(chain, x, k))
    BY ChainAbove
<1>2. /\ Len(chain[Above(chain, x, j)]) = Len(chain[x]) - j
      /\ Len(chain[Above(chain, x, k)]) = Len(chain[x]) - k
      /\ Len(chain[x]) \in Nat
    BY <1>1, AboveStart DEF EndsWith
<1>. QED BY <1>2

-----------------------------------------------------------------------------
(* The paths of a transition, for any hierarchy.                           *)

Under(chain, s, t) == s # t /\ (t = top \/ t \in Range(chain[s]))

PathOf(chain, begin, end) ==
    IF Under(chain, begin, end) /\ end # top
    THEN SubSeq(chain[begin], 1, (CHOOSE k \in DOMAIN chain[begin] : chain[begin][k] = end) - 1)
    ELSE chain[begin]

\* Which places are under which.
LEMMA UnderAbove ==
    ASSUME NEW parent, NEW chain, IsHierarchy(parent, chain), NEW x \in Places, NEW e \in Places
    PROVE  Under(chain, x, e) <=> \E k \in 1..Len(chain[x]) : e = Above(chain, x, k)
<1>1. chain[x] \in Seq(States) /\ Len(chain[x]) \in Nat /\ Above(chain, x, 0) = x
      /\ (x = top <=> Len(chain[x]) = 0)
    BY AboveStart
<1>2. ASSUME NEW k \in 1..Len(chain[x]), e = Above(chain, x, k) PROVE Under(chain, x, e)
    <2>1. e # x
        <3>1. k \in 0..Len(chain[x]) /\ 0 \in 0..Len(chain[x]) /\ k # 0
            BY <1>1
        <3>. QED BY <1>1, <1>2, <3>1, AboveOnce
    <2>2. CASE k = Len(chain[x])
        BY <1>2, <2>1, <2>2 DEF Above, Under
    <2>3. CASE k # Len(chain[x])
        <3>1. k + 1 \in DOMAIN chain[x] /\ e = chain[x][k + 1]
            BY <1>1, <1>2, <2>3 DEF Above
        <3>2. e \in Range(chain[x])
            BY <3>1 DEF Range
        <3>. QED BY <2>1, <3>2 DEF Under
    <2>. QED BY <2>2, <2>3
<1>3. ASSUME Under(chain, x, e) PROVE \E k \in 1..Len(chain[x]) : e = Above(chain, x, k)
    <2>1. CASE e = top
        <3>1. Len(chain[x]) \in 1..Len(chain[x])
            BY <1>1, <1>3, <2>1 DEF Under
        <3>. QED BY <2>1, <3>1 DEF Above
    <2>2. CASE e # top
        <3>1. PICK k \in DOMAIN chain[x] : chain[x][k] = e
            BY <1>3, <2>2 DEF Under, Range
        <3>2. k \in 1..Len(chain[x])
            BY <1>1
        <3>3. Above(chain, x, k - 1) = e
            BY <3>1, <3>2, ChainStep
        <3>4. k # 1
            BY <1>1, <1>3, <3>3 DEF Under
        <3>5. k - 1 \in 1..Len(chain[x])
            BY <1>1, <3>2, <3>4
        <3>. QED BY <3>3, <3>5
    <2>. QED BY <2>1, <2>2
<1>. QED BY <1>2, <1>3

\* The path to a place above is what is below it.
LEMMA PathAbove ==
    ASSUME NEW parent, NEW chain, IsHierarchy(parent, chain), NEW x \in Places,
           NEW k \in 1..Len(chain[x])
    PROVE  PathOf(chain, x, Above(chain, x, k)) = SubSeq(chain[x], 1, k)
<1>1. chain[x] \in Seq(States) /\ Len(chain[x]) \in Nat
    BY AboveStart
<1> DEFINE e == Above(chain, x, k)
<1>2. e \in Places
    <2>1. EndsWith(chain, x, k, e)
        BY ChainAbove, <1>1
    <2>. QED BY <2>1 DEF EndsWith
<1>3. Under(chain, x, e)
    BY <1>2, UnderAbove
<1>4. CASE e = top
    <2>1. k = Len(chain[x])
        <3>1. ASSUME k # Len(chain[x]) PROVE FALSE
            <4>1. chain[x][k + 1] = top /\ k + 1 \in 1..Len(chain[x])
                BY <1>1, <1>4, <3>1 DEF Above
            <4>. QED BY <1>1, <4>1, StatesAssumption
        <3>. QED BY <3>1
    <2>2. SubSeq(chain[x], 1, Len(chain[x])) = chain[x]
        BY <1>1
    <2>. QED BY <1>4, <2>1, <2>2 DEF PathOf
<1>5. CASE e # top
    <2>1. k # Len(chain[x]) /\ k + 1 \in DOMAIN chain[x] /\ chain[x][k + 1] = e
        BY <1>1, <1>5 DEF Above
    <2>2. ASSUME NEW j \in DOMAIN chain[x], chain[x][j] = e PROVE j = k + 1
        <3>1. j \in 1..Len(chain[x])
            BY <1>1
        <3>2. Above(chain, x, j - 1) = Above(chain, x, k) /\ j - 1 \in 0..Len(chain[x])
              /\ k \in 0..Len(chain[x])
            BY <1>1, <2>2, <3>1, ChainStep
        <3>3. j - 1 = k
            BY <3>2, AboveOnce
        <3>. QED BY <3>1, <3>3
    <2>3. (CHOOSE j \in DOMAIN chain[x] : chain[x][j] = e) = k + 1
        <3> HIDE DEF e
        <3>. QED BY <2>1, <2>2
    <2>4. (k + 1) - 1 = k
        BY <1>1
    <2>. QED BY <1>3, <1>5, <2>3, <2>4 DEF PathOf
<1>. QED BY <1>4, <1>5

\* What remove_common_superstates() removes: two chains meet below the
\* states that they have in common.
IsCommon(first, second, n) ==
    LET Equal(j) ==
            j < Len(first) /\ j < Len(second) /\ first[Len(first) - j] = second[Len(second) - j]
    IN ~ Equal(n) /\ \A j \in 0..(n - 1) : Equal(j)

LEMMA CommonExists ==
    ASSUME NEW first \in Seq(States), NEW second \in Seq(States)
    PROVE  /\ Common(first, second) \in 0..Len(first)
           /\ IsCommon(first, second, Common(first, second))
<1> DEFINE Equal(j) ==
        j < Len(first) /\ j < Len(second) /\ first[Len(first) - j] = second[Len(second) - j]
    T == {n \in Nat : ~ Equal(n)}
<1>1. Len(first) \in Nat
    OBVIOUS
<1>2. Len(first) \in T
    BY <1>1
<1>3. PICK n \in T : \A m \in T : n =< m
    <2>1. T \in SUBSET Nat /\ T # {}
        BY <1>2
    <2> HIDE DEF T
    <2>. QED BY <2>1, Smallest
<1>4. n \in 0..Len(first)
    <2>1. n \in Nat /\ n =< Len(first)
        BY <1>2, <1>3
    <2>. QED BY <1>1, <2>1
<1>5. ~ Equal(n) /\ \A j \in 0..(n - 1) : Equal(j)
    <2>1. ~ Equal(n)
        BY <1>3
    <2>2. ASSUME NEW j \in 0..(n - 1) PROVE Equal(j)
        <3>1. j \in Nat /\ ~ (n =< j)
            BY <1>4
        <3> HIDE DEF Equal
        <3>. QED BY <1>3, <3>1
    <2>. QED BY <2>1, <2>2
<1>6. \E m \in 0..Len(first) : IsCommon(first, second, m)
    BY <1>4, <1>5 DEF IsCommon
<1>7. Common(first, second) = CHOOSE m \in 0..Len(first) : IsCommon(first, second, m)
    BY DEF Common, IsCommon
<1>. QED BY <1>6, <1>7

LEMMA CommonOnce ==
    ASSUME NEW first \in Seq(States), NEW second \in Seq(States),
           NEW m \in Nat, NEW n \in Nat,
           IsCommon(first, second, m), IsCommon(second, first, n)
    PROVE  m = n
<1>1. CASE m < n
    <2>1. m \in 0..(n - 1)
        BY <1>1
    <2>. QED BY <2>1 DEF IsCommon
<1>2. CASE n < m
    <2>1. n \in 0..(m - 1)
        BY <1>2
    <2>. QED BY <2>1 DEF IsCommon
<1>. QED BY <1>1, <1>2

LEMMA PathsMeet ==
    ASSUME NEW parent, NEW chain, IsHierarchy(parent, chain),
           NEW x \in Places, NEW y \in Places,
           NEW n, n = Common(chain[x], chain[y])
    PROVE  /\ n = Common(chain[y], chain[x])
           /\ n \in 0..Len(chain[x]) /\ n \in 0..Len(chain[y])
           /\ Above(chain, x, Len(chain[x]) - n) = Above(chain, y, Len(chain[y]) - n)
           /\ IsCommon(chain[x], chain[y], n)
<1>1. /\ chain[x] \in Seq(States) /\ Len(chain[x]) \in Nat
      /\ chain[y] \in Seq(States) /\ Len(chain[y]) \in Nat
    BY AboveStart
<1>2. /\ n \in 0..Len(chain[x]) /\ IsCommon(chain[x], chain[y], n)
      /\ Common(chain[y], chain[x]) \in 0..Len(chain[y])
      /\ IsCommon(chain[y], chain[x], Common(chain[y], chain[x]))
    BY <1>1, CommonExists
<1>3. n = Common(chain[y], chain[x])
    BY <1>1, <1>2, CommonOnce
<1>4. n \in 0..Len(chain[y])
    BY <1>2, <1>3
<1>5. CASE n = 0
    <2>1. Len(chain[x]) - n = Len(chain[x]) /\ Len(chain[y]) - n = Len(chain[y])
        BY <1>1, <1>5
    <2>2. Above(chain, x, Len(chain[x]) - n) = Above(chain, y, Len(chain[y]) - n)
        BY <2>1 DEF Above
    <2>. QED BY <1>2, <1>3, <1>4, <2>2
<1>6. CASE n # 0
    <2>1. n - 1 \in 0..(n - 1)
        BY <1>2, <1>6
    <2>2. chain[x][Len(chain[x]) - (n - 1)] = chain[y][Len(chain[y]) - (n - 1)]
        BY <1>2, <2>1 DEF IsCommon
    <2>3. /\ Len(chain[x]) - (n - 1) = (Len(chain[x]) - n) + 1 /\ Len(chain[x]) - n # Len(chain[x])
          /\ Len(chain[y]) - (n - 1) = (Len(chain[y]) - n) + 1 /\ Len(chain[y]) - n # Len(chain[y])
        BY <1>1, <1>2, <1>4, <1>6
    <2>4. Above(chain, x, Len(chain[x]) - n) = Above(chain, y, Len(chain[y]) - n)
        BY <2>2, <2>3 DEF Above
    <2>. QED BY <1>2, <1>3, <1>4, <2>4
<1>. QED BY <1>5, <1>6

\* A state that both ends are in is not removed from between them.
LEMMA CommonAbove ==
    ASSUME NEW parent, NEW chain, IsHierarchy(parent, chain),
           NEW x \in Places, NEW y \in Places, NEW s \in States,
           s \in Range(chain[x]), s \in Range(chain[y]),
           NEW n \in 0..Len(chain[x]), IsCommon(chain[x], chain[y], n)
    PROVE  s \in Range(chain[Above(chain, x, Len(chain[x]) - n)])
<1>1. /\ chain[x] \in Seq(States) /\ Len(chain[x]) \in Nat
      /\ chain[y] \in Seq(States) /\ Len(chain[y]) \in Nat
    BY AboveStart
<1>2. PICK i \in 1..Len(chain[x]), j \in 1..Len(chain[y]) : chain[x][i] = s /\ chain[y][j] = s
    BY <1>1 DEF Range
<1>3. Above(chain, x, i - 1) = s /\ Above(chain, y, j - 1) = s
    <2>1. Above(chain, x, i - 1) = chain[x][i]
        BY ChainStep
    <2>2. Above(chain, y, j - 1) = chain[y][j]
        BY ChainStep
    <2>. QED BY <1>2, <2>1, <2>2
<1>4. EndsWith(chain, x, i - 1, s) /\ EndsWith(chain, y, j - 1, s)
    <2>1. i - 1 \in 0..Len(chain[x]) /\ j - 1 \in 0..Len(chain[y])
        BY <1>1
    <2>2. EndsWith(chain, x, i - 1, Above(chain, x, i - 1)) /\ EndsWith(chain, y, j - 1, Above(chain, y, j - 1))
        BY <2>1, ChainAbove
    <2>. QED BY <1>3, <2>2
<1>5. PICK d \in Nat, a \in Nat, b \in Nat : d = Len(chain[s]) /\ a = Len(chain[x]) /\ b = Len(chain[y])
    <2>1. Len(chain[s]) \in Nat
        BY <1>4 DEF EndsWith
    <2>. QED BY <1>1, <2>1
<1>6. /\ d = a - (i - 1) /\ d = b - (j - 1) /\ i \in 1..a /\ j \in 1..b /\ n \in 0..a
      /\ \A k \in 1..d : chain[s][k] = chain[x][(i - 1) + k] /\ chain[s][k] = chain[y][(j - 1) + k]
    BY <1>4, <1>5 DEF EndsWith
<1>7. d =< n
    <2>1. SUFFICES ASSUME n < d PROVE FALSE
        OBVIOUS
    <2>2. d - n \in 1..d /\ (i - 1) + (d - n) = a - n /\ (j - 1) + (d - n) = b - n
        BY <1>6, <2>1
    <2>3. chain[x][a - n] = chain[y][b - n]
        BY <1>6, <2>2
    <2>4. n < a /\ n < b
        BY <1>6, <2>1
    <2>. QED BY <1>5, <2>3, <2>4 DEF IsCommon
<1> DEFINE p == Above(chain, x, a - n)
<1>8. a - n \in 0..a
    BY <1>6
<1>9. EndsWith(chain, x, a - n, p)
    BY <1>5, <1>8, ChainAbove
<1> HIDE DEF p
<1>10. /\ chain[p] \in Seq(States) /\ Len(chain[p]) = n
       /\ \A k \in 1..n : chain[p][k] = chain[x][(a - n) + k]
    BY <1>5, <1>6, <1>9 DEF EndsWith
<1>11. i - (a - n) \in 1..n /\ (a - n) + (i - (a - n)) = i
    BY <1>6, <1>7
<1>12. chain[p][i - (a - n)] = s
    BY <1>2, <1>10, <1>11
<1>13. DOMAIN chain[p] = 1..n
    BY <1>10
<1>. QED BY <1>5, <1>11, <1>12, <1>13 DEF p, Range

-----------------------------------------------------------------------------
(* A transition is planned as the exits of the states below some place,    *)
(* followed by the entries of states below the same place.                 *)

Calls == {"exit", "enter"} \X States

Plan(chain, x, m, y, n) ==
    [k \in 1..(m + n) |-> IF k =< m THEN <<"exit", chain[x][k]>>
                          ELSE <<"enter", chain[y][(m + n) + 1 - k]>>]

LEMMA Concatenation ==
    ASSUME NEW S, NEW s \in Seq(S), NEW t \in Seq(S), NEW u \in Seq(S),
           Len(u) = Len(s) + Len(t),
           \A k \in 1..Len(s) : u[k] = s[k],
           \A k \in 1..Len(t) : u[Len(s) + k] = t[k]
    PROVE  s \o t = u
<1>1. PICK a \in Nat, b \in Nat : a = Len(s) /\ b = Len(t)
    OBVIOUS
<1>2. s \o t \in Seq(S) /\ Len(s \o t) = a + b /\ Len(u) = a + b
    BY <1>1
<1>3. ASSUME NEW k \in 1..(a + b) PROVE (s \o t)[k] = u[k]
    <2>1. CASE k =< a
        <3>1. k \in 1..a /\ k \in 1..Len(s)
            BY <1>1, <2>1
        <3>2. (s \o t)[k] = s[k]
            BY <3>1
        <3>. QED BY <3>1, <3>2
    <2>2. CASE a < k
        <3>1. k - a \in 1..b /\ a + (k - a) = k
            BY <2>2
        <3>2. u[k] = t[k - a]
            BY <1>1, <3>1
        <3>3. (s \o t)[k] = t[k - a]
            BY <1>1, <2>2
        <3>. QED BY <3>2, <3>3
    <2>3. k =< a \/ a < k
        OBVIOUS
    <2>. QED BY <2>1, <2>2, <2>3
<1>. QED BY <1>2, <1>3

LEMMA ExitsOfPath ==
    ASSUME NEW c \in Seq(States), NEW m \in 0..Len(c)
    PROVE  /\ Exits(SubSeq(c, 1, m)) = [k \in 1..m |-> <<"exit", c[k]>>]
           /\ Exits(SubSeq(c, 1, m)) \in Seq(Calls)
<1>1. /\ DOMAIN SubSeq(c, 1, m) = 1..m
      /\ \A k \in 1..m : SubSeq(c, 1, m)[k] = c[k] /\ c[k] \in States
    OBVIOUS
<1>2. Exits(SubSeq(c, 1, m)) = [k \in 1..m |-> <<"exit", c[k]>>]
    BY <1>1 DEF Exits
<1>3. \A k \in 1..m : <<"exit", c[k]>> \in Calls
    BY <1>1 DEF Calls
<1>. QED BY <1>2, <1>3

LEMMA EntersOfPath ==
    ASSUME NEW d \in Seq(States), NEW n \in 0..Len(d)
    PROVE  /\ Enters(SubSeq(d, 1, n)) = [k \in 1..n |-> <<"enter", d[n + 1 - k]>>]
           /\ Enters(SubSeq(d, 1, n)) \in Seq(Calls)
<1> DEFINE p == SubSeq(d, 1, n)
<1>1. /\ DOMAIN p = 1..n /\ Len(p) = n
      /\ \A k \in 1..n : p[k] = d[k] /\ d[k] \in States
    OBVIOUS
<1> HIDE DEF p
<1>2. \A k \in 1..n : Reverse(p)[k] = p[(n - k) + 1]
    BY <1>1 DEF Reverse
<1>3. \A k \in 1..n : (n - k) + 1 \in 1..n /\ (n - k) + 1 = n + 1 - k
    OBVIOUS
<1>4. Enters(p) = [k \in 1..n |-> <<"enter", d[n + 1 - k]>>]
    <2>1. \A k \in 1..n : Reverse(p)[k] = d[n + 1 - k]
        BY <1>1, <1>2, <1>3
    <2>. QED BY <1>1, <2>1 DEF Enters
<1>5. \A k \in 1..n : <<"enter", d[n + 1 - k]>> \in Calls
    BY <1>1, <1>3 DEF Calls
<1>6. Enters(p) \in Seq(Calls)
    <2> DEFINE e == [k \in 1..n |-> <<"enter", d[n + 1 - k]>>]
    <2>1. e \in [1..n -> Calls]
        BY <1>5
    <2>2. n \in Nat
        OBVIOUS
    <2> HIDE DEF e
    <2>3. e \in Seq(Calls)
        BY <2>1, <2>2
    <2>. QED BY <1>4, <2>3 DEF e
<1>. QED BY <1>4, <1>6 DEF p

LEMMA PlanIsPaths ==
    ASSUME NEW chain, NEW x, NEW y, chain[x] \in Seq(States), chain[y] \in Seq(States),
           NEW m \in 0..Len(chain[x]), NEW n \in 0..Len(chain[y])
    PROVE  /\ Plan(chain, x, m, y, n) \in Seq(Calls)
           /\ Len(Plan(chain, x, m, y, n)) = m + n
           /\ Exits(SubSeq(chain[x], 1, m)) \o Enters(SubSeq(chain[y], 1, n)) = Plan(chain, x, m, y, n)
<1>1. m \in Nat /\ n \in Nat
    OBVIOUS
<1>2. \A k \in 1..m : chain[x][k] \in States
    OBVIOUS
<1>3. \A k \in 1..(m + n) : k > m => chain[y][(m + n) + 1 - k] \in States
    <2>1. \A k \in 1..(m + n) : k > m => (m + n) + 1 - k \in 1..n
        BY <1>1
    <2>2. \A k \in 1..n : chain[y][k] \in States
        OBVIOUS
    <2>. QED BY <2>1, <2>2
<1> DEFINE u == Plan(chain, x, m, y, n)
           s == Exits(SubSeq(chain[x], 1, m))
           t == Enters(SubSeq(chain[y], 1, n))
<1>4. /\ u \in Seq(Calls) /\ Len(u) = m + n
      /\ \A k \in 1..(m + n) : u[k] = IF k =< m THEN <<"exit", chain[x][k]>>
                                      ELSE <<"enter", chain[y][(m + n) + 1 - k]>>
    <2>1. \A k \in 1..(m + n) : (IF k =< m THEN <<"exit", chain[x][k]>>
                                ELSE <<"enter", chain[y][(m + n) + 1 - k]>>) \in Calls
        <3>1. SUFFICES ASSUME NEW k \in 1..(m + n)
                       PROVE  (IF k =< m THEN <<"exit", chain[x][k]>>
                               ELSE <<"enter", chain[y][(m + n) + 1 - k]>>) \in Calls
            OBVIOUS
        <3>2. CASE k =< m
            BY <1>1, <1>2, <3>2 DEF Calls
        <3>3. CASE k > m
            BY <1>1, <1>3, <3>3 DEF Calls
        <3>. QED BY <1>1, <3>2, <3>3
    <2>. QED BY <1>1, <2>1 DEF Plan
<1>5. s = [k \in 1..m |-> <<"exit", chain[x][k]>>] /\ s \in Seq(Calls)
    BY ExitsOfPath
<1>6. t = [k \in 1..n |-> <<"enter", chain[y][n + 1 - k]>>] /\ t \in Seq(Calls)
    BY EntersOfPath
<1> HIDE DEF u, s, t
<1>7. Len(s) = m /\ Len(t) = n
    BY <1>1, <1>5, <1>6
<1>8. \A k \in 1..m : u[k] = s[k]
    BY <1>1, <1>4, <1>5
<1>9. \A k \in 1..n : u[m + k] = t[k]
    <2>1. \A k \in 1..n : /\ m + k \in 1..(m + n) /\ ~ (m + k =< m)
                          /\ (m + n) + 1 - (m + k) = n + 1 - k
        BY <1>1
    <2>. QED BY <1>4, <1>6, <2>1
<1>10. s \o t = u
    <2>1. \A k \in 1..Len(s) : u[k] = s[k]
        BY <1>7, <1>8
    <2>2. \A k \in 1..Len(t) : u[Len(s) + k] = t[k]
        BY <1>7, <1>9
    <2>3. Len(u) = Len(s) + Len(t)
        BY <1>4, <1>7
    <2>4. u \in Seq(Calls) /\ s \in Seq(Calls) /\ t \in Seq(Calls)
        BY <1>4, <1>5, <1>6
    <2>. QED BY <2>1, <2>2, <2>3, <2>4, Concatenation
<1>. QED BY <1>4, <1>10 DEF u, s, t

\* The exits up to s come before the plan that begins there.
Continues(chain, x, i, s, m, y, n) ==
    /\ i + m \in 0..Len(chain[x])
    /\ Above(chain, x, i + m) = Above(chain, s, m)
    /\ Exits(SubSeq(chain[x], 1, i)) \o Plan(chain, s, m, y, n) = Plan(chain, x, i + m, y, n)

LEMMA PlanFromBelow ==
    ASSUME NEW parent, NEW chain, IsHierarchy(parent, chain),
           NEW x \in Places, NEW y \in Places, NEW i \in 0..Len(chain[x]),
           NEW s \in Places, EndsWith(chain, x, i, s),
           NEW m \in 0..Len(chain[s]), NEW n \in 0..Len(chain[y])
    PROVE  Continues(chain, x, i, s, m, y, n)
<1>1. EndsWith(chain, x, i, s)
    OBVIOUS
<1>2. PICK a \in Nat, b \in Nat : a = Len(chain[x]) /\ b = Len(chain[s])
    BY <1>1, AboveStart DEF EndsWith
<1>3. /\ chain[x] \in Seq(States) /\ chain[s] \in Seq(States) /\ chain[y] \in Seq(States)
      /\ b = a - i /\ \A j \in 1..b : chain[s][j] = chain[x][i + j]
      /\ i \in 0..a /\ m \in 0..b /\ n \in Nat
    BY <1>1, <1>2, AboveStart DEF EndsWith
<1>4. i + m \in 0..a
    BY <1>3
<1>5. Above(chain, x, i + m) = Above(chain, s, m)
    <2>1. CASE m = b
        <3>1. i + m = a
            BY <1>3, <2>1
        <3>. QED BY <1>2, <2>1, <3>1 DEF Above
    <2>2. CASE m # b
        <3>1. m + 1 \in 1..b /\ i + m # a /\ i + (m + 1) = (i + m) + 1
            BY <1>3, <2>2
        <3>2. chain[s][m + 1] = chain[x][(i + m) + 1]
            BY <1>3, <3>1
        <3>. QED BY <1>2, <2>2, <3>1, <3>2 DEF Above
    <2>. QED BY <2>1, <2>2
<1> DEFINE e == Exits(SubSeq(chain[x], 1, i))
           t == Plan(chain, s, m, y, n)
           u == Plan(chain, x, i + m, y, n)
<1>6. e = [k \in 1..i |-> <<"exit", chain[x][k]>>] /\ e \in Seq(Calls)
    BY <1>3, ExitsOfPath
<1>7. t \in Seq(Calls) /\ Len(t) = m + n
    BY <1>3, PlanIsPaths
<1>8. u \in Seq(Calls) /\ Len(u) = (i + m) + n
    <2>1. i + m \in 0..Len(chain[x]) /\ n \in 0..Len(chain[y])
        BY <1>2, <1>4
    <2>2. PICK l \in 0..Len(chain[x]) : l = i + m
        BY <2>1
    <2>3. Plan(chain, x, l, y, n) \in Seq(Calls) /\ Len(Plan(chain, x, l, y, n)) = l + n
        BY <1>3, <2>1, PlanIsPaths
    <2>. QED BY <2>2, <2>3
<1>9. \A k \in 1..(m + n) : t[k] = IF k =< m THEN <<"exit", chain[s][k]>>
                                   ELSE <<"enter", chain[y][(m + n) + 1 - k]>>
    BY <1>3 DEF Plan
<1>10. \A k \in 1..((i + m) + n) : u[k] = IF k =< i + m THEN <<"exit", chain[x][k]>>
                                          ELSE <<"enter", chain[y][((i + m) + n) + 1 - k]>>
    BY <1>3 DEF Plan
<1> HIDE DEF e, t, u
<1>11. Len(e) = i /\ Len(u) = Len(e) + Len(t)
    BY <1>3, <1>6, <1>7, <1>8
<1>12. ASSUME NEW k \in 1..i PROVE u[k] = e[k]
    <2>1. k \in 1..((i + m) + n) /\ k =< i + m
        BY <1>3
    <2>. QED BY <1>6, <1>10, <2>1
<1>13. ASSUME NEW k \in 1..(m + n) PROVE u[i + k] = t[k]
    <2>1. i + k \in 1..((i + m) + n)
        BY <1>3
    <2>2. CASE k =< m
        <3>1. i + k =< i + m /\ k \in 1..b
            BY <1>3, <2>2
        <3>2. chain[s][k] = chain[x][i + k]
            BY <1>3, <3>1
        <3>. QED BY <1>9, <1>10, <2>1, <2>2, <3>1, <3>2
    <2>3. CASE ~ (k =< m)
        <3>1. ~ (i + k =< i + m) /\ ((i + m) + n) + 1 - (i + k) = (m + n) + 1 - k
            BY <1>3, <2>3
        <3>. QED BY <1>9, <1>10, <2>1, <2>3, <3>1
    <2>. QED BY <2>2, <2>3
<1>14. e \o t = u
    <2>1. \A k \in 1..Len(e) : u[k] = e[k]
        BY <1>11, <1>12
    <2>2. \A k \in 1..Len(t) : u[Len(e) + k] = t[k]
        BY <1>7, <1>11, <1>13
    <2>. QED BY <1>6, <1>7, <1>8, <1>11, <2>1, <2>2, Concatenation
<1>. QED BY <1>2, <1>4, <1>5, <1>14 DEF e, t, u, Continues

-----------------------------------------------------------------------------
(* Transition(), for any hierarchy: the exits and entries between source   *)
(* and target, and before them the exits up to the source.                 *)

Between(chain, source, target) ==
    LET source_path == PathOf(chain, source, target)
        target_path == PathOf(chain, target, source)
    IN IF target = source THEN <<<<"exit", source>>, <<"enter", target>>>>
       ELSE IF source = top \/ Under(chain, target, source) THEN Enters(target_path)
       ELSE IF target = top \/ Under(chain, source, target) THEN Exits(source_path)
       ELSE Exits(WithoutCommon(source_path, target_path))
               \o Enters(WithoutCommon(target_path, source_path))

TransitionOf(chain, current, source, target) ==
    (IF current = source THEN <<>> ELSE Exits(PathOf(chain, current, source)))
        \o Between(chain, source, target)

\* The states that a transition leaves entered.
Stays(chain, source, target, s) ==
    /\ s \in Range(chain[source])
    /\ s \in Range(chain[target])
    /\ source # target \/ s # source

\* A plan that leads from one state to another, and leaves alone what stays.
Leads(chain, source, target, from, m, n) ==
    /\ m \in 0..Len(chain[from])
    /\ n \in 0..Len(chain[target])
    /\ Above(chain, from, m) = Above(chain, target, n)
    /\ \A s \in States : Stays(chain, source, target, s) => s \in Range(chain[Above(chain, target, n)])

LEMMA PlanToItself ==
    ASSUME NEW parent, NEW chain, IsHierarchy(parent, chain), NEW target \in States
    PROVE  /\ Leads(chain, target, target, target, 1, 1)
           /\ <<<<"exit", target>>, <<"enter", target>>>> = Plan(chain, target, 1, target, 1)
<1>1. /\ parent[target] \in Places /\ chain[target] \in Seq(States)
      /\ Len(chain[target]) = Len(chain[parent[target]]) + 1
      /\ Len(chain[parent[target]]) \in Nat /\ chain[target][1] = target
      /\ \A k \in 1..Len(chain[parent[target]]) : chain[target][k + 1] = chain[parent[target]][k]
    BY ChainOfState
<1>2. 1 \in 0..Len(chain[target]) /\ 1 \in 1..Len(chain[target]) /\ target \in Places
    BY <1>1 DEF Places
<1>3. Above(chain, target, 1) = parent[target]
    <2>1. Above(chain, target, 1) = parent[chain[target][1]]
        BY <1>2, ChainStep
    <2>. QED BY <1>1, <2>1
<1> DEFINE p == parent[target]
<1>4. ASSUME NEW s \in States, s \in Range(chain[target]), s # target PROVE s \in Range(chain[p])
    <2>1. PICK k \in 1..Len(chain[target]) : chain[target][k] = s
        BY <1>1, <1>4 DEF Range
    <2>2. k # 1
        BY <1>1, <1>4, <2>1
    <2>3. k - 1 \in 1..Len(chain[p]) /\ (k - 1) + 1 = k
        BY <1>1, <2>1, <2>2
    <2>4. chain[p][k - 1] = s
        BY <1>1, <2>1, <2>3
    <2>5. DOMAIN chain[p] = 1..Len(chain[p])
        <3>1. chain[p] \in Seq(States)
            BY <1>1, AboveStart
        <3>. QED BY <3>1
    <2>. QED BY <2>3, <2>4, <2>5 DEF Range
<1>5. Leads(chain, target, target, target, 1, 1)
    BY <1>2, <1>3, <1>4 DEF Leads, Stays
<1>6. <<<<"exit", target>>, <<"enter", target>>>> = Plan(chain, target, 1, target, 1)
    <2>1. Plan(chain, target, 1, target, 1)
            = [k \in 1..2 |-> IF k =< 1 THEN <<"exit", chain[target][k]>>
                              ELSE <<"enter", chain[target][2 + 1 - k]>>]
        BY DEF Plan
    <2>2. [k \in 1..2 |-> IF k =< 1 THEN <<"exit", chain[target][k]>>
                              ELSE <<"enter", chain[target][2 + 1 - k]>>]
            = <<<<"exit", target>>, <<"enter", target>>>>
        BY <1>1
    <2>. QED BY <2>1, <2>2
<1>. QED BY <1>5, <1>6

LEMMA BetweenIsPlan ==
    ASSUME NEW parent, NEW chain, IsHierarchy(parent, chain),
           NEW source \in Places, NEW target \in States
    PROVE  \E m, n : /\ Leads(chain, source, target, source, m, n)
                     /\ Between(chain, source, target) = Plan(chain, source, m, target, n)
<1>1. target \in Places /\ target # top
    BY StatesAssumption DEF Places
<1>2. PICK a \in Nat, b \in Nat : a = Len(chain[source]) /\ b = Len(chain[target])
    BY <1>1, AboveStart
<1>3. /\ chain[source] \in Seq(States) /\ chain[target] \in Seq(States)
      /\ Above(chain, source, 0) = source /\ Above(chain, target, 0) = target
    BY <1>1, AboveStart
<1>4. CASE target = source
    BY <1>4, PlanToItself DEF Between
<1>5. CASE target # source /\ (source = top \/ Under(chain, target, source))
    <2>1. Under(chain, target, source)
        BY <1>5 DEF Under
    <2>2. PICK n \in 1..Len(chain[target]) : source = Above(chain, target, n)
        BY <1>1, <2>1, UnderAbove
    <2>3. PathOf(chain, target, source) = SubSeq(chain[target], 1, n)
        BY <1>1, <2>2, PathAbove
    <2>4. n \in 0..Len(chain[target]) /\ 0 \in 0..Len(chain[source])
        BY <1>2
    <2>5. Leads(chain, source, target, source, 0, n)
        BY <1>3, <2>2, <2>4 DEF Leads, Stays
    <2>6. Enters(SubSeq(chain[target], 1, n)) = Plan(chain, source, 0, target, n)
        <3>1. Enters(SubSeq(chain[target], 1, n)) = [k \in 1..n |-> <<"enter", chain[target][n + 1 - k]>>]
            BY <1>3, <2>4, EntersOfPath
        <3>2. n \in Nat
            BY <1>2
        <3>3. 0 + n = n /\ \A k \in 1..n : ~ (k =< 0)
            BY <3>2
        <3>. QED BY <3>1, <3>3 DEF Plan
    <2>. QED BY <1>5, <2>3, <2>5, <2>6 DEF Between
<1>6. CASE Under(chain, source, target) /\ target # source /\ ~ (source = top \/ Under(chain, target, source))
    <2>2. PICK m \in 1..Len(chain[source]) : target = Above(chain, source, m)
        BY <1>1, <1>6, UnderAbove
    <2>3. PathOf(chain, source, target) = SubSeq(chain[source], 1, m)
        BY <1>1, <2>2, PathAbove
    <2>4. m \in 0..Len(chain[source]) /\ 0 \in 0..Len(chain[target])
        BY <1>2
    <2>5. Leads(chain, source, target, source, m, 0)
        BY <1>3, <2>2, <2>4 DEF Leads, Stays
    <2>6. Exits(SubSeq(chain[source], 1, m)) = Plan(chain, source, m, target, 0)
        <3>1. Exits(SubSeq(chain[source], 1, m)) = [k \in 1..m |-> <<"exit", chain[source][k]>>]
            BY <1>3, <2>4, ExitsOfPath
        <3>2. m \in Nat
            BY <1>2
        <3>3. \A k \in 1..(m + 0) : k =< m
            BY <3>2
        <3>4. m + 0 = m
            BY <3>2
        <3>. QED BY <3>1, <3>3, <3>4 DEF Plan
    <2>. QED BY <1>1, <1>6, <2>3, <2>5, <2>6 DEF Between
<1>7. CASE ~ Under(chain, source, target) /\ target # source /\ ~ (source = top \/ Under(chain, target, source))
    <2>1. PathOf(chain, source, target) = chain[source] /\ PathOf(chain, target, source) = chain[target]
        BY <1>7 DEF PathOf
    <2>2. PICK n : n = Common(chain[source], chain[target])
        OBVIOUS
    <2>3. /\ n = Common(chain[target], chain[source]) /\ n \in 0..a /\ n \in 0..b
          /\ Above(chain, source, a - n) = Above(chain, target, b - n)
          /\ IsCommon(chain[source], chain[target], n)
        BY <1>1, <1>2, <2>2, PathsMeet
    <2>4. a - n \in 0..a /\ b - n \in 0..b
        BY <2>3
    <2>5. \A s \in States : Stays(chain, source, target, s) => s \in Range(chain[Above(chain, source, a - n)])
        BY <1>1, <1>2, <2>3, CommonAbove DEF Stays
    <2>6. Leads(chain, source, target, source, a - n, b - n)
        BY <1>2, <2>3, <2>4, <2>5 DEF Leads
    <2>7. /\ WithoutCommon(chain[source], chain[target]) = SubSeq(chain[source], 1, a - n)
          /\ WithoutCommon(chain[target], chain[source]) = SubSeq(chain[target], 1, b - n)
        BY <1>2, <2>2, <2>3 DEF WithoutCommon
    <2>8. Exits(SubSeq(chain[source], 1, a - n)) \o Enters(SubSeq(chain[target], 1, b - n))
            = Plan(chain, source, a - n, target, b - n)
        <3>1. PICK k \in 0..a, l \in 0..b : k = a - n /\ l = b - n
            BY <2>4
        <3>2. k \in 0..Len(chain[source]) /\ l \in 0..Len(chain[target])
            BY <1>2, <3>1
        <3>3. Exits(SubSeq(chain[source], 1, k)) \o Enters(SubSeq(chain[target], 1, l))
                = Plan(chain, source, k, target, l)
            BY <1>3, <3>2, PlanIsPaths
        <3>. QED BY <3>1, <3>3
    <2>9. Between(chain, source, target) = Plan(chain, source, a - n, target, b - n)
        BY <1>1, <1>7, <2>1, <2>7, <2>8 DEF Between
    <2>. QED BY <2>6, <2>9
<1>. QED BY <1>4, <1>5, <1>6, <1>7

LEMMA TransitionIsPlan ==
    ASSUME NEW parent, NEW chain, IsHierarchy(parent, chain),
           NEW current \in Places, NEW i \in 0..Len(chain[current]),
           NEW source, source = Above(chain, current, i), NEW target \in States
    PROVE  \E m, n : /\ Leads(chain, source, target, current, m, n)
                     /\ TransitionOf(chain, current, source, target) = Plan(chain, current, m, target, n)
<1>1. Len(chain[current]) \in Nat /\ Above(chain, current, 0) = current /\ target \in Places
      /\ chain[current] \in Seq(States) /\ chain[target] \in Seq(States)
    BY AboveStart DEF Places
<1>2. source \in Places /\ EndsWith(chain, current, i, source)
    <2>1. EndsWith(chain, current, i, Above(chain, current, i))
        BY ChainAbove
    <2>. QED BY <2>1 DEF EndsWith
<1>3. PICK m, n : /\ Leads(chain, source, target, source, m, n)
                  /\ Between(chain, source, target) = Plan(chain, source, m, target, n)
    BY <1>2, BetweenIsPlan
<1>4. m \in 0..Len(chain[source]) /\ n \in 0..Len(chain[target])
    BY <1>3 DEF Leads
<1>5. CASE current = source
    <2>1. Plan(chain, source, m, target, n) \in Seq(Calls)
        BY <1>1, <1>4, <1>5, PlanIsPaths
    <2>2. <<>> \o Plan(chain, source, m, target, n) = Plan(chain, source, m, target, n)
        BY <2>1
    <2>. QED BY <1>3, <1>5, <2>2 DEF TransitionOf
<1>6. CASE current # source
    <2>1. i \in 1..Len(chain[current])
        BY <1>1, <1>6
    <2>2. PathOf(chain, current, source) = SubSeq(chain[current], 1, i)
        BY <2>1, PathAbove
    <2>3. /\ i + m \in 0..Len(chain[current])
          /\ Above(chain, current, i + m) = Above(chain, source, m)
          /\ Exits(SubSeq(chain[current], 1, i)) \o Plan(chain, source, m, target, n)
                = Plan(chain, current, i + m, target, n)
        <3>1. Continues(chain, current, i, source, m, target, n)
            BY <1>1, <1>2, <1>4, PlanFromBelow
        <3>. QED BY <3>1 DEF Continues
    <2>4. Leads(chain, source, target, current, i + m, n)
        BY <1>3, <2>3 DEF Leads
    <2>. QED BY <1>3, <1>6, <2>2, <2>3, <2>4 DEF TransitionOf
<1>. QED BY <1>5, <1>6

-----------------------------------------------------------------------------
(* The states that are entered, outermost first.                           *)

LEMMA ReverseOfChain ==
    ASSUME NEW q \in Seq(States)
    PROVE  /\ Reverse(q) \in Seq(States)
           /\ Len(Reverse(q)) = Len(q)
           /\ \A k \in 1..Len(q) : Reverse(q)[k] = q[(Len(q) - k) + 1]
           /\ Range(Reverse(q)) = Range(q)
<1>1. PICK n \in Nat : n = Len(q)
    OBVIOUS
<1> DEFINE r == [k \in 1..n |-> q[(n - k) + 1]]
<1>2. Reverse(q) = r
    BY <1>1 DEF Reverse
<1>3. \A k \in 1..n : (n - k) + 1 \in 1..n
    OBVIOUS
<1>4. r \in [1..n -> States]
    BY <1>1, <1>3
<1>5. r \in Seq(States) /\ Len(r) = n /\ \A k \in 1..n : r[k] = q[(n - k) + 1]
    <2>1. \A k \in 1..n : r[k] = q[(n - k) + 1]
        OBVIOUS
    <2> HIDE DEF r
    <2>. QED BY <1>4, <2>1
<1>6. Range(r) = Range(q)
    <2>1. DOMAIN r = 1..n /\ DOMAIN q = 1..n
        BY <1>1
    <2>2. \A k \in 1..n : (n - ((n - k) + 1)) + 1 = k
        OBVIOUS
    <2> HIDE DEF r
    <2>3. \A k \in 1..n : q[k] = r[(n - k) + 1]
        BY <1>3, <1>5, <2>2
    <2>. QED BY <1>3, <1>5, <2>1, <2>3 DEF Range
<1>. QED BY <1>1, <1>2, <1>5, <1>6

LEMMA RemoveLastEntered ==
    ASSUME NEW r \in Seq(States), NEW s \in States, s \notin Range(r)
    PROVE  RemoveFirst(Append(r, s), s) = r
<1>1. PICK n \in Nat : n = Len(r)
    OBVIOUS
<1> DEFINE q == Append(r, s)
<1>2. /\ q \in Seq(States) /\ Len(q) = n + 1 /\ q[n + 1] = s
      /\ \A k \in 1..n : q[k] = r[k] /\ r[k] # s
    BY <1>1 DEF Range
<1> HIDE DEF q
<1>3. {i \in 1..Len(q) : q[i] = s} = {n + 1}
    <2>1. \A i \in 1..(n + 1) : i = n + 1 \/ i \in 1..n
        OBVIOUS
    <2>. QED BY <1>2, <2>1
<1>4. SelectInSeq(q, LAMBDA v : v = s) = n + 1
    <2>1. Min({n + 1}) = n + 1
        BY DEF Min
    <2>. QED BY <1>3, <2>1 DEF SelectInSeq
<1>5. RemoveFirst(q, s) = RemoveAt(q, n + 1)
    <2>1. \E i \in 1..Len(q) : q[i] = s
        BY <1>2
    <2>. QED BY <1>4, <2>1 DEF RemoveFirst
<1>6. SubSeq(q, 1, n) = r
    <2>1. SubSeq(q, 1, n) \in Seq(States) /\ Len(SubSeq(q, 1, n)) = n
          /\ \A k \in 1..n : SubSeq(q, 1, n)[k] = r[k]
        BY <1>2
    <2>. QED BY <1>1, <2>1
<1>7. SubSeq(q, n + 2, n + 1) = <<>>
    BY <1>2
<1>8. RemoveAt(q, n + 1) = r \o <<>>
    BY <1>2, <1>6, <1>7 DEF RemoveAt
<1>. QED BY <1>5, <1>8 DEF q

LEMMA RemoveOther ==
    ASSUME NEW r \in Seq(States), NEW s \in States, s \notin Range(r)
    PROVE  RemoveFirst(r, s) = r
<1>1. ~ \E i \in 1..Len(r) : r[i] = s
    BY DEF Range
<1>. QED BY <1>1 DEF RemoveFirst

\* No state is its own superstate.
LEMMA NotAboveItself ==
    ASSUME NEW parent, NEW chain, IsHierarchy(parent, chain), NEW s \in States
    PROVE  s \notin Range(chain[parent[s]])
<1>1. /\ parent[s] \in Places /\ s \in Places /\ Len(chain[parent[s]]) \in Nat
      /\ chain[parent[s]] \in Seq(States)
      /\ Len(chain[s]) = Len(chain[parent[s]]) + 1
    BY ChainOfState DEF Places
<1>2. SUFFICES ASSUME s \in Range(chain[parent[s]]) PROVE FALSE
    OBVIOUS
<1>3. PICK k \in 1..Len(chain[parent[s]]) : chain[parent[s]][k] = s
    BY <1>1, <1>2 DEF Range
<1>4. Above(chain, parent[s], k - 1) = s /\ k - 1 \in 0..Len(chain[parent[s]])
    <2>1. Above(chain, parent[s], k - 1) = chain[parent[s]][k]
        BY <1>1, ChainStep
    <2>. QED BY <1>1, <1>3, <2>1
<1>5. EndsWith(chain, parent[s], k - 1, s)
    <2>1. EndsWith(chain, parent[s], k - 1, Above(chain, parent[s], k - 1))
        BY <1>1, <1>4, ChainAbove
    <2>. QED BY <1>4, <2>1
<1>6. Len(chain[s]) = Len(chain[parent[s]]) - (k - 1)
    BY <1>5 DEF EndsWith
<1>. QED BY <1>1, <1>6

\* Entering a state from its superstate, and leaving it again.
LEMMA EnterState ==
    ASSUME NEW parent, NEW chain, IsHierarchy(parent, chain), NEW s \in States
    PROVE  /\ Reverse(chain[s]) = Append(Reverse(chain[parent[s]]), s)
           /\ RemoveFirst(Reverse(chain[s]), s) = Reverse(chain[parent[s]])
           /\ RemoveFirst(Reverse(chain[parent[s]]), s) = Reverse(chain[parent[s]])
<1> DEFINE p == chain[parent[s]]
<1>1. /\ chain[s] \in Seq(States) /\ p \in Seq(States) /\ chain[s][1] = s
      /\ Len(chain[s]) = Len(p) + 1
      /\ \A k \in 1..Len(p) : chain[s][k + 1] = p[k]
    BY ChainOfState
<1>2. s \notin Range(p)
    BY NotAboveItself
<1> HIDE DEF p
<1>3. PICK n \in Nat : n = Len(p)
    BY <1>1
<1>4. /\ Reverse(p) \in Seq(States) /\ Len(Reverse(p)) = n
      /\ \A k \in 1..n : Reverse(p)[k] = p[(n - k) + 1]
      /\ s \notin Range(Reverse(p))
    BY <1>1, <1>2, <1>3, ReverseOfChain
<1>5. /\ Reverse(chain[s]) \in Seq(States) /\ Len(Reverse(chain[s])) = n + 1
      /\ \A k \in 1..(n + 1) : Reverse(chain[s])[k] = chain[s][((n + 1) - k) + 1]
    BY <1>1, <1>3, ReverseOfChain
<1>6. Reverse(chain[s]) = Append(Reverse(p), s)
    <2>1. Append(Reverse(p), s) \in Seq(States) /\ Len(Append(Reverse(p), s)) = n + 1
          /\ Append(Reverse(p), s)[n + 1] = s
          /\ \A k \in 1..n : Append(Reverse(p), s)[k] = Reverse(p)[k]
        BY <1>4
    <2>2. Reverse(chain[s])[n + 1] = s
        <3>1. ((n + 1) - (n + 1)) + 1 = 1 /\ n + 1 \in 1..(n + 1)
            OBVIOUS
        <3>. QED BY <1>1, <1>5, <3>1
    <2>3. ASSUME NEW k \in 1..n PROVE Reverse(chain[s])[k] = Reverse(p)[k]
        <3>1. /\ ((n + 1) - k) + 1 = ((n - k) + 1) + 1 /\ (n - k) + 1 \in 1..n
              /\ k \in 1..(n + 1)
            OBVIOUS
        <3>2. chain[s][((n - k) + 1) + 1] = p[(n - k) + 1]
            BY <1>1, <1>3, <3>1
        <3>. QED BY <1>4, <1>5, <3>1, <3>2
    <2>4. \A k \in 1..(n + 1) : k = n + 1 \/ k \in 1..n
        OBVIOUS
    <2>. QED BY <1>5, <2>1, <2>2, <2>3, <2>4
<1>7. RemoveFirst(Reverse(chain[s]), s) = Reverse(p)
    BY <1>4, <1>6, RemoveLastEntered
<1>8. RemoveFirst(Reverse(p), s) = Reverse(p)
    BY <1>4, RemoveOther
<1>. QED BY <1>6, <1>7, <1>8 DEF p

-----------------------------------------------------------------------------
(* One call of a plan after another.                                       *)

LEMMA PlanSizes ==
    ASSUME NEW parent, NEW chain, IsHierarchy(parent, chain),
           NEW source, NEW target \in States, NEW x \in Places, NEW m, NEW n,
           Leads(chain, source, target, x, m, n)
    PROVE  /\ m \in Nat /\ n \in Nat /\ target \in Places
           /\ chain[x] \in Seq(States) /\ chain[target] \in Seq(States)
           /\ Plan(chain, x, m, target, n) \in Seq(Calls)
           /\ Len(Plan(chain, x, m, target, n)) = m + n
<1>1. target \in Places
    BY DEF Places
<1>2. chain[x] \in Seq(States) /\ chain[target] \in Seq(States)
    BY <1>1, AboveStart
<1>3. m \in 0..Len(chain[x]) /\ n \in 0..Len(chain[target])
    BY DEF Leads
<1>4. Plan(chain, x, m, target, n) \in Seq(Calls) /\ Len(Plan(chain, x, m, target, n)) = m + n
    BY <1>2, <1>3, PlanIsPaths
<1>. QED BY <1>1, <1>2, <1>3, <1>4

LEMMA PlanDone ==
    ASSUME NEW parent, NEW chain, IsHierarchy(parent, chain),
           NEW source, NEW target \in States, NEW x \in Places, NEW m, NEW n,
           Leads(chain, source, target, x, m, n), Plan(chain, x, m, target, n) = <<>>
    PROVE  x = target
<1>1. m \in Nat /\ n \in Nat /\ target \in Places /\ m + n = 0
    BY PlanSizes
<1>2. m = 0 /\ n = 0
    BY <1>1
<1>3. Above(chain, x, 0) = Above(chain, target, 0)
    BY <1>2 DEF Leads
<1>4. Above(chain, x, 0) = x /\ Above(chain, target, 0) = target
    BY <1>1, AboveStart
<1>. QED BY <1>3, <1>4

\* The first call of a plan exits, or enters, a state and leaves a plan.
FirstExits(parent, chain, source, target, x, m, n) ==
    /\ x \in States
    /\ Head(Plan(chain, x, m, target, n)) = <<"exit", x>>
    /\ Tail(Plan(chain, x, m, target, n)) = Plan(chain, parent[x], m - 1, target, n)
    /\ Leads(chain, source, target, parent[x], m - 1, n)

FirstEnters(parent, chain, source, target, x, n) ==
    \E s \in States :
        /\ parent[s] = x
        /\ Head(Plan(chain, x, 0, target, n)) = <<"enter", s>>
        /\ Tail(Plan(chain, x, 0, target, n)) = Plan(chain, s, 0, target, n - 1)
        /\ Leads(chain, source, target, s, 0, n - 1)

LEMMA PlanExit ==
    ASSUME NEW parent, NEW chain, IsHierarchy(parent, chain),
           NEW source, NEW target \in States, NEW x \in Places, NEW m, NEW n,
           Leads(chain, source, target, x, m, n), m # 0
    PROVE  FirstExits(parent, chain, source, target, x, m, n)
<1>1. /\ m \in Nat /\ n \in Nat /\ target \in Places /\ m \in 0..Len(chain[x])
      /\ chain[x] \in Seq(States) /\ Len(chain[x]) \in Nat
    <2>1. m \in Nat /\ n \in Nat /\ target \in Places /\ chain[x] \in Seq(States)
        BY PlanSizes
    <2>. QED BY <2>1 DEF Leads
<1>2. x \in States
    <2>1. x # top
        BY <1>1, AboveStart
    <2>. QED BY <2>1 DEF Places
<1> DEFINE p == parent[x]
<1>3. /\ p \in Places /\ Len(chain[p]) \in Nat /\ Len(chain[x]) = Len(chain[p]) + 1 /\ chain[x][1] = x
      /\ \A k \in 1..Len(chain[p]) : chain[x][k + 1] = chain[p][k]
    BY <1>2, ChainOfState
<1>4. Above(chain, x, m) = Above(chain, p, m - 1)
    BY <1>1, <1>2, AboveParent
<1> HIDE DEF p
<1>5. m - 1 \in 0..Len(chain[p])
    BY <1>1, <1>3
<1>6. Leads(chain, source, target, p, m - 1, n)
    BY <1>4, <1>5 DEF Leads
<1> DEFINE u == Plan(chain, x, m, target, n)
           v == Plan(chain, p, m - 1, target, n)
<1>7. u \in Seq(Calls) /\ Len(u) = m + n
    BY PlanSizes
<1>8. v \in Seq(Calls) /\ Len(v) = (m - 1) + n
    BY <1>3, <1>6, PlanSizes
<1>9. \A k \in 1..(m + n) : u[k] = IF k =< m THEN <<"exit", chain[x][k]>>
                                   ELSE <<"enter", chain[target][(m + n) + 1 - k]>>
    BY <1>1 DEF Plan
<1>10. \A k \in 1..((m - 1) + n) : v[k] = IF k =< m - 1 THEN <<"exit", chain[p][k]>>
                                   ELSE <<"enter", chain[target][((m - 1) + n) + 1 - k]>>
    BY <1>1 DEF Plan
<1> HIDE DEF u, v
<1>11. Head(u) = <<"exit", x>>
    <2>1. 1 \in 1..(m + n) /\ 1 =< m
        BY <1>1
    <2>2. u[1] = <<"exit", x>>
        BY <1>3, <1>9, <2>1
    <2>. QED BY <1>7, <2>1, <2>2
<1>12. ASSUME NEW k \in 1..((m - 1) + n) PROVE u[k + 1] = v[k]
    <2>1. k + 1 \in 1..(m + n)
        BY <1>1
    <2>2. CASE k =< m - 1
        <3>1. k + 1 =< m /\ k \in 1..Len(chain[p])
            BY <1>1, <1>5, <2>2
        <3>. QED BY <1>3, <1>9, <1>10, <2>1, <2>2, <3>1
    <2>3. CASE ~ (k =< m - 1)
        <3>1. ~ (k + 1 =< m) /\ (m + n) + 1 - (k + 1) = ((m - 1) + n) + 1 - k
            BY <1>1, <2>3
        <3>. QED BY <1>9, <1>10, <2>1, <2>3, <3>1
    <2>. QED BY <2>2, <2>3
<1>13. Tail(u) = v
    <2>1. PICK l \in Nat : l = (m - 1) + n /\ m + n = l + 1
        BY <1>1
    <2>2. u # <<>> /\ Len(u) = l + 1
        BY <1>7, <2>1
    <2>3. Tail(u) \in Seq(Calls) /\ Len(Tail(u)) = l /\ \A k \in 1..l : Tail(u)[k] = u[k + 1]
        BY <1>7, <2>2
    <2>4. \A k \in 1..l : Tail(u)[k] = v[k]
        BY <1>12, <2>1, <2>3
    <2>. QED BY <1>8, <2>1, <2>3, <2>4
<1>. QED BY <1>2, <1>6, <1>11, <1>13 DEF p, u, v, FirstExits

LEMMA PlanEnter ==
    ASSUME NEW parent, NEW chain, IsHierarchy(parent, chain),
           NEW source, NEW target \in States, NEW x \in Places, NEW n,
           Leads(chain, source, target, x, 0, n), n # 0
    PROVE  FirstEnters(parent, chain, source, target, x, n)
<1>1. /\ n \in Nat /\ target \in Places /\ n \in 0..Len(chain[target])
      /\ chain[target] \in Seq(States) /\ Len(chain[target]) \in Nat
    <2>1. n \in Nat /\ target \in Places /\ chain[target] \in Seq(States)
        BY PlanSizes
    <2>. QED BY <2>1 DEF Leads
<1>2. n \in 1..Len(chain[target])
    BY <1>1
<1>3. PICK s \in States : s = chain[target][n]
    BY <1>1, <1>2
<1>4. Above(chain, target, n - 1) = s /\ Above(chain, target, n) = parent[s]
    BY <1>1, <1>2, <1>3, ChainStep
<1>5. parent[s] = x
    <2>1. Above(chain, x, 0) = x
        BY AboveStart
    <2>. QED BY <1>4, <2>1 DEF Leads
<1>6. /\ s \in Places /\ Above(chain, s, 0) = s /\ chain[s] \in Seq(States)
      /\ Len(chain[s]) \in Nat /\ Len(chain[s]) = Len(chain[x]) + 1 /\ Len(chain[x]) \in Nat
      /\ chain[x] \in Seq(States)
      /\ \A k \in 1..Len(chain[x]) : chain[s][k + 1] = chain[x][k]
    BY <1>5, ChainOfState, AboveStart DEF Places
<1>7. Range(chain[x]) \subseteq Range(chain[s])
    <2>1. \A k \in 1..Len(chain[x]) : k + 1 \in 1..Len(chain[s])
        BY <1>6
    <2>2. DOMAIN chain[x] = 1..Len(chain[x]) /\ DOMAIN chain[s] = 1..Len(chain[s])
        BY <1>6
    <2>. QED BY <1>6, <2>1, <2>2 DEF Range
<1>8. Leads(chain, source, target, s, 0, n - 1)
    <2>1. n - 1 \in 0..Len(chain[target]) /\ 0 \in 0..Len(chain[s])
        BY <1>1, <1>2, <1>6
    <2>2. \A t \in States : Stays(chain, source, target, t) => t \in Range(chain[s])
        BY <1>4, <1>5, <1>7 DEF Leads
    <2>. QED BY <1>4, <1>6, <2>1, <2>2 DEF Leads
<1> DEFINE u == Plan(chain, x, 0, target, n)
           v == Plan(chain, s, 0, target, n - 1)
<1>9. u \in Seq(Calls) /\ Len(u) = 0 + n
    BY PlanSizes
<1>10. v \in Seq(Calls) /\ Len(v) = 0 + (n - 1)
    BY <1>6, <1>8, PlanSizes
<1>11. \A k \in 1..n : u[k] = <<"enter", chain[target][n + 1 - k]>>
    <2>1. 0 + n = n /\ \A k \in 1..n : ~ (k =< 0)
        BY <1>1
    <2>. QED BY <2>1 DEF Plan
<1>12. \A k \in 1..(n - 1) : v[k] = <<"enter", chain[target][(n - 1) + 1 - k]>>
    <2>1. 0 + (n - 1) = n - 1 /\ \A k \in 1..(n - 1) : ~ (k =< 0)
        BY <1>1, <1>2
    <2>. QED BY <2>1 DEF Plan
<1> HIDE DEF u, v
<1>13. Head(u) = <<"enter", s>>
    <2>1. 1 \in 1..n /\ n + 1 - 1 = n
        BY <1>1, <1>2
    <2>2. u[1] = <<"enter", s>>
        BY <1>3, <1>11, <2>1
    <2>. QED BY <1>9, <2>1, <2>2
<1>14. ASSUME NEW k \in 1..(n - 1) PROVE u[k + 1] = v[k]
    <2>1. k + 1 \in 1..n /\ n + 1 - (k + 1) = (n - 1) + 1 - k
        BY <1>1
    <2>. QED BY <1>11, <1>12, <2>1
<1>15. Tail(u) = v
    <2>1. Tail(u) \in Seq(Calls) /\ Len(Tail(u)) = n - 1
          /\ \A k \in 1..(n - 1) : Tail(u)[k] = u[k + 1]
        BY <1>1, <1>2, <1>9
    <2>2. Len(v) = n - 1
        BY <1>1, <1>10
    <2>. QED BY <1>10, <1>14, <2>1, <2>2
<1>. QED BY <1>5, <1>8, <1>13, <1>15 DEF u, v, FirstEnters

-----------------------------------------------------------------------------
(* The state machine.  Between the calls of a transition, the states that  *)
(* are entered are some place and all that is above it, and the calls that *)
(* are left lead from there to the target.                                 *)

CurrentInv ==
    /\ m_current_state = null => pc = "idle" /\ entered = <<>>
    /\ (m_current_state # null /\ pc # "call") => entered = Reverse(Superstates[m_current_state])

\* The state that dispatch() asks is active.
DispatchInv ==
    pc = "dispatch" =>
        \E k \in 0..Len(Superstates[m_current_state]) : state = Above(Superstates, m_current_state, k)

\* The state that a transition is triggered from is active.
SourceInv ==
    pc = "transition" =>
        /\ target_state \in States
        /\ \E k \in 0..Len(Superstates[m_current_state]) :
                source_state = Above(Superstates, m_current_state, k)

CallsInv ==
    pc = "call" =>
        /\ target_state \in States
        /\ \E x \in Places : \E m, n :
                /\ entered = Reverse(Superstates[x])
                /\ calls = Plan(Superstates, x, m, target_state, n)
                /\ Leads(Superstates, source_state, target_state, x, m, n)

InitialInv == pc = "initial" => m_current_state \in States

HSMInv == TypeOK /\ CurrentInv /\ DispatchInv /\ SourceInv /\ CallsInv /\ InitialInv

LEMMA CurrentHierarchy ==
    ASSUME TypeOK
    PROVE  IsHierarchy(superstate, Superstates)
BY SuperstatesAreChains DEF TypeOK

LEMMA CurrentPlace ==
    ASSUME HSMInv, m_current_state # null
    PROVE  /\ m_current_state \in Places
           /\ Superstates[m_current_state] \in Seq(States)
           /\ Len(Superstates[m_current_state]) \in Nat
           /\ Above(Superstates, m_current_state, 0) = m_current_state
<1>1. m_current_state \in Places
    BY DEF HSMInv, TypeOK, Places
<1>2. IsHierarchy(superstate, Superstates)
    BY CurrentHierarchy DEF HSMInv
<1>. QED BY <1>1, <1>2, AboveStart

LEMMA SuperstatesStay ==
    ASSUME superstate' = superstate
    PROVE  Superstates' = Superstates
BY DEF Superstates

LEMMA TypesOfStep ==
    ASSUME TypeOK,
           <<superstate', m_current_state', m_union', state', source_state', target_state'>>
                \in {superstate} \X (Places \cup {null}) \X Places \X Places \X Places \X Places,
           pc' \in {"idle", "dispatch", "transition", "call", "initial"},
           calls' \in Seq(Calls), entered' \in Seq(States)
    PROVE  TypeOK'
BY DEF TypeOK, Places, Calls

LEMMA InvInitially == Init => HSMInv
<1> SUFFICES ASSUME Init PROVE HSMInv
    OBVIOUS
<1>1. <<>> \in Seq(States) /\ <<>> \in Seq({"exit", "enter"} \X States)
    OBVIOUS
<1>2. TypeOK
    BY <1>1 DEF Init, TypeOK
<1>. QED BY <1>2 DEF Init, HSMInv, CurrentInv, DispatchInv, SourceInv, CallsInv, InitialInv

\* A transition that an active state triggers.
LEMMA TransitionTriggered ==
    ASSUME HSMInv, NEW source \in Places, NEW target \in States,
           m_current_state' # null, m_current_state' \in Places,
           TransitionFrom(source, target),
           UNCHANGED <<superstate, state, calls, entered>>,
           entered = Reverse(Superstates[m_current_state']),
           \E k \in 0..Len(Superstates[m_current_state']) :
                source = Above(Superstates, m_current_state', k)
    PROVE  HSMInv'
<1>1. Superstates' = Superstates
    BY SuperstatesStay
<1>2. TypeOK'
    <2>1. target \in Places
        BY DEF Places
    <2>. QED BY <2>1, TypesOfStep DEF HSMInv, TypeOK, TransitionFrom, Places, Calls
<1>3. pc' = "transition" /\ source_state' = source /\ target_state' = target
    BY DEF TransitionFrom
<1>4. CurrentInv'
    BY <1>1, <1>3 DEF CurrentInv
<1>5. SourceInv'
    BY <1>1, <1>3 DEF SourceInv
<1>. QED BY <1>2, <1>3, <1>4, <1>5 DEF HSMInv, DispatchInv, CallsInv, InitialInv

LEMMA TopmostInitialTransition ==
    ASSUME HSMInv, NEW target \in States, execute_topmost_initial_transition(target)
    PROVE  HSMInv'
<1>1. IsHierarchy(superstate, Superstates)
    BY CurrentHierarchy DEF HSMInv
<1>2. /\ m_current_state' = top /\ TransitionFrom(top, target)
      /\ UNCHANGED <<superstate, state, calls, entered>> /\ entered = <<>>
    BY DEF execute_topmost_initial_transition, HSMInv, CurrentInv
<1>3. top \in Places /\ top # null
    BY StatesAssumption DEF Places
<1>4. Superstates[top] = <<>> /\ Len(Superstates[top]) = 0 /\ Above(Superstates, top, 0) = top
    BY <1>1, <1>3, AboveStart DEF IsHierarchy
<1>5. Reverse(<<>>) = <<>>
    BY DEF Reverse
<1>. QED BY <1>2, <1>3, <1>4, <1>5, TransitionTriggered

LEMMA DispatchStep ==
    ASSUME HSMInv, dispatch PROVE HSMInv'
<1>1. /\ m_current_state # null /\ state' = m_current_state /\ pc = "idle" /\ pc' = "dispatch"
      /\ UNCHANGED <<superstate, m_current_state, m_union, source_state, target_state, calls, entered>>
    BY DEF dispatch
<1>2. /\ m_current_state \in Places /\ Above(Superstates, m_current_state, 0) = m_current_state
      /\ 0 \in 0..Len(Superstates[m_current_state])
    BY <1>1, CurrentPlace
<1>3. Superstates' = Superstates
    BY <1>1, SuperstatesStay
<1>4. TypeOK'
    BY <1>1, <1>2 DEF HSMInv, TypeOK, Places
<1>5. CurrentInv' /\ DispatchInv'
    BY <1>1, <1>2, <1>3 DEF HSMInv, CurrentInv, DispatchInv
<1>. QED BY <1>1, <1>4, <1>5 DEF HSMInv, SourceInv, CallsInv, InitialInv

LEMMA HandledStep ==
    ASSUME HSMInv, EventHandled PROVE HSMInv'
<1>1. /\ pc = "dispatch" /\ pc' = "idle"
      /\ UNCHANGED <<superstate, m_current_state, m_union, state, source_state, target_state, calls, entered>>
    BY DEF EventHandled
<1>2. Superstates' = Superstates
    BY <1>1, SuperstatesStay
<1>3. TypeOK' /\ CurrentInv'
    BY <1>1, <1>2 DEF HSMInv, TypeOK, CurrentInv
<1>. QED BY <1>1, <1>3 DEF HSMInv, DispatchInv, SourceInv, CallsInv, InitialInv

LEMMA DeferredStep ==
    ASSUME HSMInv, EventDeferred PROVE HSMInv'
<1>1. /\ pc = "dispatch" /\ state # top /\ m_union' = superstate[state] /\ state' = superstate[state]
      /\ UNCHANGED <<superstate, m_current_state, pc, source_state, target_state, calls, entered>>
    BY DEF EventDeferred
<1>2. m_current_state # null
    BY <1>1 DEF HSMInv, CurrentInv
<1>3. IsHierarchy(superstate, Superstates)
    BY CurrentHierarchy DEF HSMInv
<1>4. /\ m_current_state \in Places /\ Len(Superstates[m_current_state]) \in Nat
      /\ Superstates[m_current_state] \in Seq(States)
    BY <1>2, CurrentPlace
<1>5. PICK k \in 0..Len(Superstates[m_current_state]) : state = Above(Superstates, m_current_state, k)
    BY <1>1 DEF HSMInv, DispatchInv
<1>6. k + 1 \in 1..Len(Superstates[m_current_state]) /\ state = Superstates[m_current_state][k + 1]
    BY <1>1, <1>4, <1>5 DEF Above
<1>7. state \in States /\ Above(Superstates, m_current_state, k + 1) = superstate[state]
    BY <1>3, <1>4, <1>6, ChainStep
<1>8. superstate[state] \in Places
    BY <1>3, <1>7, ChainOfState
<1>9. Superstates' = Superstates
    BY <1>1, SuperstatesStay
<1>10. TypeOK'
    BY <1>1, <1>8 DEF HSMInv, TypeOK, Places
<1>11. DispatchInv'
    <2>1. k + 1 \in 0..Len(Superstates[m_current_state])
        BY <1>4, <1>6
    <2>. QED BY <1>1, <1>7, <1>9, <2>1 DEF DispatchInv
<1>12. CurrentInv'
    BY <1>1, <1>9 DEF HSMInv, CurrentInv
<1>. QED BY <1>1, <1>10, <1>11, <1>12 DEF HSMInv, SourceInv, CallsInv, InitialInv

LEMMA TriggersStep ==
    ASSUME HSMInv, NEW target \in States, EventTriggersTransition(target) PROVE HSMInv'
<1>1. /\ pc = "dispatch" /\ state # top /\ TransitionFrom(state, target)
      /\ UNCHANGED <<superstate, m_current_state, state, calls, entered>>
    BY DEF EventTriggersTransition
<1>2. m_current_state # null /\ entered = Reverse(Superstates[m_current_state])
    BY <1>1 DEF HSMInv, CurrentInv
<1>3. m_current_state \in Places
    BY <1>2, CurrentPlace
<1>4. state \in Places
    BY DEF HSMInv, TypeOK, Places
<1>5. \E k \in 0..Len(Superstates[m_current_state]) : state = Above(Superstates, m_current_state, k)
    BY <1>1 DEF HSMInv, DispatchInv
<1>. QED BY <1>1, <1>2, <1>3, <1>4, <1>5, TransitionTriggered

LEMMA NestedInitialStep ==
    ASSUME HSMInv, NEW target \in States, NestedInitialTransition(target) PROVE HSMInv'
<1>1. /\ pc = "initial" /\ TransitionFrom(m_current_state, target)
      /\ UNCHANGED <<superstate, m_current_state, state, calls, entered>>
    BY DEF NestedInitialTransition
<1>2. m_current_state # null /\ entered = Reverse(Superstates[m_current_state])
    BY <1>1 DEF HSMInv, CurrentInv
<1>3. /\ m_current_state \in Places /\ Above(Superstates, m_current_state, 0) = m_current_state
      /\ 0 \in 0..Len(Superstates[m_current_state])
    BY <1>2, CurrentPlace
<1>4. \E k \in 0..Len(Superstates[m_current_state]) : m_current_state = Above(Superstates, m_current_state, k)
    BY <1>3
<1>. QED BY <1>1, <1>2, <1>3, <1>4, TransitionTriggered

LEMMA NoNestedInitialStep ==
    ASSUME HSMInv, NoNestedInitialTransition PROVE HSMInv'
<1>1. /\ pc = "initial" /\ pc' = "idle" /\ m_union' = superstate[m_current_state]
      /\ UNCHANGED <<superstate, m_current_state, state, source_state, target_state, calls, entered>>
    BY DEF NoNestedInitialTransition
<1>2. m_current_state \in States
    BY <1>1 DEF HSMInv, InitialInv
<1>3. superstate[m_current_state] \in Places
    <2>1. IsHierarchy(superstate, Superstates)
        BY CurrentHierarchy DEF HSMInv
    <2>. QED BY <1>2, <2>1, ChainOfState
<1>4. Superstates' = Superstates
    BY <1>1, SuperstatesStay
<1>5. TypeOK'
    BY <1>1, <1>3 DEF HSMInv, TypeOK, Places
<1>6. CurrentInv'
    BY <1>1, <1>2, <1>4 DEF HSMInv, CurrentInv
<1>. QED BY <1>1, <1>5, <1>6 DEF HSMInv, DispatchInv, SourceInv, CallsInv, InitialInv

LEMMA PlanStep ==
    ASSUME HSMInv, PlanTransition PROVE HSMInv'
<1>1. /\ pc = "transition" /\ pc' = "call"
      /\ calls' = Transition(m_current_state, source_state, target_state)
      /\ m_union' \in {m_union, source_state, top}
      /\ UNCHANGED <<superstate, m_current_state, state, source_state, target_state, entered>>
    BY DEF PlanTransition
<1>2. m_current_state # null /\ entered = Reverse(Superstates[m_current_state])
    BY <1>1 DEF HSMInv, CurrentInv
<1>3. m_current_state \in Places
    BY <1>2, CurrentPlace
<1>4. target_state \in States
    BY <1>1 DEF HSMInv, SourceInv
<1>5. PICK k \in 0..Len(Superstates[m_current_state]) : source_state = Above(Superstates, m_current_state, k)
    BY <1>1 DEF HSMInv, SourceInv
<1>6. IsHierarchy(superstate, Superstates)
    BY CurrentHierarchy DEF HSMInv
<1>7. calls' = TransitionOf(Superstates, m_current_state, source_state, target_state)
    <2>1. /\ Path(m_current_state, source_state) = PathOf(Superstates, m_current_state, source_state)
          /\ Path(source_state, target_state) = PathOf(Superstates, source_state, target_state)
          /\ Path(target_state, source_state) = PathOf(Superstates, target_state, source_state)
        BY DEF Path, PathOf, IsSubstate, Under
    <2>. QED BY <1>1, <2>1 DEF Transition, TransitionOf, Between, Complete, IsSubstate, Under
<1>8. PICK m, n : /\ Leads(Superstates, source_state, target_state, m_current_state, m, n)
                  /\ TransitionOf(Superstates, m_current_state, source_state, target_state)
                        = Plan(Superstates, m_current_state, m, target_state, n)
    BY <1>3, <1>4, <1>5, <1>6, TransitionIsPlan
<1>9. calls' \in Seq(Calls)
    BY <1>3, <1>4, <1>6, <1>7, <1>8, PlanSizes
<1>10. Superstates' = Superstates
    BY <1>1, SuperstatesStay
<1>11. TypeOK'
    BY <1>1, <1>9 DEF HSMInv, TypeOK, Calls
<1>12. CallsInv'
    BY <1>1, <1>2, <1>3, <1>4, <1>7, <1>8, <1>10 DEF CallsInv
<1>13. CurrentInv'
    BY <1>1, <1>2 DEF CurrentInv
<1>. QED BY <1>1, <1>11, <1>12, <1>13 DEF HSMInv, DispatchInv, SourceInv, InitialInv

LEMMA CallStep ==
    ASSUME HSMInv, CallHandler PROVE HSMInv'
<1> DEFINE call == Head(calls)[1]
           s == Head(calls)[2]
           others == RemoveFirst(entered, s)
<1>1. /\ pc = "call" /\ calls # <<>>
      /\ entered' = IF call = "exit" THEN others ELSE Append(others, s)
      /\ m_union' \in {m_union, superstate[s]}
      /\ calls' = Tail(calls)
      /\ UNCHANGED <<superstate, m_current_state, pc, state, source_state, target_state>>
    BY DEF CallHandler
<1> HIDE DEF call, s, others
<1>2. PICK x, m, n :
        /\ x \in Places
        /\ target_state \in States
        /\ entered = Reverse(Superstates[x])
        /\ calls = Plan(Superstates, x, m, target_state, n)
        /\ Leads(Superstates, source_state, target_state, x, m, n)
    BY <1>1 DEF HSMInv, CallsInv
<1>3. IsHierarchy(superstate, Superstates)
    BY CurrentHierarchy DEF HSMInv
<1>4. m \in Nat /\ n \in Nat /\ Len(calls) = m + n /\ calls \in Seq(Calls)
    BY <1>2, <1>3, PlanSizes
<1>5. /\ s \in States
      /\ \E y \in Places : \E i, j :
            /\ entered' = Reverse(Superstates[y])
            /\ calls' = Plan(Superstates, y, i, target_state, j)
            /\ Leads(Superstates, source_state, target_state, y, i, j)
    <2>1. CASE m # 0
        <3>1. /\ x \in States /\ Head(calls) = <<"exit", x>>
              /\ Tail(calls) = Plan(Superstates, superstate[x], m - 1, target_state, n)
              /\ Leads(Superstates, source_state, target_state, superstate[x], m - 1, n)
            <4>1. FirstExits(superstate, Superstates, source_state, target_state, x, m, n)
                BY <1>2, <1>3, <2>1, PlanExit
            <4>. QED BY <1>2, <4>1 DEF FirstExits
        <3>2. call = "exit" /\ s = x
            BY <3>1 DEF call, s
        <3>3. superstate[x] \in Places
            BY <1>3, <3>1, ChainOfState
        <3>4. RemoveFirst(Reverse(Superstates[x]), x) = Reverse(Superstates[superstate[x]])
            BY <1>3, <3>1, EnterState
        <3>5. entered' = Reverse(Superstates[superstate[x]])
            BY <1>1, <1>2, <3>2, <3>4 DEF others
        <3>. QED BY <1>1, <3>1, <3>2, <3>3, <3>5
    <2>2. CASE m = 0
        <3>1. n # 0
            <4>1. SUFFICES ASSUME n = 0 PROVE FALSE
                OBVIOUS
            <4>2. Len(calls) = 0
                BY <1>4, <2>2, <4>1
            <4>. QED BY <1>1, <1>4, <4>2
        <3>2. PICK t \in States :
                /\ superstate[t] = x /\ Head(calls) = <<"enter", t>>
                /\ Tail(calls) = Plan(Superstates, t, 0, target_state, n - 1)
                /\ Leads(Superstates, source_state, target_state, t, 0, n - 1)
            <4>1. FirstEnters(superstate, Superstates, source_state, target_state, x, n)
                BY <1>2, <1>3, <2>2, <3>1, PlanEnter
            <4>. QED BY <1>2, <2>2, <4>1 DEF FirstEnters
        <3>3. call = "enter" /\ s = t
            BY <3>2 DEF call, s
        <3>4. /\ Reverse(Superstates[t]) = Append(Reverse(Superstates[superstate[t]]), t)
              /\ RemoveFirst(Reverse(Superstates[superstate[t]]), t) = Reverse(Superstates[superstate[t]])
            BY <1>3, EnterState
        <3>5. entered' = Reverse(Superstates[t])
            BY <1>1, <1>2, <3>2, <3>3, <3>4 DEF others
        <3>6. t \in Places
            BY DEF Places
        <3>. QED BY <1>1, <3>2, <3>3, <3>5, <3>6
    <2>. QED BY <2>1, <2>2
<1>6. superstate[s] \in Places
    BY <1>3, <1>5, ChainOfState
<1>7. calls' \in Seq(Calls)
    BY <1>1, <1>4
<1>8. entered' \in Seq(States)
    <2>1. PICK y \in Places : entered' = Reverse(Superstates[y])
        BY <1>5
    <2>2. Superstates[y] \in Seq(States)
        BY <1>3, AboveStart
    <2>. QED BY <2>1, <2>2, ReverseOfChain
<1>9. TypeOK'
    BY <1>1, <1>6, <1>7, <1>8 DEF HSMInv, TypeOK, Calls, Places
<1>10. Superstates' = Superstates
    BY <1>1, SuperstatesStay
<1>11. CallsInv'
    BY <1>1, <1>2, <1>5, <1>10 DEF CallsInv
<1>12. CurrentInv'
    BY <1>1 DEF HSMInv, CurrentInv
<1>. QED BY <1>1, <1>9, <1>11, <1>12 DEF HSMInv, DispatchInv, SourceInv, InitialInv

LEMMA ReachStep ==
    ASSUME HSMInv, ReachTarget PROVE HSMInv'
<1>1. /\ pc = "call" /\ calls = <<>> /\ m_current_state' = target_state /\ pc' = "initial"
      /\ UNCHANGED <<superstate, m_union, state, source_state, target_state, calls, entered>>
    BY DEF ReachTarget
<1>2. PICK x, m, n :
        /\ x \in Places
        /\ target_state \in States
        /\ entered = Reverse(Superstates[x])
        /\ calls = Plan(Superstates, x, m, target_state, n)
        /\ Leads(Superstates, source_state, target_state, x, m, n)
    BY <1>1 DEF HSMInv, CallsInv
<1>3. IsHierarchy(superstate, Superstates)
    BY CurrentHierarchy DEF HSMInv
<1>4. x = target_state
    BY <1>1, <1>2, <1>3, PlanDone
<1>5. Superstates' = Superstates
    BY <1>1, SuperstatesStay
<1>6. TypeOK'
    BY <1>1, <1>2 DEF HSMInv, TypeOK
<1>7. CurrentInv'
    <2>1. target_state # null
        BY <1>2, StatesAssumption
    <2>. QED BY <1>1, <1>2, <1>4, <1>5, <2>1 DEF CurrentInv
<1>8. InitialInv'
    BY <1>1, <1>2 DEF InitialInv
<1>. QED BY <1>1, <1>6, <1>7, <1>8 DEF HSMInv, DispatchInv, SourceInv, CallsInv

LEMMA InvStep == HSMInv /\ [Next]_vars => HSMInv'
<1> SUFFICES ASSUME HSMInv, [Next]_vars PROVE HSMInv'
    OBVIOUS
<1>1. CASE \E target \in States : execute_topmost_initial_transition(target)
    BY <1>1, TopmostInitialTransition
<1>2. CASE dispatch
    BY <1>2, DispatchStep
<1>3. CASE HandlerStep
    <2>1. CASE EventHandled
        BY <2>1, HandledStep
    <2>2. CASE EventDeferred
        BY <2>2, DeferredStep
    <2>3. CASE \E target \in States : EventTriggersTransition(target)
        BY <2>3, TriggersStep
    <2>4. CASE PlanTransition
        BY <2>4, PlanStep
    <2>5. CASE CallHandler
        BY <2>5, CallStep
    <2>6. CASE ReachTarget
        BY <2>6, ReachStep
    <2>7. CASE \E target \in States : NestedInitialTransition(target)
        BY <2>7, NestedInitialStep
    <2>8. CASE NoNestedInitialTransition
        BY <2>8, NoNestedInitialStep
    <2>. QED BY <1>3, <2>1, <2>2, <2>3, <2>4, <2>5, <2>6, <2>7, <2>8 DEF HandlerStep
<1>4. CASE UNCHANGED vars
    <2>1. Superstates' = Superstates
        BY <1>4, SuperstatesStay DEF vars
    <2>. QED BY <1>4, <2>1 DEF vars, HSMInv, TypeOK, CurrentInv, DispatchInv, SourceInv, CallsInv, InitialInv
<1>. QED BY <1>1, <1>2, <1>3, <1>4 DEF Next

\* The invariant, in every run.
THEOREM TransitionsLeadToTheirTargets == Spec => []HSMInv
<1>1. Init => HSMInv
    BY InvInitially
<1>2. HSMInv /\ [Next]_vars => HSMInv'
    BY InvStep
<1>. QED BY <1>1, <1>2, PTL DEF Spec

-----------------------------------------------------------------------------
(* What the runs check of it.                                              *)

LEMMA ImpliesCallsNest == HSMInv => CallsNest
<1> SUFFICES ASSUME HSMInv, pc = "call", calls # <<>>
             PROVE  IF Head(calls)[1] = "exit" THEN Head(calls)[2] = Innermost
                    ELSE superstate[Head(calls)[2]] = Innermost
    BY DEF CallsNest
<1>1. PICK x, m, n :
        /\ x \in Places
        /\ target_state \in States
        /\ entered = Reverse(Superstates[x])
        /\ calls = Plan(Superstates, x, m, target_state, n)
        /\ Leads(Superstates, source_state, target_state, x, m, n)
    BY DEF HSMInv, CallsInv
<1>2. IsHierarchy(superstate, Superstates)
    BY CurrentHierarchy DEF HSMInv
<1>3. Innermost = x
    <2>1. CASE x = top
        <3>1. Superstates[x] = <<>>
            BY <1>2, <2>1 DEF IsHierarchy
        <3>2. entered = <<>>
            BY <1>1, <3>1 DEF Reverse
        <3>. QED BY <2>1, <3>2 DEF Innermost
    <2>2. CASE x # top
        <3>1. x \in States
            BY <1>1, <2>2 DEF Places
        <3>2. entered = Append(Reverse(Superstates[superstate[x]]), x)
            BY <1>1, <1>2, <3>1, EnterState
        <3>3. Reverse(Superstates[superstate[x]]) \in Seq(States)
            <4>1. Superstates[superstate[x]] \in Seq(States)
                BY <1>2, <3>1, ChainOfState
            <4>. QED BY <4>1, ReverseOfChain
        <3>4. entered # <<>> /\ entered[Len(entered)] = x
            BY <3>1, <3>2, <3>3
        <3>. QED BY <3>4 DEF Innermost, Last
    <2>. QED BY <2>1, <2>2
<1>4. CASE m # 0
    <2>1. Head(calls) = <<"exit", x>>
        <3>1. FirstExits(superstate, Superstates, source_state, target_state, x, m, n)
            BY <1>1, <1>2, <1>4, PlanExit
        <3>. QED BY <1>1, <3>1 DEF FirstExits
    <2>. QED BY <1>3, <2>1
<1>5. CASE m = 0
    <2>1. n # 0
        <3>1. SUFFICES ASSUME n = 0 PROVE FALSE
            OBVIOUS
        <3>2. Len(calls) = 0 /\ calls \in Seq(Calls)
            BY <1>1, <1>2, <1>5, <3>1, PlanSizes
        <3>. QED BY <3>2
    <2>2. PICK t \in States : superstate[t] = x /\ Head(calls) = <<"enter", t>>
        <3>1. FirstEnters(superstate, Superstates, source_state, target_state, x, n)
            BY <1>1, <1>2, <1>5, <2>1, PlanEnter
        <3>. QED BY <1>1, <1>5, <3>1 DEF FirstEnters
    <2>. QED BY <1>3, <2>2
<1>. QED BY <1>4, <1>5

LEMMA ImpliesActiveStatesAreEntered == HSMInv => ActiveStatesAreEntered
<1> SUFFICES ASSUME HSMInv, pc = "idle", m_current_state # null
             PROVE  /\ entered = Reverse(Superstates[m_current_state])
                    /\ \A s \in States \ {m_current_state} : is_in(s) <=> s \in Range(entered)
    BY DEF ActiveStatesAreEntered
<1>1. entered = Reverse(Superstates[m_current_state])
    BY DEF HSMInv, CurrentInv
<1>2. Superstates[m_current_state] \in Seq(States)
    BY CurrentPlace
<1>3. Range(entered) = Range(Superstates[m_current_state])
    BY <1>1, <1>2, ReverseOfChain
<1>4. \A s \in States : s # top
    BY StatesAssumption
<1>. QED BY <1>1, <1>3, <1>4 DEF is_in, Complete, IsSubstate

LEMMA ImpliesCommonSuperstatesStay == HSMInv => CommonSuperstatesStay
<1> SUFFICES ASSUME HSMInv, pc = "call", source_state # top, NEW s \in States,
                    IsSubstate(source_state, s) \/ source_state = s,
                    IsSubstate(target_state, s) \/ target_state = s,
                    source_state # target_state \/ s # source_state
             PROVE  s \in Range(entered)
    BY DEF CommonSuperstatesStay
<1>1. PICK x, m, n :
        /\ x \in Places
        /\ target_state \in States
        /\ entered = Reverse(Superstates[x])
        /\ calls = Plan(Superstates, x, m, target_state, n)
        /\ Leads(Superstates, source_state, target_state, x, m, n)
    BY DEF HSMInv, CallsInv
<1>2. IsHierarchy(superstate, Superstates)
    BY CurrentHierarchy DEF HSMInv
<1>3. source_state \in States /\ s # top
    BY StatesAssumption DEF HSMInv, TypeOK
<1>4. ASSUME NEW t \in States, IsSubstate(t, s) \/ t = s PROVE s \in Range(Superstates[t])
    <2>1. Superstates[t] \in Seq(States) /\ Superstates[t][1] = t /\ 1 \in DOMAIN Superstates[t]
        BY <1>2, ChainOfState
    <2>2. CASE t = s
        BY <2>1, <2>2 DEF Range
    <2>. QED BY <1>3, <1>4, <2>2 DEF IsSubstate
<1>5. Stays(Superstates, source_state, target_state, s)
    BY <1>1, <1>3, <1>4 DEF Stays
<1> DEFINE p == Above(Superstates, x, m)
<1>6. s \in Range(Superstates[p])
    BY <1>1, <1>5 DEF Leads
<1>7. EndsWith(Superstates, x, m, p)
    BY <1>1, <1>2, ChainAbove DEF Leads
<1>8. Superstates[x] \in Seq(States) /\ Len(Superstates[x]) \in Nat /\ m \in 0..Len(Superstates[x])
    BY <1>1, <1>2, AboveStart DEF Leads
<1> HIDE DEF p
<1>9. PICK k \in 1..Len(Superstates[p]) : Superstates[p][k] = s
    BY <1>6, <1>7 DEF EndsWith, Range
<1>10. m + k \in DOMAIN Superstates[x] /\ Superstates[x][m + k] = s
    BY <1>7, <1>8, <1>9 DEF EndsWith
<1>11. s \in Range(Superstates[x])
    BY <1>10 DEF Range
<1>. QED BY <1>1, <1>8, <1>11, ReverseOfChain

\* The state of HSM is of its type.
THEOREM TypeCorrect == Spec => []TypeOK
<1>1. HSMInv => TypeOK
    BY DEF HSMInv
<1>. QED BY <1>1, TransitionsLeadToTheirTargets, PTL

\* A state is exited only while it is the innermost one that is entered, and
\* entered only from inside its superstate, for any hierarchy.
THEOREM CallsNestAlways == Spec => []CallsNest
BY TransitionsLeadToTheirTargets, ImpliesCallsNest, PTL

\* Between events, the states that are entered are the current state and its
\* superstates, and is_in() recognises the superstates.
THEOREM ActiveStatesAreEnteredAlways == Spec => []ActiveStatesAreEntered
BY TransitionsLeadToTheirTargets, ImpliesActiveStatesAreEntered, PTL

\* A transition does not exit a state that contains both its ends.
THEOREM CommonSuperstatesStayAlways == Spec => []CommonSuperstatesStay
BY TransitionsLeadToTheirTargets, ImpliesCommonSuperstatesStay, PTL

=============================================================================
