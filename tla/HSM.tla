-------------------------------- MODULE HSM --------------------------------
(***************************************************************************)
(* The hierarchical state machine HSM: dispatch() of an event to the       *)
(* active state and its superstates, and the state transitions that the    *)
(* state event handlers trigger, with their exit, entry and nested initial *)
(* transition pseudo-events.                                               *)
(*                                                                         *)
(* A state is a function, and only its answers tell what its superstate    *)
(* is; the hierarchy is any tree of States under the implicit state "top". *)
(* What the handlers answer to an event is up to the program: they are     *)
(* well behaved, and a nested initial transition leads to a substate.  One *)
(* step is one call of a handler, or one decision of HSM between calls.    *)
(*                                                                         *)
(* m_target_state, m_superstate and m_initial_pseudostate share one word   *)
(* (a union), which every handler that defers an event overwrites.         *)
(***************************************************************************)
EXTENDS Integers, SequencesExt

CONSTANTS
    States,
    top,               \* the implicit superstate of all states
    null,
    MAX_STATE_DEPTH

ASSUME StatesAssumption == top \notin States /\ null \notin States \cup {top}
ASSUME DepthAssumption == MAX_STATE_DEPTH \in Nat \ {0}

VARIABLES
    superstate,        \* the hierarchy, as the handlers answer
    m_current_state,
    m_union,           \* m_target_state, m_superstate
    pc,                \* what is to happen next
    state,             \* the handler that dispatch() asks
    source_state, target_state,
    calls,             \* the exit and entry calls left in a transition
    entered            \* history: states entered and not exited, in order

vars == <<superstate, m_current_state, m_union, pc, state, source_state, target_state,
          calls, entered>>

\* The hierarchies in which no state is deeper than MAX_STATE_DEPTH.
Hierarchies ==
    {parent \in [States -> States \cup {top}] :
        LET Within[depth \in 0..MAX_STATE_DEPTH] ==
                IF depth = 0 THEN {top}
                ELSE {top} \cup {s \in States : parent[s] \in Within[depth - 1]}
        IN States \subseteq Within[MAX_STATE_DEPTH]}

\* A state and its superstates, innermost first.
Superstates ==
    LET From[s \in States \cup {top}] == IF s = top THEN <<>> ELSE <<s>> \o From[superstate[s]]
    IN From

IsSubstate(s, t) == s # t /\ (t = top \/ t \in Range(Superstates[s]))

-----------------------------------------------------------------------------
(* Path::discover( begin, end ) looks for end among the superstates of     *)
(* begin, not at begin itself; a path that does not find it runs to top.   *)

Complete(begin, end) == end = top \/ IsSubstate(begin, end)

Path(begin, end) ==
    LET chain == Superstates[begin] IN
    IF IsSubstate(begin, end) /\ end # top
    THEN SubSeq(chain, 1, (CHOOSE k \in DOMAIN chain : chain[k] = end) - 1)
    ELSE chain

\* A mutant: common superstates are not removed.
WithoutCommon_KeepsAll(first, second) == first

\* How many states at their ends two paths have in common.  Neither path is
\* used up when neither begins at a superstate of the other.
Common(first, second) ==
    LET Equal(n) ==
            n < Len(first) /\ n < Len(second) /\ first[Len(first) - n] = second[Len(second) - n]
    IN CHOOSE n \in 0..Len(first) : ~ Equal(n) /\ \A k \in 0..(n - 1) : Equal(k)

\* Path::remove_common_superstates( first, second ): what is left of first
WithoutCommon(first, second) == SubSeq(first, 1, Len(first) - Common(first, second))

\* exit( path ) and enter( path )
Exits(path) == [k \in DOMAIN path |-> <<"exit", path[k]>>]

\* A mutant: entry actions run innermost first.
Enters_InnermostFirst(path) == [k \in DOMAIN path |-> <<"enter", path[k]>>]

Enters(path) == [k \in DOMAIN path |-> <<"enter", Reverse(path)[k]>>]

\* A mutant: the states below the source are not exited.
Transition_ForgetsSubstates(current, source, target) ==
    LET source_path == Path(source, target)
        target_path == Path(target, source)
    IN IF target = source THEN <<<<"exit", source>>, <<"enter", target>>>>
       ELSE IF Complete(target, source) THEN Enters(target_path)
       ELSE IF Complete(source, target) THEN Exits(source_path)
       ELSE Exits(WithoutCommon(source_path, target_path))
               \o Enters(WithoutCommon(target_path, source_path))

\* The exit and entry calls of one round of transition_from().
Transition(current, source, target) ==
    LET to_source == IF current = source THEN <<>> ELSE Exits(Path(current, source))
        source_path == Path(source, target)
        target_path == Path(target, source)
    IN to_source \o
       (IF target = source THEN <<<<"exit", source>>, <<"enter", target>>>>
        ELSE IF Complete(target, source) THEN Enters(target_path)
        ELSE IF Complete(source, target) THEN Exits(source_path)
        ELSE Exits(WithoutCommon(source_path, target_path))
                \o Enters(WithoutCommon(target_path, source_path)))

is_in(s) == Complete(m_current_state, s)

-----------------------------------------------------------------------------
Init ==
    /\ superstate \in Hierarchies
    /\ m_current_state = null
    /\ m_union = top
    /\ pc = "idle"
    /\ state = top
    /\ source_state = top
    /\ target_state = top
    /\ calls = <<>>
    /\ entered = <<>>

\* transition_to( target ), answered by the handler of source
TransitionFrom(source, target) ==
    /\ m_union' = target
    /\ source_state' = source
    /\ target_state' = target
    /\ pc' = "transition"

execute_topmost_initial_transition(target) ==
    /\ pc = "idle"
    /\ m_current_state = null
    /\ m_current_state' = top
    /\ TransitionFrom(top, target)
    /\ UNCHANGED <<superstate, state, calls, entered>>

dispatch ==
    /\ pc = "idle"
    /\ m_current_state # null
    /\ state' = m_current_state
    /\ pc' = "dispatch"
    /\ UNCHANGED <<superstate, m_current_state, m_union, source_state, target_state, calls,
                   entered>>

\* The handler handles the event; top ignores it.
EventHandled ==
    /\ pc = "dispatch"
    /\ pc' = "idle"
    /\ UNCHANGED <<superstate, m_current_state, m_union, state, source_state, target_state,
                   calls, entered>>

EventDeferred ==
    /\ pc = "dispatch"
    /\ state # top
    /\ m_union' = superstate[state]
    /\ state' = superstate[state]
    /\ UNCHANGED <<superstate, m_current_state, pc, source_state, target_state, calls, entered>>

EventTriggersTransition(target) ==
    /\ pc = "dispatch"
    /\ state # top
    /\ TransitionFrom(state, target)
    /\ UNCHANGED <<superstate, m_current_state, state, calls, entered>>

\* The discovery calls, which leave some superstate in the union.
PlanTransition ==
    /\ pc = "transition"
    /\ calls' = Transition(m_current_state, source_state, target_state)
    /\ m_union' \in {m_union, source_state, top}
    /\ pc' = "call"
    /\ UNCHANGED <<superstate, m_current_state, state, source_state, target_state, entered>>

\* enter( state ) or exit( state ); a handler without such actions defers.
CallHandler ==
    /\ pc = "call"
    /\ calls # <<>>
    /\ LET call == Head(calls)[1]
           s == Head(calls)[2]
           others == RemoveFirst(entered, s)
       IN /\ entered' = IF call = "exit" THEN others ELSE Append(others, s)
          /\ m_union' \in {m_union, superstate[s]}
    /\ calls' = Tail(calls)
    /\ UNCHANGED <<superstate, m_current_state, pc, state, source_state, target_state>>

\* A mutant: a nested initial transition does not change the current state.
ReachTarget_OnlyTopmost ==
    /\ pc = "call"
    /\ calls = <<>>
    /\ m_current_state' = IF m_current_state = top THEN target_state ELSE m_current_state
    /\ pc' = "initial"
    /\ UNCHANGED <<superstate, m_union, state, source_state, target_state, calls, entered>>

ReachTarget ==
    /\ pc = "call"
    /\ calls = <<>>
    /\ m_current_state' = target_state
    /\ pc' = "initial"
    /\ UNCHANGED <<superstate, m_union, state, source_state, target_state, calls, entered>>

NestedInitialTransition(target) ==
    /\ pc = "initial"
    /\ IsSubstate(target, m_current_state)
    /\ TransitionFrom(m_current_state, target)
    /\ UNCHANGED <<superstate, m_current_state, state, calls, entered>>

NoNestedInitialTransition ==
    /\ pc = "initial"
    /\ m_union' = superstate[m_current_state]
    /\ pc' = "idle"
    /\ UNCHANGED <<superstate, m_current_state, state, source_state, target_state, calls,
                   entered>>

HandlerStep ==
    \/ EventHandled
    \/ EventDeferred
    \/ \E target \in States : EventTriggersTransition(target)
    \/ PlanTransition
    \/ CallHandler
    \/ ReachTarget
    \/ \E target \in States : NestedInitialTransition(target)
    \/ NoNestedInitialTransition

Next ==
    \/ \E target \in States : execute_topmost_initial_transition(target)
    \/ dispatch
    \/ HandlerStep

Spec == Init /\ [][Next]_vars

\* The handlers return.
FairSpec == Spec /\ WF_vars(HandlerStep)

-----------------------------------------------------------------------------
TypeOK ==
    /\ superstate \in Hierarchies
    /\ m_current_state \in States \cup {top, null}
    /\ m_union \in States \cup {top}
    /\ pc \in {"idle", "dispatch", "transition", "call", "initial"}
    /\ state \in States \cup {top}
    /\ source_state \in States \cup {top}
    /\ target_state \in States \cup {top}
    /\ calls \in Seq({"exit", "enter"} \X States)
    /\ entered \in Seq(States)

Innermost == IF entered = <<>> THEN top ELSE Last(entered)

(* Exit and entry actions nest: a state is exited only while it is the     *)
(* innermost state that is entered, and entered only from inside its own   *)
(* superstate, whatever the states that a transition leads from and to.    *)
CallsNest ==
    (pc = "call" /\ calls # <<>>) =>
        LET s == Head(calls)[2] IN
        IF Head(calls)[1] = "exit" THEN s = Innermost ELSE superstate[s] = Innermost

(* Between events, the states whose entry actions have run and whose exit  *)
(* actions have not are exactly the current state and its superstates, and *)
(* is_in() recognises those superstates and no state that is not active.   *)
ActiveStatesAreEntered ==
    (pc = "idle" /\ m_current_state # null) =>
        /\ entered = Reverse(Superstates[m_current_state])
        /\ \A s \in States \ {m_current_state} : is_in(s) <=> s \in Range(entered)

(* A transition disturbs no more than it must: a state that contains both  *)
(* ends of it, one of the ends included (the transitions are local), stays *)
(* entered throughout; only a transition to itself leaves its source.      *)
CommonSuperstatesStay ==
    (pc = "call" /\ source_state # top) =>
        \A s \in States :
            (/\ IsSubstate(source_state, s) \/ source_state = s
             /\ IsSubstate(target_state, s) \/ target_state = s
             /\ source_state # target_state \/ s # source_state)
                => s \in Range(entered)

(* What the documentation of is_in() says: it is true of the current state *)
(* and of its superstates.                                                 *)
IsInKnowsActiveStates ==
    (pc = "idle" /\ m_current_state # null) =>
        \A s \in States : is_in(s) <=> s \in Range(entered)

(* dispatch() and execute_topmost_initial_transition() return: events are  *)
(* deferred upwards and nested initial transitions lead downwards.         *)
CallsReturn == pc # "idle" ~> pc = "idle"

=============================================================================
