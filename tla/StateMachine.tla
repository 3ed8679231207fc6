--------------------------- MODULE StateMachine ---------------------------
(***************************************************************************)
(* state_machine.h: a state machine without a hierarchy.  A state is the   *)
(* function that handles its events; what it answers is up to the program, *)
(* and an answer that an entry, an exit or an initial transition must not  *)
(* give stops it.  One step is one call of a handler.                      *)
(*                                                                         *)
(* m_initial_pseudostate and m_target_state share one word (a union).      *)
(***************************************************************************)
EXTENDS FiniteSets

CONSTANTS
    States,
    initial_pseudostate,
    nullptr

ASSUME StateMachineAssumption ==
    nullptr \notin States /\ initial_pseudostate \notin States \cup {nullptr}

VARIABLES
    m_current_state,
    m_union,           \* m_initial_pseudostate, m_target_state
    machine_pc,                \* the call that is in progress
    entered,           \* history: states whose entry actions have run, and exit actions have not
    machine_stopped

machine == <<m_current_state, m_union, machine_pc, entered, machine_stopped>>

MachineInit ==
    /\ m_current_state = nullptr
    /\ m_union = initial_pseudostate
    /\ machine_pc = "returned"
    /\ entered = {}
    /\ machine_stopped = FALSE

Stops ==
    /\ machine_stopped' = TRUE
    /\ UNCHANGED <<m_current_state, m_union, machine_pc, entered>>

\* transition_to(), in a handler
transition_to(target, next) ==
    /\ m_union' = target
    /\ machine_pc' = next
    /\ UNCHANGED <<m_current_state, entered, machine_stopped>>

execute_initial_transition ==
    /\ machine_pc = "returned"
    /\ IF m_current_state = nullptr
       THEN \/ \E target \in States : transition_to(target, "enter")
            \/ Stops
       ELSE Stops

\* A mutant: the source of the transition is not exited.
dispatch_EntersOnly ==
    /\ machine_pc = "returned"
    /\ IF m_current_state # nullptr
       THEN \/ UNCHANGED machine
            \/ \E target \in States : transition_to(target, "enter")
       ELSE Stops

dispatch ==
    /\ machine_pc = "returned"
    /\ IF m_current_state # nullptr
       THEN \/ UNCHANGED machine
            \/ \E target \in States : transition_to(target, "exit")
       ELSE Stops

exit ==
    /\ machine_pc = "exit"
    /\ \/ /\ entered' = entered \ {m_current_state}
          /\ machine_pc' = "enter"
          /\ UNCHANGED <<m_current_state, m_union, machine_stopped>>
       \/ Stops

enter ==
    /\ machine_pc = "enter"
    /\ \/ /\ entered' = entered \cup {m_union}
          /\ m_current_state' = m_union
          /\ machine_pc' = "returned"
          /\ UNCHANGED <<m_union, machine_stopped>>
       \/ Stops

is_in(state) == m_current_state = state

MachineNext == ~machine_stopped /\ (execute_initial_transition \/ dispatch \/ exit \/ enter)

MachineSpec == MachineInit /\ [][MachineNext]_machine

-----------------------------------------------------------------------------

\* The entry actions of one state at a time have run: that of the state which
\* is_in() names between two events, and none when the next is entered.  This
\* holds of a machine that has stopped, too.
OneStateIsEntered ==
    /\ machine_pc \in {"returned", "exit"} => \A s \in States : s \in entered <=> is_in(s)
    /\ machine_pc = "enter" => entered = {}

=============================================================================
