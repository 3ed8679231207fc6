--------------------------- MODULE CircularBuffer ---------------------------
(***************************************************************************)
(* Circular_Buffer, in its four use cases: the values are read by the main *)
(* program or by an interrupt handler, and written by the main program or  *)
(* by interrupt handlers.                                                  *)
(*                                                                         *)
(* An interrupt handler runs to completion between two steps of the main   *)
(* program, whenever interrupts are enabled; a step of the main program is *)
(* one access to the shared state.  ++m_size and --m_size are a load and a *)
(* store, which the use cases that need it put in a critical section       *)
(* (Interrupt::Critical_Section_Guard).  size() is one guarded read.       *)
(*                                                                         *)
(* push(), emplace() and pop() of the main program bypass the expectation  *)
(* checks here: the program asks size() once and then makes as many calls  *)
(* as the answer allows ("credit").  A call with its own check is the same *)
(* with a fresh answer every time.                                         *)
(***************************************************************************)
EXTENDS Integers, Sequences

CONSTANTS
    N,          \* capacity
    SIZES,      \* 2 ^ the width of Size
    Values,
    NoValue     \* what a destroyed element leaves in its cell

ASSUME CapacityAssumption == N \in Nat \ {0}
ASSUME SizesAssumption == SIZES \in Nat /\ N < SIZES
ASSUME NoValueAssumption == NoValue \notin Values

Use_Cases == {"MAIN_READS_MAIN_WRITES", "MAIN_READS_INTERRUPTS_WRITE",
              "INTERRUPT_READS_MAIN_WRITES", "INTERRUPT_READS_INTERRUPTS_WRITE"}

VARIABLES
    use_case,                         \* the template argument
    m_read, m_write, m_size, m_storage,
    enabled,                          \* the interrupt enable state
    saved,                            \* m_interrupt_enable_state of the guard
    outer,                            \* the enable state outside the guards
    pc, op, value,                    \* the call the main program is in
    loaded,                           \* m_size as loaded by ++ or --
    credit,                           \* calls the last answer still allows
    out                               \* the value taken by the last pop

shared == <<m_read, m_write, m_size, m_storage>>
main == <<pc, op, value, loaded, credit>>
vars == <<use_case, shared, enabled, saved, outer, main, out>>

MainReads == use_case \in {"MAIN_READS_MAIN_WRITES", "MAIN_READS_INTERRUPTS_WRITE"}
MainWrites == use_case \in {"MAIN_READS_MAIN_WRITES", "INTERRUPT_READS_MAIN_WRITES"}
Guarded == use_case \in {"MAIN_READS_INTERRUPTS_WRITE", "INTERRUPT_READS_MAIN_WRITES"}

\* ( index + 1 ) & index_wrap_around_mask(), for an N that is a power of two
After(index) == IF index = N - 1 THEN 0 ELSE index + 1

\* how many cells lie from one index up to another
Distance(from, to) == IF from =< to THEN to - from ELSE to - from + N

\* ++ and -- of an unsigned Size
Increment(n) == IF n = SIZES - 1 THEN 0 ELSE n + 1
Decrement(n) == IF n = 0 THEN SIZES - 1 ELSE n - 1

Init ==
    /\ use_case \in Use_Cases
    /\ m_read = 0
    /\ m_write = 0
    /\ m_size = 0
    /\ m_storage = [i \in 0..(N - 1) |-> NoValue]
    /\ enabled = TRUE
    /\ saved = TRUE
    /\ outer = TRUE
    /\ pc = "idle"
    /\ op = "pop"
    /\ value = NoValue
    /\ loaded = 0
    /\ credit = 0
    /\ out = NoValue

-----------------------------------------------------------------------------
(* The main program outside the calls.                                     *)

\* The program opens or leaves a critical section of its own.
ToggleInterrupts ==
    /\ pc = "idle"
    /\ enabled' = ~enabled
    /\ outer' = ~enabled
    /\ UNCHANGED <<use_case, shared, saved, main, out>>

\* A mutant: the buffer seems to have one cell more than it has.
AskSize_OneTooMany(what) ==
    /\ pc = "idle"
    /\ IF what = "pop" THEN MainReads ELSE MainWrites
    /\ op' = what
    /\ credit' = IF what = "pop" THEN m_size ELSE N + 1 - m_size
    /\ UNCHANGED <<use_case, shared, enabled, saved, outer, pc, value, loaded, out>>

\* size(), asked by the program that is about to pop or to push.
AskSize(what) ==
    /\ pc = "idle"
    /\ IF what = "pop" THEN MainReads ELSE MainWrites
    /\ op' = what
    /\ credit' = IF what = "pop" THEN m_size ELSE N - m_size
    /\ UNCHANGED <<use_case, shared, enabled, saved, outer, pc, value, loaded, out>>

-----------------------------------------------------------------------------
(* push() and emplace() of the main program.                               *)

CallPush(v) ==
    /\ pc = "idle"
    /\ op = "push"
    /\ credit > 0
    /\ value' = v
    /\ credit' = credit - 1
    /\ pc' = "store"
    /\ UNCHANGED <<use_case, shared, enabled, saved, outer, op, loaded, out>>

Store ==
    /\ pc = "store"
    /\ m_storage' = [m_storage EXCEPT ![m_write] = value]
    /\ pc' = "advance"
    /\ UNCHANGED <<use_case, m_read, m_write, m_size, enabled, saved, outer, op, value,
                   loaded, credit, out>>

-----------------------------------------------------------------------------
(* front() followed by pop() in the main program.                          *)

CallPop ==
    /\ pc = "idle"
    /\ op = "pop"
    /\ credit > 0
    /\ value' = m_storage[m_read]
    /\ credit' = credit - 1
    /\ pc' = "destroy"
    /\ UNCHANGED <<use_case, shared, enabled, saved, outer, op, loaded, out>>

Destroy ==
    /\ pc = "destroy"
    /\ m_storage' = [m_storage EXCEPT ![m_read] = NoValue]
    /\ out' = value
    /\ pc' = "advance"
    /\ UNCHANGED <<use_case, m_read, m_write, m_size, enabled, saved, outer, op, value,
                   loaded, credit>>

-----------------------------------------------------------------------------
(* The rest of both calls: the index, then the size.                       *)

Advance ==
    /\ pc = "advance"
    /\ IF op = "push" THEN m_write' = After(m_write) /\ UNCHANGED m_read
                      ELSE m_read' = After(m_read) /\ UNCHANGED m_write
    /\ pc' = IF Guarded THEN "guard" ELSE "load"
    /\ UNCHANGED <<use_case, m_size, m_storage, enabled, saved, outer, op, value, loaded,
                   credit, out>>

\* A mutant: the guard does not disable interrupts.
EnterGuard_LeavesEnabled ==
    /\ pc = "guard"
    /\ saved' = enabled
    /\ pc' = "load"
    /\ UNCHANGED <<use_case, shared, enabled, outer, op, value, loaded, credit, out>>

EnterGuard ==
    /\ pc = "guard"
    /\ saved' = enabled
    /\ enabled' = FALSE
    /\ pc' = "load"
    /\ UNCHANGED <<use_case, shared, outer, op, value, loaded, credit, out>>

LoadSize ==
    /\ pc = "load"
    /\ loaded' = m_size
    /\ pc' = "size"
    /\ UNCHANGED <<use_case, shared, enabled, saved, outer, op, value, credit, out>>

StoreSize ==
    /\ pc = "size"
    /\ m_size' = IF op = "push" THEN Increment(loaded) ELSE Decrement(loaded)
    /\ pc' = IF Guarded THEN "unguard" ELSE "idle"
    /\ UNCHANGED <<use_case, m_read, m_write, m_storage, enabled, saved, outer, op, value,
                   loaded, credit, out>>

LeaveGuard ==
    /\ pc = "unguard"
    /\ enabled' = saved
    /\ pc' = "idle"
    /\ UNCHANGED <<use_case, shared, saved, outer, op, value, loaded, credit, out>>

-----------------------------------------------------------------------------
(* Interrupt handlers.  Their calls check full_from_interrupt() and        *)
(* empty_from_interrupt() and are atomic for the main program.             *)

PushFromInterrupt(v) ==
    /\ enabled
    /\ ~MainWrites
    /\ m_size # N
    /\ m_storage' = [m_storage EXCEPT ![m_write] = v]
    /\ m_write' = After(m_write)
    /\ m_size' = Increment(m_size)
    /\ UNCHANGED <<use_case, m_read, enabled, saved, outer, main, out>>

PopFromInterrupt ==
    /\ enabled
    /\ ~MainReads
    /\ m_size # 0
    /\ out' = m_storage[m_read]
    /\ m_storage' = [m_storage EXCEPT ![m_read] = NoValue]
    /\ m_read' = After(m_read)
    /\ m_size' = Decrement(m_size)
    /\ UNCHANGED <<use_case, m_write, enabled, saved, outer, main>>

\* A mutant: clear_from_interrupt() leaves the read index behind.
ClearFromInterrupt_KeepsIndex ==
    /\ enabled
    /\ ~MainReads
    /\ m_storage' = [i \in 0..(N - 1) |-> IF Distance(m_read, i) < m_size THEN NoValue
                                         ELSE m_storage[i]]
    /\ m_size' = 0
    /\ UNCHANGED <<use_case, m_read, m_write, enabled, saved, outer, main, out>>

\* clear_from_interrupt(): pops until the buffer is empty.
ClearFromInterrupt ==
    /\ enabled
    /\ ~MainReads
    /\ m_storage' = [i \in 0..(N - 1) |-> IF Distance(m_read, i) < m_size THEN NoValue
                                         ELSE m_storage[i]]
    /\ m_read' = IF m_read + m_size < N THEN m_read + m_size ELSE m_read + m_size - N
    /\ m_size' = 0
    /\ UNCHANGED <<use_case, m_write, enabled, saved, outer, main, out>>

MainStep ==
    \/ ToggleInterrupts
    \/ AskSize("push") \/ AskSize("pop")
    \/ \E v \in Values : CallPush(v)
    \/ Store
    \/ CallPop \/ Destroy
    \/ Advance \/ EnterGuard \/ LoadSize \/ StoreSize \/ LeaveGuard

Next ==
    \/ MainStep
    \/ \E v \in Values : PushFromInterrupt(v)
    \/ PopFromInterrupt
    \/ ClearFromInterrupt

Spec == Init /\ [][Next]_vars

-----------------------------------------------------------------------------
Pcs == {"idle", "store", "destroy", "advance", "guard", "load", "size", "unguard"}

TypeOK ==
    /\ use_case \in Use_Cases
    /\ m_read \in 0..(N - 1)
    /\ m_write \in 0..(N - 1)
    /\ m_size \in 0..N
    /\ m_storage \in [0..(N - 1) -> Values \cup {NoValue}]
    /\ enabled \in BOOLEAN
    /\ saved \in BOOLEAN
    /\ outer \in BOOLEAN
    /\ pc \in Pcs
    /\ op \in {"push", "pop"}
    /\ value \in Values \cup {NoValue}
    /\ loaded \in 0..N
    /\ credit \in 0..N
    /\ out \in Values \cup {NoValue}

(* A pop has destroyed its element and m_size still counts it; a push has  *)
(* stored its element and m_size does not count it yet.                    *)
Popping == op = "pop" /\ pc \in {"advance", "guard", "load", "size"}
Pushing == op = "push" /\ pc \in {"advance", "guard", "load", "size"}

\* The first cell in use, and how many cells are in use from there on.
First == IF Popping /\ pc = "advance" THEN After(m_read) ELSE m_read
Used == IF Popping THEN m_size - 1 ELSE IF Pushing THEN m_size + 1 ELSE m_size

InUse(i) == Distance(First, i) < Used

(* The cells that hold a value are exactly the cells between the two       *)
(* indices that m_size accounts for: no push, by the main program or by an *)
(* interrupt handler, overwrites a value that was not read, and no pop     *)
(* reads a cell that holds none, at whatever step the interrupt occurs.    *)
CellsMatchSize ==
    /\ Used \in 0..N
    /\ \A i \in 0..(N - 1) : (m_storage[i] # NoValue) <=> InUse(i)

(* The answer of size() stays good enough while interrupts come: what the  *)
(* main program was told it could pop or push, it can, so that             *)
(* WOULD_OVERFLOW and WOULD_UNDERFLOW cannot happen to a program that      *)
(* checked.                                                                *)
AnswerStaysGood ==
    pc = "idle" => credit =< (IF op = "pop" THEN m_size ELSE N - m_size)

(* A critical section of the buffer leaves the interrupt enable state as   *)
(* it found it, so that it can be used inside a critical section of the    *)
(* program.                                                                *)
GuardRestores == pc \notin {"load", "size", "unguard"} => enabled = outer

(* The queue that the buffer stands for, oldest element first: an element  *)
(* joins it when m_size counts it and leaves it when it is destroyed.      *)
Counted == IF Popping THEN m_size - 1 ELSE m_size
contents == [k \in 1..Counted |->
               m_storage[IF First + k - 1 < N THEN First + k - 1 ELSE First + k - 1 - N]]

Queue == INSTANCE Fifo WITH queue <- contents

(* The buffer behaves like a first-in first-out queue of at most N values. *)
IsFifo == Queue!Spec

=============================================================================
