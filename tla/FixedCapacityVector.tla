------------------------ MODULE FixedCapacityVector ------------------------
(***************************************************************************)
(* fixed_capacity_vector.h: elements constructed and destroyed one by one  *)
(* in raw storage.  The loops of a call run to their end in one step, each *)
(* construction and destruction of which is checked against the cell it    *)
(* meets.  insert(), emplace() and erase() of a range do not compile and   *)
(* are left out.                                                           *)
(***************************************************************************)
EXTENDS Integers, Sequences, SequencesExt

CONSTANTS
    Vectors, Elements,
    Default,           \* Value{}
    CAPACITY,
    NONE,
    RAW,               \* a cell with no element in it
    MOVED              \* an element that was moved from

ASSUME VectorAssumption ==
    CAPACITY \in Nat /\ RAW \notin Elements \cup {Default, MOVED}

VARIABLES
    vectors,           \* storage, size, and whether an element's lifetime was broken
    vector_call,       \* the last call and its answer
    fatal              \* an expectation did not hold: the program has stopped

vector == <<vectors, vector_call, fatal>>

Fresh == [m_storage |-> [k \in 0 .. CAPACITY - 1 |-> RAW], m_size |-> 0, broken |-> FALSE]

Living(v) == {k \in 0 .. CAPACITY - 1 : v.m_storage[k] # RAW}

ConstructAt(v, k, x) ==
    IF k \in 0 .. CAPACITY - 1 \ Living(v)
    THEN [v EXCEPT !.m_storage[k] = x]
    ELSE [v EXCEPT !.broken = TRUE]

DestroyAt(v, k) ==
    IF k \in Living(v)
    THEN [v EXCEPT !.m_storage[k] = RAW]
    ELSE [v EXCEPT !.broken = TRUE]

Range_(first, last) == [k \in 1 .. last - first |-> first + k - 1]

\* loops over [first, last)
DestroyEach(v, first, last) == FoldLeft(DestroyAt, v, Range_(first, last))

ConstructEach(v, first, last, x(_)) ==
    FoldLeft(LAMBDA u, k : ConstructAt(u, k, x(k)), v, Range_(first, last))

MovedFrom(v, first, last) ==
    [v EXCEPT !.m_storage = [k \in 0 .. CAPACITY - 1 |-> IF k \in first .. last - 1 THEN MOVED ELSE @[k]]]

-----------------------------------------------------------------------------

clear(v) == [DestroyEach(v, 0, v.m_size) EXCEPT !.m_size = 0]

\* the destructor, and the storage with it: an element left in it leaks
Destroyed(v) == [Fresh EXCEPT !.broken = v.broken \/ Living(clear(v)) # {}]

Filled(v, s) ==
    ConstructEach([v EXCEPT !.m_size = Len(s)], 0, Len(s), LAMBDA k : s[k + 1])

Sequences_ == UNION {[1 .. n -> Elements \cup {Default}] : n \in 0 .. CAPACITY + 1}

Calls(operation, name, argument, answer) ==
    vector_call' = [operation |-> operation, name |-> name, argument |-> argument, answer |-> answer]

Sets(name, v) == vectors' = [vectors EXCEPT ![name] = v] /\ UNCHANGED fatal

PICOLIBRARY_EXPECT(condition, Then) ==
    IF condition THEN Then ELSE fatal' = TRUE /\ UNCHANGED vectors

\* The lifetime of one vector ends and that of another, in the same place,
\* begins: n copies of a value, n default values, a range or a list.
Constructor(name, s) ==
    /\ Calls("constructor", name, s, NONE)
    /\ PICOLIBRARY_EXPECT(Len(s) <= CAPACITY, Sets(name, Filled(Destroyed(vectors[name]), s)))

assign(name, s) ==
    /\ Calls("assign", name, s, NONE)
    /\ PICOLIBRARY_EXPECT(Len(s) <= CAPACITY, Sets(name, Filled(clear(vectors[name]), s)))

Cells(v) == [k \in 1 .. v.m_size |-> v.m_storage[k - 1]]

CopyConstructor(name, original) ==
    /\ name # original
    /\ Calls("copy", name, original, NONE)
    /\ Sets(name, Filled(Destroyed(vectors[name]), Cells(vectors[original])))

Takes(name, v, source) ==
    /\ vectors' = [vectors EXCEPT ![name] = Filled(v, Cells(vectors[source])),
                                  ![source] = clear(MovedFrom(@, 0, @.m_size))]
    /\ UNCHANGED fatal

MoveConstructor(name, source) ==
    /\ name # source
    /\ Calls("move", name, source, NONE)
    /\ Takes(name, Destroyed(vectors[name]), source)

\* A mutant: an assignment to itself is not told apart.
CopyAssignment_ClearsItself(name, expression) ==
    LET cleared == [vectors EXCEPT ![name] = clear(@)]
    IN  /\ Calls("copy", name, expression, NONE)
        /\ Sets(name, Filled(cleared[name], Cells(cleared[expression])))

CopyAssignment(name, expression) ==
    /\ Calls("copy", name, expression, NONE)
    /\ IF expression # name
       THEN Sets(name, Filled(clear(vectors[name]), Cells(vectors[expression])))
       ELSE UNCHANGED <<vectors, fatal>>

MoveAssignment(name, expression) ==
    /\ Calls("move", name, expression, NONE)
    /\ IF expression # name
       THEN Takes(name, clear(vectors[name]), expression)
       ELSE UNCHANGED <<vectors, fatal>>

full(v) == v.m_size = CAPACITY

empty(v) == v.m_size = 0

\* and emplace_back()
push_back(name, x) ==
    LET v == vectors[name]
    IN  /\ Calls("push_back", name, x, NONE)
        /\ PICOLIBRARY_EXPECT(~full(v), Sets(name, [ConstructAt(v, v.m_size, x) EXCEPT !.m_size = @ + 1]))

pop_back(name) ==
    LET v == vectors[name]
    IN  /\ ~empty(v)
        /\ Calls("pop_back", name, NONE, NONE)
        /\ Sets(name, [DestroyAt(v, v.m_size - 1) EXCEPT !.m_size = @ - 1])

\* A mutant: the elements past the new size are not destroyed.
resize_KeepsLast(name, size, x) ==
    LET v == vectors[name]
        grown == IF size > v.m_size THEN ConstructEach(v, v.m_size, size, LAMBDA k : x) ELSE v
    IN  /\ Calls("resize", name, <<size, x>>, NONE)
        /\ PICOLIBRARY_EXPECT(size <= CAPACITY, Sets(name, [grown EXCEPT !.m_size = size]))

resize(name, size, x) ==
    LET v == vectors[name]
        shrunk == IF size < v.m_size THEN DestroyEach(v, size, v.m_size) ELSE v
        grown == IF size > v.m_size THEN ConstructEach(shrunk, v.m_size, size, LAMBDA k : x) ELSE shrunk
    IN  /\ Calls("resize", name, <<size, x>>, NONE)
        /\ PICOLIBRARY_EXPECT(size <= CAPACITY, Sets(name, [grown EXCEPT !.m_size = size]))

\* each element after the erased one is moved to the cell before it
erase(name, position) ==
    LET v == vectors[name]
        MoveDown(u, k) == DestroyAt(MovedFrom(ConstructAt(u, k - 1, u.m_storage[k]), k, k + 1), k)
        moved == FoldLeft(MoveDown, DestroyAt(v, position), Range_(position + 1, v.m_size))
    IN  /\ position < v.m_size
        /\ Calls("erase", name, position, position)
        /\ Sets(name, [moved EXCEPT !.m_size = @ - 1])

at(name, position) ==
    LET v == vectors[name]
        found == position < v.m_size
    IN  /\ Calls("at", name, position, IF found THEN v.m_storage[position] ELSE NONE)
        /\ PICOLIBRARY_EXPECT(found, UNCHANGED <<vectors, fatal>>)

\* begin() to end(), rbegin() to rend(), empty() and full()
Observe(name) ==
    LET v == vectors[name]
        backwards == [k \in 1 .. v.m_size |-> v.m_storage[v.m_size - k]]
    IN  /\ Calls("observe", name, NONE, <<Cells(v), backwards, empty(v), full(v)>>)
        /\ UNCHANGED <<vectors, fatal>>

EqualTo(lhs, rhs) ==
    /\ lhs.m_size = rhs.m_size
    /\ \A k \in 0 .. lhs.m_size - 1 : lhs.m_storage[k] = rhs.m_storage[k]

Equal(name, other) ==
    /\ Calls("equal", name, other, EqualTo(vectors[name], vectors[other]))
    /\ UNCHANGED <<vectors, fatal>>

-----------------------------------------------------------------------------

VectorInit ==
    /\ vectors = [name \in Vectors |-> Fresh]
    /\ vector_call = NONE
    /\ fatal = FALSE

VectorNext ==
    /\ ~fatal
    /\ \E name \in Vectors :
        \/ \E s \in Sequences_ : Constructor(name, s) \/ assign(name, s)
        \/ \E x \in Elements : push_back(name, x)
        \/ pop_back(name)
        \/ \E size \in 0 .. CAPACITY + 1, x \in Elements \cup {Default} : resize(name, size, x)
        \/ \E position \in 0 .. CAPACITY - 1 : erase(name, position)
        \/ \E position \in 0 .. CAPACITY : at(name, position)
        \/ Observe(name)
        \/ \E other \in Vectors :
            \/ CopyConstructor(name, other) \/ MoveConstructor(name, other)
            \/ CopyAssignment(name, other) \/ MoveAssignment(name, other)
            \/ Equal(name, other)

VectorSpec == VectorInit /\ [][VectorNext]_vector

-----------------------------------------------------------------------------

\* Every element is constructed in a raw cell and destroyed once, and the
\* elements that live between two calls are those below the size: clear(),
\* the destructor, erase() and resize() neither leak nor destroy twice.
LifetimesHold ==
    \A name \in Vectors :
        /\ ~vectors[name].broken
        /\ Living(vectors[name]) = 0 .. vectors[name].m_size - 1

Bounded ==
    INSTANCE BoundedSequence WITH
        contents <- [name \in Vectors |-> Cells(vectors[name])],
        N <- CAPACITY,
        call <- vector_call,
        failed <- fatal

\* The cells below the size are the sequence that the calls promise: no
\* call disturbs an element it is not about, or the other vector, or shows
\* an element that was moved from.
IsBoundedSequence == [][UNCHANGED vector \/ Bounded!Step]_vector

=============================================================================
