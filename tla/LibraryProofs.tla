--------------------------- MODULE LibraryProofs ----------------------------
(***************************************************************************)
(* Proofs about the parts of the library that need no device and share no  *)
(* state, in the order of their length: StateMachine, AsynchronousSerial,  *)
(* Debounce, CircularBuffer, which implements Fifo, FixedCapacityVector,   *)
(* which implements BoundedSequence, and CRC.                              *)
(***************************************************************************)
EXTENDS StateMachine, AsynchronousSerial, Debounce, CircularBuffer, FixedCapacityVector, CRC,
        SequenceTheorems, WellFoundedInduction, TLAPS

-----------------------------------------------------------------------------
(* StateMachine: OneStateIsEntered, for any set of states. What it does    *)
(* not say by itself is that the word which is shared holds a state        *)
(* whenever enter() reads it, and that only a machine with a current state *)
(* exits one.                                                              *)

MachineTypeOK ==
    /\ m_current_state \in States \cup {nullptr}
    /\ m_union \in States \cup {initial_pseudostate}
    /\ machine_pc \in {"returned", "exit", "enter"}
    /\ entered \subseteq States

\* The word holds a target from transition_to() until enter() has read it.
TargetInv == machine_pc \in {"exit", "enter"} => m_union \in States

SourceInv == machine_pc = "exit" => m_current_state \in States

Current == IF m_current_state = nullptr THEN {} ELSE {m_current_state}

EnteredInv == entered = IF machine_pc = "enter" THEN {} ELSE Current

MachineInv == MachineTypeOK /\ TargetInv /\ SourceInv /\ EnteredInv

LEMMA MachineInvInit == MachineInit => MachineInv
BY DEF MachineInit, MachineInv, MachineTypeOK, TargetInv, SourceInv, EnteredInv, Current

LEMMA MachineInvNext == MachineInv /\ [MachineNext]_machine => MachineInv'
<1> SUFFICES ASSUME MachineInv, [MachineNext]_machine PROVE MachineInv'
    OBVIOUS
<1> USE DEF MachineInv, MachineTypeOK, TargetInv, SourceInv, EnteredInv, Current
<1>1. ASSUME Stops PROVE MachineInv'
    BY <1>1 DEF Stops
<1>2. CASE execute_initial_transition
    <2>1. ASSUME NEW target \in States, m_current_state = nullptr, machine_pc = "returned",
                 transition_to(target, "enter")
          PROVE  MachineInv'
        BY <2>1 DEF transition_to
    <2>. QED BY <1>1, <1>2, <2>1 DEF execute_initial_transition
<1>3. CASE dispatch
    <2>1. ASSUME NEW target \in States, m_current_state # nullptr, machine_pc = "returned",
                 transition_to(target, "exit")
          PROVE  MachineInv'
        BY <2>1 DEF transition_to
    <2>2. CASE UNCHANGED machine
        BY <2>2 DEF machine
    <2>. QED BY <1>1, <1>3, <2>1, <2>2 DEF dispatch
<1>4. CASE exit
    <2>1. CASE /\ machine_pc = "exit"
               /\ entered' = entered \ {m_current_state}
               /\ machine_pc' = "enter"
               /\ UNCHANGED <<m_current_state, m_union, machine_stopped>>
        BY <2>1
    <2>. QED BY <1>1, <1>4, <2>1 DEF exit
<1>5. CASE enter
    <2>1. CASE /\ machine_pc = "enter"
               /\ entered' = entered \cup {m_union}
               /\ m_current_state' = m_union
               /\ machine_pc' = "returned"
               /\ UNCHANGED <<m_union, machine_stopped>>
        BY <2>1, StateMachineAssumption
    <2>. QED BY <1>1, <1>5, <2>1 DEF enter
<1>6. CASE UNCHANGED machine
    BY <1>6 DEF machine
<1>. QED BY <1>2, <1>3, <1>4, <1>5, <1>6 DEF MachineNext

LEMMA MachineInvImplies == MachineInv => OneStateIsEntered
BY StateMachineAssumption DEF MachineInv, MachineTypeOK, SourceInv, EnteredInv, Current, OneStateIsEntered, is_in

\* Whatever the handlers answer, and wherever the machine stops: the entry
\* actions that have run are those of the state that is_in() names.
THEOREM OneStateEntered == MachineSpec => []OneStateIsEntered
<1>1. MachineSpec => []MachineInv
    BY MachineInvInit, MachineInvNext, PTL DEF MachineSpec
<1>. QED BY <1>1, MachineInvImplies, PTL

-----------------------------------------------------------------------------
(* AsynchronousSerial: BuffersAreOwn, for any number of streams and        *)
(* transmitters. It is inductive, once the types say where the functions   *)
(* are defined.                                                            *)

SerialTypeOK ==
    /\ lives \subseteq SerialStreams
    /\ m_buffer \in [SerialStreams -> SerialStreams \cup {NULL}]
    /\ m_transmitter \in [SerialStreams -> Transmitters \cup {Default_Transmitter}]

SerialInv == SerialTypeOK /\ BuffersAreOwn

LEMMA SerialInvInit == SerialInit => SerialInv
BY DEF SerialInit, SerialInv, SerialTypeOK, BuffersAreOwn

\* The constructors, the last of which takes a transmitter that no other
\* stream has.
LEMMA ConstructsKeepsInv ==
    ASSUME SerialInv, NEW s \in SerialStreams, s \notin lives,
           NEW buffer \in {s, NULL},
           NEW transmitter \in Transmitters \cup {Default_Transmitter},
           \A t \in lives : m_transmitter[t] = transmitter => transmitter = Default_Transmitter,
           Constructs(s, buffer, transmitter)
    PROVE  SerialInv'
BY DEF SerialInv, SerialTypeOK, BuffersAreOwn, Constructs, Quiet

LEMMA SerialInvNext == SerialInv /\ [SerialNext]_serial => SerialInv'
<1> SUFFICES ASSUME SerialInv, [SerialNext]_serial PROVE SerialInv'
    OBVIOUS
<1>1. ASSUME NEW s \in SerialStreams, SerialDefaultConstructor(s) PROVE SerialInv'
    BY <1>1, ConstructsKeepsInv DEF SerialDefaultConstructor
<1>2. ASSUME NEW s \in SerialStreams, NEW transmitter \in Transmitters, SerialConstructor(s, transmitter)
      PROVE  SerialInv'
    BY <1>2, ConstructsKeepsInv DEF SerialConstructor
<1>3. ASSUME NEW s \in SerialStreams, NEW source \in SerialStreams, SerialMoveConstructor(s, source)
      PROVE  SerialInv'
    BY <1>3 DEF SerialMoveConstructor, SerialInv, SerialTypeOK, BuffersAreOwn, Quiet
<1>4. ASSUME NEW s \in SerialStreams, NEW expression \in SerialStreams, SerialMoveAssignment(s, expression)
      PROVE  SerialInv'
    BY <1>4 DEF SerialMoveAssignment, SerialInv, SerialTypeOK, BuffersAreOwn, Quiet
<1>5. ASSUME NEW s \in SerialStreams, SerialPut(s) PROVE SerialInv'
    BY <1>5 DEF SerialPut, SerialInv, SerialTypeOK, BuffersAreOwn
<1>6. ASSUME NEW s \in SerialStreams, SerialDestructor(s) PROVE SerialInv'
    BY <1>6 DEF SerialDestructor, SerialInv, SerialTypeOK, BuffersAreOwn, Quiet
<1>7. ASSUME NEW s \in SerialStreams,
             SerialSelfAssignment(s) \/ SerialReportError(s) \/ SerialClearError(s)
      PROVE  SerialInv'
    BY <1>7 DEF SerialSelfAssignment, SerialReportError, SerialClearError, SerialInv, SerialTypeOK,
                BuffersAreOwn, Quiet
<1>8. CASE UNCHANGED serial
    BY <1>8 DEF serial, SerialInv, SerialTypeOK, BuffersAreOwn
<1>. QED BY <1>1, <1>2, <1>3, <1>4, <1>5, <1>6, <1>7, <1>8 DEF SerialNext

\* However streams are constructed, moved, assigned and destroyed, one that
\* exists refers to its own buffer or to none, and no two of them share a
\* transmitter.
THEOREM BuffersStayOwn == SerialSpec => []BuffersAreOwn
<1>1. SerialSpec => []SerialInv
    BY SerialInvInit, SerialInvNext, PTL DEF SerialSpec
<1>2. SerialInv => BuffersAreOwn
    BY DEF SerialInv
<1>. QED BY <1>1, <1>2, PTL

-----------------------------------------------------------------------------
(* Debounce: DebouncedAsSampled, for any signals and any number of         *)
(* samples. The integer of one signal and the ring of several are the last *)
(* SAMPLES samples; the answer is that of the last samples that agreed.    *)

\* The SAMPLES samples up to the k-th agree about a signal.
AgreeAt(s, k) == \A j \in k - SAMPLES + 1 .. k : (s \in sampled[j]) = (s \in sampled[k])

\* The k-th sample is the last one of which that is true.
LastAgree(s, k) ==
    /\ k \in SAMPLES .. Len(sampled)
    /\ AgreeAt(s, k)
    /\ \A m \in SAMPLES .. Len(sampled) : AgreeAt(s, m) => m =< k

DebounceTypeOK ==
    /\ sampled \in Seq(SUBSET Signals)
    /\ Len(sampled) \in Nat /\ Len(sampled) >= SAMPLES
    /\ m_samples \in [0 .. SAMPLES - 1 -> SUBSET Signals]
    /\ m_samples_i \in 0 .. SAMPLES - 1
    /\ single_is_high \in [Signals -> BOOLEAN]
    /\ multiple_state \in SUBSET Signals

\* The integer of a signal has the last samples of it, the last one at the end.
ShiftedInv ==
    single_samples =
        [s \in Signals |-> [j \in 1 .. SAMPLES |-> s \in sampled[Len(sampled) - SAMPLES + j]]]

\* The ring has the last samples, the last one before m_samples_i.
RingInv ==
    /\ \A k \in 0 .. m_samples_i - 1 : m_samples[k] = sampled[Len(sampled) - m_samples_i + 1 + k]
    /\ \A k \in m_samples_i .. SAMPLES - 1 :
            m_samples[k] = sampled[Len(sampled) - m_samples_i + 1 + k - SAMPLES]

AnswersInv ==
    \A s \in Signals : \E k \in SAMPLES .. Len(sampled) :
        /\ LastAgree(s, k)
        /\ single_is_high[s] = (s \in sampled[k])
        /\ s \in multiple_state <=> s \in sampled[k]

DebounceInv == DebounceTypeOK /\ ShiftedInv /\ RingInv /\ AnswersInv

LEMMA NotInIsFalse == ASSUME NEW S, NEW x, x \notin S PROVE (x \in S) = FALSE
<1>1. (x \in S) \in BOOLEAN
    OBVIOUS
<1>. QED BY <1>1, Zenon

LEMMA FirstIndexAgain ==
    \A n \in Nat \ {0} : \A i \in 0 .. n - 1 :
        (i + 1) % n = IF i + 1 = n THEN 0 ELSE i + 1
<1>1. \A n \in Nat \ {0} : n % n = 0
    OBVIOUS
<1>2. \A n \in Nat \ {0} : \A i \in 0 .. n - 1 : i + 1 # n => (i + 1) % n = i + 1
    OBVIOUS
<1>. QED BY <1>1, <1>2

LEMMA ShiftedFunction ==
    ASSUME NEW S, NEW n \in Nat \ {0}, NEW f \in [1 .. n -> S], NEW x \in S
    PROVE  Append(Tail(f), x) = [j \in 1 .. n |-> IF j = n THEN x ELSE f[j + 1]]
<1> DEFINE g == [j \in 1 .. n |-> IF j = n THEN x ELSE f[j + 1]]
<1>1. f \in Seq(S) /\ Len(f) = n /\ f # <<>>
    OBVIOUS
<1>2. Tail(f) \in Seq(S) /\ Len(Tail(f)) = n - 1 /\ \A j \in 1 .. n - 1 : Tail(f)[j] = f[j + 1]
    BY <1>1
<1>3. g \in [1 .. n -> S]
    OBVIOUS
<1>4. g \in Seq(S) /\ Len(g) = n
    BY <1>3
<1>5. /\ Append(Tail(f), x) \in Seq(S) /\ Len(Append(Tail(f), x)) = n
      /\ \A j \in 1 .. n : Append(Tail(f), x)[j] = g[j]
    BY <1>2
<1> HIDE DEF g
<1>6. Append(Tail(f), x) = g
    BY <1>4, <1>5
<1>. QED BY <1>6 DEF g

LEMMA DebounceInvInit == DebounceInit => DebounceInv
<1>1. SUFFICES ASSUME NEW high \in SUBSET Signals,
                    single_samples = [s \in Signals |-> Copies(s \in high)],
                    single_is_high = [s \in Signals |-> s \in high],
                    m_samples = [k \in 0 .. SAMPLES - 1 |-> high],
                    m_samples_i = 0,
                    multiple_state = high,
                    sampled = Copies(high)
               PROVE DebounceInv
    BY DEF DebounceInit
<1>2. /\ sampled \in Seq(SUBSET Signals) /\ Len(sampled) = SAMPLES
      /\ \A k \in 1 .. SAMPLES : sampled[k] = high
    BY <1>1, SamplesAssumption DEF Copies
<1>3. DebounceTypeOK
    BY <1>1, <1>2, SamplesAssumption DEF DebounceTypeOK
<1>4. ShiftedInv
  <2>1. \A s \in Signals : Copies(s \in high)
                = [j \in 1 .. SAMPLES |-> s \in sampled[Len(sampled) - SAMPLES + j]]
    BY <1>2, SamplesAssumption DEF Copies
  <2>. QED BY <1>1, <2>1 DEF ShiftedInv
<1>5. RingInv
    BY <1>1, <1>2, SamplesAssumption DEF RingInv
<1>6. AnswersInv
  <2>1. \A s \in Signals : LastAgree(s, SAMPLES)
    BY <1>2, SamplesAssumption DEF LastAgree, AgreeAt
  <2>2. \A s \in Signals : single_is_high[s] = (s \in sampled[SAMPLES])
    BY <1>1, <1>2, SamplesAssumption
  <2>3. \A s \in Signals : s \in multiple_state <=> s \in sampled[SAMPLES]
    BY <1>1, <1>2, SamplesAssumption
  <2>4. SAMPLES \in SAMPLES .. Len(sampled)
    BY <1>2, SamplesAssumption
  <2>. QED BY <2>1, <2>2, <2>3, <2>4 DEF AnswersInv
<1>. QED BY <1>3, <1>4, <1>5, <1>6 DEF DebounceInv

\* All SAMPLES samples up to the k-th have the signal high, or low.
AllHigh(s, k) == \A j \in k - SAMPLES + 1 .. k : s \in sampled[j]
AllLow(s, k) == \A j \in k - SAMPLES + 1 .. k : s \notin sampled[j]

\* One sample more, for both kinds of debouncer.
LEMMA SampleTaken ==
    ASSUME DebounceInv, NEW high \in SUBSET Signals,
           Single_debounce(high), Multiple_debounce(high), sampled' = Append(sampled, high)
    PROVE  DebounceInv'
<1> DEFINE K == SAMPLES
<1>0. PICK L \in Nat : L = Len(sampled)
    BY DEF DebounceInv, DebounceTypeOK
<1>1. K \in Nat /\ K >= 1 /\ L \in Nat /\ L >= K
    BY <1>0, SamplesAssumption DEF DebounceInv, DebounceTypeOK
<1>2. /\ sampled' \in Seq(SUBSET Signals) /\ Len(sampled') = L + 1
      /\ \A k \in 1 .. L : sampled'[k] = sampled[k]
      /\ sampled'[L + 1] = high
    BY <1>0 DEF DebounceInv, DebounceTypeOK
<1>3. \A s \in Signals : Shifted_In(s, s \in high)
            = [j \in 1 .. K |-> s \in sampled'[(L + 1) - K + j]]
  <2> TAKE s \in Signals
  <2> DEFINE f == [j \in 1 .. K |-> s \in sampled[L - K + j]]
             g == [j \in 1 .. K |-> s \in sampled'[(L + 1) - K + j]]
  <2>1. single_samples[s] = f
    BY <1>0 DEF DebounceInv, ShiftedInv
  <2>2. f \in [1 .. K -> BOOLEAN] /\ (s \in high) \in BOOLEAN /\ K \in Nat \ {0}
    BY <1>1
  <2>3. \A j \in 1 .. K : (IF j = K THEN s \in high ELSE f[j + 1]) = (s \in sampled'[(L + 1) - K + j])
    <3> TAKE j \in 1 .. K
    <3>1. CASE j = K
        <4>1. (L + 1) - K + j = L + 1
            BY <1>1, <3>1
        <4>. QED BY <1>2, <3>1, <4>1
    <3>2. CASE j # K
        <4>1. j + 1 \in 1 .. K /\ L - K + (j + 1) = (L + 1) - K + j /\ (L + 1) - K + j \in 1 .. L
            BY <1>1, <3>2
        <4>2. f[j + 1] = (s \in sampled[(L + 1) - K + j])
            BY <4>1
        <4>3. sampled'[(L + 1) - K + j] = sampled[(L + 1) - K + j]
            BY <1>2, <4>1
        <4> HIDE DEF f, K
        <4>. QED BY <3>2, <4>2, <4>3
    <3>. QED BY <3>1, <3>2
  <2>4. Append(Tail(f), s \in high) = [j \in 1 .. K |-> IF j = K THEN s \in high ELSE f[j + 1]]
    <3> HIDE DEF f
    <3>. QED BY <2>2, ShiftedFunction
  <2>5. Append(Tail(f), s \in high) = g
    <3> HIDE DEF f, K
    <3>. QED BY <2>3, <2>4
  <2>. QED BY <2>1, <2>5 DEF Shifted_In
<1>4. ShiftedInv'
  <2>1. single_samples' = [s \in Signals |-> Shifted_In(s, s \in high)]
    BY DEF Single_debounce
  <2>2. [s \in Signals |-> Shifted_In(s, s \in high)]
            = [s \in Signals |-> [j \in 1 .. K |-> s \in sampled'[(L + 1) - K + j]]]
    BY <1>3
  <2>3. Len(sampled') - K = (L + 1) - K
    BY <1>2, Zenon
  <2>4. [s \in Signals |-> [j \in 1 .. K |-> s \in sampled'[(L + 1) - K + j]]]
            = [s \in Signals |-> [j \in 1 .. K |-> s \in sampled'[Len(sampled') - K + j]]]
    BY <2>3, Zenon
  <2>. QED BY <2>1, <2>2, <2>4, Zenon DEF ShiftedInv
<1>5. /\ m_samples_i' = IF m_samples_i + 1 = K THEN 0 ELSE m_samples_i + 1
      /\ m_samples' = [m_samples EXCEPT ![m_samples_i] = high]
    BY FirstIndexAgain, SamplesAssumption DEF DebounceInv, DebounceTypeOK, Multiple_debounce
<1>6. RingInv'
  <2>1. \A k \in 0 .. K - 1 : m_samples'[k] = IF k = m_samples_i THEN high ELSE m_samples[k]
    BY <1>5 DEF DebounceInv, DebounceTypeOK
  <2>2. m_samples_i \in 0 .. K - 1
    BY DEF DebounceInv, DebounceTypeOK
  <2>3. CASE m_samples_i + 1 = K
    <3>1. \A k \in 0 .. K - 1 : k # m_samples_i => m_samples'[k] = sampled'[(L + 1) + 1 + (k - K)]
        <4> TAKE k \in 0 .. K - 1
        <4> HAVE k # m_samples_i
        <4>1. k \in 0 .. m_samples_i - 1 /\ L - m_samples_i + 1 + k = (L + 1) + 1 + (k - K)
              /\ (L + 1) + 1 + (k - K) \in 1 .. L
            BY <1>1, <2>2, <2>3
        <4>. QED BY <1>2, <2>1, <4>1 DEF DebounceInv, RingInv
    <3>2. m_samples'[m_samples_i] = sampled'[L + 1 + 1 + m_samples_i - K]
        <4>1. L + 1 + 1 + m_samples_i - K = L + 1
            BY <1>1, <2>2, <2>3
        <4>. QED BY <1>2, <2>1, <2>2, <4>1
    <3>3. \A k \in 0 .. K - 1 : m_samples'[k] = sampled'[(L + 1) + 1 + (k - K)]
        BY <3>1, <3>2
    <3>4. m_samples_i' = 0
        BY <1>5, <2>3
    <3>5. \A k \in 0 .. K - 1 : Len(sampled') - m_samples_i' + 1 + k - K = (L + 1) + 1 + (k - K)
        BY <1>1, <1>2, <3>4
    <3>6. \A k \in 0 .. m_samples_i' - 1 : FALSE
        BY <3>4
    <3>. QED BY <1>1, <3>3, <3>4, <3>5, <3>6 DEF RingInv
  <2>4. CASE m_samples_i + 1 # K
    <3>1. m_samples_i' = m_samples_i + 1
        BY <1>5, <2>4
    <3>2. \A k \in 0 .. m_samples_i : m_samples'[k] = sampled'[L - m_samples_i + 1 + k]
        <4> TAKE k \in 0 .. m_samples_i
        <4>1. CASE k = m_samples_i
            <5>1. L - m_samples_i + 1 + k = L + 1 /\ k \in 0 .. K - 1
                BY <1>1, <2>2, <4>1
            <5>. QED BY <1>2, <2>1, <4>1, <5>1
        <4>2. CASE k # m_samples_i
            <5>1. k \in 0 .. m_samples_i - 1 /\ k \in 0 .. K - 1 /\ L - m_samples_i + 1 + k \in 1 .. L
                BY <1>1, <2>2, <4>2
            <5>. QED BY <1>2, <2>1, <4>2, <5>1 DEF DebounceInv, RingInv
        <4>. QED BY <4>1, <4>2
    <3>3. \A k \in m_samples_i + 1 .. K - 1 :
                m_samples'[k] = sampled'[L - m_samples_i + 1 + k - K]
        <4> TAKE k \in m_samples_i + 1 .. K - 1
        <4>1. /\ k \in m_samples_i .. K - 1 /\ k \in 0 .. K - 1 /\ k # m_samples_i
              /\ L - m_samples_i + 1 + k - K \in 1 .. L
            BY <1>1, <2>2
        <4>. QED BY <1>2, <2>1, <4>1 DEF DebounceInv, RingInv
    <3>4. Len(sampled') - m_samples_i' = L - m_samples_i /\ m_samples_i' - 1 = m_samples_i
        <4>1. \A n \in Nat : (n + 1) - (m_samples_i + 1) = n - m_samples_i /\ (m_samples_i + 1) - 1 = m_samples_i
            BY <1>1, <2>2
        <4>. QED BY <1>1, <1>2, <3>1, <4>1, Zenon
    <3>. QED BY <3>1, <3>2, <3>3, <3>4 DEF RingInv
  <2>. QED BY <2>3, <2>4
<1>7. DebounceTypeOK'
  <2>1. m_samples' \in [0 .. SAMPLES - 1 -> SUBSET Signals] /\ m_samples_i' \in 0 .. SAMPLES - 1
    BY <1>1, <1>5 DEF DebounceInv, DebounceTypeOK
  <2>2. single_is_high' \in [Signals -> BOOLEAN]
    BY DEF DebounceInv, DebounceTypeOK, Single_debounce
  <2>3. multiple_state' \in SUBSET Signals
    BY DEF DebounceInv, DebounceTypeOK, Multiple_debounce
  <2>. QED BY <1>1, <1>2, <2>1, <2>2, <2>3 DEF DebounceTypeOK
<1>8. AnswersInv'
  <2> SUFFICES ASSUME NEW s \in Signals
               PROVE  \E k \in K .. L + 1 :
                        /\ LastAgree(s, k)'
                        /\ single_is_high'[s] = (s \in sampled'[k])
                        /\ s \in multiple_state' <=> s \in sampled'[k]
    BY <1>2 DEF AnswersInv
  <2>1. \A k \in K .. L : AgreeAt(s, k)' <=> AgreeAt(s, k)
    <3> TAKE k \in K .. L
    <3>1. k \in 1 .. L /\ \A j \in k - K + 1 .. k : j \in 1 .. L
        BY <1>1
    <3>. QED BY <1>2, <3>1 DEF AgreeAt
  <2> DEFINE g == [j \in 1 .. K |-> s \in sampled'[(L + 1) - K + j]]
  <2>2. \A j \in (L + 1) - K + 1 .. L + 1 :
            /\ j - ((L + 1) - K) \in 1 .. K
            /\ (L + 1) - K + (j - ((L + 1) - K)) = j
    BY <1>1
  <2>3. \A j \in 1 .. K : (L + 1) - K + j \in (L + 1) - K + 1 .. L + 1
    BY <1>1
  <2>4. Shifted_In(s, s \in high) = Copies(TRUE) <=> AllHigh(s, L + 1)'
    <3>1. g = [j \in 1 .. K |-> TRUE] <=> \A j \in 1 .. K : s \in sampled'[(L + 1) - K + j]
        BY Zenon
    <3>2. (\A j \in 1 .. K : s \in sampled'[(L + 1) - K + j])
            <=> \A j \in (L + 1) - K + 1 .. L + 1 : s \in sampled'[j]
        BY <2>2, <2>3, Zenon
    <3>3. Shifted_In(s, s \in high) = g
        BY <1>3
    <3>4. AllHigh(s, L + 1)' <=> \A j \in (L + 1) - K + 1 .. L + 1 : s \in sampled'[j]
        BY DEF AllHigh
    <3> HIDE DEF g
    <3>. QED BY <3>1, <3>2, <3>3, <3>4, Zenon DEF Copies
  <2>5. Shifted_In(s, s \in high) = Copies(FALSE) <=> AllLow(s, L + 1)'
    <3>1. g = [j \in 1 .. K |-> FALSE] <=> \A j \in 1 .. K : s \notin sampled'[(L + 1) - K + j]
        <4>1. ASSUME g = [j \in 1 .. K |-> FALSE], NEW j \in 1 .. K PROVE s \notin sampled'[(L + 1) - K + j]
            <5>1. g[j] = FALSE
                BY <4>1, Zenon
            <5>. QED BY <5>1, Zenon
        <4>2. ASSUME \A j \in 1 .. K : s \notin sampled'[(L + 1) - K + j] PROVE g = [j \in 1 .. K |-> FALSE]
            <5>1. \A j \in 1 .. K : (s \in sampled'[(L + 1) - K + j]) = FALSE
                <6> TAKE j \in 1 .. K
                <6>1. s \notin sampled'[(L + 1) - K + j]
                    BY <4>2, Zenon
                <6>. QED BY <6>1, NotInIsFalse
            <5>. QED BY <5>1, Zenon
        <4>. QED BY <4>1, <4>2, Zenon
    <3>2. (\A j \in 1 .. K : s \notin sampled'[(L + 1) - K + j])
            <=> \A j \in (L + 1) - K + 1 .. L + 1 : s \notin sampled'[j]
        BY <2>2, <2>3, Zenon
    <3>3. Shifted_In(s, s \in high) = g
        BY <1>3
    <3>4. AllLow(s, L + 1)' <=> \A j \in (L + 1) - K + 1 .. L + 1 : s \notin sampled'[j]
        BY DEF AllLow
    <3> HIDE DEF g
    <3>. QED BY <3>1, <3>2, <3>3, <3>4, Zenon DEF Copies
  <2> DEFINE Window == (L + 1) - K + 1 .. L + 1
  <2>6. L + 1 \in Window
    BY <1>1
  <2>7. /\ AllHigh(s, L + 1)' <=> \A j \in Window : s \in sampled'[j]
        /\ AllLow(s, L + 1)' <=> \A j \in Window : s \notin sampled'[j]
        /\ AgreeAt(s, L + 1)' <=> \A j \in Window : (s \in sampled'[j]) = (s \in sampled'[L + 1])
    BY Zenon DEF AgreeAt, AllHigh, AllLow
  <2>8. ~ (AllHigh(s, L + 1)' /\ AllLow(s, L + 1)')
    BY <2>6, <2>7, Zenon
  <2>9. /\ AllHigh(s, L + 1)' => single_is_high'[s] = TRUE
        /\ AllLow(s, L + 1)' => single_is_high'[s] = FALSE
        /\ ~ AllHigh(s, L + 1)' /\ ~ AllLow(s, L + 1)' => single_is_high'[s] = single_is_high[s]
    <3>1. single_is_high'[s] = CASE Shifted_In(s, s \in high) = Copies(TRUE) -> TRUE
                                 [] Shifted_In(s, s \in high) = Copies(FALSE) -> FALSE
                                 [] OTHER -> single_is_high[s]
        BY DEF Single_debounce
    <3>. QED BY <2>4, <2>5, <2>8, <3>1
  <2>10. /\ DOMAIN m_samples' = 0 .. K - 1
         /\ s \in multiple_state' <=> /\ s \in multiple_state \/ \A k \in 0 .. K - 1 : s \in m_samples'[k]
                                      /\ ~ \A k \in 0 .. K - 1 : s \notin m_samples'[k]
    <3>1. DOMAIN [m_samples EXCEPT ![m_samples_i] = high] = 0 .. K - 1
        BY DEF DebounceInv, DebounceTypeOK
    <3>. QED BY <1>5, <3>1 DEF Multiple_debounce, DebounceInv, DebounceTypeOK
  <2>11. PICK i \in 0 .. K - 1 : i = m_samples_i'
    BY <1>7, Zenon DEF DebounceTypeOK
  <2>12. \A k \in 0 .. K - 1 : \E j \in (L + 1) - K + 1 .. L + 1 : m_samples'[k] = sampled'[j]
    <3> TAKE k \in 0 .. K - 1
    <3>1. CASE k < i
        <4>1. k \in 0 .. i - 1
            BY <1>1, <3>1
        <4>2. (L + 1) - i + 1 + k >= (L + 1) - K + 1 /\ (L + 1) - i + 1 + k =< L + 1
            BY <1>1, <3>1
        <4>3. (L + 1) - i + 1 + k \in (L + 1) - K + 1 .. L + 1
            BY <1>1, <4>2
        <4>. QED BY <1>2, <2>11, <1>6, <4>1, <4>3 DEF RingInv
    <3>2. CASE ~ k < i
        <4>1. /\ k \in i .. K - 1
              /\ (L + 1) - i + 1 + k - K \in (L + 1) - K + 1 .. L + 1
            BY <1>1, <3>2
        <4>. QED BY <1>2, <2>11, <1>6, <4>1 DEF RingInv
    <3>. QED BY <3>1, <3>2
  <2>13. \A j \in (L + 1) - K + 1 .. L + 1 : \E k \in 0 .. K - 1 : m_samples'[k] = sampled'[j]
    <3> TAKE j \in (L + 1) - K + 1 .. L + 1
    <3> DEFINE k == i + j - L - 2
    <3>1. CASE k >= 0
        <4>1. k \in 0 .. i - 1 /\ k \in 0 .. K - 1 /\ (L + 1) - i + 1 + k = j
            BY <1>1, <3>1
        <4> HIDE DEF k
        <4>. QED BY <1>2, <2>11, <1>6, <4>1 DEF RingInv
    <3>2. CASE ~ k >= 0
        <4>1. k + K \in i .. K - 1 /\ k + K \in 0 .. K - 1 /\ (L + 1) - i + 1 + (k + K) - K = j
            BY <1>1, <3>2
        <4> HIDE DEF k
        <4>. QED BY <1>2, <2>11, <1>6, <4>1 DEF RingInv
    <3>. QED BY <3>1, <3>2
  <2>14. AllHigh(s, L + 1)' <=> \A k \in 0 .. K - 1 : s \in m_samples'[k]
    BY <2>12, <2>13, Zenon DEF AllHigh
  <2>15. AllLow(s, L + 1)' <=> \A k \in 0 .. K - 1 : s \notin m_samples'[k]
    BY <2>12, <2>13, Zenon DEF AllLow
  <2> HIDE DEF Window
  <2>16. AgreeAt(s, L + 1)' <=> AllHigh(s, L + 1)' \/ AllLow(s, L + 1)'
    <3>1. CASE s \in sampled'[L + 1]
        BY <2>6, <2>7, <3>1
    <3>2. CASE s \notin sampled'[L + 1]
        <4>1. (s \in sampled'[L + 1]) = FALSE
            BY <3>2, NotInIsFalse
        <4>2. ASSUME NEW j \in Window
              PROVE  (s \in sampled'[j]) = (s \in sampled'[L + 1]) <=> s \notin sampled'[j]
            BY <4>1, NotInIsFalse, Zenon
        <4>3. ~ AllHigh(s, L + 1)'
            BY <2>6, <2>7, <3>2
        <4>. QED BY <2>7, <4>2, <4>3, Zenon
    <3>. QED BY <3>1, <3>2
  <2>17. CASE AgreeAt(s, L + 1)'
    <3>1. LastAgree(s, L + 1)'
        BY <1>1, <1>2, <2>17 DEF LastAgree
    <3>2. s \in sampled'[L + 1] <=> AllHigh(s, L + 1)'
        BY <2>16, <2>17, <2>6, <2>7
    <3>3. s \notin sampled'[L + 1] <=> AllLow(s, L + 1)'
        BY <2>8, <2>16, <2>17, <3>2
    <3>4. single_is_high'[s] = (s \in sampled'[L + 1])
        <4>1. CASE s \in sampled'[L + 1]
            BY <2>9, <3>2, <4>1, Zenon
        <4>2. CASE s \notin sampled'[L + 1]
            <5>1. (s \in sampled'[L + 1]) = FALSE
                BY <4>2, NotInIsFalse
            <5>2. single_is_high'[s] = FALSE
                BY <2>9, <3>3, <4>2, Zenon
            <5>. QED BY <5>1, <5>2, Zenon
        <4>. QED BY <4>1, <4>2
    <3>5. s \in multiple_state' <=> s \in sampled'[L + 1]
        BY <2>8, <2>10, <2>14, <2>15, <3>2, <3>3
    <3>6. L + 1 \in K .. L + 1
        BY <1>1
    <3>. QED BY <3>1, <3>4, <3>5, <3>6, Zenon
  <2>18. CASE ~ AgreeAt(s, L + 1)'
    <3>1. PICK k \in K .. L : /\ LastAgree(s, k)
                              /\ single_is_high[s] = (s \in sampled[k])
                              /\ s \in multiple_state <=> s \in sampled[k]
        BY <1>0 DEF DebounceInv, AnswersInv
    <3>2. LastAgree(s, k)'
        BY <1>1, <1>2, <2>1, <2>18, <3>1 DEF LastAgree
    <3>3. sampled'[k] = sampled[k]
        BY <1>1, <1>2
    <3>4. single_is_high'[s] = (s \in sampled'[k])
        BY <2>9, <2>16, <2>18, <3>1, <3>3
    <3>5. s \in multiple_state' <=> s \in sampled'[k]
        BY <2>10, <2>14, <2>15, <2>16, <2>18, <3>1, <3>3
    <3>6. k \in K .. L + 1
        BY <1>1
    <3>. QED BY <3>2, <3>4, <3>5, <3>6, Zenon
  <2>. QED BY <2>17, <2>18
<1>. QED BY <1>4, <1>6, <1>7, <1>8 DEF DebounceInv
-----------------------------------------------------------------------------
LEMMA DebounceInvNext == DebounceInv /\ [DebounceNext]_debouncers => DebounceInv'
<1> SUFFICES ASSUME DebounceInv, [DebounceNext]_debouncers PROVE DebounceInv'
    OBVIOUS
<1>1. CASE DebounceNext
    BY <1>1, SampleTaken DEF DebounceNext
<1>2. CASE UNCHANGED debouncers
    BY <1>2 DEF debouncers, DebounceInv, DebounceTypeOK, ShiftedInv, RingInv, AnswersInv, LastAgree, AgreeAt
<1>. QED BY <1>1, <1>2

LEMMA DebounceInvImplies == DebounceInv => DebouncedAsSampled
<1> SUFFICES ASSUME DebounceInv, NEW s \in Signals
             PROVE  LET last == Max({k \in SAMPLES .. Len(sampled) : AgreeAt(s, k)})
                    IN  /\ single_is_high[s] = (s \in sampled[last])
                        /\ (s \in multiple_state) = (s \in sampled[last])
    BY DEF DebouncedAsSampled, AgreeAt
<1> DEFINE Agreeing == {k \in SAMPLES .. Len(sampled) : AgreeAt(s, k)}
<1>1. PICK k \in SAMPLES .. Len(sampled) : /\ LastAgree(s, k)
                                           /\ single_is_high[s] = (s \in sampled[k])
                                           /\ s \in multiple_state <=> s \in sampled[k]
    BY DEF DebounceInv, AnswersInv
<1>2. k \in Agreeing /\ \A m \in Agreeing : m =< k
    BY <1>1 DEF LastAgree
<1>3. Agreeing \subseteq Int
    BY SamplesAssumption DEF DebounceInv, DebounceTypeOK
<1> HIDE DEF Agreeing
<1>4. k \in Agreeing /\ \A m \in Agreeing : k >= m
    BY <1>2, <1>3
<1>5. \A x \in Agreeing : (\A m \in Agreeing : x >= m) => x = k
    BY <1>3, <1>4
<1>6. Max(Agreeing) = k
    BY <1>4, <1>5, Zenon DEF Max
<1>. QED BY <1>1, <1>6 DEF Agreeing

\* For any number of samples and any signals.
THEOREM AnswersAreThoseSampled == DebounceSpec => []DebouncedAsSampled
<1>1. DebounceSpec => []DebounceInv
    BY DebounceInvInit, DebounceInvNext, PTL DEF DebounceSpec
<1>. QED BY <1>1, DebounceInvImplies, PTL

-----------------------------------------------------------------------------
(* CircularBuffer, for any capacity and any set of values.                 *)

InCall == pc \in {"store", "destroy", "advance", "guard", "load", "size"}
InGuard == Guarded /\ pc \in {"load", "size", "unguard"}

\* Who may be in which call.
RoleInv ==
    /\ op = "push" => MainWrites
    /\ op = "pop" /\ ~MainReads => credit = 0 /\ pc = "idle"
    /\ pc = "store" => op = "push" /\ value \in Values
    /\ pc = "destroy" => op = "pop"
    /\ pc \in {"guard", "unguard"} => Guarded

\* Interrupts are disabled in the critical sections of the buffer.
GuardInv ==
    /\ InGuard => ~enabled /\ saved = outer
    /\ ~InGuard => enabled = outer

\* The main program has a right to its calls, the one it is in included.
CreditInv ==
    /\ op = "push" => credit + (IF InCall THEN 1 ELSE 0) =< N - m_size
    /\ op = "pop" => credit + (IF InCall THEN 1 ELSE 0) =< m_size

LoadedInv == pc = "size" => loaded = m_size

Wrap(index) == IF index < N THEN index ELSE index - N
WriteEnd == IF Pushing /\ pc = "advance" THEN After(m_write) ELSE m_write

\* The write index is where the cells in use end.
IndexInv == WriteEnd = Wrap(First + Used)

BufferInv == TypeOK /\ RoleInv /\ GuardInv /\ CreditInv /\ LoadedInv /\ IndexInv /\ CellsMatchSize

USE CapacityAssumption, SizesAssumption, NoValueAssumption

LEMMA BufferInvInit == Init => BufferInv
<1> SUFFICES ASSUME Init PROVE BufferInv
    OBVIOUS
<1>1. TypeOK
    BY DEF Init, TypeOK, Pcs
<1>2. RoleInv /\ GuardInv /\ CreditInv /\ LoadedInv
    BY DEF Init, RoleInv, GuardInv, CreditInv, LoadedInv, InCall, InGuard
<1>3. IndexInv /\ CellsMatchSize
    BY DEF Init, IndexInv, CellsMatchSize, WriteEnd, First, Used, Popping, Pushing, Wrap, InUse, Distance
<1> QED
    BY <1>1, <1>2, <1>3 DEF BufferInv

\* Steps of the main program that leave the buffer itself alone.
LEMMA LocalSteps ==
    ASSUME BufferInv,
           \/ ToggleInterrupts \/ AskSize("push") \/ AskSize("pop")
           \/ \E v \in Values : CallPush(v)
           \/ CallPop \/ EnterGuard \/ LoadSize \/ LeaveGuard
    PROVE  BufferInv'
<1> USE DEF BufferInv, TypeOK, Pcs, shared, main, RoleInv, GuardInv, CreditInv, LoadedInv, IndexInv,
            CellsMatchSize, InCall, InGuard, Guarded, MainReads, MainWrites, WriteEnd, First, Used,
            Popping, Pushing, InUse
<1>1. CASE ToggleInterrupts
    BY <1>1 DEF ToggleInterrupts
<1>2. CASE AskSize("push")
    BY <1>2 DEF AskSize
<1>3. CASE AskSize("pop")
    BY <1>3 DEF AskSize
<1>4. CASE \E v \in Values : CallPush(v)
    BY <1>4 DEF CallPush
<1>5. CASE CallPop
    BY <1>5 DEF CallPop
<1>6. CASE EnterGuard
    BY <1>6 DEF EnterGuard
<1>7. CASE LoadSize
    BY <1>7 DEF LoadSize
<1>8. CASE LeaveGuard
    BY <1>8 DEF LeaveGuard
<1> QED
    BY <1>1, <1>2, <1>3, <1>4, <1>5, <1>6, <1>7, <1>8

BufferParts == RoleInv /\ GuardInv /\ CreditInv /\ LoadedInv

\* A push stores its value in the first cell that is not in use.
LEMMA StoreStep == ASSUME BufferInv, Store PROVE BufferInv'
<1> USE DEF BufferInv, TypeOK, Pcs, Store
<1>1. pc = "store" /\ op = "push" /\ value \in Values /\ m_size < N
    BY DEF RoleInv, CreditInv, InCall
<1>2. TypeOK'
    BY <1>1
<1>3. BufferParts'
    BY <1>1 DEF BufferParts, RoleInv, GuardInv, CreditInv, LoadedInv, InCall, InGuard, Guarded, MainReads,
        MainWrites
<1>4. Used = m_size /\ Used' = m_size + 1 /\ First = m_read /\ First' = m_read
    BY <1>1 DEF Used, First, Popping, Pushing
<1>5. m_write = Wrap(m_read + m_size)
    BY <1>1, <1>4 DEF IndexInv, WriteEnd, Pushing
<1>6. IndexInv'
    BY <1>1, <1>4, <1>5 DEF IndexInv, WriteEnd, Pushing, Wrap, After
<1>7. CellsMatchSize'
    BY <1>1, <1>4, <1>5 DEF CellsMatchSize, InUse, Distance, Wrap
<1> QED
    BY <1>2, <1>3, <1>6, <1>7 DEF BufferParts

\* A pop destroys the value of the first cell in use.
LEMMA DestroyStep == ASSUME BufferInv, Destroy PROVE BufferInv'
<1> USE DEF BufferInv, TypeOK, Pcs, Destroy
<1>1. pc = "destroy" /\ op = "pop" /\ m_size > 0
    BY DEF RoleInv, CreditInv, InCall
<1>2. TypeOK'
    BY <1>1
<1>3. BufferParts'
    BY <1>1 DEF BufferParts, RoleInv, GuardInv, CreditInv, LoadedInv, InCall, InGuard, Guarded, MainReads,
        MainWrites
<1>4. Used = m_size /\ Used' = m_size - 1 /\ First = m_read /\ First' = After(m_read)
    BY <1>1 DEF Used, First, Popping, Pushing, After
<1>5. IndexInv'
    BY <1>1, <1>4 DEF IndexInv, WriteEnd, Pushing, Wrap, After
<1>6. CellsMatchSize'
    BY <1>1, <1>4 DEF CellsMatchSize, InUse, Distance, After
<1> QED
    BY <1>2, <1>3, <1>5, <1>6 DEF BufferParts

LEMMA AdvanceStep == ASSUME BufferInv, Advance PROVE BufferInv'
<1> USE DEF BufferInv, TypeOK, Pcs, Advance
<1>1. TypeOK'
    BY DEF After
<1>2. BufferParts'
    BY DEF BufferParts, RoleInv, GuardInv, CreditInv, LoadedInv, InCall, InGuard, Guarded, MainReads,
        MainWrites
<1>3. Used' = Used /\ First' = First /\ WriteEnd' = WriteEnd
    BY DEF Used, First, WriteEnd, Popping, Pushing, After
<1>4. IndexInv' /\ CellsMatchSize'
    BY <1>3 DEF IndexInv, CellsMatchSize, InUse, Wrap
<1> QED
    BY <1>1, <1>2, <1>4 DEF BufferParts

LEMMA StoreSizeStep == ASSUME BufferInv, StoreSize PROVE BufferInv'
<1> USE DEF BufferInv, TypeOK, Pcs, StoreSize
<1>1. pc = "size" /\ loaded = m_size
    BY DEF LoadedInv
<1>2. (op = "push" => m_size < N) /\ (op = "pop" => m_size > 0)
    BY <1>1 DEF CreditInv, InCall
<1>3. m_size' = IF op = "push" THEN m_size + 1 ELSE m_size - 1
    BY <1>1, <1>2 DEF Increment, Decrement
<1>4. TypeOK'
    BY <1>2, <1>3
<1>5. BufferParts'
    BY <1>1, <1>3 DEF BufferParts, RoleInv, GuardInv, CreditInv, LoadedInv, InCall, InGuard, Guarded,
        MainReads, MainWrites
<1>6. Used' = Used /\ First' = First /\ WriteEnd' = WriteEnd
    BY <1>1, <1>3 DEF Used, First, WriteEnd, Popping, Pushing
<1>7. IndexInv' /\ CellsMatchSize'
    BY <1>6 DEF IndexInv, CellsMatchSize, InUse, Wrap
<1> QED
    BY <1>4, <1>5, <1>7 DEF BufferParts

-----------------------------------------------------------------------------
\* While an interrupt handler runs, the main program is neither pushing nor
\* popping itself what the handler pushes or pops, nor in a critical section.
LEMMA InterruptContext ==
    ASSUME BufferInv, enabled
    PROVE  /\ ~MainWrites => ~Pushing /\ op = "pop"
           /\ ~MainReads => ~Popping
           /\ (~MainWrites \/ ~MainReads) => pc \notin {"size", "unguard"}
BY DEF BufferInv, TypeOK, Pcs, RoleInv, GuardInv, Pushing, Popping, InGuard, Guarded, MainReads,
    MainWrites, Use_Cases

LEMMA PushFromInterruptStep ==
    ASSUME BufferInv, NEW v \in Values, PushFromInterrupt(v) PROVE BufferInv'
<1> USE DEF BufferInv, TypeOK, Pcs, PushFromInterrupt, main
<1>1. ~Pushing /\ op = "pop" /\ pc \notin {"size", "unguard"}
    BY InterruptContext
<1>2. m_size' = m_size + 1 /\ m_size < N
    BY DEF Increment
<1>3. TypeOK'
    BY <1>2 DEF After
<1>4. BufferParts'
  <2>1. RoleInv'
    BY DEF RoleInv, Guarded, MainReads, MainWrites
  <2>2. GuardInv'
    BY DEF GuardInv, InGuard, Guarded
  <2>3. CreditInv' /\ LoadedInv'
    BY <1>1, <1>2 DEF CreditInv, LoadedInv, RoleInv, InCall
  <2> QED
    BY <2>1, <2>2, <2>3 DEF BufferParts
<1>5. Used' = Used + 1 /\ Used < N /\ Used \in 0..N /\ First' = First /\ First \in 0..(N - 1)
    BY <1>1, <1>2 DEF Used, First, Popping, Pushing, After, CellsMatchSize
<1>6. WriteEnd = m_write /\ WriteEnd' = After(m_write)
    BY <1>1 DEF WriteEnd, Pushing
<1>7. IndexInv'
    BY <1>5, <1>6 DEF IndexInv, Wrap, After
<1>8. CellsMatchSize'
    BY <1>5, <1>6 DEF IndexInv, CellsMatchSize, InUse, Distance, Wrap
<1> QED
    BY <1>3, <1>4, <1>7, <1>8 DEF BufferParts

LEMMA PopFromInterruptStep == ASSUME BufferInv, PopFromInterrupt PROVE BufferInv'
<1> USE DEF BufferInv, TypeOK, Pcs, PopFromInterrupt, main
<1>1. ~Popping /\ pc \notin {"size", "unguard"}
    BY InterruptContext
<1>2. m_size' = m_size - 1 /\ m_size > 0
    BY DEF Decrement
<1>3. TypeOK'
    BY <1>2 DEF After
<1>4. BufferParts'
  <2>1. RoleInv'
    BY DEF RoleInv, Guarded, MainReads, MainWrites
  <2>2. GuardInv'
    BY DEF GuardInv, InGuard, Guarded
  <2>3. CreditInv' /\ LoadedInv'
    BY <1>1, <1>2 DEF CreditInv, LoadedInv, RoleInv, InCall
  <2> QED
    BY <2>1, <2>2, <2>3 DEF BufferParts
<1>5. /\ Used' = Used - 1 /\ Used > 0 /\ Used \in 0..N
      /\ First = m_read /\ First' = After(m_read)
    BY <1>1, <1>2 DEF Used, First, Popping, Pushing, CellsMatchSize
<1>6. WriteEnd' = WriteEnd
    BY DEF WriteEnd, Pushing
<1>7. IndexInv'
    BY <1>5, <1>6 DEF IndexInv, Wrap, After
<1>8. CellsMatchSize'
    BY <1>5 DEF CellsMatchSize, InUse, Distance, After
<1> QED
    BY <1>3, <1>4, <1>7, <1>8 DEF BufferParts

LEMMA ClearFromInterruptStep == ASSUME BufferInv, ClearFromInterrupt PROVE BufferInv'
<1> USE DEF BufferInv, TypeOK, Pcs, ClearFromInterrupt, main
<1>1. ~Popping /\ pc \notin {"size", "unguard"}
    BY InterruptContext
<1>2. TypeOK'
    OBVIOUS
<1>3. BufferParts'
  <2>1. RoleInv'
    BY DEF RoleInv, Guarded, MainReads, MainWrites
  <2>2. GuardInv'
    BY DEF GuardInv, InGuard, Guarded
  <2>3. CreditInv' /\ LoadedInv'
    BY <1>1 DEF CreditInv, LoadedInv, RoleInv, InCall
  <2> QED
    BY <2>1, <2>2, <2>3 DEF BufferParts
<1>4. /\ Used' = Used - m_size /\ Used \in {m_size, m_size + 1} /\ Used \in 0..N
      /\ First = m_read /\ First' = m_read'
    BY <1>1 DEF Used, First, Popping, Pushing, CellsMatchSize
<1>5. WriteEnd' = WriteEnd
    BY DEF WriteEnd, Pushing
<1>6. IndexInv'
    BY <1>4, <1>5 DEF IndexInv, Wrap
<1>7. CellsMatchSize'
    BY <1>4 DEF CellsMatchSize, InUse, Distance
<1> QED
    BY <1>2, <1>3, <1>6, <1>7 DEF BufferParts

LEMMA BufferInvNext == BufferInv /\ [Next]_vars => BufferInv'
<1> SUFFICES ASSUME BufferInv, [Next]_vars PROVE BufferInv'
    OBVIOUS
<1>1. CASE UNCHANGED vars
    BY <1>1 DEF vars, shared, main, BufferInv, TypeOK, RoleInv, GuardInv, CreditInv, LoadedInv, IndexInv,
        CellsMatchSize, InCall, InGuard, Guarded, MainReads, MainWrites, WriteEnd, First, Used,
        Popping, Pushing, InUse
<1>2. CASE MainStep
    BY <1>2, LocalSteps, StoreStep, DestroyStep, AdvanceStep, StoreSizeStep DEF MainStep
<1>3. CASE \E v \in Values : PushFromInterrupt(v)
    BY <1>3, PushFromInterruptStep
<1>4. CASE PopFromInterrupt
    BY <1>4, PopFromInterruptStep
<1>5. CASE ClearFromInterrupt
    BY <1>5, ClearFromInterruptStep
<1> QED
    BY <1>1, <1>2, <1>3, <1>4, <1>5 DEF Next

\* The inductive invariant holds in every state of every behaviour.
THEOREM BufferIsInvariant == Spec => []BufferInv
BY BufferInvInit, BufferInvNext, PTL DEF Spec

\* For any capacity, the cells that hold a value are those that m_size counts.
THEOREM CellsMatch == Spec => []CellsMatchSize
<1>1. BufferInv => CellsMatchSize
    BY DEF BufferInv
<1> QED
    BY <1>1, BufferIsInvariant, PTL

\* For any capacity, a program that asked size() can do what it was told.
THEOREM AnswerStays == Spec => []AnswerStaysGood
<1>1. BufferInv => AnswerStaysGood
    BY DEF BufferInv, TypeOK, CreditInv, AnswerStaysGood, InCall
<1> QED
    BY <1>1, BufferIsInvariant, PTL

\* The critical sections of the buffer restore the interrupt enable state.
THEOREM GuardIsTransparent == Spec => []GuardRestores
<1>1. BufferInv => GuardRestores
    BY DEF BufferInv, GuardInv, GuardRestores, InGuard
<1> QED
    BY <1>1, BufferIsInvariant, PTL

\* Every variable keeps its type; no index leaves the storage.
THEOREM BufferTypeCorrect == Spec => []TypeOK
<1>1. BufferInv => TypeOK
    BY DEF BufferInv
<1> QED
    BY <1>1, BufferIsInvariant, PTL

-----------------------------------------------------------------------------
(* CircularBuffer implements Fifo: every step of the buffer is a step of   *)
(* the queue, or leaves it as it is.                                       *)

(* "contents" is a function on 1..Counted; these three lemmas say when     *)
(* functions are sequences, and one element apart.                         *)

LEMMA FunctionIsSequence ==
    ASSUME NEW S, NEW n \in Nat, NEW s \in [1..n -> S]
    PROVE  s \in Seq(S) /\ Len(s) = n
OBVIOUS

LEMMA FunctionAppended ==
    ASSUME NEW S, NEW n \in Nat, NEW s \in [1..n -> S], NEW t \in [1..(n + 1) -> S],
           \A k \in 1..n : t[k] = s[k]
    PROVE  t = Append(s, t[n + 1])
<1>1. s \in Seq(S) /\ Len(s) = n /\ t \in Seq(S) /\ Len(t) = n + 1
    BY FunctionIsSequence
<1>2. Append(s, t[n + 1]) \in Seq(S) /\ Len(Append(s, t[n + 1])) = n + 1
    BY <1>1
<1>3. \A k \in 1..(n + 1) : Append(s, t[n + 1])[k] = t[k]
    BY <1>1
<1> QED
    BY <1>1, <1>2, <1>3

LEMMA FunctionWithoutFirst ==
    ASSUME NEW S, NEW n \in Nat \ {0}, NEW s \in [1..n -> S], NEW t \in [1..(n - 1) -> S],
           \A k \in 1..(n - 1) : t[k] = s[k + 1]
    PROVE  s # <<>> /\ Head(s) = s[1] /\ t = Tail(s)
<1>1. s \in Seq(S) /\ Len(s) = n /\ t \in Seq(S) /\ Len(t) = n - 1 /\ n - 1 \in Nat
    BY FunctionIsSequence
<1>2. s # <<>> /\ Head(s) = s[1]
    BY <1>1
<1>3. Tail(s) \in Seq(S) /\ Len(Tail(s)) = n - 1
    BY <1>1, <1>2
<1>4. \A k \in 1..(n - 1) : Tail(s)[k] = t[k]
    BY <1>1, <1>2
<1> QED
    BY <1>1, <1>2, <1>3, <1>4

-----------------------------------------------------------------------------
\* pop() is about to destroy the value that the program has taken.
ValueInv == pc = "destroy" => value = m_storage[m_read]

\* The cell of the k-th element of the queue.
Cell(k) == Wrap(First + k - 1)

LEMMA ValueInvInit == Init => ValueInv
BY DEF Init, ValueInv

LEMMA ValueInvNext == BufferInv /\ ValueInv /\ [Next]_vars => ValueInv'
<1> SUFFICES ASSUME BufferInv, ValueInv, [Next]_vars, pc' = "destroy" PROVE (value = m_storage[m_read])'
    BY DEF ValueInv
<1> USE DEF ValueInv
<1>1. CASE CallPop
    BY <1>1 DEF CallPop, shared
<1>2. CASE \E v \in Values : PushFromInterrupt(v)
  <2>1. pc = "destroy" /\ op = "pop"
    BY <1>2 DEF PushFromInterrupt, main, BufferInv, RoleInv
  <2>2. m_size > 0 /\ m_size < N
    BY <1>2, <2>1 DEF PushFromInterrupt, BufferInv, TypeOK, CreditInv, InCall
  <2>3. WriteEnd = m_write /\ First = m_read /\ Used = m_size
    BY <2>1 DEF WriteEnd, First, Used, Pushing, Popping
  <2>4. m_write # m_read
    BY <2>2, <2>3 DEF BufferInv, TypeOK, IndexInv, Wrap
  <2> QED
    BY <1>2, <2>4 DEF PushFromInterrupt, main, BufferInv, TypeOK
<1>3. CASE PopFromInterrupt \/ ClearFromInterrupt
    BY <1>3 DEF PopFromInterrupt, ClearFromInterrupt, main, BufferInv, RoleInv
<1>4. CASE MainStep /\ ~CallPop
    BY <1>4 DEF MainStep, ToggleInterrupts, AskSize, CallPush, Store, Destroy, Advance, EnterGuard,
        LoadSize, StoreSize, LeaveGuard, shared, main
<1>5. CASE UNCHANGED vars
    BY <1>5 DEF vars, shared, main
<1> QED
    BY <1>1, <1>2, <1>3, <1>4, <1>5 DEF Next

-----------------------------------------------------------------------------
\* The elements that the queue has are values, each in its cell.
ElementsInv ==
    /\ Counted \in 0..N
    /\ First \in 0..(N - 1)
    /\ contents \in [1..Counted -> Values]
    /\ \A k \in 1..Counted : contents[k] = m_storage[Cell(k)] /\ Cell(k) \in 0..(N - 1)

LEMMA ElementsAreValues == BufferInv => ElementsInv
<1> SUFFICES ASSUME BufferInv PROVE ElementsInv
    OBVIOUS
<1> USE DEF BufferInv, TypeOK
<1>1. Counted \in 0..N /\ Counted <= Used
    BY DEF Counted, Used, Popping, Pushing, CellsMatchSize
<1>2. First \in 0..(N - 1)
    BY DEF First, After
<1>3. \A k \in 1..Counted : Cell(k) \in 0..(N - 1) /\ Distance(First, Cell(k)) = k - 1
    BY <1>1, <1>2 DEF Cell, Wrap, Distance
<1>4. \A k \in 1..Counted : m_storage[Cell(k)] \in Values
  <2> TAKE k \in 1..Counted
  <2>1. Used \in 0..N /\ InUse(Cell(k))
    BY <1>1, <1>3 DEF InUse, CellsMatchSize
  <2>2. m_storage[Cell(k)] # NoValue
    BY <1>3, <2>1 DEF CellsMatchSize
  <2> QED
    BY <1>3, <2>2
<1>5. contents = [k \in 1..Counted |-> m_storage[Cell(k)]]
    BY <1>1, <1>2 DEF contents, Cell, Wrap
<1> QED
    BY <1>1, <1>2, <1>3, <1>4, <1>5 DEF ElementsInv

LEMMA ElementsAreValuesNext == BufferInv' => ElementsInv'
BY ElementsAreValues, PTL

\* The same number of elements, in cells that are not written, is the same queue.
LEMMA Stutters ==
    ASSUME BufferInv, BufferInv', Counted' = Counted, First' = First,
           \A k \in 1..Counted : m_storage'[Cell(k)] = m_storage[Cell(k)]
    PROVE  contents' = contents
<1>1. \A k \in 1..Counted : Cell(k)' = Cell(k)
    BY DEF Cell, Wrap
<1>2. contents' = [k \in 1..Counted |-> m_storage'[Cell(k)]]
    BY <1>1, ElementsAreValues DEF ElementsInv, contents, Cell, Wrap
<1>3. contents = [k \in 1..Counted |-> m_storage[Cell(k)]]
    BY ElementsAreValues DEF ElementsInv, contents, Cell, Wrap
<1> QED
    BY <1>2, <1>3

\* Steps that do not change the queue: what a call does before and after the
\* one step at which its element joins or leaves.
LEMMA QuietSteps ==
    ASSUME BufferInv, BufferInv',
           \/ ToggleInterrupts \/ AskSize("push") \/ AskSize("pop")
           \/ \E v \in Values : CallPush(v)
           \/ CallPop \/ Advance \/ EnterGuard \/ LoadSize \/ LeaveGuard
           \/ Store
           \/ StoreSize /\ op = "pop"
    PROVE  UNCHANGED <<contents, out>>
<1> USE DEF BufferInv, TypeOK, Pcs, shared, main, Counted, First, Popping
<1>1. CASE \/ ToggleInterrupts \/ AskSize("push") \/ AskSize("pop")
           \/ \E v \in Values : CallPush(v)
           \/ CallPop \/ EnterGuard \/ LoadSize \/ LeaveGuard
  <2>1. Counted' = Counted /\ First' = First /\ m_storage' = m_storage /\ out' = out
    BY <1>1 DEF ToggleInterrupts, AskSize, CallPush, CallPop, EnterGuard, LoadSize, LeaveGuard
  <2> QED
    BY <2>1, Stutters
<1>2. CASE Advance
  <2>1. Counted' = Counted /\ First' = First /\ m_storage' = m_storage /\ out' = out
    BY <1>2 DEF Advance, After
  <2> QED
    BY <2>1, Stutters
<1>3. CASE Store
  <2>1. pc = "store" /\ op = "push" /\ m_size < N /\ Counted = m_size /\ First = m_read
    BY <1>3 DEF Store, RoleInv, CreditInv, InCall
  <2>2. m_write = Wrap(m_read + m_size)
    BY <2>1 DEF IndexInv, WriteEnd, Used, Pushing
  <2>3. Counted' = Counted /\ First' = First /\ out' = out
    BY <1>3, <2>1 DEF Store
  <2>4. \A k \in 1..Counted : Cell(k) # m_write
    BY <2>1, <2>2 DEF Cell, Wrap
  <2>5. \A k \in 1..Counted : m_storage'[Cell(k)] = m_storage[Cell(k)]
    BY <1>3, <2>4, ElementsAreValues DEF ElementsInv, Store
  <2> QED
    BY <2>3, <2>5, Stutters
<1>4. CASE StoreSize /\ op = "pop"
  <2>1. pc = "size" /\ loaded = m_size /\ m_size > 0
    BY <1>4 DEF StoreSize, LoadedInv, CreditInv, InCall
  <2>2. Counted' = Counted /\ First' = First /\ m_storage' = m_storage /\ out' = out
    BY <1>4, <2>1 DEF StoreSize, Decrement
  <2> QED
    BY <2>2, Stutters
<1> QED
    BY <1>1, <1>2, <1>3, <1>4

\* One element more, behind the ones the queue had.
LEMMA Pushes ==
    ASSUME BufferInv, BufferInv', Counted' = Counted + 1, First' = First, out' = out,
           \A k \in 1..Counted : m_storage'[Cell(k)] = m_storage[Cell(k)]
    PROVE  \E v \in Values : Queue!Push(v)
<1>1. \A k \in 1..(Counted + 1) : Cell(k)' = Cell(k)
    BY DEF Cell, Wrap
<1>2. /\ Counted \in 0..N /\ Counted' \in 0..N
      /\ contents \in [1..Counted -> Values] /\ contents' \in [1..(Counted + 1) -> Values]
    BY ElementsAreValues, ElementsAreValuesNext DEF ElementsInv
<1>3. \A k \in 1..Counted : contents'[k] = contents[k]
    BY <1>1, <1>2, ElementsAreValues, ElementsAreValuesNext DEF ElementsInv
<1>4. contents' = Append(contents, contents'[Counted + 1])
    BY <1>2, <1>3, FunctionAppended
<1>5. Len(contents) < N
    BY <1>2, FunctionIsSequence
<1>6. contents'[Counted + 1] \in Values
    BY <1>2
<1> QED
    BY <1>4, <1>5, <1>6 DEF Queue!Push

\* One element less: the one in the first cell, which "out" has.
LEMMA Pops ==
    ASSUME BufferInv, BufferInv', Counted > 0, Counted' = Counted - 1, First' = After(First),
           out' = m_storage[First],
           \A i \in 0..(N - 1) : i # First => m_storage'[i] = m_storage[i]
    PROVE  Queue!Pop
<1>1. /\ Counted \in 1..N /\ First \in 0..(N - 1)
      /\ contents \in [1..Counted -> Values] /\ contents' \in [1..(Counted - 1) -> Values]
    BY ElementsAreValues, ElementsAreValuesNext DEF ElementsInv
<1>2. \A k \in 1..(Counted - 1) : Cell(k)' = Cell(k + 1) /\ Cell(k + 1) # First
    BY <1>1 DEF Cell, Wrap, After
<1>3. \A k \in 1..(Counted - 1) : contents'[k] = contents[k + 1]
  <2> TAKE k \in 1..(Counted - 1)
  <2>1. contents'[k] = m_storage'[Cell(k)']
    BY <1>1, ElementsAreValuesNext DEF ElementsInv
  <2>2. k + 1 \in 1..Counted
    BY <1>1
  <2>3. contents[k + 1] = m_storage[Cell(k + 1)] /\ Cell(k + 1) \in 0..(N - 1)
    BY <2>2, ElementsAreValues DEF ElementsInv
  <2> QED
    BY <1>2, <2>1, <2>3
<1>4. Head(contents) = contents[1] /\ contents # <<>> /\ contents' = Tail(contents)
    BY <1>1, <1>3, FunctionWithoutFirst
<1>5. contents[1] = m_storage[First]
    BY <1>1, ElementsAreValues DEF ElementsInv, Cell, Wrap
<1> QED
    BY <1>4, <1>5 DEF Queue!Pop

-----------------------------------------------------------------------------
\* A push of the main program takes effect when m_size counts its element.
LEMMA PushOfMain ==
    ASSUME BufferInv, BufferInv', StoreSize, op = "push" PROVE \E v \in Values : Queue!Push(v)
<1> USE DEF BufferInv, TypeOK, Pcs, StoreSize, Counted, First, Popping
<1>1. pc = "size" /\ loaded = m_size /\ m_size < N
    BY DEF LoadedInv, CreditInv, InCall
<1>2. Counted' = Counted + 1 /\ First' = First /\ m_storage' = m_storage /\ out' = out
    BY <1>1 DEF Increment
<1> QED
    BY <1>2, Pushes

LEMMA PushOfInterrupt ==
    ASSUME BufferInv, BufferInv', NEW v \in Values, PushFromInterrupt(v)
    PROVE  \E w \in Values : Queue!Push(w)
<1> USE DEF BufferInv, TypeOK, Pcs, PushFromInterrupt, main
<1>1. ~Pushing /\ op = "pop" /\ m_size < N
    BY InterruptContext
<1>2. Counted = Used /\ Counted' = Counted + 1 /\ First' = First /\ out' = out
    BY <1>1 DEF Counted, Used, First, Popping, Increment
<1>3. m_write = Wrap(First + Counted) /\ Counted < N /\ First \in 0..(N - 1) /\ Counted \in 0..N
    BY <1>1, <1>2, ElementsAreValues DEF ElementsInv, IndexInv, WriteEnd, Counted, Popping
<1>4. \A k \in 1..Counted : Cell(k) # m_write
    BY <1>3 DEF Cell, Wrap
<1>5. \A k \in 1..Counted : m_storage'[Cell(k)] = m_storage[Cell(k)]
    BY <1>4, ElementsAreValues DEF ElementsInv
<1> QED
    BY <1>2, <1>5, Pushes

\* A pop of the main program takes effect when its element is destroyed.
LEMMA PopOfMain == ASSUME BufferInv, BufferInv', ValueInv, Destroy PROVE Queue!Pop
<1> USE DEF BufferInv, TypeOK, Pcs, Destroy, Counted, First, Popping
<1>1. op = "pop" /\ m_size > 0
    BY DEF RoleInv, CreditInv, InCall
<1>2. Counted > 0 /\ Counted' = Counted - 1 /\ First = m_read /\ First' = After(First)
    BY <1>1 DEF After
<1>3. out' = m_storage[First]
    BY <1>2 DEF ValueInv
<1>4. \A i \in 0..(N - 1) : i # First => m_storage'[i] = m_storage[i]
    BY <1>2
<1> QED
    BY <1>2, <1>3, <1>4, Pops

LEMMA PopOfInterrupt == ASSUME BufferInv, BufferInv', PopFromInterrupt PROVE Queue!Pop
<1> USE DEF BufferInv, TypeOK, Pcs, PopFromInterrupt, main
<1>1. ~Popping /\ m_size > 0
    BY InterruptContext
<1>2. Counted > 0 /\ Counted' = Counted - 1 /\ First = m_read /\ First' = After(First)
    BY <1>1 DEF Counted, First, Popping, Decrement, After
<1>3. \A i \in 0..(N - 1) : i # First => m_storage'[i] = m_storage[i]
    BY <1>2
<1> QED
    BY <1>2, <1>3, Pops

LEMMA ClearOfInterrupt == ASSUME BufferInv, BufferInv', ClearFromInterrupt PROVE Queue!Clear
<1>1. Counted' = 0 /\ out' = out
    BY InterruptContext DEF ClearFromInterrupt, main, Counted, Popping
<1>2. Len(contents') = 0 /\ contents' \in Seq(Values)
    BY <1>1, ElementsAreValuesNext, FunctionIsSequence DEF ElementsInv
<1>3. contents' = <<>>
    BY <1>2
<1> QED
    BY <1>1, <1>3 DEF Queue!Clear

-----------------------------------------------------------------------------
LEMMA StartsEmpty == Init => Queue!Init
<1> SUFFICES ASSUME Init PROVE Queue!Init
    OBVIOUS
<1>1. BufferInv /\ Counted = 0 /\ out = NoValue
    BY BufferInvInit DEF Init, Counted, Popping
<1>2. Len(contents) = 0 /\ contents \in Seq(Values)
    BY <1>1, ElementsAreValues, FunctionIsSequence DEF ElementsInv
<1>3. contents = <<>>
    BY <1>2
<1> QED
    BY <1>1, <1>3 DEF Queue!Init

LEMMA StepsMap ==
    BufferInv /\ BufferInv' /\ ValueInv /\ [Next]_vars => [Queue!Next]_<<contents, out>>
<1> SUFFICES ASSUME BufferInv, BufferInv', ValueInv, [Next]_vars PROVE [Queue!Next]_<<contents, out>>
    OBVIOUS
<1>1. CASE UNCHANGED vars
  <2>1. Counted' = Counted /\ First' = First /\ m_storage' = m_storage /\ out' = out
    BY <1>1 DEF vars, shared, main, Counted, First, Popping
  <2> QED
    BY <2>1, Stutters
<1>2. CASE MainStep
  <2>1. CASE StoreSize /\ op = "push"
    BY <2>1, PushOfMain DEF Queue!Next
  <2>2. CASE Destroy
    BY <2>2, PopOfMain DEF Queue!Next
  <2>3. CASE ~Destroy /\ ~(StoreSize /\ op = "push")
    <3>1. op \in {"push", "pop"}
      BY DEF BufferInv, TypeOK
    <3>2. UNCHANGED <<contents, out>>
      BY <1>2, <2>3, <3>1, QuietSteps DEF MainStep
    <3> QED
      BY <3>2
  <2> QED
    BY <2>1, <2>2, <2>3
<1>3. CASE \E v \in Values : PushFromInterrupt(v)
    BY <1>3, PushOfInterrupt DEF Queue!Next
<1>4. CASE PopFromInterrupt
    BY <1>4, PopOfInterrupt DEF Queue!Next
<1>5. CASE ClearFromInterrupt
    BY <1>5, ClearOfInterrupt DEF Queue!Next
<1> QED
    BY <1>1, <1>2, <1>3, <1>4, <1>5 DEF Next

\* For any capacity and any values, in each of the four use cases, the buffer
\* behaves like a first-in first-out queue, at whatever step interrupts occur.
THEOREM ImplementsFifo == Spec => IsFifo
<1>1. Spec => []ValueInv
    BY BufferIsInvariant, ValueInvInit, ValueInvNext, PTL DEF Spec
<1>2. Spec => Queue!Spec
    BY <1>1, BufferIsInvariant, StartsEmpty, StepsMap, PTL DEF Spec, Queue!Spec
<1> QED
    BY <1>2 DEF IsFifo

-----------------------------------------------------------------------------
(* Folds.  What FoldLeft computes is what its operator makes of one value  *)
(* after the other, by induction over the number of them.                  *)

LEMMA Smallest ==
    ASSUME NEW T \in SUBSET Nat, T # {}
    PROVE  \E n \in T : \A m \in T : n =< m
<1> DEFINE R == {ss \in Nat \X Nat : ss[1] < ss[2]}
<1>1. IsWellFoundedOn(R, Nat)
    BY NatLessThanWellFounded DEF OpToRel
<1>2. \E n \in T : \A m \in T : ~ (<<m, n>> \in R)
    <2> HIDE DEF R
    <2>. QED BY <1>1, WFMin
<1>3. \A m, n \in T : ~ (<<m, n>> \in R) => n =< m
    OBVIOUS
<1>. QED BY <1>2, <1>3

LEMMA NaturalInduction ==
    ASSUME NEW S, 0 \in S, \A n \in Nat : n \in S => n + 1 \in S
    PROVE  Nat \subseteq S
<1>1. SUFFICES ASSUME Nat \ S # {} PROVE FALSE
    OBVIOUS
<1>2. PICK n \in Nat \ S : \A m \in Nat \ S : n =< m
    BY <1>1, Smallest
<1>3. n # 0 /\ n - 1 \in Nat /\ n - 1 \in S
    BY <1>2
<1>. QED BY <1>2, <1>3

LEMMA MaxIsIn ==
    ASSUME NEW n \in Nat, NEW s \in SUBSET (1 .. n), s # {}
    PROVE  Max(s) \in s
<1> DEFINE T == {n - k : k \in s}
<1>1. T \in SUBSET Nat /\ T # {}
    <2>1. \A k \in s : k \in 1 .. n /\ n - k \in Nat
        OBVIOUS
    <2>. QED BY <2>1
<1>2. PICK d \in T : \A m \in T : d =< m
    <2> HIDE DEF T
    <2>. QED BY <1>1, Smallest
<1>3. PICK k \in s : d = n - k
    BY <1>2
<1>4. ASSUME NEW j \in s PROVE k >= j
    <2>1. n - j \in T
        OBVIOUS
    <2>2. n - k =< n - j
        BY <1>2, <1>3, <2>1
    <2>. QED BY <2>2
<1>. QED BY <1>3, <1>4 DEF Max

LEMMA MaxOfInterval ==
    ASSUME NEW k \in Nat, k # 0
    PROVE  Max(1 .. k) = k /\ (1 .. k) \ {k} = 1 .. (k - 1)
<1>1. \A x \in 1 .. k : (\A y \in 1 .. k : x >= y) <=> x = k
    OBVIOUS
<1>2. k \in 1 .. k
    OBVIOUS
<1>3. Max(1 .. k) = k
    BY <1>1, <1>2 DEF Max
<1>. QED BY <1>3

\* What the library's fold is defined by: one value for each set of indices.
IsFold(it, base, G, n) ==
    it = [s \in SUBSET (1 .. n) |-> IF s = {} THEN base ELSE G[Max(s)][it[s \ {Max(s)}]]]

HasFold(V, base, G, n) == \E it \in [SUBSET (1 .. n) -> V] : IsFold(it, base, G, n)

LEMMA FoldOfNone ==
    ASSUME NEW V, NEW base \in V, NEW G
    PROVE  HasFold(V, base, G, 0)
<1>1. SUBSET (1 .. 0) = {{}}
    OBVIOUS
<1> DEFINE it == [s \in {{}} |-> base]
<1>2. IsFold(it, base, G, 0)
    BY <1>1 DEF IsFold
<1>. QED BY <1>1, <1>2 DEF HasFold

LEMMA FoldOfOneMore ==
    ASSUME NEW V, NEW base \in V, NEW n \in Nat, NEW G \in [1 .. n -> [V -> V]],
           NEW m \in Nat, m + 1 =< n, HasFold(V, base, G, m)
    PROVE  HasFold(V, base, G, m + 1)
<1>2. PICK it \in [SUBSET (1 .. m) -> V] : IsFold(it, base, G, m)
    BY DEF HasFold
<1> DEFINE next == [s \in SUBSET (1 .. (m + 1)) |->
                        IF m + 1 \in s THEN G[m + 1][it[s \ {m + 1}]] ELSE it[s]]
<1>3. \A s \in SUBSET (1 .. (m + 1)) :
        IF m + 1 \in s THEN s \ {m + 1} \in SUBSET (1 .. m) ELSE s \in SUBSET (1 .. m)
    OBVIOUS
<1>4. m + 1 \in 1 .. n
    OBVIOUS
<1>5. next \in [SUBSET (1 .. (m + 1)) -> V]
    <2>1. SUFFICES ASSUME NEW s \in SUBSET (1 .. (m + 1))
                   PROVE  (IF m + 1 \in s THEN G[m + 1][it[s \ {m + 1}]] ELSE it[s]) \in V
        OBVIOUS
    <2>2. CASE m + 1 \in s
        <3>1. it[s \ {m + 1}] \in V
            BY <1>2, <1>3, <2>2
        <3>2. G[m + 1] \in [V -> V]
            BY <1>4
        <3>. QED BY <2>2, <3>1, <3>2
    <2>3. CASE m + 1 \notin s
        BY <1>2, <1>3, <2>3
    <2>. QED BY <2>2, <2>3
<1>6. \A s \in SUBSET (1 .. m) : s \in SUBSET (1 .. (m + 1)) /\ m + 1 \notin s /\ next[s] = it[s]
    OBVIOUS
<1>7. ASSUME NEW s \in SUBSET (1 .. (m + 1))
      PROVE  next[s] = IF s = {} THEN base ELSE G[Max(s)][next[s \ {Max(s)}]]
    <2>1. CASE m + 1 \in s
        <3>1. Max(s) = m + 1
            <4>1. \A y \in s : m + 1 >= y
                OBVIOUS
            <4>2. \A x \in s : (\A y \in s : x >= y) => x = m + 1
                BY <2>1, <4>1
            <4>. QED BY <2>1, <4>1, <4>2 DEF Max
        <3>2. next[s] = G[m + 1][it[s \ {m + 1}]]
            BY <2>1
        <3>3. next[s \ {m + 1}] = it[s \ {m + 1}]
            BY <1>3, <1>6, <2>1
        <3> HIDE DEF next
        <3>. QED BY <2>1, <3>1, <3>2, <3>3
    <2>2. CASE m + 1 \notin s
        <3>1. s \in SUBSET (1 .. m) /\ s \ {Max(s)} \in SUBSET (1 .. m)
            BY <1>3, <2>2
        <3>2. it[s] = IF s = {} THEN base ELSE G[Max(s)][it[s \ {Max(s)}]]
            BY <1>2, <3>1 DEF IsFold
        <3> HIDE DEF next
        <3>. QED BY <1>6, <3>1, <3>2
    <2>. QED BY <2>1, <2>2
<1>8. IsFold(next, base, G, m + 1)
    <2> DEFINE e == [s \in SUBSET (1 .. (m + 1)) |->
                        IF s = {} THEN base ELSE G[Max(s)][next[s \ {Max(s)}]]]
    <2>1. DOMAIN next = SUBSET (1 .. (m + 1)) /\ DOMAIN e = SUBSET (1 .. (m + 1))
        OBVIOUS
    <2>2. \A s \in SUBSET (1 .. (m + 1)) : next[s] = e[s]
        <3> HIDE DEF next
        <3>. QED BY <1>7
    <2>3. next = [s \in SUBSET (1 .. (m + 1)) |-> next[s]] /\ e = [s \in SUBSET (1 .. (m + 1)) |-> e[s]]
        OBVIOUS
    <2>4. next = e
        <3> HIDE DEF next, e
        <3>. QED BY <2>2, <2>3
    <2>. QED BY <2>4 DEF IsFold
<1>. QED BY <1>5, <1>8 DEF HasFold

LEMMA FoldExists ==
    ASSUME NEW V, NEW base \in V, NEW n \in Nat, NEW G \in [1 .. n -> [V -> V]]
    PROVE  HasFold(V, base, G, n)
<1> DEFINE S == {m \in Nat : m =< n => HasFold(V, base, G, m)}
<1>1. 0 \in S
    BY FoldOfNone
<1>2. ASSUME NEW m \in Nat, m \in S PROVE m + 1 \in S
    BY <1>2, FoldOfOneMore
<1>3. n \in S
    <2> HIDE DEF S
    <2>. QED BY <1>1, <1>2, NaturalInduction
<1>. QED BY <1>3

\* U is the row of intermediate values.
LEMMA FoldSteps ==
    ASSUME NEW n \in Nat, NEW it, NEW U, it[{}] = U[0],
           \A k \in 1 .. n : it[1 .. (k - 1)] = U[k - 1] => it[1 .. k] = U[k]
    PROVE  it[1 .. n] = U[n]
<1> DEFINE S == {k \in Nat : k =< n => it[1 .. k] = U[k]}
<1>1. 0 \in S
    <2>1. 1 .. 0 = {}
        OBVIOUS
    <2>. QED BY <2>1
<1>2. ASSUME NEW k \in Nat, k \in S PROVE k + 1 \in S
    <2>1. SUFFICES ASSUME k + 1 =< n PROVE it[1 .. (k + 1)] = U[k + 1]
        OBVIOUS
    <2>2. k + 1 \in 1 .. n /\ (k + 1) - 1 = k /\ it[1 .. k] = U[k]
        BY <1>2, <2>1
    <2>. QED BY <2>2
<1>3. n \in S
    <2> HIDE DEF S
    <2>. QED BY <1>1, <1>2, NaturalInduction
<1>. QED BY <1>3

-----------------------------------------------------------------------------
(* The storage of a vector, and what a loop over a range of it leaves.     *)

CellValues == Elements \cup {Default, MOVED}

Storage == [0 .. CAPACITY - 1 -> CellValues \cup {RAW}]

VectorType == [m_storage : Storage, m_size : Nat, broken : BOOLEAN]

Vec(st, size) == [m_storage |-> st, m_size |-> size, broken |-> FALSE]

LEMMA VecStorage ==
    ASSUME NEW st, NEW size, NEW new
    PROVE  [Vec(st, size) EXCEPT !.m_storage = new] = Vec(new, size)
<1>1. ASSUME NEW b
      PROVE  [[m_storage |-> st, m_size |-> size, broken |-> b] EXCEPT !.m_storage = new]
               = [m_storage |-> new, m_size |-> size, broken |-> b]
    OBVIOUS
<1>. QED BY <1>1, Zenon DEF Vec

LEMMA VecSize ==
    ASSUME NEW st, NEW size, NEW new
    PROVE  [Vec(st, size) EXCEPT !.m_size = new] = Vec(st, new)
<1>1. ASSUME NEW b
      PROVE  [[m_storage |-> st, m_size |-> size, broken |-> b] EXCEPT !.m_size = new]
               = [m_storage |-> st, m_size |-> new, broken |-> b]
    OBVIOUS
<1>. QED BY <1>1, Zenon DEF Vec

LEMMA VecIsTyped ==
    ASSUME NEW st \in Storage, NEW size \in Nat
    PROVE  Vec(st, size) \in VectorType
BY DEF VectorType, Vec

LEMMA DestroyIsClosed ==
    ASSUME NEW v \in VectorType, NEW k
    PROVE  DestroyAt(v, k) \in VectorType
BY DEF DestroyAt, Living, VectorType, Storage

LEMMA ConstructIsClosed ==
    ASSUME NEW v \in VectorType, NEW k, NEW x \in CellValues \cup {RAW}
    PROVE  ConstructAt(v, k, x) \in VectorType
BY DEF ConstructAt, Living, VectorType, Storage

LEMMA DestroyOne ==
    ASSUME NEW st \in Storage, NEW size, NEW k \in 0 .. CAPACITY - 1, st[k] # RAW
    PROVE  DestroyAt(Vec(st, size), k) = Vec([st EXCEPT ![k] = RAW], size)
BY DEF DestroyAt, Living, Vec, Storage

LEMMA ConstructOne ==
    ASSUME NEW st \in Storage, NEW size, NEW k \in 0 .. CAPACITY - 1, st[k] = RAW, NEW x
    PROVE  ConstructAt(Vec(st, size), k, x) = Vec([st EXCEPT ![k] = x], size)
BY DEF ConstructAt, Living, Vec, Storage

LEMMA RangeIs ==
    ASSUME NEW first \in Nat, NEW last \in Nat, first =< last
    PROVE  /\ DOMAIN Range_(first, last) = 1 .. (last - first)
           /\ \A k \in 1 .. (last - first) : Range_(first, last)[k] = first + k - 1
BY DEF Range_

\* The storage after the cells [first, last) have been given f's values.
Written(st, f, first, last) ==
    [k \in 0 .. CAPACITY - 1 |-> IF first =< k /\ k < last THEN f[k] ELSE st[k]]

Raw == [k \in 0 .. CAPACITY - 1 |-> RAW]

LEMMA WrittenIsStorage ==
    ASSUME NEW st \in Storage, NEW f \in Storage, NEW first, NEW last
    PROVE  Written(st, f, first, last) \in Storage
BY DEF Written, Storage

LEMMA RawIsStorage == Raw \in Storage
BY DEF Raw, Storage

LEMMA WrittenNone ==
    ASSUME NEW st \in Storage, NEW f, NEW first \in Nat
    PROVE  Written(st, f, first, first) = st
BY DEF Written, Storage

LEMMA WrittenOneMore ==
    ASSUME NEW st \in Storage, NEW f \in Storage, NEW first \in Nat, NEW i \in Nat, first =< i, i < CAPACITY
    PROVE  /\ Written(st, f, first, i)[i] = st[i]
           /\ [Written(st, f, first, i) EXCEPT ![i] = f[i]] = Written(st, f, first, i + 1)
<1> DEFINE old == Written(st, f, first, i)
    new == Written(st, f, first, i + 1)
<1>1. i \in 0 .. CAPACITY - 1
    BY VectorAssumption DEF VectorAssumption
<1>2. old[i] = st[i]
    BY <1>1 DEF Written
<1>3. ASSUME NEW j \in 0 .. CAPACITY - 1 PROVE new[j] = IF j = i THEN f[i] ELSE old[j]
    BY <1>1 DEF Written
<1>4. [old EXCEPT ![i] = f[i]] = [j \in 0 .. CAPACITY - 1 |-> IF j = i THEN f[i] ELSE old[j]]
    BY DEF Written
<1>5. new = [j \in 0 .. CAPACITY - 1 |-> new[j]]
    BY DEF Written
<1>6. [old EXCEPT ![i] = f[i]] = new
    <2> HIDE DEF old, new
    <2>. QED BY <1>3, <1>4, <1>5
<1>. QED BY <1>2, <1>6

LEMMA DestroyEachIs ==
    ASSUME NEW st \in Storage, NEW size \in Nat, NEW first \in Nat, NEW last \in Nat,
           first =< last, last =< CAPACITY, \A k \in first .. last - 1 : st[k] # RAW
    PROVE  DestroyEach(Vec(st, size), first, last) = Vec(Written(st, Raw, first, last), size)
<1> DEFINE n == last - first
    v == Vec(st, size)
    R == Range_(first, last)
    Q(j) == j = [s \in SUBSET DOMAIN R |-> IF s = {} THEN v ELSE DestroyAt(j[s \ {Max(s)}], R[Max(s)])]
    G == [k \in 1 .. n |-> [u \in VectorType |-> DestroyAt(u, first + k - 1)]]
    U == [k \in 0 .. n |-> Vec(Written(st, Raw, first, first + k), size)]
<1>1. n \in Nat /\ v \in VectorType
    BY VecIsTyped
<1>2. DOMAIN R = 1 .. n /\ \A k \in 1 .. n : R[k] = first + k - 1
    BY RangeIs
<1>3. \E j : Q(j)
    <2>1. G \in [1 .. n -> [VectorType -> VectorType]]
        BY DestroyIsClosed
    <2>2. PICK it \in [SUBSET (1 .. n) -> VectorType] : IsFold(it, v, G, n)
        <3> HIDE DEF n, v, G
        <3>. QED BY <1>1, <2>1, FoldExists DEF HasFold
    <2>3. ASSUME NEW s \in SUBSET (1 .. n), s # {}
          PROVE  G[Max(s)][it[s \ {Max(s)}]] = DestroyAt(it[s \ {Max(s)}], R[Max(s)])
        <3>1. Max(s) \in 1 .. n
            <4> HIDE DEF n
            <4>. QED BY <1>1, <2>3, MaxIsIn
        <3>2. it[s \ {Max(s)}] \in VectorType
            OBVIOUS
        <3> HIDE DEF n, R
        <3>. QED BY <1>2, <3>1, <3>2
    <2>4. Q(it)
        <3> HIDE DEF n, v, G, R
        <3>. QED BY <1>2, <2>2, <2>3 DEF IsFold
    <2>. QED BY <2>4
<1> DEFINE c == CHOOSE j : Q(j)
<1>4. Q(c)
    <2> HIDE DEF Q
    <2>. QED BY <1>3, Zenon
<1>5. DestroyEach(v, first, last) = c[1 .. n]
    <2>1. DestroyEach(v, first, last) = c[DOMAIN R]
        BY DEF DestroyEach, FoldLeft, MapThenFoldSet
    <2> HIDE DEF c, R, n, v
    <2>. QED BY <1>2, <2>1
<1> HIDE DEF c
<1>6. c[{}] = U[0]
    <2>1. c[{}] = v
        <3> HIDE DEF n, v, R
        <3>. QED BY <1>2, <1>4
    <2>2. U[0] = v
        <3>1. first + 0 = first /\ 0 \in 0 .. n
            OBVIOUS
        <3>. QED BY <3>1, WrittenNone
    <2>. QED BY <2>1, <2>2
<1>7. ASSUME NEW k \in 1 .. n, c[1 .. (k - 1)] = U[k - 1] PROVE c[1 .. k] = U[k]
    <2>1. c[1 .. k] = DestroyAt(U[k - 1], first + k - 1)
        <3>1. k \in Nat /\ k # 0 /\ k \in 1 .. k /\ 1 .. k \in SUBSET (1 .. n)
            OBVIOUS
        <3>2. Max(1 .. k) = k /\ (1 .. k) \ {k} = 1 .. (k - 1)
            BY <3>1, MaxOfInterval
        <3>3. c[1 .. k] = DestroyAt(c[(1 .. k) \ {Max(1 .. k)}], R[Max(1 .. k)])
            <4>1. 1 .. k # {} /\ 1 .. k \in SUBSET DOMAIN R
                BY <1>2, <3>1
            <4> HIDE DEF n, v, R, U
            <4>. QED BY <1>4, <4>1
        <3>4. R[k] = first + k - 1
            BY <1>2
        <3> HIDE DEF n, v, R, U
        <3>. QED BY <1>7, <3>2, <3>3, <3>4
    <2>2. PICK i \in Nat : i = first + k - 1 /\ first =< i /\ i < CAPACITY /\ i \in first .. last - 1
        BY VectorAssumption DEF VectorAssumption
    <2>3. U[k - 1] = Vec(Written(st, Raw, first, i), size) /\ U[k] = Vec(Written(st, Raw, first, i + 1), size)
        <3>1. first + (k - 1) = i /\ first + k = i + 1 /\ k - 1 \in 0 .. n /\ k \in 0 .. n
            BY <2>2
        <3>. QED BY <3>1
    <2>4. i \in 0 .. CAPACITY - 1
        BY <2>2, VectorAssumption DEF VectorAssumption
    <2>5. Written(st, Raw, first, i) \in Storage
        BY WrittenIsStorage, RawIsStorage
    <2>6. st[i] # RAW
        BY <2>2
    <2>7. /\ Written(st, Raw, first, i)[i] # RAW
          /\ [Written(st, Raw, first, i) EXCEPT ![i] = RAW] = Written(st, Raw, first, i + 1)
        <3>1. Raw[i] = RAW /\ Raw \in Storage
            BY <2>4, RawIsStorage DEF Raw
        <3>. QED BY <2>2, <2>6, <3>1, WrittenOneMore
    <2>8. DestroyAt(Vec(Written(st, Raw, first, i), size), i)
            = Vec([Written(st, Raw, first, i) EXCEPT ![i] = RAW], size)
        BY <2>4, <2>5, <2>7, DestroyOne
    <2> HIDE DEF U
    <2>. QED BY <2>1, <2>2, <2>3, <2>7, <2>8
<1>8. c[1 .. n] = U[n]
    <2> HIDE DEF n, U
    <2>. QED BY <1>1, <1>6, <1>7, FoldSteps
<1>9. U[n] = Vec(Written(st, Raw, first, last), size)
    <2>1. first + n = last /\ n \in 0 .. n
        OBVIOUS
    <2> HIDE DEF n
    <2>. QED BY <2>1
<1>. QED BY <1>5, <1>8, <1>9

\* The loops of resize() and of a copy.
ConstructedFrom(v, first, last, x) == ConstructEach(v, first, last, LAMBDA k : x)

CopyConstructed(v, q) == ConstructEach(v, 0, Len(q), LAMBDA k : q[k + 1])

All(x) == [k \in 0 .. CAPACITY - 1 |-> x]

LEMMA AllIsStorage ==
    ASSUME NEW x \in CellValues
    PROVE  All(x) \in Storage
BY DEF All, Storage

LEMMA ConstructEachIs ==
    ASSUME NEW st \in Storage, NEW size \in Nat, NEW x \in CellValues, NEW first \in Nat, NEW last \in Nat,
           first =< last, last =< CAPACITY, \A k \in first .. last - 1 : st[k] = RAW
    PROVE  ConstructedFrom(Vec(st, size), first, last, x) = Vec(Written(st, All(x), first, last), size)
<1> DEFINE n == last - first
    v == Vec(st, size)
    R == Range_(first, last)
    Q(j) == j = [s \in SUBSET DOMAIN R |-> IF s = {} THEN v ELSE ConstructAt(j[s \ {Max(s)}], R[Max(s)], x)]
    G == [k \in 1 .. n |-> [u \in VectorType |-> ConstructAt(u, first + k - 1, x)]]
    U == [k \in 0 .. n |-> Vec(Written(st, All(x), first, first + k), size)]
<1>1. n \in Nat /\ v \in VectorType
    BY VecIsTyped
<1>2. DOMAIN R = 1 .. n /\ \A k \in 1 .. n : R[k] = first + k - 1
    BY RangeIs
<1>3. \E j : Q(j)
    <2>1. G \in [1 .. n -> [VectorType -> VectorType]]
        BY ConstructIsClosed
    <2>2. PICK it \in [SUBSET (1 .. n) -> VectorType] : IsFold(it, v, G, n)
        <3> HIDE DEF n, v, G
        <3>. QED BY <1>1, <2>1, FoldExists DEF HasFold
    <2>3. ASSUME NEW s \in SUBSET (1 .. n), s # {}
          PROVE  G[Max(s)][it[s \ {Max(s)}]] = ConstructAt(it[s \ {Max(s)}], R[Max(s)], x)
        <3>1. Max(s) \in 1 .. n
            <4> HIDE DEF n
            <4>. QED BY <1>1, <2>3, MaxIsIn
        <3>2. it[s \ {Max(s)}] \in VectorType
            OBVIOUS
        <3> HIDE DEF n, R
        <3>. QED BY <1>2, <3>1, <3>2
    <2>4. Q(it)
        <3> HIDE DEF n, v, G, R
        <3>. QED BY <1>2, <2>2, <2>3 DEF IsFold
    <2>. QED BY <2>4
<1> DEFINE c == CHOOSE j : Q(j)
<1>4. Q(c)
    <2> HIDE DEF Q
    <2>. QED BY <1>3, Zenon
<1>5. ConstructedFrom(v, first, last, x) = c[1 .. n]
    <2>1. ConstructedFrom(v, first, last, x) = c[DOMAIN R]
        BY DEF ConstructedFrom, ConstructEach, FoldLeft, MapThenFoldSet
    <2> HIDE DEF c, R, n, v
    <2>. QED BY <1>2, <2>1
<1> HIDE DEF c
<1>6. c[{}] = U[0]
    <2>1. c[{}] = v
        <3> HIDE DEF n, v, R
        <3>. QED BY <1>2, <1>4
    <2>2. U[0] = v
        <3>1. first + 0 = first /\ 0 \in 0 .. n
            OBVIOUS
        <3>. QED BY <3>1, WrittenNone
    <2>. QED BY <2>1, <2>2
<1>7. ASSUME NEW k \in 1 .. n, c[1 .. (k - 1)] = U[k - 1] PROVE c[1 .. k] = U[k]
    <2>1. c[1 .. k] = ConstructAt(U[k - 1], first + k - 1, x)
        <3>1. k \in Nat /\ k # 0 /\ k \in 1 .. k /\ 1 .. k \in SUBSET (1 .. n)
            OBVIOUS
        <3>2. Max(1 .. k) = k /\ (1 .. k) \ {k} = 1 .. (k - 1)
            BY <3>1, MaxOfInterval
        <3>3. c[1 .. k] = ConstructAt(c[(1 .. k) \ {Max(1 .. k)}], R[Max(1 .. k)], x)
            <4>1. 1 .. k # {} /\ 1 .. k \in SUBSET DOMAIN R
                BY <1>2, <3>1
            <4> HIDE DEF n, v, R, U
            <4>. QED BY <1>4, <4>1
        <3>4. R[k] = first + k - 1
            BY <1>2
        <3> HIDE DEF n, v, R, U
        <3>. QED BY <1>7, <3>2, <3>3, <3>4
    <2>2. PICK i \in Nat : i = first + k - 1 /\ first =< i /\ i < CAPACITY /\ i \in first .. last - 1
        BY VectorAssumption DEF VectorAssumption
    <2>3. /\ U[k - 1] = Vec(Written(st, All(x), first, i), size)
          /\ U[k] = Vec(Written(st, All(x), first, i + 1), size)
        <3>1. first + (k - 1) = i /\ first + k = i + 1 /\ k - 1 \in 0 .. n /\ k \in 0 .. n
            BY <2>2
        <3>. QED BY <3>1
    <2>4. i \in 0 .. CAPACITY - 1
        BY <2>2, VectorAssumption DEF VectorAssumption
    <2>5. Written(st, All(x), first, i) \in Storage
        BY WrittenIsStorage, AllIsStorage
    <2>6. st[i] = RAW
        BY <2>2
    <2>7. /\ Written(st, All(x), first, i)[i] = RAW
          /\ [Written(st, All(x), first, i) EXCEPT ![i] = x] = Written(st, All(x), first, i + 1)
        <3>1. All(x)[i] = x /\ All(x) \in Storage
            BY <2>4, AllIsStorage DEF All
        <3>. QED BY <2>2, <2>6, <3>1, WrittenOneMore
    <2>8. ConstructAt(Vec(Written(st, All(x), first, i), size), i, x)
            = Vec([Written(st, All(x), first, i) EXCEPT ![i] = x], size)
        BY <2>4, <2>5, <2>7, ConstructOne
    <2> HIDE DEF U
    <2>. QED BY <2>1, <2>2, <2>3, <2>7, <2>8
<1>8. c[1 .. n] = U[n]
    <2> HIDE DEF n, U
    <2>. QED BY <1>1, <1>6, <1>7, FoldSteps
<1>9. U[n] = Vec(Written(st, All(x), first, last), size)
    <2>1. first + n = last /\ n \in 0 .. n
        OBVIOUS
    <2> HIDE DEF n
    <2>. QED BY <2>1
<1>. QED BY <1>5, <1>8, <1>9

\* The storage that holds a sequence, and the vector that does.
Row(q) == [k \in 0 .. CAPACITY - 1 |-> IF k < Len(q) THEN q[k + 1] ELSE RAW]

LEMMA RowIsStorage ==
    ASSUME NEW q \in Seq(CellValues)
    PROVE  Row(q) \in Storage
BY DEF Row, Storage

LEMMA RowOneMore ==
    ASSUME NEW st \in Storage, NEW q, Row(q) \in Storage, NEW i \in Nat, i < CAPACITY
    PROVE  /\ Written(st, Row(q), 0, i)[i] = st[i]
           /\ \A x : x = Row(q)[i] => [Written(st, Row(q), 0, i) EXCEPT ![i] = x] = Written(st, Row(q), 0, i + 1)
<1>1. 0 \in Nat /\ 0 =< i
    OBVIOUS
<1>2. /\ Written(st, Row(q), 0, i)[i] = st[i]
      /\ [Written(st, Row(q), 0, i) EXCEPT ![i] = Row(q)[i]] = Written(st, Row(q), 0, i + 1)
    BY <1>1, WrittenOneMore
<1>. QED BY <1>2

LEMMA FillEachIs ==
    ASSUME NEW st \in Storage, NEW size \in Nat, NEW q \in Seq(CellValues), Len(q) =< CAPACITY,
           \A k \in 0 .. Len(q) - 1 : st[k] = RAW
    PROVE  CopyConstructed(Vec(st, size), q)
             = Vec(Written(st, Row(q), 0, Len(q)), size)
<1> DEFINE n == Len(q)
    v == Vec(st, size)
    R == Range_(0, n)
    Q(j) == j = [s \in SUBSET DOMAIN R |->
                    IF s = {} THEN v ELSE ConstructAt(j[s \ {Max(s)}], R[Max(s)], q[R[Max(s)] + 1])]
    G == [k \in 1 .. n |-> [u \in VectorType |-> ConstructAt(u, k - 1, q[k])]]
    U == [k \in 0 .. n |-> Vec(Written(st, Row(q), 0, k), size)]
<1>1. n \in Nat /\ v \in VectorType
    BY VecIsTyped
<1>2. DOMAIN R = 1 .. n /\ \A k \in 1 .. n : R[k] = k - 1 /\ R[k] + 1 = k
    BY DEF Range_
<1>3. \E j : Q(j)
    <2>1. G \in [1 .. n -> [VectorType -> VectorType]]
        <3>1. \A k \in 1 .. n : q[k] \in CellValues \cup {RAW}
            OBVIOUS
        <3>. QED BY <3>1, ConstructIsClosed
    <2>2. PICK it \in [SUBSET (1 .. n) -> VectorType] : IsFold(it, v, G, n)
        <3> HIDE DEF n, v, G
        <3>. QED BY <1>1, <2>1, FoldExists DEF HasFold
    <2>3. ASSUME NEW s \in SUBSET (1 .. n), s # {}
          PROVE  G[Max(s)][it[s \ {Max(s)}]] = ConstructAt(it[s \ {Max(s)}], R[Max(s)], q[R[Max(s)] + 1])
        <3>1. Max(s) \in 1 .. n
            <4> HIDE DEF n
            <4>. QED BY <1>1, <2>3, MaxIsIn
        <3>2. it[s \ {Max(s)}] \in VectorType
            OBVIOUS
        <3> HIDE DEF n, R
        <3>. QED BY <1>2, <3>1, <3>2
    <2>4. Q(it)
        <3> HIDE DEF n, v, G, R
        <3>. QED BY <1>2, <2>2, <2>3 DEF IsFold
    <2>. QED BY <2>4
<1> DEFINE c == CHOOSE j : Q(j)
<1>4. Q(c)
    <2> HIDE DEF Q
    <2>. QED BY <1>3, Zenon
<1>5. CopyConstructed(v, q) = c[1 .. n]
    <2>1. CopyConstructed(v, q) = c[DOMAIN R]
        BY DEF CopyConstructed, ConstructEach, FoldLeft, MapThenFoldSet
    <2> HIDE DEF c, R, v
    <2>. QED BY <1>2, <2>1
<1> HIDE DEF c
<1>6. c[{}] = U[0]
    <2>1. c[{}] = v
        <3> HIDE DEF n, v, R
        <3>. QED BY <1>2, <1>4
    <2>2. U[0] = v
        <3>1. 0 \in 0 .. n
            OBVIOUS
        <3>. QED BY <3>1, WrittenNone
    <2>. QED BY <2>1, <2>2
<1>7. ASSUME NEW k \in 1 .. n, c[1 .. (k - 1)] = U[k - 1] PROVE c[1 .. k] = U[k]
    <2>1. c[1 .. k] = ConstructAt(U[k - 1], k - 1, q[k])
        <3>1. k \in Nat /\ k # 0 /\ k \in 1 .. k /\ 1 .. k \in SUBSET (1 .. n)
            OBVIOUS
        <3>2. Max(1 .. k) = k /\ (1 .. k) \ {k} = 1 .. (k - 1)
            BY <3>1, MaxOfInterval
        <3>3. c[1 .. k] = ConstructAt(c[(1 .. k) \ {Max(1 .. k)}], R[Max(1 .. k)], q[R[Max(1 .. k)] + 1])
            <4>1. 1 .. k # {} /\ 1 .. k \in SUBSET DOMAIN R
                BY <1>2, <3>1
            <4> HIDE DEF n, v, R, U
            <4>. QED BY <1>4, <4>1
        <3>4. R[k] = k - 1 /\ R[k] + 1 = k
            BY <1>2
        <3> HIDE DEF n, v, R, U
        <3>. QED BY <1>7, <3>2, <3>3, <3>4
    <2>2. PICK i \in Nat : i = k - 1 /\ i < CAPACITY /\ i \in 0 .. n - 1
        BY VectorAssumption DEF VectorAssumption
    <2>3. U[k - 1] = Vec(Written(st, Row(q), 0, i), size) /\ U[k] = Vec(Written(st, Row(q), 0, i + 1), size)
        <3>1. k = i + 1 /\ k - 1 \in 0 .. n /\ k \in 0 .. n
            BY <2>2
        <3>. QED BY <2>2, <3>1
    <2>4. i \in 0 .. CAPACITY - 1 /\ 0 =< i
        BY <2>2, VectorAssumption DEF VectorAssumption
    <2>5. Written(st, Row(q), 0, i) \in Storage
        BY WrittenIsStorage, RowIsStorage
    <2>6. st[i] = RAW /\ Row(q)[i] = q[k]
        BY <2>2, <2>4 DEF Row
    <2>7. /\ Written(st, Row(q), 0, i)[i] = RAW
          /\ [Written(st, Row(q), 0, i) EXCEPT ![i] = q[k]] = Written(st, Row(q), 0, i + 1)
        <3>1. Row(q) \in Storage /\ 0 \in Nat
            BY RowIsStorage
        <3>2. i < CAPACITY
            BY <2>2
        <3>. QED BY <2>6, <3>1, <3>2, RowOneMore
    <2>8. ConstructAt(Vec(Written(st, Row(q), 0, i), size), i, q[k])
            = Vec([Written(st, Row(q), 0, i) EXCEPT ![i] = q[k]], size)
        BY <2>4, <2>5, <2>7, ConstructOne
    <2> HIDE DEF U, n
    <2>. QED BY <2>1, <2>2, <2>3, <2>7, <2>8
<1>8. c[1 .. n] = U[n]
    <2> HIDE DEF n, U
    <2>. QED BY <1>1, <1>6, <1>7, FoldSteps
<1>9. U[n] = Vec(Written(st, Row(q), 0, Len(q)), size)
    OBVIOUS
<1>. QED BY <1>5, <1>8, <1>9

\* The storage while erase() moves the elements after position down: those
\* below i have been moved, and the cell i is raw.
Slid(st, position, i) ==
    [k \in 0 .. CAPACITY - 1 |->
        IF k = i THEN RAW ELSE IF position =< k /\ k < i THEN st[k + 1] ELSE st[k]]

MoveDown(u, k) == DestroyAt(MovedFrom(ConstructAt(u, k - 1, u.m_storage[k]), k, k + 1), k)

LEMMA SlidIsStorage ==
    ASSUME NEW st \in Storage, NEW position \in Nat, NEW i \in 0 .. CAPACITY - 1
    PROVE  Slid(st, position, i) \in Storage
<1>1. \A k \in 0 .. CAPACITY - 1 : k < i => k + 1 \in 0 .. CAPACITY - 1
    BY VectorAssumption DEF VectorAssumption
<1>. QED BY <1>1 DEF Slid, Storage

LEMMA MoveDownIsClosed ==
    ASSUME NEW v \in VectorType, NEW k \in 0 .. CAPACITY - 1
    PROVE  MoveDown(v, k) \in VectorType
<1>1. v.m_storage[k] \in CellValues \cup {RAW}
    BY DEF VectorType, Storage
<1> DEFINE u == ConstructAt(v, k - 1, v.m_storage[k])
<1>2. u \in VectorType
    BY <1>1, ConstructIsClosed
<1>3. MovedFrom(u, k, k + 1) \in VectorType
    <2> HIDE DEF u
    <2>. QED BY <1>2 DEF MovedFrom, VectorType, Storage, CellValues
<1>. QED BY <1>3, DestroyIsClosed DEF MoveDown

LEMMA MoveDownOne ==
    ASSUME NEW st \in Storage, NEW size \in Nat, NEW position \in Nat, NEW i \in Nat,
           position =< i, i + 1 < CAPACITY, st[i + 1] # RAW
    PROVE  MoveDown(Vec(Slid(st, position, i), size), i + 1) = Vec(Slid(st, position, i + 1), size)
<1> DEFINE old == Slid(st, position, i)
    new == Slid(st, position, i + 1)
    one == [old EXCEPT ![i] = st[i + 1]]
    two == [k \in 0 .. CAPACITY - 1 |-> IF k = i + 1 THEN MOVED ELSE one[k]]
<1>1. i \in 0 .. CAPACITY - 1 /\ i + 1 \in 0 .. CAPACITY - 1 /\ (i + 1) - 1 = i
    BY VectorAssumption DEF VectorAssumption
<1>2. old \in Storage /\ old[i] = RAW /\ old[i + 1] = st[i + 1]
    <2>1. old \in Storage
        BY <1>1, SlidIsStorage
    <2>2. i # i + 1 /\ ~ (i + 1 < i)
        OBVIOUS
    <2>. QED BY <1>1, <2>1, <2>2 DEF Slid
<1>3. ConstructAt(Vec(old, size), i, st[i + 1]) = Vec(one, size)
    <2> HIDE DEF old
    <2>. QED BY <1>1, <1>2, ConstructOne
<1>4. one \in Storage
    BY <1>1, <1>2 DEF Storage
<1>5. MovedFrom(Vec(one, size), i + 1, (i + 1) + 1) = Vec(two, size)
    <2> HIDE DEF one
    <2> DEFINE moved == [k \in 0 .. CAPACITY - 1 |-> IF k \in i + 1 .. ((i + 1) + 1) - 1 THEN MOVED ELSE one[k]]
    <2>1. moved = two
        <3>1. \A k \in 0 .. CAPACITY - 1 : k \in i + 1 .. ((i + 1) + 1) - 1 <=> k = i + 1
            BY <1>1
        <3>. QED BY <3>1
    <2>2. MovedFrom(Vec(one, size), i + 1, (i + 1) + 1) = Vec(moved, size)
        <3> DEFINE w == Vec(one, size)
        <3>1. MovedFrom(w, i + 1, (i + 1) + 1) = [w EXCEPT !.m_storage = moved]
            <4>1. w.m_storage = one
                BY DEF Vec
            <4> HIDE DEF w
            <4>. QED BY <4>1 DEF MovedFrom
        <3> HIDE DEF moved
        <3>2. [w EXCEPT !.m_storage = moved] = Vec(moved, size)
            BY VecStorage
        <3>. QED BY <3>1, <3>2
    <2>. QED BY <2>1, <2>2
<1>6. two \in Storage /\ two[i + 1] = MOVED /\ MOVED # RAW
    <2> HIDE DEF one
    <2>. QED BY <1>1, <1>4, VectorAssumption DEF Storage, CellValues, VectorAssumption
<1>7. DestroyAt(Vec(two, size), i + 1) = Vec([two EXCEPT ![i + 1] = RAW], size)
    <2> HIDE DEF two
    <2>. QED BY <1>1, <1>6, DestroyOne
<1>8. [two EXCEPT ![i + 1] = RAW] = new
    <2>1. ASSUME NEW k \in 0 .. CAPACITY - 1
          PROVE  new[k] = IF k = i + 1 THEN RAW ELSE IF k = i THEN st[i + 1] ELSE old[k]
        BY <1>1 DEF Slid
    <2>2. [two EXCEPT ![i + 1] = RAW]
            = [k \in 0 .. CAPACITY - 1 |-> IF k = i + 1 THEN RAW ELSE IF k = i THEN st[i + 1] ELSE old[k]]
        <3> HIDE DEF old
        <3>. QED BY <1>1, <1>2 DEF Storage
    <2>3. new = [k \in 0 .. CAPACITY - 1 |-> new[k]]
        BY DEF Slid
    <2> HIDE DEF new, two, old
    <2>. QED BY <2>1, <2>2, <2>3
<1>9. Vec(old, size).m_storage[i + 1] = st[i + 1]
    BY <1>2 DEF Vec
<1>10. MoveDown(Vec(old, size), i + 1)
         = DestroyAt(MovedFrom(ConstructAt(Vec(old, size), i, st[i + 1]), i + 1, (i + 1) + 1), i + 1)
    <2> HIDE DEF old
    <2>. QED BY <1>1, <1>9 DEF MoveDown
<1> HIDE DEF old, new, one, two
<1>11. MoveDown(Vec(old, size), i + 1) = Vec(new, size)
    BY <1>3, <1>5, <1>7, <1>8, <1>10
<1>. QED BY <1>11 DEF old, new

LEMMA MoveDownEachIs ==
    ASSUME NEW st \in Storage, NEW size \in Nat, NEW position \in Nat, position < size, size =< CAPACITY,
           \A k \in 0 .. size - 1 : st[k] # RAW
    PROVE  FoldLeft(MoveDown, Vec(Slid(st, position, position), size), Range_(position + 1, size))
             = Vec(Slid(st, position, size - 1), size)
<1> DEFINE n == size - (position + 1)
    v == Vec(Slid(st, position, position), size)
    R == Range_(position + 1, size)
    Q(j) == j = [s \in SUBSET DOMAIN R |-> IF s = {} THEN v ELSE MoveDown(j[s \ {Max(s)}], R[Max(s)])]
    G == [k \in 1 .. n |-> [u \in VectorType |-> MoveDown(u, position + k)]]
    U == [k \in 0 .. n |-> Vec(Slid(st, position, position + k), size)]
<1>1. n \in Nat /\ v \in VectorType
    <2>1. position \in 0 .. CAPACITY - 1
        BY VectorAssumption DEF VectorAssumption
    <2>. QED BY <2>1, SlidIsStorage, VecIsTyped
<1>2. DOMAIN R = 1 .. n /\ \A k \in 1 .. n : R[k] = position + k /\ position + k \in 0 .. CAPACITY - 1
    BY VectorAssumption DEF VectorAssumption, Range_
<1>3. \E j : Q(j)
    <2>1. G \in [1 .. n -> [VectorType -> VectorType]]
        <3> HIDE DEF n
        <3>. QED BY <1>2, MoveDownIsClosed
    <2>2. PICK it \in [SUBSET (1 .. n) -> VectorType] : IsFold(it, v, G, n)
        <3> HIDE DEF n, v, G
        <3>. QED BY <1>1, <2>1, FoldExists DEF HasFold
    <2>3. ASSUME NEW s \in SUBSET (1 .. n), s # {}
          PROVE  G[Max(s)][it[s \ {Max(s)}]] = MoveDown(it[s \ {Max(s)}], R[Max(s)])
        <3>1. Max(s) \in 1 .. n
            <4> HIDE DEF n
            <4>. QED BY <1>1, <2>3, MaxIsIn
        <3>2. it[s \ {Max(s)}] \in VectorType
            OBVIOUS
        <3> HIDE DEF n, R
        <3>. QED BY <1>2, <3>1, <3>2
    <2>4. Q(it)
        <3> HIDE DEF n, v, G, R
        <3>. QED BY <1>2, <2>2, <2>3 DEF IsFold
    <2>. QED BY <2>4
<1> DEFINE c == CHOOSE j : Q(j)
<1>4. Q(c)
    <2> HIDE DEF Q
    <2>. QED BY <1>3, Zenon
<1>5. FoldLeft(MoveDown, v, R) = c[1 .. n]
    <2>1. FoldLeft(MoveDown, v, R) = c[DOMAIN R]
        BY DEF FoldLeft, MapThenFoldSet
    <2> HIDE DEF c, R, n, v
    <2>. QED BY <1>2, <2>1
<1> HIDE DEF c
<1>6. c[{}] = U[0]
    <2>1. c[{}] = v
        <3> HIDE DEF n, v, R
        <3>. QED BY <1>2, <1>4
    <2>2. U[0] = v
        <3>1. position + 0 = position /\ 0 \in 0 .. n
            OBVIOUS
        <3>. QED BY <3>1
    <2>. QED BY <2>1, <2>2
<1>7. ASSUME NEW k \in 1 .. n, c[1 .. (k - 1)] = U[k - 1] PROVE c[1 .. k] = U[k]
    <2>1. c[1 .. k] = MoveDown(U[k - 1], position + k)
        <3>1. k \in Nat /\ k # 0 /\ k \in 1 .. k /\ 1 .. k \in SUBSET (1 .. n)
            OBVIOUS
        <3>2. Max(1 .. k) = k /\ (1 .. k) \ {k} = 1 .. (k - 1)
            BY <3>1, MaxOfInterval
        <3>3. c[1 .. k] = MoveDown(c[(1 .. k) \ {Max(1 .. k)}], R[Max(1 .. k)])
            <4>1. 1 .. k # {} /\ 1 .. k \in SUBSET DOMAIN R
                BY <1>2, <3>1
            <4> HIDE DEF n, v, R, U
            <4>. QED BY <1>4, <4>1
        <3>4. R[k] = position + k
            BY <1>2
        <3> HIDE DEF n, v, R, U
        <3>. QED BY <1>7, <3>2, <3>3, <3>4
    <2>2. PICK i \in Nat : i + 1 = position + k /\ position =< i /\ i + 1 < size /\ i + 1 < CAPACITY
        <3>1. position + k - 1 \in Nat /\ (position + k - 1) + 1 = position + k
            OBVIOUS
        <3>2. position =< position + k - 1 /\ position + k < size /\ position + k < CAPACITY
            BY VectorAssumption DEF VectorAssumption
        <3>. QED BY <3>1, <3>2
    <2>3. U[k - 1] = Vec(Slid(st, position, i), size) /\ U[k] = Vec(Slid(st, position, i + 1), size)
        <3>1. position + (k - 1) = i /\ k - 1 \in 0 .. n /\ k \in 0 .. n
            BY <2>2
        <3>. QED BY <2>2, <3>1
    <2>4. st[i + 1] # RAW
        BY <2>2
    <2>5. MoveDown(Vec(Slid(st, position, i), size), i + 1) = Vec(Slid(st, position, i + 1), size)
        BY <2>2, <2>4, MoveDownOne
    <2> HIDE DEF U, n
    <2>. QED BY <2>1, <2>2, <2>3, <2>5
<1>8. c[1 .. n] = U[n]
    <2> HIDE DEF n, U
    <2>. QED BY <1>1, <1>6, <1>7, FoldSteps
<1>9. U[n] = Vec(Slid(st, position, size - 1), size)
    <2>1. position + n = size - 1 /\ n \in 0 .. n
        OBVIOUS
    <2> HIDE DEF n
    <2>. QED BY <2>1
<1>. QED BY <1>5, <1>8, <1>9

-----------------------------------------------------------------------------
(* What each call makes of the vector that holds a sequence.               *)

Of(q) == Vec(Row(q), Len(q))

Contents == {q \in Seq(Elements \cup {Default}) : Len(q) =< CAPACITY}

LEMMA EmptyIs == Of(<<>>) = Vec(Raw, 0) /\ Fresh = Of(<<>>) /\ <<>> \in Contents
<1>1. Len(<<>>) = 0 /\ <<>> \in Contents
    BY VectorAssumption DEF VectorAssumption, Contents
<1>2. Row(<<>>) = Raw
    BY <1>1 DEF Row, Raw
<1>3. Fresh = Vec(Raw, 0)
    BY DEF Fresh, Vec, Raw
<1>. QED BY <1>1, <1>2, <1>3 DEF Of

LEMMA FilledIs ==
    ASSUME NEW q \in Contents
    PROVE  Filled(Of(<<>>), q) = Of(q)
<1>1. q \in Seq(CellValues) /\ Len(q) =< CAPACITY /\ Len(q) \in Nat
    BY DEF Contents, CellValues
<1>2. Of(<<>>) = Vec(Raw, 0)
    BY EmptyIs
<1>3. [Vec(Raw, 0) EXCEPT !.m_size = Len(q)] = Vec(Raw, Len(q))
    BY VecSize
<1>4. Raw \in Storage /\ \A k \in 0 .. Len(q) - 1 : Raw[k] = RAW
    BY <1>1, RawIsStorage, VectorAssumption DEF Raw, VectorAssumption
<1>5. CopyConstructed(Vec(Raw, Len(q)), q)
        = Vec(Written(Raw, Row(q), 0, Len(q)), Len(q))
    BY <1>1, <1>4, FillEachIs
<1>6. Written(Raw, Row(q), 0, Len(q)) = Row(q)
    BY <1>1 DEF Written, Raw, Row
<1>7. Filled(Of(<<>>), q) = CopyConstructed(Vec(Raw, Len(q)), q)
    BY <1>2, <1>3 DEF Filled, CopyConstructed
<1>. QED BY <1>5, <1>6, <1>7 DEF Of

LEMMA CellsIs ==
    ASSUME NEW q \in Contents
    PROVE  Cells(Of(q)) = q /\ Of(q).m_size = Len(q) /\ Of(q).m_storage = Row(q) /\ Len(q) \in 0 .. CAPACITY
<1>1. Of(q).m_size = Len(q) /\ Of(q).m_storage = Row(q)
    BY DEF Of, Vec
<1>2. q \in Seq(Elements \cup {Default}) /\ Len(q) \in 0 .. CAPACITY
    BY VectorAssumption DEF Contents, VectorAssumption
<1>3. \A k \in 1 .. Len(q) : Row(q)[k - 1] = q[k]
    BY <1>2, VectorAssumption DEF Row, VectorAssumption
<1>4. Cells(Of(q)) = [k \in 1 .. Len(q) |-> Row(q)[k - 1]]
    BY <1>1 DEF Cells
<1>5. q = [k \in 1 .. Len(q) |-> q[k]]
    BY <1>2
<1>6. Cells(Of(q)) = q
    BY <1>3, <1>4, <1>5
<1>. QED BY <1>1, <1>2, <1>6

LEMMA ClearIs ==
    ASSUME NEW q \in Seq(CellValues), Len(q) =< CAPACITY
    PROVE  clear(Of(q)) = Of(<<>>)
<1>1. Row(q) \in Storage /\ Len(q) \in Nat /\ 0 =< Len(q)
    BY RowIsStorage
<1>2. \A k \in 0 .. Len(q) - 1 : Row(q)[k] # RAW
    BY <1>1, VectorAssumption DEF Row, VectorAssumption, CellValues
<1>3. DestroyEach(Of(q), 0, Len(q)) = Vec(Written(Row(q), Raw, 0, Len(q)), Len(q))
    BY <1>1, <1>2, DestroyEachIs DEF Of
<1>4. Written(Row(q), Raw, 0, Len(q)) = Raw
    BY <1>1 DEF Written, Raw, Row
<1>5. Of(q).m_size = Len(q)
    BY DEF Of, Vec
<1>6. [Vec(Raw, Len(q)) EXCEPT !.m_size = 0] = Vec(Raw, 0)
    BY VecSize
<1>7. clear(Of(q)) = Vec(Raw, 0)
    BY <1>3, <1>4, <1>5, <1>6 DEF clear
<1>. QED BY <1>7, EmptyIs

LEMMA DestroyedIs ==
    ASSUME NEW q \in Contents
    PROVE  Destroyed(Of(q)) = Of(<<>>)
<1>1. clear(Of(q)) = Vec(Raw, 0)
    BY ClearIs, EmptyIs DEF Contents, CellValues
<1>2. Living(Vec(Raw, 0)) = {} /\ Of(q).broken = FALSE
    BY DEF Living, Vec, Raw, Of
<1>3. Destroyed(Of(q)) = [Fresh EXCEPT !.broken = FALSE]
    BY <1>1, <1>2 DEF Destroyed
<1>4. [Fresh EXCEPT !.broken = FALSE] = Fresh
    <2>1. ASSUME NEW b
          PROVE  [[m_storage |-> Raw, m_size |-> 0, broken |-> b] EXCEPT !.broken = b]
                   = [m_storage |-> Raw, m_size |-> 0, broken |-> b]
        OBVIOUS
    <2>2. Fresh = [m_storage |-> Raw, m_size |-> 0, broken |-> FALSE]
        BY DEF Fresh, Raw
    <2>. QED BY <2>1, <2>2, Zenon
<1>. QED BY <1>3, <1>4, EmptyIs

LEMMA MovedIs ==
    ASSUME NEW q \in Contents
    PROVE  clear(MovedFrom(Of(q), 0, Len(q))) = Of(<<>>)
<1> DEFINE m == [k \in 1 .. Len(q) |-> MOVED]
<1>1. Len(q) \in Nat /\ Len(q) =< CAPACITY
    BY DEF Contents
<1>2. m \in Seq(CellValues) /\ Len(m) = Len(q)
    BY <1>1 DEF CellValues
<1> DEFINE moved == [k \in 0 .. CAPACITY - 1 |-> IF k \in 0 .. Len(q) - 1 THEN MOVED ELSE Row(q)[k]]
<1>3. moved = Row(m)
    <2>1. \A k \in 0 .. CAPACITY - 1 : moved[k] = Row(m)[k]
        BY <1>1, <1>2 DEF Row
    <2>. QED BY <2>1 DEF Row
<1>4. MovedFrom(Of(q), 0, Len(q)) = [Of(q) EXCEPT !.m_storage = moved]
    <2>1. Of(q).m_storage = Row(q)
        BY DEF Of, Vec
    <2>. QED BY <2>1 DEF MovedFrom
<1>5. [Of(q) EXCEPT !.m_storage = moved] = Vec(moved, Len(q))
    BY VecStorage DEF Of
<1> HIDE DEF m, moved
<1>6. MovedFrom(Of(q), 0, Len(q)) = Of(m)
    BY <1>2, <1>3, <1>4, <1>5 DEF Of
<1>. QED BY <1>1, <1>2, <1>6, ClearIs

LEMMA PushedIs ==
    ASSUME NEW q \in Contents, Len(q) < CAPACITY, NEW x \in Elements
    PROVE  /\ [ConstructAt(Of(q), Len(q), x) EXCEPT !.m_size = @ + 1] = Of(Append(q, x))
           /\ Append(q, x) \in Contents
<1> DEFINE n == Len(q)
    st == [Row(q) EXCEPT ![n] = x]
<1>1. n \in Nat /\ n \in 0 .. CAPACITY - 1 /\ q \in Seq(Elements \cup {Default})
    BY VectorAssumption DEF Contents, VectorAssumption
<1>2. Row(q) \in Storage /\ Row(q)[n] = RAW
    BY <1>1, RowIsStorage DEF Row, CellValues
<1>3. ConstructAt(Of(q), n, x) = Vec(st, n)
    <2> HIDE DEF n
    <2>. QED BY <1>1, <1>2, ConstructOne DEF Of, n
<1>4. [Vec(st, n) EXCEPT !.m_size = @ + 1] = Vec(st, n + 1)
    <2>1. Vec(st, n).m_size = n
        BY DEF Vec
    <2>2. [Vec(st, n) EXCEPT !.m_size = n + 1] = Vec(st, n + 1)
        BY VecSize
    <2> HIDE DEF st, n
    <2>. QED BY <2>1, <2>2
<1>5. Append(q, x) \in Contents /\ Len(Append(q, x)) = n + 1
    BY <1>1, VectorAssumption DEF Contents, VectorAssumption
<1>6. st = Row(Append(q, x))
    <2>1. \A k \in 0 .. CAPACITY - 1 : st[k] = Row(Append(q, x))[k]
        <3>1. \A k \in 1 .. n : Append(q, x)[k] = q[k]
            BY <1>1
        <3>2. Append(q, x)[n + 1] = x
            BY <1>1
        <3>. QED BY <1>1, <1>5, <3>1, <3>2 DEF Row
    <2>2. st = [k \in 0 .. CAPACITY - 1 |-> st[k]]
        BY DEF Row
    <2> HIDE DEF st
    <2>. QED BY <2>1, <2>2 DEF Row
<1> HIDE DEF n, st
<1>. QED BY <1>3, <1>4, <1>5, <1>6 DEF Of, n

LEMMA PoppedIs ==
    ASSUME NEW q \in Contents, Len(q) # 0
    PROVE  /\ [DestroyAt(Of(q), Len(q) - 1) EXCEPT !.m_size = @ - 1] = Of(Front(q))
           /\ Front(q) \in Contents
<1> DEFINE n == Len(q) - 1
    st == [Row(q) EXCEPT ![n] = RAW]
<1>1. n \in Nat /\ n \in 0 .. CAPACITY - 1 /\ q \in Seq(Elements \cup {Default}) /\ Len(q) = n + 1
    BY VectorAssumption DEF Contents, VectorAssumption
<1>2. Row(q) \in Storage /\ Row(q)[n] # RAW
    <2>1. q[n + 1] \in Elements \cup {Default}
        BY <1>1
    <2>. QED BY <1>1, <2>1, RowIsStorage, VectorAssumption DEF Row, CellValues, VectorAssumption
<1>3. DestroyAt(Of(q), n) = Vec(st, Len(q))
    <2> HIDE DEF n
    <2>. QED BY <1>1, <1>2, DestroyOne DEF Of
<1>4. [Vec(st, Len(q)) EXCEPT !.m_size = @ - 1] = Vec(st, n)
    <2>1. Vec(st, Len(q)).m_size = Len(q)
        BY DEF Vec
    <2>2. [Vec(st, Len(q)) EXCEPT !.m_size = n] = Vec(st, n)
        BY VecSize
    <2> HIDE DEF st
    <2>. QED BY <2>1, <2>2
<1>5. Front(q) \in Contents /\ Len(Front(q)) = n /\ \A k \in 1 .. n : Front(q)[k] = q[k]
    BY <1>1, VectorAssumption DEF Contents, VectorAssumption, Front
<1>6. st = Row(Front(q))
    <2>1. \A k \in 0 .. CAPACITY - 1 : st[k] = Row(Front(q))[k]
        <3>1. \A k \in 0 .. CAPACITY - 1 : st[k] = IF k = n THEN RAW ELSE Row(q)[k]
            BY <1>1, <1>2 DEF Storage
        <3>2. ASSUME NEW k \in 0 .. CAPACITY - 1 PROVE Row(Front(q))[k] = IF k = n THEN RAW ELSE Row(q)[k]
            <4>0. k \in Nat
                BY VectorAssumption DEF VectorAssumption
            <4> HIDE DEF n, st
            <4>1. CASE k < n
                <5>1. k + 1 \in 1 .. n /\ k < Len(q) /\ k # n
                    BY <1>1, <4>0, <4>1
                <5>. QED BY <1>5, <4>1, <5>1 DEF Row
            <4>2. CASE k = n
                BY <1>1, <1>5, <4>2 DEF Row
            <4>3. CASE k > n
                BY <1>1, <1>5, <4>0, <4>3 DEF Row
            <4>. QED BY <1>1, <4>0, <4>1, <4>2, <4>3
        <3>. QED BY <3>1, <3>2
    <2>2. st = [k \in 0 .. CAPACITY - 1 |-> st[k]]
        BY DEF Row
    <2> HIDE DEF st
    <2>. QED BY <2>1, <2>2 DEF Row
<1> HIDE DEF st
<1>. QED BY <1>3, <1>4, <1>5, <1>6 DEF Of

Resized(q, size, x) == [k \in 1 .. size |-> IF k <= Len(q) THEN q[k] ELSE x]

LEMMA ResizedIs ==
    ASSUME NEW q \in Contents, NEW size \in 0 .. CAPACITY, NEW x \in Elements \cup {Default}
    PROVE  Resized(q, size, x) \in Contents /\ Len(Resized(q, size, x)) = size
<1>1. size \in Nat /\ size =< CAPACITY /\ q \in Seq(Elements \cup {Default}) /\ Len(q) \in Nat
    BY VectorAssumption DEF VectorAssumption, Contents
<1>2. \A k \in 1 .. size : (IF k <= Len(q) THEN q[k] ELSE x) \in Elements \cup {Default}
    BY <1>1
<1>3. Resized(q, size, x) \in [1 .. size -> Elements \cup {Default}]
    BY <1>2 DEF Resized
<1>. QED BY <1>1, <1>3 DEF Contents

LEMMA ShrunkIs ==
    ASSUME NEW q \in Contents, NEW size \in 0 .. CAPACITY, NEW x \in Elements \cup {Default}, size < Len(q)
    PROVE  [DestroyEach(Of(q), size, Len(q)) EXCEPT !.m_size = size] = Of(Resized(q, size, x))
<1>1. size \in Nat /\ q \in Seq(CellValues) /\ Len(q) \in Nat /\ Len(q) =< CAPACITY /\ size =< Len(q)
    BY DEF Contents, CellValues
<1>2. Row(q) \in Storage /\ \A k \in size .. Len(q) - 1 : Row(q)[k] # RAW
    <2>1. \A k \in size .. Len(q) - 1 : k + 1 \in 1 .. Len(q) /\ k \in 0 .. CAPACITY - 1
        BY <1>1, VectorAssumption DEF VectorAssumption
    <2>. QED BY <1>1, <2>1, RowIsStorage, VectorAssumption DEF Row, VectorAssumption, CellValues
<1>3. DestroyEach(Of(q), size, Len(q)) = Vec(Written(Row(q), Raw, size, Len(q)), Len(q))
    BY <1>1, <1>2, DestroyEachIs DEF Of
<1>4. Written(Row(q), Raw, size, Len(q)) = Row(Resized(q, size, x))
    <2>1. Len(Resized(q, size, x)) = size /\ \A k \in 1 .. size : Resized(q, size, x)[k] = q[k]
        BY <1>1, ResizedIs DEF Resized
    <2>. QED BY <1>1, <2>1 DEF Written, Raw, Row
<1>5. [Vec(Row(Resized(q, size, x)), Len(q)) EXCEPT !.m_size = size] = Vec(Row(Resized(q, size, x)), size)
    BY VecSize
<1>. QED BY <1>3, <1>4, <1>5, ResizedIs DEF Of

LEMMA GrownIs ==
    ASSUME NEW q \in Contents, NEW size \in 0 .. CAPACITY, NEW x \in Elements \cup {Default}, size > Len(q)
    PROVE  [ConstructedFrom(Of(q), Len(q), size, x) EXCEPT !.m_size = size] = Of(Resized(q, size, x))
<1>1. /\ size \in Nat /\ q \in Seq(CellValues) /\ Len(q) \in Nat /\ size =< CAPACITY /\ Len(q) =< size /\ x \in CellValues
      /\ x \in CellValues \cup {RAW}
    BY VectorAssumption DEF Contents, CellValues, VectorAssumption
<1>2. Row(q) \in Storage /\ \A k \in Len(q) .. size - 1 : Row(q)[k] = RAW
    <2>1. \A k \in Len(q) .. size - 1 : k \in 0 .. CAPACITY - 1 /\ ~ (k < Len(q))
        BY <1>1, VectorAssumption DEF VectorAssumption
    <2>. QED BY <1>1, <2>1, RowIsStorage DEF Row
<1>3. ConstructedFrom(Of(q), Len(q), size, x) = Vec(Written(Row(q), All(x), Len(q), size), Len(q))
    <2>1. ConstructedFrom(Vec(Row(q), Len(q)), Len(q), size, x)
            = Vec(Written(Row(q), All(x), Len(q), size), Len(q))
        BY <1>1, <1>2, ConstructEachIs
    <2>. QED BY <2>1 DEF Of
<1>4. Written(Row(q), All(x), Len(q), size) = Row(Resized(q, size, x))
    <2>1. /\ Len(Resized(q, size, x)) = size
          /\ \A k \in 1 .. size : Resized(q, size, x)[k] = IF k <= Len(q) THEN q[k] ELSE x
        BY <1>1, ResizedIs DEF Resized
    <2>. QED BY <1>1, <2>1 DEF Written, All, Row
<1>5. [Vec(Row(Resized(q, size, x)), Len(q)) EXCEPT !.m_size = size] = Vec(Row(Resized(q, size, x)), size)
    BY VecSize
<1>. QED BY <1>3, <1>4, <1>5, ResizedIs DEF Of

LEMMA KeptIs ==
    ASSUME NEW q \in Contents, NEW size \in 0 .. CAPACITY, NEW x \in Elements \cup {Default}, size = Len(q)
    PROVE  [Of(q) EXCEPT !.m_size = size] = Of(Resized(q, size, x))
<1>1. q = Resized(q, size, x)
    <2>1. q \in Seq(Elements \cup {Default})
        BY DEF Contents
    <2>2. q = [k \in 1 .. size |-> q[k]]
        BY <2>1
    <2>. QED BY <2>2 DEF Resized
<1>. QED BY <1>1, VecSize DEF Of

LEMMA ErasedIs ==
    ASSUME NEW q \in Contents, NEW position \in Nat, position < Len(q)
    PROVE  /\ [FoldLeft(MoveDown, DestroyAt(Of(q), position), Range_(position + 1, Len(q))) EXCEPT !.m_size = @ - 1]
                = Of(RemoveAt(q, position + 1))
           /\ RemoveAt(q, position + 1) \in Contents
<1> DEFINE n == Len(q) - 1
    r == RemoveAt(q, position + 1)
<1>1. /\ q \in Seq(CellValues) /\ q \in Seq(Elements \cup {Default}) /\ n \in Nat /\ Len(q) =< CAPACITY /\ Len(q) = n + 1
      /\ Len(q) \in Nat /\ position \in 0 .. CAPACITY - 1
    BY VectorAssumption DEF Contents, CellValues, VectorAssumption
<1>2. Row(q) \in Storage /\ \A k \in 0 .. Len(q) - 1 : Row(q)[k] # RAW
    <2>1. \A k \in 0 .. Len(q) - 1 : k + 1 \in 1 .. Len(q) /\ k \in 0 .. CAPACITY - 1
        BY <1>1, VectorAssumption DEF VectorAssumption
    <2>. QED BY <1>1, <2>1, RowIsStorage, VectorAssumption DEF Row, VectorAssumption, CellValues
<1>3. DestroyAt(Of(q), position) = Vec(Slid(Row(q), position, position), Len(q))
    <2>1. [Row(q) EXCEPT ![position] = RAW] = Slid(Row(q), position, position)
        <3>1. ASSUME NEW k \in 0 .. CAPACITY - 1
              PROVE  Slid(Row(q), position, position)[k] = IF k = position THEN RAW ELSE Row(q)[k]
            BY <1>1 DEF Slid
        <3>2. [Row(q) EXCEPT ![position] = RAW]
                = [k \in 0 .. CAPACITY - 1 |-> IF k = position THEN RAW ELSE Row(q)[k]]
            BY DEF Row
        <3>3. Slid(Row(q), position, position) = [k \in 0 .. CAPACITY - 1 |-> Slid(Row(q), position, position)[k]]
            BY DEF Slid
        <3>. QED BY <3>1, <3>2, <3>3
    <2>2. Row(q)[position] # RAW
        BY <1>1, <1>2
    <2>. QED BY <1>1, <1>2, <2>1, <2>2, DestroyOne DEF Of
<1>4. FoldLeft(MoveDown, DestroyAt(Of(q), position), Range_(position + 1, Len(q)))
        = Vec(Slid(Row(q), position, n), Len(q))
    BY <1>1, <1>2, <1>3, MoveDownEachIs
<1>5. r \in Seq(Elements \cup {Default}) /\ Len(r) = n /\ \A k \in 1 .. n : r[k] = IF k =< position THEN q[k] ELSE q[k + 1]
    <2> DEFINE a == SubSeq(q, 1, (position + 1) - 1)
        b == SubSeq(q, (position + 1) + 1, Len(q))
    <2>1. a \in Seq(Elements \cup {Default}) /\ Len(a) = position /\ \A k \in 1 .. position : a[k] = q[k]
        BY <1>1
    <2>2. /\ b \in Seq(Elements \cup {Default}) /\ Len(b) = n - position
          /\ \A k \in 1 .. n - position : b[k] = q[position + 1 + k]
        <3> DEFINE m == (position + 1) + 1
        <3>1. m \in Int /\ Len(q) \in Int /\ \A k \in m .. Len(q) : q[k] \in Elements \cup {Default}
            BY <1>1
        <3> HIDE DEF m
        <3>2. /\ b \in Seq(Elements \cup {Default})
              /\ Len(b) = IF m =< Len(q) THEN Len(q) - m + 1 ELSE 0
              /\ \A k \in 1 .. Len(q) - m + 1 : b[k] = q[m + k - 1]
            BY <3>1, SubSeqProperties DEF m
        <3>3. /\ Len(q) - m + 1 = n - position /\ m =< Len(q) + 1
              /\ \A k \in Int : m + k - 1 = position + 1 + k
            BY <1>1 DEF m
        <3> HIDE DEF b, n
        <3>4. Len(b) = n - position
            BY <1>1, <3>1, <3>2, <3>3
        <3>5. ASSUME NEW k \in 1 .. n - position PROVE b[k] = q[position + 1 + k]
            <4>1. k \in 1 .. Len(q) - m + 1 /\ k \in Int
                BY <3>3
            <4>2. b[k] = q[m + k - 1]
                BY <3>2, <4>1
            <4>. QED BY <3>3, <4>1, <4>2
        <3>. QED BY <3>2, <3>4, <3>5
    <2>3. r = a \o b
        BY DEF RemoveAt
    <2> HIDE DEF a, b, n, r
    <2>4. r \in Seq(Elements \cup {Default}) /\ Len(r) = n
        <3>1. Len(r) = Len(a) + Len(b) /\ r \in Seq(Elements \cup {Default})
            BY <2>1, <2>2, <2>3, ConcatProperties
        <3>. QED BY <1>1, <2>1, <2>2, <3>1
    <2>5. ASSUME NEW k \in 1 .. n PROVE r[k] = IF k =< position THEN q[k] ELSE q[k + 1]
        <3>1. CASE k =< position
            BY <1>1, <2>1, <2>2, <2>3, <3>1
        <3>2. CASE k > position
            <4>1. k - position \in 1 .. n - position /\ position + 1 + (k - position) = k + 1
                BY <1>1, <3>2
            <4>2. r[k] = b[k - position]
                BY <1>1, <2>1, <2>2, <2>3, <3>2
            <4>. QED BY <2>2, <3>2, <4>1, <4>2
        <3>. QED BY <1>1, <3>1, <3>2
    <2>. QED BY <2>4, <2>5
<1>6. Slid(Row(q), position, n) = Row(r)
    <2>1. ASSUME NEW k \in 0 .. CAPACITY - 1 PROVE Slid(Row(q), position, n)[k] = Row(r)[k]
        <3> HIDE DEF n, r
        <3>1. CASE k < n
            <4>1. k + 1 \in 0 .. CAPACITY - 1 /\ k + 1 \in 1 .. n /\ k + 1 < Len(q)
                BY <1>1, <3>1, VectorAssumption DEF VectorAssumption
            <4>2. Row(q)[k] = q[k + 1] /\ Row(q)[k + 1] = q[k + 2]
                BY <1>1, <4>1 DEF Row
            <4>3. Row(r)[k] = r[k + 1]
                BY <1>5, <3>1 DEF Row
            <4>4. Slid(Row(q), position, n)[k] = IF position =< k THEN q[k + 2] ELSE q[k + 1]
                BY <1>1, <3>1, <4>2 DEF Slid
            <4>. QED BY <1>1, <1>5, <4>1, <4>3, <4>4
        <3>2. CASE k >= n
            BY <1>1, <1>5, <3>2 DEF Slid, Row
        <3>. QED BY <1>1, <3>1, <3>2
    <2>. QED BY <2>1 DEF Slid, Row
<1>7. [Vec(Row(r), Len(q)) EXCEPT !.m_size = @ - 1] = Vec(Row(r), n)
    <2>1. Vec(Row(r), Len(q)).m_size = Len(q)
        BY DEF Vec
    <2>2. [Vec(Row(r), Len(q)) EXCEPT !.m_size = n] = Vec(Row(r), n)
        BY VecSize
    <2> HIDE DEF r
    <2>. QED BY <2>1, <2>2
<1>8. r \in Contents
    <2> HIDE DEF r
    <2>. QED BY <1>1, <1>5, VectorAssumption DEF Contents, VectorAssumption
<1>. QED BY <1>4, <1>5, <1>6, <1>7, <1>8 DEF Of

-----------------------------------------------------------------------------
(* The invariant, and the calls one by one: each keeps it and is a call of *)
(* the bounded sequences.                                                  *)

Held == [name \in Vectors |-> Cells(vectors[name])]

VectorTypeOK ==
    /\ vectors \in [Vectors -> VectorType]
    /\ fatal \in BOOLEAN

\* Each vector is the one that holds its sequence, and nothing else.
HoldsSequence == \A name \in Vectors : \E q \in Contents : vectors[name] = Of(q)

VectorInv == VectorTypeOK /\ HoldsSequence

LEMMA OfIsTyped ==
    ASSUME NEW q \in Contents
    PROVE  Of(q) \in VectorType
<1>1. q \in Seq(CellValues) /\ Len(q) \in Nat
    BY DEF Contents, CellValues
<1>. QED BY <1>1, RowIsStorage, VecIsTyped DEF Of

\* Each vector is told apart by the sequence that it holds.
LEMMA HeldIs ==
    ASSUME VectorInv, NEW name \in Vectors
    PROVE  Held[name] \in Contents /\ vectors[name] = Of(Held[name])
<1>1. PICK q \in Contents : vectors[name] = Of(q)
    BY DEF VectorInv, HoldsSequence
<1>. QED BY <1>1, CellsIs DEF Held

\* One vector is given another sequence.
LEMMA SetsOne ==
    ASSUME VectorInv, NEW name \in Vectors, NEW q \in Contents, Sets(name, Of(q))
    PROVE  VectorInv' /\ Held' = [Held EXCEPT ![name] = q] /\ UNCHANGED fatal
<1>1. vectors' = [vectors EXCEPT ![name] = Of(q)] /\ fatal' = fatal
    BY DEF Sets
<1>2. \A n \in Vectors : vectors'[n] = IF n = name THEN Of(q) ELSE vectors[n]
    BY <1>1 DEF VectorInv, VectorTypeOK
<1>3. Of(q) \in VectorType
    BY OfIsTyped
<1>4. VectorTypeOK'
    BY <1>1, <1>3 DEF VectorInv, VectorTypeOK
<1>5. HoldsSequence'
    <2>1. \A n \in Vectors : \E p \in Contents : vectors'[n] = Of(p)
        BY <1>2 DEF VectorInv, HoldsSequence
    <2>. QED BY <2>1 DEF HoldsSequence, Contents, Of, Vec, Row
<1>6. Held' = [Held EXCEPT ![name] = q]
    <2>1. Held' = [n \in Vectors |-> Cells(vectors'[n])]
        BY DEF Held, Cells
    <2>2. \A n \in Vectors : Cells(vectors'[n]) = IF n = name THEN q ELSE Held[n]
        BY <1>2, CellsIs DEF Held
    <2>3. [Held EXCEPT ![name] = q] = [n \in Vectors |-> IF n = name THEN q ELSE Held[n]]
        BY DEF Held
    <2>. QED BY <2>1, <2>2, <2>3
<1>. QED BY <1>1, <1>4, <1>5, <1>6 DEF VectorInv

LEMMA KeepsAll ==
    ASSUME VectorInv, UNCHANGED vectors, fatal' \in BOOLEAN
    PROVE  VectorInv' /\ Held' = Held
BY DEF VectorInv, VectorTypeOK, HoldsSequence, Held, Cells, Contents, Of, Vec, Row, VectorType, Storage, CellValues

\* A move: the source is left empty.
LEMMA TakesIs ==
    ASSUME VectorInv, NEW name \in Vectors, NEW source \in Vectors, name # source,
           Takes(name, Of(<<>>), source)
    PROVE  /\ VectorInv'
           /\ Held' = [Held EXCEPT ![name] = Held[source], ![source] = <<>>]
           /\ UNCHANGED fatal
<1> DEFINE q == Held[source]
<1>1. q \in Contents /\ vectors[source] = Of(q)
    BY HeldIs
<1> HIDE DEF q
<1>2. Filled(Of(<<>>), Cells(vectors[source])) = Of(q)
    BY <1>1, CellsIs, FilledIs
<1>3. clear(MovedFrom(vectors[source], 0, vectors[source].m_size)) = Of(<<>>)
    BY <1>1, CellsIs, MovedIs
<1>4. \A n \in Vectors : vectors'[n] = IF n = source THEN Of(<<>>) ELSE IF n = name THEN Of(q) ELSE vectors[n]
    BY <1>2, <1>3 DEF Takes, VectorInv, VectorTypeOK
<1>5. fatal' = fatal /\ DOMAIN vectors' = Vectors /\ vectors' = [n \in Vectors |-> vectors'[n]]
    BY DEF Takes, VectorInv, VectorTypeOK
<1>6. <<>> \in Contents
    BY EmptyIs
<1>7. Of(q) \in VectorType /\ Of(<<>>) \in VectorType
    BY <1>1, <1>6, OfIsTyped
<1>8. VectorTypeOK'
    BY <1>4, <1>5, <1>7 DEF VectorInv, VectorTypeOK
<1>9. HoldsSequence'
    <2>1. \A n \in Vectors : \E p \in Contents : vectors'[n] = Of(p)
        BY <1>1, <1>4, <1>6 DEF VectorInv, HoldsSequence
    <2>. QED BY <2>1 DEF HoldsSequence, Contents, Of, Vec, Row
<1>10. Held' = [Held EXCEPT ![name] = q, ![source] = <<>>]
    <2>1. Held' = [n \in Vectors |-> Cells(vectors'[n])]
        BY DEF Held, Cells
    <2>2. \A n \in Vectors : Cells(vectors'[n]) = IF n = source THEN <<>> ELSE IF n = name THEN q ELSE Held[n]
        BY <1>1, <1>4, <1>6, CellsIs DEF Held
    <2>3. [Held EXCEPT ![name] = q, ![source] = <<>>]
            = [n \in Vectors |-> IF n = source THEN <<>> ELSE IF n = name THEN q ELSE Held[n]]
        BY DEF Held
    <2>. QED BY <2>1, <2>2, <2>3
<1>. QED BY <1>5, <1>8, <1>9, <1>10 DEF VectorInv, q

Tells(operation, name, argument, answer) ==
    vector_call' = [operation |-> operation, name |-> name, argument |-> argument, answer |-> answer]

LEMMA SequencesAre ==
    ASSUME NEW s \in Sequences_
    PROVE  Len(s) \in Nat /\ (Len(s) <= CAPACITY => s \in Contents)
<1>1. PICK n \in 0 .. CAPACITY + 1 : s \in [1 .. n -> Elements \cup {Default}]
    BY DEF Sequences_
<1>2. n \in Nat
    BY VectorAssumption DEF VectorAssumption
<1>3. s \in Seq(Elements \cup {Default})
    BY <1>1, <1>2
<1>. QED BY <1>3 DEF Contents

\* What the promise says of each kind of call.
LEMMA LeavesIs ==
    ASSUME ~ fatal, VectorInv, NEW name \in Vectors, NEW s, Len(s) \in Nat,
           \/ Len(s) <= CAPACITY /\ Held' = [Held EXCEPT ![name] = s] /\ UNCHANGED fatal
           \/ ~ (Len(s) <= CAPACITY) /\ fatal' = TRUE /\ Held' = Held,
           vector_call'.name = name
    PROVE  Bounded!Leaves(vector_call', s)
BY DEF Bounded!Leaves, Held

LEMMA ConstructorStep ==
    ASSUME VectorInv, ~ fatal, NEW name \in Vectors, NEW s \in Sequences_, Constructor(name, s) \/ assign(name, s)
    PROVE  VectorInv' /\ Bounded!Step
<1>1. Held[name] \in Contents /\ vectors[name] = Of(Held[name])
    BY HeldIs
<1>2. Destroyed(vectors[name]) = Of(<<>>) /\ clear(vectors[name]) = Of(<<>>)
    <2>1. Held[name] \in Seq(CellValues) /\ Len(Held[name]) =< CAPACITY
        BY <1>1 DEF Contents, CellValues
    <2>. QED BY <1>1, <2>1, DestroyedIs, ClearIs
<1>3. PICK operation \in {"constructor", "assign"} : Tells(operation, name, s, NONE)
    BY DEF Constructor, assign, Calls, Tells
<1>4. PICOLIBRARY_EXPECT(Len(s) <= CAPACITY, Sets(name, Filled(Of(<<>>), s)))
    BY <1>2 DEF Constructor, assign
<1>5. /\ VectorInv'
      /\ \/ Len(s) <= CAPACITY /\ Held' = [Held EXCEPT ![name] = s] /\ UNCHANGED fatal
         \/ ~ (Len(s) <= CAPACITY) /\ fatal' = TRUE /\ Held' = Held
    <2>1. CASE Len(s) <= CAPACITY
        BY <1>4, <2>1, SequencesAre, FilledIs, SetsOne DEF PICOLIBRARY_EXPECT
    <2>2. CASE ~ (Len(s) <= CAPACITY)
        BY <1>4, <2>2, KeepsAll DEF PICOLIBRARY_EXPECT
    <2>. QED BY <2>1, <2>2
<1>6. Bounded!Replace(vector_call')
    <2>1. vector_call'.operation = operation /\ vector_call'.name = name /\ vector_call'.argument = s
        BY <1>3 DEF Tells
    <2>2. Bounded!Leaves(vector_call', s)
        BY <1>5, <2>1, SequencesAre, LeavesIs
    <2>. QED BY <2>1, <2>2 DEF Bounded!Replace
<1>. QED BY <1>5, <1>6 DEF Bounded!Step, Bounded!Call

LEMMA PushBackStep ==
    ASSUME VectorInv, ~ fatal, NEW name \in Vectors, NEW x \in Elements, push_back(name, x)
    PROVE  VectorInv' /\ Bounded!Step
<1> DEFINE q == Held[name]
    v == vectors[name]
<1>1. q \in Contents /\ v = Of(q) /\ v.m_size = Len(q) /\ Len(q) \in Nat /\ Len(q) =< CAPACITY
    BY HeldIs, CellsIs DEF Contents
<1>2. /\ Tells("push_back", name, x, NONE)
      /\ PICOLIBRARY_EXPECT(~full(v), Sets(name, [ConstructAt(v, v.m_size, x) EXCEPT !.m_size = @ + 1]))
    BY DEF push_back, Calls, Tells
<1>3. full(v) <=> ~ (Len(q) < CAPACITY)
    <2> HIDE DEF v, q
    <2>. QED BY <1>1, VectorAssumption DEF full, VectorAssumption
<1> DEFINE p == Append(q, x)
<1>4. Len(p) = Len(q) + 1
    <2> HIDE DEF q
    <2>. QED BY <1>1 DEF Contents
<1>5. /\ VectorInv'
      /\ \/ Len(p) <= CAPACITY /\ Held' = [Held EXCEPT ![name] = p] /\ UNCHANGED fatal
         \/ ~ (Len(p) <= CAPACITY) /\ fatal' = TRUE /\ Held' = Held
    <2>1. Len(p) <= CAPACITY <=> Len(q) < CAPACITY
        <3> HIDE DEF p, q
        <3>. QED BY <1>1, <1>4, VectorAssumption DEF VectorAssumption
    <2>2. CASE Len(q) < CAPACITY
        <3>1. Sets(name, Of(p)) /\ p \in Contents
            <4> HIDE DEF v, q
            <4>. QED BY <1>1, <1>2, <1>3, <2>2, PushedIs DEF PICOLIBRARY_EXPECT
        <3> HIDE DEF v, p, q
        <3>. QED BY <2>1, <2>2, <3>1, SetsOne
    <2>3. CASE ~ (Len(q) < CAPACITY)
        <3> HIDE DEF v, p, q
        <3>. QED BY <1>2, <1>3, <2>1, <2>3, KeepsAll DEF PICOLIBRARY_EXPECT
    <2>. QED BY <2>2, <2>3
<1>6. Bounded!PushBack(vector_call')
    <2>1. vector_call'.operation = "push_back" /\ vector_call'.name = name /\ vector_call'.argument = x
        BY <1>2 DEF Tells
    <2>2. Bounded!Leaves(vector_call', p)
        <3>1. Len(p) \in Nat
            <4> HIDE DEF p, q
            <4>. QED BY <1>1, <1>4
        <3> HIDE DEF v, p, q
        <3>. QED BY <1>5, <2>1, <3>1, LeavesIs
    <2>3. Bounded!Old(vector_call') = q
        BY <2>1 DEF Bounded!Old, Held
    <2> HIDE DEF v, q
    <2>. QED BY <2>1, <2>2, <2>3 DEF Bounded!PushBack
<1>. QED BY <1>5, <1>6 DEF Bounded!Step, Bounded!Call

LEMMA PopBackStep ==
    ASSUME VectorInv, ~ fatal, NEW name \in Vectors, pop_back(name)
    PROVE  VectorInv' /\ Bounded!Step
<1> DEFINE q == Held[name]
    v == vectors[name]
<1>1. q \in Contents /\ v = Of(q) /\ v.m_size = Len(q) /\ Len(q) \in Nat /\ Len(q) =< CAPACITY
    BY HeldIs, CellsIs DEF Contents
<1>2. /\ Tells("pop_back", name, NONE, NONE)
      /\ ~ empty(v)
      /\ Sets(name, [DestroyAt(v, v.m_size - 1) EXCEPT !.m_size = @ - 1])
    BY DEF pop_back, Calls, Tells
<1>3. Sets(name, Of(Front(q))) /\ Front(q) \in Contents
    <2> HIDE DEF v, q
    <2>. QED BY <1>1, <1>2, PoppedIs DEF empty
<1>4. VectorInv' /\ Held' = [Held EXCEPT ![name] = Front(q)] /\ UNCHANGED fatal
    <2> HIDE DEF v, q
    <2>. QED BY <1>3, SetsOne
<1>5. Len(Front(q)) \in Nat /\ Len(Front(q)) <= CAPACITY
    <2> HIDE DEF v, q
    <2>. QED BY <1>3 DEF Contents
<1>6. Bounded!PopBack(vector_call')
    <2>1. vector_call'.operation = "pop_back" /\ vector_call'.name = name
        BY <1>2 DEF Tells
    <2>2. Bounded!Leaves(vector_call', Front(q))
        <3> HIDE DEF v, q
        <3>. QED BY <1>4, <1>5, <2>1, LeavesIs
    <2>3. Bounded!Old(vector_call') = q
        BY <2>1 DEF Bounded!Old, Held
    <2> HIDE DEF v, q
    <2>. QED BY <2>1, <2>2, <2>3 DEF Bounded!PopBack, Bounded!Front, Front
<1>. QED BY <1>4, <1>6 DEF Bounded!Step, Bounded!Call

LEMMA ResizeStep ==
    ASSUME VectorInv, ~ fatal, NEW name \in Vectors, NEW size \in 0 .. CAPACITY + 1,
           NEW x \in Elements \cup {Default}, resize(name, size, x)
    PROVE  VectorInv' /\ Bounded!Step
<1> DEFINE q == Held[name]
    v == vectors[name]
    shrunk == IF size < v.m_size THEN DestroyEach(v, size, v.m_size) ELSE v
    grown == IF size > v.m_size THEN ConstructedFrom(shrunk, v.m_size, size, x) ELSE shrunk
    r == Resized(q, size, x)
<1>1. q \in Contents /\ v = Of(q) /\ v.m_size = Len(q) /\ Len(q) \in Nat /\ size \in Nat
    BY HeldIs, CellsIs, VectorAssumption DEF Contents, VectorAssumption
<1>2. /\ Tells("resize", name, <<size, x>>, NONE)
      /\ PICOLIBRARY_EXPECT(size <= CAPACITY, Sets(name, [grown EXCEPT !.m_size = size]))
    BY DEF resize, Calls, Tells, ConstructedFrom
<1>3. Len(r) = size
    BY <1>1 DEF Resized
<1>4. ASSUME size <= CAPACITY PROVE [grown EXCEPT !.m_size = size] = Of(r) /\ r \in Contents
    <2>1. size \in 0 .. CAPACITY
        BY <1>1, <1>4, VectorAssumption DEF VectorAssumption
    <2>2. r \in Contents
        BY <1>1, <2>1, ResizedIs
    <2>3. CASE size < Len(q)
        <3>1. grown = DestroyEach(Of(q), size, Len(q))
            <4> HIDE DEF v, q
            <4>. QED BY <1>1, <2>3
        <3> HIDE DEF q, grown
        <3>. QED BY <1>1, <2>1, <2>2, <2>3, <3>1, ShrunkIs
    <2>4. CASE size > Len(q)
        <3>1. grown = ConstructedFrom(Of(q), Len(q), size, x)
            <4> HIDE DEF v, q
            <4>. QED BY <1>1, <2>4
        <3> HIDE DEF q, grown
        <3>. QED BY <1>1, <2>1, <2>2, <2>4, <3>1, GrownIs
    <2>5. CASE size = Len(q)
        <3>1. grown = Of(q)
            <4> HIDE DEF v, q
            <4>. QED BY <1>1, <2>5
        <3> HIDE DEF q, grown
        <3>. QED BY <1>1, <2>1, <2>2, <2>5, <3>1, KeptIs
    <2>. QED BY <1>1, <2>3, <2>4, <2>5
<1>5. /\ VectorInv'
      /\ \/ Len(r) <= CAPACITY /\ Held' = [Held EXCEPT ![name] = r] /\ UNCHANGED fatal
         \/ ~ (Len(r) <= CAPACITY) /\ fatal' = TRUE /\ Held' = Held
    <2> HIDE DEF grown, r
    <2>1. CASE size <= CAPACITY
        BY <1>2, <1>3, <1>4, <2>1, SetsOne DEF PICOLIBRARY_EXPECT
    <2>2. CASE ~ (size <= CAPACITY)
        BY <1>2, <1>3, <2>2, KeepsAll DEF PICOLIBRARY_EXPECT
    <2>. QED BY <2>1, <2>2
<1>6. Bounded!Resize(vector_call')
    <2>1. /\ vector_call'.operation = "resize" /\ vector_call'.name = name
          /\ vector_call'.argument[1] = size /\ vector_call'.argument[2] = x
        BY <1>2 DEF Tells
    <2>2. Bounded!Leaves(vector_call', r)
        <3> HIDE DEF r
        <3>. QED BY <1>1, <1>3, <1>5, <2>1, LeavesIs
    <2>3. Bounded!Old(vector_call') = q
        BY <2>1 DEF Bounded!Old, Held
    <2>4. r = [k \in 1 .. vector_call'.argument[1] |->
                  IF k <= Len(Bounded!Old(vector_call')) THEN Bounded!Old(vector_call')[k] ELSE vector_call'.argument[2]]
        BY <2>1, <2>3 DEF Resized
    <2> HIDE DEF r
    <2>. QED BY <2>1, <2>2, <2>4 DEF Bounded!Resize
<1>. QED BY <1>5, <1>6 DEF Bounded!Step, Bounded!Call

LEMMA EraseStep ==
    ASSUME VectorInv, ~ fatal, NEW name \in Vectors, NEW position \in 0 .. CAPACITY - 1, erase(name, position)
    PROVE  VectorInv' /\ Bounded!Step
<1> DEFINE q == Held[name]
    v == vectors[name]
    r == RemoveAt(q, position + 1)
    moved == FoldLeft(MoveDown, DestroyAt(v, position), Range_(position + 1, v.m_size))
<1>1. q \in Contents /\ v = Of(q) /\ v.m_size = Len(q) /\ Len(q) \in Nat /\ position \in Nat
    BY HeldIs, CellsIs, VectorAssumption DEF Contents, VectorAssumption
<1>2. /\ Tells("erase", name, position, position)
      /\ position < v.m_size
      /\ Sets(name, [moved EXCEPT !.m_size = @ - 1])
    BY DEF erase, Calls, Tells, MoveDown
<1>3. Sets(name, Of(r)) /\ r \in Contents
    <2>1. moved = FoldLeft(MoveDown, DestroyAt(Of(q), position), Range_(position + 1, Len(q)))
        <3> HIDE DEF v, q
        <3>. QED BY <1>1
    <2>2. [moved EXCEPT !.m_size = @ - 1] = Of(r) /\ r \in Contents
        <3> HIDE DEF v, q
        <3>. QED BY <1>1, <1>2, ErasedIs
    <2> HIDE DEF moved, r
    <2>. QED BY <1>2, <2>2
<1>4. VectorInv' /\ Held' = [Held EXCEPT ![name] = r] /\ UNCHANGED fatal
    <2> HIDE DEF v, q, r
    <2>. QED BY <1>3, SetsOne
<1>5. Len(r) \in Nat /\ Len(r) <= CAPACITY
    <2> HIDE DEF v, q, r
    <2>. QED BY <1>3 DEF Contents
<1>6. Bounded!Erase(vector_call')
    <2>1. /\ vector_call'.operation = "erase" /\ vector_call'.name = name
          /\ vector_call'.answer = position /\ vector_call'.argument = position
        BY <1>2 DEF Tells
    <2>2. Bounded!Leaves(vector_call', r)
        <3> HIDE DEF v, q, r
        <3>. QED BY <1>4, <1>5, <2>1, LeavesIs
    <2>3. Bounded!Old(vector_call') = q
        BY <2>1 DEF Bounded!Old, Held
    <2> HIDE DEF v, q
    <2>. QED BY <2>1, <2>2, <2>3 DEF Bounded!Erase, Bounded!RemoveAt, RemoveAt
<1>. QED BY <1>4, <1>6 DEF Bounded!Step, Bounded!Call

LEMMA AtStep ==
    ASSUME VectorInv, ~ fatal, NEW name \in Vectors, NEW position \in 0 .. CAPACITY, at(name, position)
    PROVE  VectorInv' /\ Bounded!Step
<1> DEFINE q == Held[name]
    v == vectors[name]
<1>1. /\ q \in Contents /\ v = Of(q) /\ v.m_size = Len(q) /\ v.m_storage = Row(q) /\ Len(q) \in 0 .. CAPACITY
      /\ position \in Nat
    BY HeldIs, CellsIs, VectorAssumption DEF VectorAssumption
<1>2. /\ Tells("at", name, position, IF position < v.m_size THEN v.m_storage[position] ELSE NONE)
      /\ PICOLIBRARY_EXPECT(position < v.m_size, UNCHANGED <<vectors, fatal>>)
    BY DEF at, Calls, Tells
<1>3. UNCHANGED vectors /\ (IF position < Len(q) THEN fatal' = fatal ELSE fatal' = TRUE)
    <2> HIDE DEF v, q
    <2>. QED BY <1>1, <1>2 DEF PICOLIBRARY_EXPECT
<1>4. VectorInv' /\ Held' = Held
    <2> HIDE DEF q
    <2>. QED BY <1>3, KeepsAll DEF VectorInv, VectorTypeOK
<1>5. Bounded!At(vector_call')
    <2>1. vector_call'.operation = "at" /\ vector_call'.name = name /\ vector_call'.argument = position
        BY <1>2 DEF Tells
    <2>2. position < Len(q) => vector_call'.answer = q[position + 1]
        <3>1. position < Len(q) => Row(q)[position] = q[position + 1]
            <4> HIDE DEF q
            <4>. QED BY <1>1, VectorAssumption DEF Row, VectorAssumption
        <3> HIDE DEF v, q
        <3>. QED BY <1>1, <1>2, <3>1 DEF Tells
    <2>3. Bounded!Old(vector_call') = q
        BY <2>1 DEF Bounded!Old, Held
    <2> HIDE DEF v, q
    <2>. QED BY <1>3, <1>4, <2>1, <2>2, <2>3 DEF Bounded!At, Bounded!Answers, Held
<1>. QED BY <1>4, <1>5 DEF Bounded!Step, Bounded!Call

LEMMA ObserveStep ==
    ASSUME VectorInv, ~ fatal, NEW name \in Vectors, Observe(name)
    PROVE  VectorInv' /\ Bounded!Step
<1> DEFINE q == Held[name]
    v == vectors[name]
    backwards == [k \in 1 .. v.m_size |-> v.m_storage[v.m_size - k]]
<1>1. /\ q \in Contents /\ v = Of(q) /\ v.m_size = Len(q) /\ v.m_storage = Row(q) /\ Len(q) \in 0 .. CAPACITY
      /\ Cells(v) = q
    BY HeldIs, CellsIs
<1>2. Tells("observe", name, NONE, <<Cells(v), backwards, empty(v), full(v)>>) /\ UNCHANGED <<vectors, fatal>>
    BY DEF Observe, Calls, Tells
<1>3. VectorInv' /\ Held' = Held
    <2>1. fatal' \in BOOLEAN
        BY <1>2 DEF VectorInv, VectorTypeOK
    <2>. QED BY <1>2, <2>1, KeepsAll
<1>4. backwards = Bounded!Reverse(q)
    <2>1. \A k \in 1 .. Len(q) : Row(q)[Len(q) - k] = q[(Len(q) - k) + 1]
        <3> HIDE DEF q
        <3>. QED BY <1>1, VectorAssumption DEF Row, VectorAssumption
    <2>2. backwards = [k \in 1 .. Len(q) |-> Row(q)[Len(q) - k]]
        <3> HIDE DEF v, q
        <3>. QED BY <1>1
    <2> HIDE DEF backwards, q
    <2>. QED BY <2>1, <2>2 DEF Bounded!Reverse
<1>5. (empty(v) = (q = <<>>)) /\ (full(v) = (Len(q) = CAPACITY))
    <2>1. Len(q) = 0 <=> q = <<>>
        <3> HIDE DEF q
        <3>. QED BY <1>1 DEF Contents
    <2> HIDE DEF v, q
    <2>. QED BY <1>1, <2>1 DEF empty, full
<1>6. vector_call'.operation = "observe" /\ vector_call'.name = name
    BY <1>2 DEF Tells
<1>7. vector_call'.answer = <<q, Bounded!Reverse(q), q = <<>>, Len(q) = CAPACITY>>
    <2>1. vector_call'.answer = <<Cells(v), backwards, empty(v), full(v)>>
        <3> HIDE DEF v, backwards
        <3>. QED BY <1>2 DEF Tells
    <2> HIDE DEF v, q, backwards
    <2>. QED BY <1>1, <1>4, <1>5, <2>1, Zenon
<1>8. Bounded!Old(vector_call') = q
    BY <1>6 DEF Bounded!Old, Held
<1>9. Bounded!Observe(vector_call')
    <2> HIDE DEF v, q
    <2>. QED BY <1>2, <1>3, <1>6, <1>7, <1>8, Zenon DEF Bounded!Observe, Bounded!Answers, Held
<1>. QED BY <1>3, <1>9 DEF Bounded!Step, Bounded!Call

LEMMA EqualStep ==
    ASSUME VectorInv, ~ fatal, NEW name \in Vectors, NEW other \in Vectors, Equal(name, other)
    PROVE  VectorInv' /\ Bounded!Step
<1> DEFINE q == Held[name]
    p == Held[other]
<1>1. /\ q \in Contents /\ vectors[name] = Of(q) /\ vectors[name].m_size = Len(q)
      /\ vectors[name].m_storage = Row(q) /\ Len(q) \in 0 .. CAPACITY
    BY HeldIs, CellsIs
<1>2. /\ p \in Contents /\ vectors[other] = Of(p) /\ vectors[other].m_size = Len(p)
      /\ vectors[other].m_storage = Row(p) /\ Len(p) \in 0 .. CAPACITY
    BY HeldIs, CellsIs
<1>3. Tells("equal", name, other, EqualTo(vectors[name], vectors[other])) /\ UNCHANGED <<vectors, fatal>>
    BY DEF Equal, Calls, Tells
<1>4. VectorInv' /\ Held' = Held
    <2>1. fatal' \in BOOLEAN
        BY <1>3 DEF VectorInv, VectorTypeOK
    <2>. QED BY <1>3, <2>1, KeepsAll
<1>5. EqualTo(vectors[name], vectors[other]) = (q = p)
    <2>1. \A k \in 0 .. Len(q) - 1 : k < CAPACITY /\ k \in 0 .. CAPACITY - 1
        BY <1>1, VectorAssumption DEF VectorAssumption
    <2>2. q = p => EqualTo(vectors[name], vectors[other])
        BY <1>1, <1>2 DEF EqualTo
    <2>3. ASSUME EqualTo(vectors[name], vectors[other]) PROVE q = p
        <3> HIDE DEF q, p
        <3>1. Len(q) = Len(p) /\ \A k \in 0 .. Len(q) - 1 : Row(q)[k] = Row(p)[k]
            BY <1>1, <1>2, <2>3 DEF EqualTo
        <3>2. \A k \in 1 .. Len(q) : q[k] = p[k]
            <4>1. ASSUME NEW k \in 1 .. Len(q) PROVE q[k] = p[k]
                <5>1. k - 1 \in 0 .. Len(q) - 1 /\ (k - 1) + 1 = k
                    BY <1>1
                <5>2. Row(q)[k - 1] = q[k] /\ Row(p)[k - 1] = p[k]
                    BY <1>1, <2>1, <3>1, <5>1 DEF Row, q
                <5>. QED BY <3>1, <5>1, <5>2
            <4>. QED BY <4>1
        <3>3. q \in Seq(Elements \cup {Default}) /\ p \in Seq(Elements \cup {Default})
            BY <1>1, <1>2 DEF Contents
        <3>. QED BY <3>1, <3>2, <3>3
    <2>4. EqualTo(vectors[name], vectors[other]) \in BOOLEAN
        BY DEF EqualTo
    <2> HIDE DEF q, p
    <2>. QED BY <2>2, <2>3, <2>4
<1>6. vector_call'.operation = "equal" /\ vector_call'.name = name /\ vector_call'.argument = other
    BY <1>3 DEF Tells
<1>7. vector_call'.answer = (q = p)
    <2>1. vector_call'.answer = EqualTo(vectors[name], vectors[other])
        BY <1>3 DEF Tells
    <2> HIDE DEF q, p
    <2>. QED BY <1>5, <2>1, Zenon
<1>8. Bounded!Old(vector_call') = q
    BY <1>6 DEF Bounded!Old, Held
<1>9. Bounded!Equal(vector_call')
    <2> HIDE DEF q
    <2>. QED BY <1>3, <1>4, <1>6, <1>7, <1>8, Zenon DEF Bounded!Equal, Bounded!Answers, Held
<1>. QED BY <1>4, <1>9 DEF Bounded!Step, Bounded!Call

\* Filling what has been cleared or destroyed with a copy of another vector.
LEMMA CopiedIs ==
    ASSUME VectorInv, NEW name \in Vectors, NEW other \in Vectors
    PROVE  /\ Destroyed(vectors[name]) = Of(<<>>) /\ clear(vectors[name]) = Of(<<>>)
           /\ Filled(Of(<<>>), Cells(vectors[other])) = Of(Held[other])
           /\ Held[other] \in Contents /\ Len(Held[other]) \in Nat /\ Len(Held[other]) =< CAPACITY
<1>1. Held[name] \in Contents /\ vectors[name] = Of(Held[name])
    BY HeldIs
<1>2. Held[name] \in Seq(CellValues) /\ Len(Held[name]) =< CAPACITY
    BY <1>1 DEF Contents, CellValues
<1>3. Held[other] \in Contents /\ vectors[other] = Of(Held[other])
    BY HeldIs
<1>4. Len(Held[other]) \in Nat /\ Len(Held[other]) =< CAPACITY
    BY <1>3 DEF Contents
<1>5. Filled(Of(<<>>), Cells(vectors[other])) = Of(Held[other])
    BY <1>3, CellsIs, FilledIs
<1>. QED BY <1>1, <1>2, <1>3, <1>4, <1>5, DestroyedIs, ClearIs

LEMMA CopyStep ==
    ASSUME VectorInv, ~ fatal, NEW name \in Vectors, NEW other \in Vectors,
           CopyConstructor(name, other) \/ CopyAssignment(name, other)
    PROVE  VectorInv' /\ Bounded!Step
<1>1. Tells("copy", name, other, NONE)
    BY DEF CopyConstructor, CopyAssignment, Calls, Tells
<1>2. vector_call'.operation = "copy" /\ vector_call'.name = name /\ vector_call'.argument = other
    BY <1>1 DEF Tells
<1>3. /\ Destroyed(vectors[name]) = Of(<<>>) /\ clear(vectors[name]) = Of(<<>>)
      /\ Filled(Of(<<>>), Cells(vectors[other])) = Of(Held[other])
      /\ Held[other] \in Contents /\ Len(Held[other]) \in Nat /\ Len(Held[other]) =< CAPACITY
    BY CopiedIs
<1>4. VectorInv' /\ Held' = [Held EXCEPT ![name] = Held[other]] /\ UNCHANGED fatal
    <2>1. CASE name # other
        <3>1. Sets(name, Of(Held[other]))
            BY <1>3, <2>1 DEF CopyConstructor, CopyAssignment
        <3>. QED BY <1>3, <3>1, SetsOne
    <2>2. CASE name = other
        <3>1. UNCHANGED <<vectors, fatal>>
            BY <2>2 DEF CopyConstructor, CopyAssignment
        <3>2. fatal' \in BOOLEAN
            BY <3>1 DEF VectorInv, VectorTypeOK
        <3>3. VectorInv' /\ Held' = Held
            BY <3>1, <3>2, KeepsAll
        <3>4. Held = [Held EXCEPT ![name] = Held[other]]
            BY <2>2 DEF Held
        <3>. QED BY <3>1, <3>3, <3>4
    <2>. QED BY <2>1, <2>2
<1>5. Bounded!Leaves(vector_call', Held[other])
    BY <1>2, <1>3, <1>4, LeavesIs
<1>6. Bounded!Copy(vector_call')
    BY <1>2, <1>5 DEF Bounded!Copy, Held
<1>. QED BY <1>4, <1>6 DEF Bounded!Step, Bounded!Call

LEMMA MoveStep ==
    ASSUME VectorInv, ~ fatal, NEW name \in Vectors, NEW other \in Vectors,
           MoveConstructor(name, other) \/ MoveAssignment(name, other)
    PROVE  VectorInv' /\ Bounded!Step
<1>1. Tells("move", name, other, NONE)
    BY DEF MoveConstructor, MoveAssignment, Calls, Tells
<1>2. vector_call'.operation = "move" /\ vector_call'.name = name /\ vector_call'.argument = other
    BY <1>1 DEF Tells
<1>3. Destroyed(vectors[name]) = Of(<<>>) /\ clear(vectors[name]) = Of(<<>>)
    BY CopiedIs
<1> DEFINE next == [Held EXCEPT ![name] = Held[other], ![other] = IF name = other THEN @ ELSE <<>>]
<1>4. VectorInv' /\ Held' = next /\ UNCHANGED fatal
    <2>1. CASE name # other
        <3>1. Takes(name, Of(<<>>), other)
            BY <1>3, <2>1 DEF MoveConstructor, MoveAssignment
        <3>2. next = [Held EXCEPT ![name] = Held[other], ![other] = <<>>]
            BY <2>1
        <3>. QED BY <2>1, <3>1, <3>2, TakesIs
    <2>2. CASE name = other
        <3>1. UNCHANGED <<vectors, fatal>>
            BY <2>2 DEF MoveConstructor, MoveAssignment
        <3>2. fatal' \in BOOLEAN
            BY <3>1 DEF VectorInv, VectorTypeOK
        <3>3. VectorInv' /\ Held' = Held
            BY <3>1, <3>2, KeepsAll
        <3>4. Held = next
            BY <2>2 DEF Held
        <3>. QED BY <3>1, <3>3, <3>4
    <2>. QED BY <2>1, <2>2
<1>5. Bounded!Move(vector_call')
    BY <1>2, <1>4 DEF Bounded!Move, Held
<1>. QED BY <1>4, <1>5 DEF Bounded!Step, Bounded!Call

LEMMA VectorInvInit == VectorInit => VectorInv
<1>1. Fresh = Of(<<>>) /\ <<>> \in Contents
    BY EmptyIs
<1>. QED BY <1>1, OfIsTyped DEF VectorInit, VectorInv, VectorTypeOK, HoldsSequence

LEMMA VectorStep ==
    ASSUME VectorInv, VectorNext
    PROVE  VectorInv' /\ Bounded!Step
<1>1. ~ fatal
    BY DEF VectorNext
<1>2. PICK name \in Vectors :
        \/ \E s \in Sequences_ : Constructor(name, s) \/ assign(name, s)
        \/ \E x \in Elements : push_back(name, x)
        \/ pop_back(name)
        \/ \E size \in 0 .. CAPACITY + 1, x \in Elements \cup {Default} : resize(name, size, x)
        \/ \E position \in 0 .. CAPACITY - 1 : erase(name, position)
        \/ \E position \in 0 .. CAPACITY : at(name, position)
        \/ Observe(name)
        \/ \E other \in Vectors :
            \/ CopyConstructor(name, other) \/ MoveConstructor(name, other)
            \/ CopyAssignment(name, other) \/ MoveAssignment(name, other)
            \/ Equal(name, other)
    BY DEF VectorNext
<1>3. CASE \E s \in Sequences_ : Constructor(name, s) \/ assign(name, s)
    BY <1>1, <1>3, ConstructorStep
<1>4. CASE \E x \in Elements : push_back(name, x)
    BY <1>1, <1>4, PushBackStep
<1>5. CASE pop_back(name)
    BY <1>1, <1>5, PopBackStep
<1>6. CASE \E size \in 0 .. CAPACITY + 1, x \in Elements \cup {Default} : resize(name, size, x)
    BY <1>1, <1>6, ResizeStep
<1>7. CASE \E position \in 0 .. CAPACITY - 1 : erase(name, position)
    BY <1>1, <1>7, EraseStep
<1>8. CASE \E position \in 0 .. CAPACITY : at(name, position)
    BY <1>1, <1>8, AtStep
<1>9. CASE Observe(name)
    BY <1>1, <1>9, ObserveStep
<1>10. ASSUME NEW other \in Vectors,
              \/ CopyConstructor(name, other) \/ MoveConstructor(name, other)
              \/ CopyAssignment(name, other) \/ MoveAssignment(name, other)
              \/ Equal(name, other)
       PROVE  VectorInv' /\ Bounded!Step
    BY <1>1, <1>10, CopyStep, MoveStep, EqualStep
<1>. QED BY <1>2, <1>3, <1>4, <1>5, <1>6, <1>7, <1>8, <1>9, <1>10

LEMMA VectorInvNext == VectorInv /\ [VectorNext]_vector => VectorInv'
<1>1. CASE VectorNext
    BY <1>1, VectorStep
<1>2. CASE UNCHANGED vector
    <2>1. VectorInv => fatal \in BOOLEAN
        BY DEF VectorInv, VectorTypeOK
    <2>. QED BY <1>2, <2>1, KeepsAll DEF vector
<1>. QED BY <1>1, <1>2

LEMMA VectorInvImplies == VectorInv => LifetimesHold
<1>1. ASSUME VectorInv, NEW name \in Vectors
      PROVE  ~vectors[name].broken /\ Living(vectors[name]) = 0 .. vectors[name].m_size - 1
    <2>1. PICK q \in Contents : vectors[name] = Of(q)
        BY <1>1 DEF VectorInv, HoldsSequence
    <2>2. Of(q).broken = FALSE /\ Of(q).m_size = Len(q) /\ Of(q).m_storage = Row(q) /\ Len(q) \in 0 .. CAPACITY
        BY CellsIs DEF Of, Vec
    <2>3. q \in Seq(Elements \cup {Default})
        BY DEF Contents
    <2>4. ASSUME NEW k \in 0 .. CAPACITY - 1 PROVE Row(q)[k] # RAW <=> k < Len(q)
        <3>1. k < Len(q) => q[k + 1] \in Elements \cup {Default}
            BY <2>2, <2>3, VectorAssumption DEF VectorAssumption
        <3>. QED BY <3>1, VectorAssumption DEF Row, VectorAssumption
    <2>5. Living(vectors[name]) = {k \in 0 .. CAPACITY - 1 : k < Len(q)}
        BY <2>1, <2>2, <2>4 DEF Living
    <2>6. {k \in 0 .. CAPACITY - 1 : k < Len(q)} = 0 .. Len(q) - 1
        BY <2>2, VectorAssumption DEF VectorAssumption
    <2>. QED BY <2>1, <2>2, <2>5, <2>6
<1>. QED BY <1>1 DEF LifetimesHold

\* For any vectors, elements and capacity: every element is constructed in
\* a raw cell and destroyed once, and those that live between two calls are
\* the ones below the size.
THEOREM LifetimesHoldAlways == VectorSpec => []LifetimesHold
<1>1. VectorSpec => []VectorInv
    BY VectorInvInit, VectorInvNext, PTL DEF VectorSpec
<1>. QED BY <1>1, VectorInvImplies, PTL

\* For any vectors, elements and capacity: each call does to the cells
\* below the size what the bounded sequence promises, and no more.
THEOREM BoundedSequenceImplemented == VectorSpec => IsBoundedSequence
<1>1. VectorInv /\ [VectorNext]_vector => [UNCHANGED vector \/ Bounded!Step]_vector
    BY VectorStep
<1>2. VectorSpec => []VectorInv
    BY VectorInvInit, VectorInvNext, PTL DEF VectorSpec
<1>. QED BY <1>1, <1>2, PTL DEF VectorSpec, IsBoundedSequence

-----------------------------------------------------------------------------
(* CRC: CalculatorsDivide, for any polynomials, remainders and number of   *)
(* bytes, and registers of any number of bytes.  The register of the       *)
(* calculator that works bit by bit is the part of the dividend that is    *)
(* left when its first bits are divided away (DividedIs).  Its steps are   *)
(* linear (BitStepsAreLinear), so that one step of a table does as many of *)
(* them as a chunk has bits (AugmentedStepIs), and a calculator that adds  *)
(* the chunks at the top stays ahead of the others by the zeros that they  *)
(* still need (DirectStaysAhead).                                          *)

LEMMA BitsAreSequences ==
    ASSUME NEW n \in Nat, NEW a \in Bits(n)
    PROVE  a \in Seq(Bit) /\ Len(a) = n /\ DOMAIN a = 1 .. n /\ \A k \in 1 .. n : a[k] \in Bit
<1>1. a \in Seq(Bit)
    BY DEF Bits
<1>. QED BY <1>1 DEF Bits

LEMMA SequencesAreBits ==
    ASSUME NEW a \in Seq(Bit)
    PROVE  Len(a) \in Nat /\ a \in Bits(Len(a))
BY DEF Bits

LEMMA SameBits ==
    ASSUME NEW n \in Nat, NEW a \in Bits(n), NEW b \in Bits(n), \A k \in 1 .. n : a[k] = b[k]
    PROVE  a = b
BY DEF Bits

LEMMA ZerosIs ==
    ASSUME NEW n \in Nat
    PROVE  Zeros(n) \in Bits(n) /\ Len(Zeros(n)) = n /\ \A k \in 1 .. n : Zeros(n)[k] = 0
<1>1. Zeros(n) \in Bits(n) /\ \A k \in 1 .. n : Zeros(n)[k] = 0
    BY DEF Zeros, Bits, Bit
<1>. QED BY <1>1, BitsAreSequences

Plus(x, y) == (x + y) % 2

LEMMA PlusTable == Plus(0, 0) = 0 /\ Plus(0, 1) = 1 /\ Plus(1, 0) = 1 /\ Plus(1, 1) = 0
BY DEF Plus

LEMMA PlusIs ==
    ASSUME NEW x \in Bit, NEW y \in Bit
    PROVE  Plus(x, y) \in Bit /\ Plus(x, 0) = x /\ Plus(0, x) = x /\ Plus(x, x) = 0 /\ Plus(x, y) = Plus(y, x)
BY PlusTable DEF Bit

LEMMA PlusFour ==
    ASSUME NEW x \in Bit, NEW y \in Bit, NEW u \in Bit, NEW v \in Bit
    PROVE  Plus(Plus(x, y), Plus(u, v)) = Plus(Plus(x, u), Plus(y, v))
BY PlusTable DEF Bit

LEMMA XorIs ==
    ASSUME NEW n \in Nat, NEW a \in Bits(n), NEW b \in Bits(n)
    PROVE  Xor(a, b) \in Bits(n) /\ \A k \in 1 .. n : Xor(a, b)[k] = Plus(a[k], b[k])
<1>1. DOMAIN a = 1 .. n /\ \A k \in 1 .. n : a[k] \in Bit /\ b[k] \in Bit
    BY DEF Bits
<1>2. Xor(a, b) = [k \in 1 .. n |-> Plus(a[k], b[k])]
    BY <1>1 DEF Xor, Plus
<1>3. \A k \in 1 .. n : Plus(a[k], b[k]) \in Bit
    BY <1>1, PlusIs
<1>. QED BY <1>2, <1>3 DEF Bits

LEMMA XorZeros ==
    ASSUME NEW n \in Nat, NEW a \in Bits(n)
    PROVE  Xor(a, Zeros(n)) = a /\ Xor(Zeros(n), a) = a /\ Xor(a, a) = Zeros(n)
<1>1. Zeros(n) \in Bits(n) /\ \A k \in 1 .. n : Zeros(n)[k] = 0
    BY ZerosIs
<1>2. \A k \in 1 .. n : Plus(a[k], 0) = a[k] /\ Plus(0, a[k]) = a[k] /\ Plus(a[k], a[k]) = 0
    BY BitsAreSequences, PlusIs
<1>3. Xor(a, Zeros(n)) = a
    BY <1>1, <1>2, XorIs, SameBits
<1>4. Xor(Zeros(n), a) = a
    BY <1>1, <1>2, XorIs, SameBits
<1>5. Xor(a, a) = Zeros(n)
    BY <1>1, <1>2, XorIs, SameBits
<1>. QED BY <1>3, <1>4, <1>5

LEMMA ConcatIs ==
    ASSUME NEW m \in Nat, NEW n \in Nat, NEW a \in Bits(m), NEW b \in Bits(n)
    PROVE  /\ a \o b \in Bits(m + n)
           /\ \A k \in 1 .. m + n : (a \o b)[k] = IF k =< m THEN a[k] ELSE b[k - m]
<1>1. a \in Seq(Bit) /\ b \in Seq(Bit) /\ Len(a) = m /\ Len(b) = n
    BY BitsAreSequences
<1>2. a \o b \in Seq(Bit) /\ Len(a \o b) = m + n
    BY <1>1
<1>3. \A k \in 1 .. m + n : (a \o b)[k] = IF k =< m THEN a[k] ELSE b[k - m]
    BY <1>1
<1>. QED BY <1>2, <1>3, SequencesAreBits

Join(a, b) == a \o b

LEMMA JoinIs ==
    ASSUME NEW m \in Nat, NEW n \in Nat, NEW a \in Bits(m), NEW b \in Bits(n)
    PROVE  /\ Join(a, b) \in Bits(m + n)
           /\ \A k \in 1 .. m + n : Join(a, b)[k] = IF k =< m THEN a[k] ELSE b[k - m]
<1> DEFINE s == a \o b
<1>1. /\ s \in Bits(m + n)
      /\ \A k \in 1 .. m + n : s[k] = IF k =< m THEN a[k] ELSE b[k - m]
    BY ConcatIs
<1>2. Join(a, b) = s
    BY DEF Join
<1> HIDE DEF s
<1>. QED BY <1>1, <1>2

LEMMA JoinAssociates ==
    ASSUME NEW l \in Nat, NEW m \in Nat, NEW n \in Nat, NEW a \in Bits(l), NEW b \in Bits(m), NEW c \in Bits(n)
    PROVE  Join(Join(a, b), c) = Join(a, Join(b, c))
<1> DEFINE ab == Join(a, b)
    bc == Join(b, c)
<1>1. ab \in Bits(l + m) /\ \A k \in 1 .. l + m : ab[k] = IF k =< l THEN a[k] ELSE b[k - l]
    BY JoinIs
<1>2. bc \in Bits(m + n) /\ \A k \in 1 .. m + n : bc[k] = IF k =< m THEN b[k] ELSE c[k - m]
    BY JoinIs
<1> HIDE DEF ab, bc
<1>3. l + m \in Nat /\ m + n \in Nat /\ l + m + n \in Nat /\ (l + m) + n = l + m + n /\ l + (m + n) = l + m + n
    OBVIOUS
<1>4. /\ Join(ab, c) \in Bits((l + m) + n)
      /\ \A k \in 1 .. (l + m) + n : Join(ab, c)[k] = IF k =< l + m THEN ab[k] ELSE c[k - (l + m)]
    BY <1>1, <1>3, JoinIs
<1>5. /\ Join(a, bc) \in Bits(l + (m + n))
      /\ \A k \in 1 .. l + (m + n) : Join(a, bc)[k] = IF k =< l THEN a[k] ELSE bc[k - l]
    BY <1>2, <1>3, JoinIs
<1>6. ASSUME NEW k \in 1 .. l + m + n PROVE Join(ab, c)[k] = Join(a, bc)[k]
    <2>1. CASE k =< l
        BY <1>1, <1>3, <1>4, <1>5, <2>1
    <2>2. CASE ~(k =< l) /\ k =< l + m
        <3>1. k \in 1 .. l + m /\ k - l \in 1 .. m + n /\ k - l =< m
            BY <2>2
        <3>. QED BY <1>1, <1>2, <1>3, <1>4, <1>5, <2>2, <3>1
    <2>3. CASE ~(k =< l + m)
        <3>1. ~(k =< l) /\ k - l \in 1 .. m + n /\ ~(k - l =< m) /\ (k - l) - m = k - (l + m)
            BY <2>3
        <3>. QED BY <1>2, <1>3, <1>4, <1>5, <2>3, <3>1
    <2>. QED BY <2>1, <2>2, <2>3
<1>7. Join(ab, c) = Join(a, bc)
    BY <1>3, <1>4, <1>5, <1>6, SameBits
<1>. QED BY <1>7 DEF ab, bc

Part(a, i, j) == SubSeq(a, i, j)

LEMMA PartIs ==
    ASSUME NEW n \in Nat, NEW a \in Bits(n), NEW i \in 1 .. n + 1, NEW j \in 0 .. n, i =< j + 1
    PROVE  /\ Part(a, i, j) \in Bits(j - i + 1)
           /\ \A k \in 1 .. j - i + 1 : Part(a, i, j)[k] = a[i + k - 1]
<1>1. a \in Seq(Bit) /\ Len(a) = n /\ \A k \in 1 .. n : a[k] \in Bit
    BY BitsAreSequences
<1>2. Part(a, i, j) = [k \in 1 .. (j - i + 1) |-> a[i + k - 1]]
    BY <1>1 DEF Part
<1>3. \A k \in 1 .. j - i + 1 : a[i + k - 1] \in Bit
    BY <1>1
<1>. QED BY <1>2, <1>3 DEF Bits

LEMMA ShiftedIs ==
    ASSUME NEW n \in Nat, NEW r \in Bits(n), NEW m \in Nat, m =< n, NEW chunk \in Bits(m)
    PROVE  /\ Shifted(r, chunk) \in Bits(n)
           /\ \A k \in 1 .. n : Shifted(r, chunk)[k] = IF k + m =< n THEN r[k + m] ELSE chunk[k + m - n]
<1>1. Len(r) = n /\ Len(chunk) = m
    BY BitsAreSequences
<1>2. /\ r \o chunk \in Bits(n + m)
      /\ \A k \in 1 .. n + m : (r \o chunk)[k] = IF k =< n THEN r[k] ELSE chunk[k - n]
    BY ConcatIs
<1>3. /\ SubSeq(r \o chunk, m + 1, m + n) \in Bits(n)
      /\ \A k \in 1 .. n : SubSeq(r \o chunk, m + 1, m + n)[k] = (r \o chunk)[m + 1 + k - 1]
    <2> DEFINE i == m + 1
        j == m + n
        all == n + m
        a == r \o chunk
    <2>1. /\ all \in Nat /\ i \in 1 .. all + 1 /\ j \in 0 .. all /\ i =< j + 1 /\ j - i + 1 = n
          /\ a \in Bits(all)
        BY <1>2
    <2>2. Part(a, i, j) \in Bits(n) /\ \A k \in 1 .. n : Part(a, i, j)[k] = a[i + k - 1]
        <3> HIDE DEF i, j, all, a
        <3>. QED BY <2>1, PartIs
    <2>. QED BY <2>2 DEF Part
<1>4. Shifted(r, chunk) = SubSeq(r \o chunk, m + 1, m + n)
    BY <1>1 DEF Shifted
<1>5. ASSUME NEW k \in 1 .. n
      PROVE  SubSeq(r \o chunk, m + 1, m + n)[k] = IF k + m =< n THEN r[k + m] ELSE chunk[k + m - n]
    <2>1. m + 1 + k - 1 = k + m /\ k + m \in 1 .. n + m
        OBVIOUS
    <2>2. SubSeq(r \o chunk, m + 1, m + n)[k] = (r \o chunk)[k + m]
        BY <1>3, <2>1
    <2>3. (r \o chunk)[k + m] = IF k + m =< n THEN r[k + m] ELSE chunk[k + m - n]
        <3> DEFINE a == r \o chunk
            t == k + m
        <3>1. t \in 1 .. n + m /\ \A l \in 1 .. n + m : a[l] = IF l =< n THEN r[l] ELSE chunk[l - n]
            BY <1>2, <2>1
        <3>2. a[t] = IF t =< n THEN r[t] ELSE chunk[t - n]
            <4> HIDE DEF a, t
            <4>. QED BY <3>1
        <3>. QED BY <3>2
    <2>. QED BY <2>2, <2>3
<1>. QED BY <1>3, <1>4, <1>5

LEMMA TopIs ==
    ASSUME NEW n \in Nat, NEW r \in Bits(n), NEW m \in Nat, m =< n
    PROVE  Top(r, m) \in Bits(m) /\ \A k \in 1 .. m : Top(r, m)[k] = r[k]
<1>1. 1 \in 1 .. n + 1 /\ 1 =< m + 1 /\ m \in 0 .. n /\ m - 1 + 1 = m /\ \A k \in 1 .. m : 1 + k - 1 = k
    OBVIOUS
<1>. QED BY <1>1, PartIs DEF Top, Part

LEMMA BitStepIs ==
    ASSUME NEW n \in Nat \ {0}, NEW r \in Bits(n), NEW bit \in Bit, NEW q \in Bits(n)
    PROVE  /\ BitStep(r, bit, q) \in Bits(n)
           /\ \A k \in 1 .. n : BitStep(r, bit, q)[k] =
                  Plus(IF k < n THEN r[k + 1] ELSE bit, IF r[1] = 1 THEN q[k] ELSE 0)
<1>1. <<bit>> \in Bits(1) /\ <<bit>>[1] = bit
    BY DEF Bits
<1>2. /\ Shifted(r, <<bit>>) \in Bits(n)
      /\ \A k \in 1 .. n : Shifted(r, <<bit>>)[k] = IF k + 1 =< n THEN r[k + 1] ELSE <<bit>>[k + 1 - n]
    <2> DEFINE c == <<bit>>
    <2>1. n \in Nat /\ 1 \in Nat /\ 1 =< n /\ c \in Bits(1)
        BY <1>1
    <2> HIDE DEF c
    <2>2. /\ Shifted(r, c) \in Bits(n)
          /\ \A k \in 1 .. n : Shifted(r, c)[k] = IF k + 1 =< n THEN r[k + 1] ELSE c[k + 1 - n]
        BY <2>1, ShiftedIs
    <2>. QED BY <2>2 DEF c
<1>3. \A k \in 1 .. n : Shifted(r, <<bit>>)[k] = IF k < n THEN r[k + 1] ELSE bit
    BY <1>1, <1>2
<1>4. \A k \in 1 .. n : Shifted(r, <<bit>>)[k] \in Bit /\ q[k] \in Bit
    BY <1>2, BitsAreSequences
<1>5. CASE r[1] = 1
    BY <1>2, <1>3, <1>5, XorIs DEF BitStep
<1>6. CASE r[1] # 1
    <2>1. \A k \in 1 .. n : Plus(Shifted(r, <<bit>>)[k], 0) = Shifted(r, <<bit>>)[k]
        BY <1>4, PlusIs
    <2>. QED BY <1>2, <1>3, <1>6, <2>1 DEF BitStep
<1>. QED BY <1>5, <1>6

LEMMA BitStepIsLinear ==
    ASSUME NEW n \in Nat \ {0}, NEW r \in Bits(n), NEW s \in Bits(n), NEW a \in Bit, NEW b \in Bit,
           NEW q \in Bits(n)
    PROVE  BitStep(Xor(r, s), Plus(a, b), q) = Xor(BitStep(r, a, q), BitStep(s, b, q))
<1> DEFINE Moved(t, bit, k) == IF k < n THEN t[k + 1] ELSE bit
    Taken(t, k) == IF t[1] = 1 THEN q[k] ELSE 0
<1>1. Xor(r, s) \in Bits(n) /\ \A k \in 1 .. n : Xor(r, s)[k] = Plus(r[k], s[k])
    BY XorIs
<1>2. Plus(a, b) \in Bit
    BY PlusIs
<1>3. /\ BitStep(Xor(r, s), Plus(a, b), q) \in Bits(n)
      /\ BitStep(r, a, q) \in Bits(n) /\ BitStep(s, b, q) \in Bits(n)
      /\ Xor(BitStep(r, a, q), BitStep(s, b, q)) \in Bits(n)
    BY <1>1, <1>2, BitStepIs, XorIs
<1>4. ASSUME NEW k \in 1 .. n
      PROVE  BitStep(Xor(r, s), Plus(a, b), q)[k] = Xor(BitStep(r, a, q), BitStep(s, b, q))[k]
    <2>1. BitStep(Xor(r, s), Plus(a, b), q)[k] = Plus(Moved(Xor(r, s), Plus(a, b), k), Taken(Xor(r, s), k))
        BY <1>1, <1>2, BitStepIs
    <2>2. Xor(BitStep(r, a, q), BitStep(s, b, q))[k] = Plus(Plus(Moved(r, a, k), Taken(r, k)), Plus(Moved(s, b, k), Taken(s, k)))
        <3>1. BitStep(r, a, q)[k] = Plus(Moved(r, a, k), Taken(r, k)) /\ BitStep(s, b, q)[k] = Plus(Moved(s, b, k), Taken(s, k))
            BY BitStepIs
        <3>. QED BY <1>3, <3>1, XorIs
    <2>3. Moved(Xor(r, s), Plus(a, b), k) = Plus(Moved(r, a, k), Moved(s, b, k))
        BY <1>1
    <2>4. r[1] \in Bit /\ s[1] \in Bit /\ q[k] \in Bit /\ Xor(r, s)[1] = Plus(r[1], s[1])
        BY <1>1, BitsAreSequences
    <2>5. Taken(Xor(r, s), k) = Plus(Taken(r, k), Taken(s, k))
        BY <2>4, PlusTable DEF Bit
    <2>6. Moved(r, a, k) \in Bit /\ Moved(s, b, k) \in Bit /\ Taken(r, k) \in Bit /\ Taken(s, k) \in Bit
        <3>1. k < n => r[k + 1] \in Bit /\ s[k + 1] \in Bit
            BY BitsAreSequences
        <3>. QED BY <2>4, <3>1 DEF Bit
    <2> HIDE DEF Moved, Taken
    <2>. QED BY <2>1, <2>2, <2>3, <2>5, <2>6, PlusFour
<1>. QED BY <1>3, <1>4, SameBits

\* Two rows of values that make the same steps.
LEMMA RowsAgree ==
    ASSUME NEW n \in Nat, NEW U, NEW W, U[0] = W[0],
           \A k \in 1 .. n : U[k - 1] = W[k - 1] => U[k] = W[k]
    PROVE  \A k \in 0 .. n : U[k] = W[k]
<1> DEFINE S == {k \in Nat : k =< n => U[k] = W[k]}
<1>1. 0 \in S
    OBVIOUS
<1>2. ASSUME NEW k \in Nat, k \in S PROVE k + 1 \in S
    <2>1. SUFFICES ASSUME k + 1 =< n PROVE U[k + 1] = W[k + 1]
        OBVIOUS
    <2>2. k + 1 \in 1 .. n /\ (k + 1) - 1 = k /\ U[k] = W[k]
        BY <1>2, <2>1
    <2>. QED BY <2>2
<1>3. \A k \in 0 .. n : k \in S
    <2> HIDE DEF S
    <2>. QED BY <1>1, <1>2, NaturalInduction
<1>. QED BY <1>3

\* The register after some bits of a dividend have been shifted in.
BitSteps(r, bits, q) == FoldLeft(LAMBDA s, bit : BitStep(s, bit, q), r, bits)

IsRow(U, r, bits, q, l) == U[0] = r /\ \A k \in 1 .. l : U[k] = BitStep(U[k - 1], bits[k], q)

LEMMA BitStepsRow ==
    ASSUME NEW n \in Nat \ {0}, NEW r \in Bits(n), NEW q \in Bits(n), NEW l \in Nat, NEW bits \in Bits(l)
    PROVE  \E U : IsRow(U, r, bits, q, l) /\ BitSteps(r, bits, q) = U[l]
<1> DEFINE R == Bits(n)
    Q(j) == j = [s \in SUBSET DOMAIN bits |->
                    IF s = {} THEN r ELSE BitStep(j[s \ {Max(s)}], bits[Max(s)], q)]
    G == [k \in 1 .. l |-> [t \in R |-> BitStep(t, bits[k], q)]]
<1>1. DOMAIN bits = 1 .. l /\ \A k \in 1 .. l : bits[k] \in Bit
    BY BitsAreSequences
<1>2. \E j : Q(j)
    <2>1. G \in [1 .. l -> [R -> R]]
        BY <1>1, BitStepIs
    <2>2. PICK it \in [SUBSET (1 .. l) -> R] : IsFold(it, r, G, l)
        <3> HIDE DEF G
        <3>. QED BY <2>1, FoldExists DEF HasFold
    <2>3. ASSUME NEW s \in SUBSET (1 .. l), s # {}
          PROVE  G[Max(s)][it[s \ {Max(s)}]] = BitStep(it[s \ {Max(s)}], bits[Max(s)], q)
        <3>1. Max(s) \in 1 .. l
            BY <2>3, MaxIsIn
        <3>2. it[s \ {Max(s)}] \in R
            OBVIOUS
        <3> HIDE DEF R
        <3>. QED BY <3>1, <3>2
    <2>4. Q(it)
        <3> HIDE DEF G, R
        <3>. QED BY <1>1, <2>2, <2>3 DEF IsFold
    <2>. QED BY <2>4
<1> DEFINE c == CHOOSE j : Q(j)
<1>3. Q(c)
    <2> HIDE DEF Q
    <2>. QED BY <1>2, Zenon
<1>4. BitSteps(r, bits, q) = c[1 .. l]
    <2>1. BitSteps(r, bits, q) = c[DOMAIN bits]
        BY DEF BitSteps, FoldLeft, MapThenFoldSet
    <2> HIDE DEF c
    <2>. QED BY <1>1, <2>1
<1> HIDE DEF c
<1>5. c[{}] = r
    BY <1>1, <1>3
<1>6. ASSUME NEW k \in 1 .. l PROVE c[1 .. k] = BitStep(c[1 .. (k - 1)], bits[k], q)
    <2>1. 1 .. k # {} /\ 1 .. k \in SUBSET (1 .. l) /\ Max(1 .. k) = k /\ (1 .. k) \ {k} = 1 .. (k - 1)
        <3>1. k \in Nat \ {0} /\ 1 \in 1 .. k
            OBVIOUS
        <3>2. Max(1 .. k) = k /\ (1 .. k) \ {k} = 1 .. (k - 1)
            BY <3>1, MaxOfInterval
        <3>3. 1 .. k # {} /\ 1 .. k \in SUBSET (1 .. l)
            OBVIOUS
        <3>. QED BY <3>2, <3>3
    <2>. QED BY <1>1, <1>3, <2>1
<1> DEFINE U == [k \in 0 .. l |-> c[1 .. k]]
<1>7. U[0] = r /\ U[l] = c[1 .. l]
    <2>1. 1 .. 0 = {}
        OBVIOUS
    <2>. QED BY <1>5, <2>1
<1>8. \A k \in 1 .. l : U[k] = BitStep(U[k - 1], bits[k], q)
    BY <1>6
<1> HIDE DEF U
<1>. QED BY <1>4, <1>7, <1>8 DEF IsRow

LEMMA RowType ==
    ASSUME NEW n \in Nat \ {0}, NEW r \in Bits(n), NEW q \in Bits(n), NEW l \in Nat, NEW bits \in Bits(l),
           NEW U, IsRow(U, r, bits, q, l)
    PROVE  \A k \in 0 .. l : U[k] \in Bits(n)
<1> DEFINE S == {k \in Nat : k =< l => U[k] \in Bits(n)}
<1>1. 0 \in S
    BY DEF IsRow
<1>2. ASSUME NEW k \in Nat, k \in S PROVE k + 1 \in S
    <2>1. SUFFICES ASSUME k + 1 =< l PROVE U[k + 1] \in Bits(n)
        OBVIOUS
    <2>2. k + 1 \in 1 .. l /\ (k + 1) - 1 = k /\ U[k] \in Bits(n)
        BY <1>2, <2>1
    <2>3. U[k + 1] = BitStep(U[k], bits[k + 1], q) /\ bits[k + 1] \in Bit
        BY <2>2, BitsAreSequences DEF IsRow
    <2>. QED BY <2>2, <2>3, BitStepIs
<1>3. \A k \in 0 .. l : k \in S
    <2> HIDE DEF S
    <2>. QED BY <1>1, <1>2, NaturalInduction
<1>. QED BY <1>3

LEMMA BitStepsType ==
    ASSUME NEW n \in Nat \ {0}, NEW r \in Bits(n), NEW q \in Bits(n), NEW l \in Nat, NEW bits \in Bits(l)
    PROVE  BitSteps(r, bits, q) \in Bits(n)
<1>1. PICK U : IsRow(U, r, bits, q, l) /\ BitSteps(r, bits, q) = U[l]
    BY BitStepsRow
<1>. QED BY <1>1, RowType

LEMMA BitStepsNone ==
    ASSUME NEW n \in Nat \ {0}, NEW r \in Bits(n), NEW q \in Bits(n), NEW bits \in Bits(0)
    PROVE  BitSteps(r, bits, q) = r
BY BitStepsRow DEF IsRow

LEMMA BitStepsOneMore ==
    ASSUME NEW n \in Nat \ {0}, NEW r \in Bits(n), NEW q \in Bits(n), NEW l \in Nat,
           NEW bits \in Bits(l), NEW more \in Bits(l + 1), \A k \in 1 .. l : more[k] = bits[k]
    PROVE  BitSteps(r, more, q) = BitStep(BitSteps(r, bits, q), more[l + 1], q)
<1>1. PICK U : IsRow(U, r, bits, q, l) /\ BitSteps(r, bits, q) = U[l]
    BY BitStepsRow
<1>2. PICK W : IsRow(W, r, more, q, l + 1) /\ BitSteps(r, more, q) = W[l + 1]
    BY BitStepsRow
<1>3. \A k \in 1 .. l : U[k - 1] = W[k - 1] => U[k] = W[k]
    BY <1>1, <1>2 DEF IsRow
<1>4. U[l] = W[l]
    BY <1>1, <1>2, <1>3, RowsAgree DEF IsRow
<1>5. W[l + 1] = BitStep(W[l], more[l + 1], q)
    <2>1. l + 1 \in 1 .. l + 1 /\ (l + 1) - 1 = l
        OBVIOUS
    <2>. QED BY <1>2, <2>1 DEF IsRow
<1>. QED BY <1>1, <1>2, <1>4, <1>5

\* First some bits, then some more.
LEMMA BitStepsConcat ==
    ASSUME NEW n \in Nat \ {0}, NEW r \in Bits(n), NEW q \in Bits(n),
           NEW l \in Nat, NEW a \in Bits(l), NEW m \in Nat, NEW b \in Bits(m)
    PROVE  BitSteps(r, Join(a, b), q) = BitSteps(BitSteps(r, a, q), b, q)
<1> DEFINE s == BitSteps(r, a, q)
    S == {k \in Nat : k =< m => BitSteps(r, Join(a, Top(b, k)), q) = BitSteps(s, Top(b, k), q)}
<1>1. s \in Bits(n)
    BY BitStepsType
<1>2. ASSUME NEW k \in Nat, k =< m
      PROVE  /\ Top(b, k) \in Bits(k) /\ \A i \in 1 .. k : Top(b, k)[i] = b[i]
             /\ Join(a, Top(b, k)) \in Bits(l + k)
             /\ \A i \in 1 .. l + k : Join(a, Top(b, k))[i] = IF i =< l THEN a[i] ELSE b[i - l]
    <2>1. Top(b, k) \in Bits(k) /\ \A i \in 1 .. k : Top(b, k)[i] = b[i]
        BY <1>2, TopIs
    <2>2. /\ Join(a, Top(b, k)) \in Bits(l + k)
          /\ \A i \in 1 .. l + k : Join(a, Top(b, k))[i] = IF i =< l THEN a[i] ELSE Top(b, k)[i - l]
        BY <2>1, JoinIs
    <2>. QED BY <2>1, <2>2
<1>3. 0 \in S
    <2>1. Top(b, 0) \in Bits(0) /\ Join(a, Top(b, 0)) \in Bits(l)
        BY <1>2
    <2>2. Join(a, Top(b, 0)) = a
        BY <1>2, <2>1, SameBits
    <2>. QED BY <1>1, <2>1, <2>2, BitStepsNone
<1>4. ASSUME NEW k \in Nat, k \in S PROVE k + 1 \in S
    <2>1. SUFFICES ASSUME k + 1 =< m
                   PROVE  BitSteps(r, Join(a, Top(b, k + 1)), q) = BitSteps(s, Top(b, k + 1), q)
        OBVIOUS
    <2> DEFINE old == Top(b, k)
        new == Top(b, k + 1)
    <2>2. old \in Bits(k) /\ new \in Bits(k + 1) /\ \A i \in 1 .. k : new[i] = old[i]
        BY <1>2, <2>1
    <2>3. Join(a, old) \in Bits(l + k) /\ Join(a, new) \in Bits(l + k + 1)
        BY <1>2, <2>1
    <2>4. \A i \in 1 .. l + k : Join(a, new)[i] = Join(a, old)[i]
        BY <1>2, <2>1
    <2>5. new[k + 1] = b[k + 1] /\ Join(a, new)[l + k + 1] = b[k + 1]
        <3>1. k + 1 \in 1 .. k + 1 /\ l + k + 1 \in 1 .. l + (k + 1) /\ l + k + 1 - l = k + 1
            OBVIOUS
        <3>. QED BY <1>2, <2>1, <3>1
    <2>6. BitSteps(r, Join(a, old), q) = BitSteps(s, old, q)
        BY <1>4, <2>1
    <2> HIDE DEF old, new, s
    <2>7. BitSteps(s, new, q) = BitStep(BitSteps(s, old, q), b[k + 1], q)
        BY <1>1, <2>2, <2>5, BitStepsOneMore
    <2>8. BitSteps(r, Join(a, new), q) = BitStep(BitSteps(r, Join(a, old), q), b[k + 1], q)
        <3>1. l + k \in Nat
            OBVIOUS
        <3>. QED BY <2>3, <2>4, <2>5, <3>1, BitStepsOneMore
    <2>. QED BY <2>6, <2>7, <2>8 DEF new
<1>5. m \in S
    <2> HIDE DEF S
    <2>. QED BY <1>3, <1>4, NaturalInduction
<1>6. Top(b, m) = b
    BY <1>2, SameBits
<1>. QED BY <1>5, <1>6

\* The remainder of a sum is the sum of the remainders.
LEMMA BitStepsAreLinear ==
    ASSUME NEW n \in Nat \ {0}, NEW r \in Bits(n), NEW s \in Bits(n), NEW q \in Bits(n),
           NEW l \in Nat, NEW a \in Bits(l), NEW b \in Bits(l)
    PROVE  BitSteps(Xor(r, s), Xor(a, b), q) = Xor(BitSteps(r, a, q), BitSteps(s, b, q))
<1>1. PICK U : IsRow(U, r, a, q, l) /\ BitSteps(r, a, q) = U[l]
    BY BitStepsRow
<1>2. PICK V : IsRow(V, s, b, q, l) /\ BitSteps(s, b, q) = V[l]
    BY BitStepsRow
<1>3. Xor(r, s) \in Bits(n) /\ Xor(a, b) \in Bits(l) /\ \A k \in 1 .. l : Xor(a, b)[k] = Plus(a[k], b[k])
    BY XorIs
<1>4. PICK W : IsRow(W, Xor(r, s), Xor(a, b), q, l) /\ BitSteps(Xor(r, s), Xor(a, b), q) = W[l]
    BY <1>3, BitStepsRow
<1>5. \A k \in 0 .. l : U[k] \in Bits(n) /\ V[k] \in Bits(n)
    BY <1>1, <1>2, RowType
<1> DEFINE X == [k \in 0 .. l |-> Xor(U[k], V[k])]
<1>6. ASSUME NEW k \in 1 .. l, W[k - 1] = X[k - 1] PROVE W[k] = X[k]
    <2>1. k - 1 \in 0 .. l /\ k \in 0 .. l
        OBVIOUS
    <2>2. W[k] = BitStep(Xor(U[k - 1], V[k - 1]), Plus(a[k], b[k]), q)
        BY <1>3, <1>4, <1>6, <2>1 DEF IsRow
    <2>3. U[k] = BitStep(U[k - 1], a[k], q) /\ V[k] = BitStep(V[k - 1], b[k], q)
        BY <1>1, <1>2 DEF IsRow
    <2>4. a[k] \in Bit /\ b[k] \in Bit
        BY BitsAreSequences
    <2>5. W[k] = Xor(U[k], V[k])
        BY <1>5, <2>1, <2>2, <2>3, <2>4, BitStepIsLinear
    <2>. QED BY <2>1, <2>5
<1>7. W[0] = X[0]
    BY <1>1, <1>2, <1>4 DEF IsRow
<1>8. W[l] = X[l]
    <2> HIDE DEF X
    <2>. QED BY <1>6, <1>7, RowsAgree
<1>. QED BY <1>1, <1>2, <1>4, <1>8

\* While no bit that is set leaves the register, nothing is subtracted.
LEMMA NothingIsSubtracted ==
    ASSUME NEW n \in Nat \ {0}, NEW r \in Bits(n), NEW q \in Bits(n), NEW m \in Nat, m =< n,
           NEW chunk \in Bits(m), \A k \in 1 .. m : r[k] = 0
    PROVE  BitSteps(r, chunk, q) = Shifted(r, chunk)
<1>1. PICK U : IsRow(U, r, chunk, q, m) /\ BitSteps(r, chunk, q) = U[m]
    BY BitStepsRow
<1> DEFINE X == [k \in 0 .. m |-> Shifted(r, Top(chunk, k))]
<1>2. ASSUME NEW k \in Nat, k =< m
      PROVE  /\ Shifted(r, Top(chunk, k)) \in Bits(n)
             /\ \A j \in 1 .. n : Shifted(r, Top(chunk, k))[j] = IF j + k =< n THEN r[j + k] ELSE chunk[j + k - n]
    <2>1. Top(chunk, k) \in Bits(k) /\ \A i \in 1 .. k : Top(chunk, k)[i] = chunk[i]
        BY <1>2, TopIs
    <2>2. /\ Shifted(r, Top(chunk, k)) \in Bits(n)
          /\ \A j \in 1 .. n :
                Shifted(r, Top(chunk, k))[j] = IF j + k =< n THEN r[j + k] ELSE Top(chunk, k)[j + k - n]
        <3>1. n \in Nat /\ k =< n
            BY <1>2
        <3>. QED BY <2>1, <3>1, ShiftedIs
    <2>. QED BY <2>1, <2>2
<1>3. ASSUME NEW k \in 1 .. m, U[k - 1] = X[k - 1] PROVE U[k] = X[k]
    <2> DEFINE old == Shifted(r, Top(chunk, k - 1))
        new == Shifted(r, Top(chunk, k))
    <2>1. /\ old \in Bits(n) /\ new \in Bits(n)
          /\ \A j \in 1 .. n : old[j] = IF j + (k - 1) =< n THEN r[j + (k - 1)] ELSE chunk[j + (k - 1) - n]
          /\ \A j \in 1 .. n : new[j] = IF j + k =< n THEN r[j + k] ELSE chunk[j + k - n]
        BY <1>2
    <2>2. U[k] = BitStep(old, chunk[k], q) /\ chunk[k] \in Bit
        BY <1>1, <1>3, BitsAreSequences DEF IsRow
    <2>3. X[k] = new
        OBVIOUS
    <2> HIDE DEF old, new
    <2>4. old[1] = 0
        BY <2>1
    <2>5. /\ BitStep(old, chunk[k], q) \in Bits(n)
          /\ \A j \in 1 .. n : BitStep(old, chunk[k], q)[j] = Plus(IF j < n THEN old[j + 1] ELSE chunk[k], 0)
        BY <2>1, <2>2, <2>4, BitStepIs
    <2>6. ASSUME NEW j \in 1 .. n PROVE BitStep(old, chunk[k], q)[j] = new[j]
        <3>1. new[j] = IF j < n THEN old[j + 1] ELSE chunk[k]
            BY <2>1
        <3>2. new[j] \in Bit
            BY <2>1, BitsAreSequences
        <3>. QED BY <2>5, <3>1, <3>2, PlusIs
    <2>7. BitStep(old, chunk[k], q) = new
        BY <2>1, <2>5, <2>6, SameBits
    <2>. QED BY <2>2, <2>3, <2>7
<1>4. U[0] = X[0]
    <2>1. Shifted(r, Top(chunk, 0)) = r
        <3>1. Shifted(r, Top(chunk, 0)) \in Bits(n) /\ \A j \in 1 .. n : Shifted(r, Top(chunk, 0))[j] = r[j]
            BY <1>2
        <3>. QED BY <3>1, SameBits
    <2>. QED BY <1>1, <2>1 DEF IsRow
<1>5. U[m] = X[m]
    <2> HIDE DEF X
    <2>. QED BY <1>3, <1>4, RowsAgree
<1>6. Top(chunk, m) = chunk
    BY TopIs, SameBits
<1>. QED BY <1>1, <1>5, <1>6

LEMMA TableEntryIs ==
    ASSUME NEW n \in Nat \ {0}, NEW q \in Bits(n), NEW m \in Nat, m =< n, NEW i \in Bits(m)
    PROVE  TableEntry(q, i) = BitSteps(Join(i, Zeros(n - m)), Zeros(m), q)
<1>1. Len(q) = n /\ Len(i) = m /\ DOMAIN Zeros(m) = 1 .. m /\ \A k \in 1 .. m : Zeros(m)[k] = 0
    BY BitsAreSequences, ZerosIs DEF Zeros
<1> DEFINE r == Join(i, Zeros(n - m))
    P(j) == j = [s \in SUBSET DOMAIN Zeros(m) |-> IF s = {} THEN r ELSE BitStep(j[s \ {Max(s)}], 0, q)]
    Q(j) == j = [s \in SUBSET DOMAIN Zeros(m) |->
                    IF s = {} THEN r ELSE BitStep(j[s \ {Max(s)}], Zeros(m)[Max(s)], q)]
<1>2. TableEntry(q, i) = (CHOOSE j : P(j))[DOMAIN Zeros(m)]
    BY <1>1 DEF TableEntry, Repeated, FoldLeft, MapThenFoldSet, Join
<1>3. BitSteps(r, Zeros(m), q) = (CHOOSE j : Q(j))[DOMAIN Zeros(m)]
    BY DEF BitSteps, FoldLeft, MapThenFoldSet
<1>4. ASSUME NEW j PROVE P(j) <=> Q(j)
    <2>1. ASSUME NEW s \in SUBSET DOMAIN Zeros(m), s # {} PROVE Zeros(m)[Max(s)] = 0
        BY <1>1, <2>1, MaxIsIn
    <2>. QED BY <2>1
<1>5. (CHOOSE j : P(j)) = (CHOOSE j : Q(j))
    <2> HIDE DEF P, Q
    <2>. QED BY <1>4
<1>. QED BY <1>2, <1>3, <1>5

LEMMA XorCommutes ==
    ASSUME NEW n \in Nat, NEW a \in Bits(n), NEW b \in Bits(n)
    PROVE  Xor(a, b) = Xor(b, a)
<1>1. \A k \in 1 .. n : a[k] \in Bit /\ b[k] \in Bit
    BY BitsAreSequences
<1>2. \A k \in 1 .. n : Plus(a[k], b[k]) = Plus(b[k], a[k])
    BY <1>1, PlusIs
<1>3. /\ Xor(a, b) \in Bits(n) /\ \A k \in 1 .. n : Xor(a, b)[k] = Plus(a[k], b[k])
      /\ Xor(b, a) \in Bits(n) /\ \A k \in 1 .. n : Xor(b, a)[k] = Plus(b[k], a[k])
    BY XorIs
<1>. QED BY <1>2, <1>3, SameBits

\* A chunk in the top of a register.
LEMMA AheadIs ==
    ASSUME NEW n \in Nat, NEW m \in Nat, m =< n, NEW chunk \in Bits(m)
    PROVE  /\ Join(chunk, Zeros(n - m)) \in Bits(n)
           /\ \A k \in 1 .. n : Join(chunk, Zeros(n - m))[k] = IF k =< m THEN chunk[k] ELSE 0
<1> DEFINE a == Join(chunk, Zeros(n - m))
<1>1. n - m \in Nat /\ m + (n - m) = n
    OBVIOUS
<1>2. Zeros(n - m) \in Bits(n - m) /\ \A k \in 1 .. n - m : Zeros(n - m)[k] = 0
    BY <1>1, ZerosIs
<1>3. /\ a \in Bits(m + (n - m))
      /\ \A k \in 1 .. m + (n - m) : a[k] = IF k =< m THEN chunk[k] ELSE Zeros(n - m)[k - m]
    BY <1>1, <1>2, JoinIs
<1> HIDE DEF a
<1>4. a \in Bits(n) /\ \A k \in 1 .. n : a[k] = IF k =< m THEN chunk[k] ELSE 0
    BY <1>1, <1>2, <1>3
<1>. QED BY <1>4 DEF a

\* A table takes as many steps at once as a chunk has bits.
LEMMA AugmentedStepIs ==
    ASSUME NEW n \in Nat \ {0}, NEW p, p.polynomial \in Bits(n), NEW r \in Bits(n),
           NEW m \in Nat, m =< n, NEW chunk \in Bits(m)
    PROVE  AugmentedStep(p, r, chunk) = BitSteps(r, chunk, p.polynomial)
<1> DEFINE q == p.polynomial
    hi == Join(Top(r, m), Zeros(n - m))
    lo == [k \in 1 .. n |-> IF k =< m THEN 0 ELSE r[k]]
<1>1. Len(chunk) = m
    BY BitsAreSequences
<1>2. Top(r, m) \in Bits(m) /\ \A k \in 1 .. m : Top(r, m)[k] = r[k]
    BY TopIs
<1>4. hi \in Bits(n) /\ \A k \in 1 .. n : hi[k] = IF k =< m THEN r[k] ELSE 0
    <2>1. hi \in Bits(n) /\ \A k \in 1 .. n : hi[k] = IF k =< m THEN Top(r, m)[k] ELSE 0
        BY <1>2, AheadIs
    <2> HIDE DEF hi
    <2>. QED BY <1>2, <2>1
<1>5. \A k \in 1 .. n : r[k] \in Bit
    BY BitsAreSequences
<1>6. lo \in Bits(n) /\ \A k \in 1 .. n : lo[k] = IF k =< m THEN 0 ELSE r[k]
    BY <1>5 DEF Bits, Bit
<1> HIDE DEF hi, lo
<1>7. r = Xor(hi, lo)
    <2>1. Xor(hi, lo) \in Bits(n) /\ \A k \in 1 .. n : Xor(hi, lo)[k] = Plus(hi[k], lo[k])
        BY <1>4, <1>6, XorIs
    <2>2. ASSUME NEW k \in 1 .. n PROVE Xor(hi, lo)[k] = r[k]
        BY <1>4, <1>5, <1>6, <2>1, PlusIs
    <2>. QED BY <2>1, <2>2, SameBits
<1>8. chunk = Xor(Zeros(m), chunk) /\ Zeros(m) \in Bits(m)
    BY XorZeros, ZerosIs
<1>9. BitSteps(r, chunk, q) = Xor(BitSteps(hi, Zeros(m), q), BitSteps(lo, chunk, q))
    BY <1>4, <1>6, <1>7, <1>8, BitStepsAreLinear
<1>10. BitSteps(hi, Zeros(m), q) = TableEntry(q, Top(r, m))
    BY <1>2, TableEntryIs DEF hi
<1>11. BitSteps(lo, chunk, q) = Shifted(r, chunk)
    <2>1. BitSteps(lo, chunk, q) = Shifted(lo, chunk)
        BY <1>6, NothingIsSubtracted
    <2>2. /\ Shifted(lo, chunk) \in Bits(n) /\ Shifted(r, chunk) \in Bits(n)
          /\ \A k \in 1 .. n : Shifted(lo, chunk)[k] = IF k + m =< n THEN lo[k + m] ELSE chunk[k + m - n]
          /\ \A k \in 1 .. n : Shifted(r, chunk)[k] = IF k + m =< n THEN r[k + m] ELSE chunk[k + m - n]
        <3>1. /\ Shifted(lo, chunk) \in Bits(n)
              /\ \A k \in 1 .. n : Shifted(lo, chunk)[k] = IF k + m =< n THEN lo[k + m] ELSE chunk[k + m - n]
            BY <1>6, ShiftedIs
        <3>2. /\ Shifted(r, chunk) \in Bits(n)
              /\ \A k \in 1 .. n : Shifted(r, chunk)[k] = IF k + m =< n THEN r[k + m] ELSE chunk[k + m - n]
            BY ShiftedIs
        <3>. QED BY <3>1, <3>2
    <2>3. \A k \in 1 .. n : Shifted(lo, chunk)[k] = Shifted(r, chunk)[k]
        BY <1>6, <2>2
    <2>. QED BY <2>1, <2>2, <2>3, SameBits
<1>12. BitSteps(r, chunk, q) = Xor(TableEntry(q, Top(r, m)), Shifted(r, chunk))
    BY <1>9, <1>10, <1>11
<1>13. TableEntry(q, Top(r, m)) \in Bits(n)
    BY <1>4, <1>8, <1>10, BitStepsType
<1>14. Shifted(r, chunk) \in Bits(n)
    BY ShiftedIs
<1>15. AugmentedStep(p, r, chunk) = Xor(Shifted(r, chunk), TableEntry(q, Top(r, m)))
    BY <1>1 DEF AugmentedStep
<1>. QED BY <1>12, <1>13, <1>14, <1>15, XorCommutes

\* The direct calculators add the chunk to the top before the steps.
LEMMA DirectStepIs ==
    ASSUME NEW n \in Nat \ {0}, NEW p, p.polynomial \in Bits(n), NEW r \in Bits(n),
           NEW m \in Nat, m =< n, NEW chunk \in Bits(m)
    PROVE  DirectStep(p, r, chunk) = BitSteps(Xor(r, Join(chunk, Zeros(n - m))), Zeros(m), p.polynomial)
<1> DEFINE ahead == Join(chunk, Zeros(n - m))
    s == Xor(r, ahead)
<1>1. Len(chunk) = m /\ Zeros(m) \in Bits(m) /\ Len(Zeros(m)) = m
    BY BitsAreSequences, ZerosIs
<1>2. ahead \in Bits(n) /\ \A k \in 1 .. n : ahead[k] = IF k =< m THEN chunk[k] ELSE 0
    BY AheadIs
<1> HIDE DEF ahead
<1>3. s \in Bits(n) /\ \A k \in 1 .. n : s[k] = Plus(r[k], ahead[k])
    BY <1>2, XorIs
<1> HIDE DEF s
<1>4. Top(s, m) = Xor(Top(r, m), chunk)
    <2>1. /\ Top(s, m) \in Bits(m) /\ \A k \in 1 .. m : Top(s, m)[k] = s[k]
          /\ Top(r, m) \in Bits(m) /\ \A k \in 1 .. m : Top(r, m)[k] = r[k]
        BY <1>3, TopIs
    <2>2. Xor(Top(r, m), chunk) \in Bits(m) /\ \A k \in 1 .. m : Xor(Top(r, m), chunk)[k] = Plus(Top(r, m)[k], chunk[k])
        BY <2>1, XorIs
    <2>3. \A k \in 1 .. m : Top(s, m)[k] = Xor(Top(r, m), chunk)[k]
        BY <1>2, <1>3, <2>1, <2>2
    <2>. QED BY <2>1, <2>2, <2>3, SameBits
<1>5. Shifted(s, Zeros(m)) = Shifted(r, Zeros(m))
    <2> DEFINE z == Zeros(m)
    <2>1. n \in Nat /\ z \in Bits(m)
        BY <1>1
    <2> HIDE DEF z
    <2>2. /\ Shifted(s, z) \in Bits(n)
          /\ \A k \in 1 .. n : Shifted(s, z)[k] = IF k + m =< n THEN s[k + m] ELSE z[k + m - n]
        BY <1>3, <2>1, ShiftedIs
    <2>3. /\ Shifted(r, z) \in Bits(n)
          /\ \A k \in 1 .. n : Shifted(r, z)[k] = IF k + m =< n THEN r[k + m] ELSE z[k + m - n]
        BY <2>1, ShiftedIs
    <2>4. ASSUME NEW k \in 1 .. n, k + m =< n PROVE s[k + m] = r[k + m]
        <3>1. ~(k + m =< m) /\ k + m \in 1 .. n
            BY <2>4
        <3>2. s[k + m] = Plus(r[k + m], 0)
            BY <1>2, <1>3, <3>1
        <3>3. r[k + m] \in Bit
            BY <3>1, BitsAreSequences
        <3>. QED BY <3>2, <3>3, PlusIs
    <2>5. \A k \in 1 .. n : Shifted(s, z)[k] = Shifted(r, z)[k]
        BY <2>4, <2>2, <2>3
    <2>. QED BY <2>5, <2>2, <2>3, SameBits DEF z
<1>6. AugmentedStep(p, s, Zeros(m)) = BitSteps(s, Zeros(m), p.polynomial)
    BY <1>1, <1>3, AugmentedStepIs
<1>7. AugmentedStep(p, s, Zeros(m)) = Xor(Shifted(s, Zeros(m)), TableEntry(p.polynomial, Top(s, m)))
    BY <1>1 DEF AugmentedStep
<1>8. DirectStep(p, r, chunk) = Xor(Shifted(r, Zeros(m)), TableEntry(p.polynomial, Xor(Top(r, m), chunk)))
    BY <1>1 DEF DirectStep
<1>. QED BY <1>4, <1>5, <1>6, <1>7, <1>8 DEF s, ahead

LEMMA ZerosConcat ==
    ASSUME NEW m \in Nat, NEW n \in Nat
    PROVE  Join(Zeros(m), Zeros(n)) = Zeros(m + n)
<1>1. /\ Zeros(m) \in Bits(m) /\ \A k \in 1 .. m : Zeros(m)[k] = 0
      /\ Zeros(n) \in Bits(n) /\ \A k \in 1 .. n : Zeros(n)[k] = 0
      /\ m + n \in Nat /\ Zeros(m + n) \in Bits(m + n) /\ \A k \in 1 .. m + n : Zeros(m + n)[k] = 0
    BY ZerosIs
<1>2. /\ Join(Zeros(m), Zeros(n)) \in Bits(m + n)
      /\ \A k \in 1 .. m + n : Join(Zeros(m), Zeros(n))[k] = IF k =< m THEN Zeros(m)[k] ELSE Zeros(n)[k - m]
    BY <1>1, JoinIs
<1>3. \A k \in 1 .. m + n : Join(Zeros(m), Zeros(n))[k] = 0
    BY <1>1, <1>2
<1>. QED BY <1>1, <1>2, <1>3, SameBits

LEMMA BitStepsOfZeros ==
    ASSUME NEW n \in Nat \ {0}, NEW r \in Bits(n), NEW q \in Bits(n), NEW k \in Nat, NEW m \in Nat
    PROVE  BitSteps(BitSteps(r, Zeros(k), q), Zeros(m), q) = BitSteps(r, Zeros(k + m), q)
<1>1. Zeros(k) \in Bits(k) /\ Zeros(m) \in Bits(m)
    BY ZerosIs
<1>2. BitSteps(r, Join(Zeros(k), Zeros(m)), q) = BitSteps(BitSteps(r, Zeros(k), q), Zeros(m), q)
    BY <1>1, BitStepsConcat
<1>. QED BY <1>2, ZerosConcat

\* What a direct calculator holds is ahead of the others by as many zeros as
\* the register has digits, and stays ahead.
LEMMA DirectStaysAhead ==
    ASSUME NEW n \in Nat \ {0}, NEW p, p.polynomial \in Bits(n), NEW r \in Bits(n),
           NEW m \in Nat, m =< n, NEW chunk \in Bits(m)
    PROVE  DirectStep(p, BitSteps(r, Zeros(n), p.polynomial), chunk)
             = BitSteps(BitSteps(r, chunk, p.polynomial), Zeros(n), p.polynomial)
<1> DEFINE q == p.polynomial
    d == BitSteps(r, Zeros(n), q)
    ahead == Join(chunk, Zeros(n - m))
    behind == Join(Zeros(n - m), chunk)
    Z(s, k) == BitSteps(s, Zeros(k), q)
<1>1. q \in Bits(n) /\ n \in Nat /\ n - m \in Nat /\ (n - m) + m = n /\ n - m =< n
    OBVIOUS
<1>2. Zeros(n) \in Bits(n) /\ Zeros(m) \in Bits(m) /\ Zeros(n - m) \in Bits(n - m)
    BY <1>1, ZerosIs
<1> HIDE DEF q
<1>3. d \in Bits(n)
    BY <1>1, <1>2, BitStepsType
<1>4. ahead \in Bits(n) /\ \A k \in 1 .. n : ahead[k] = IF k =< m THEN chunk[k] ELSE 0
    BY <1>1, AheadIs
<1>5. behind \in Bits(n) /\ \A k \in 1 .. n : behind[k] = IF k =< n - m THEN 0 ELSE chunk[k - (n - m)]
    <2>1. \A k \in 1 .. n - m : Zeros(n - m)[k] = 0
        BY <1>1, ZerosIs
    <2>2. /\ behind \in Bits((n - m) + m)
          /\ \A k \in 1 .. (n - m) + m :
                behind[k] = IF k =< n - m THEN Zeros(n - m)[k] ELSE chunk[k - (n - m)]
        <3> DEFINE z == Zeros(n - m)
            l == n - m
        <3>1. l \in Nat /\ z \in Bits(l)
            BY <1>1, <1>2
        <3> HIDE DEF z, l
        <3>2. /\ Join(z, chunk) \in Bits(l + m)
              /\ \A k \in 1 .. l + m : Join(z, chunk)[k] = IF k =< l THEN z[k] ELSE chunk[k - l]
            BY <3>1, JoinIs
        <3>. QED BY <3>2 DEF z, l
    <2> HIDE DEF behind
    <2>. QED BY <1>1, <2>1, <2>2
<1>6. DirectStep(p, d, chunk) = BitSteps(Xor(d, ahead), Zeros(m), q)
    BY <1>1, <1>3, DirectStepIs DEF q
<1> HIDE DEF d, ahead, behind
<1>7. BitSteps(Xor(d, ahead), Zeros(m), q) = Xor(Z(d, m), Z(ahead, m))
    <2>1. Xor(Zeros(m), Zeros(m)) = Zeros(m)
        BY <1>2, XorZeros
    <2>. QED BY <1>1, <1>2, <1>3, <1>4, <2>1, BitStepsAreLinear
\* the chunk alone leaves itself in the end of the register
<1>8. BitSteps(Zeros(n), chunk, q) = behind
    <2>1. BitSteps(Zeros(n), chunk, q) = Shifted(Zeros(n), chunk)
        <3>1. \A k \in 1 .. m : Zeros(n)[k] = 0
            BY <1>1, ZerosIs
        <3>. QED BY <1>1, <1>2, <3>1, NothingIsSubtracted
    <2>2. /\ Shifted(Zeros(n), chunk) \in Bits(n)
          /\ \A k \in 1 .. n : Shifted(Zeros(n), chunk)[k] = IF k + m =< n THEN Zeros(n)[k + m] ELSE chunk[k + m - n]
        BY <1>1, <1>2, ShiftedIs
    <2>3. \A k \in 1 .. n : Zeros(n)[k] = 0
        BY <1>1, ZerosIs
    <2>4. \A k \in 1 .. n : Shifted(Zeros(n), chunk)[k] = behind[k]
        BY <1>5, <2>2, <2>3
    <2>. QED BY <1>5, <2>1, <2>2, <2>4, SameBits
<1>9. BitSteps(r, chunk, q) = Xor(Z(r, m), behind)
    <2>1. Xor(r, Zeros(n)) = r /\ Xor(Zeros(m), chunk) = chunk
        BY <1>1, XorZeros
    <2>2. BitSteps(Xor(r, Zeros(n)), Xor(Zeros(m), chunk), q) = Xor(Z(r, m), BitSteps(Zeros(n), chunk, q))
        BY <1>1, <1>2, BitStepsAreLinear
    <2>. QED BY <1>8, <2>1, <2>2
<1>10. Z(Xor(Z(r, m), behind), n) = Xor(Z(Z(r, m), n), Z(behind, n))
    <2>1. Xor(Zeros(n), Zeros(n)) = Zeros(n)
        BY <1>1, <1>2, XorZeros
    <2>2. Z(r, m) \in Bits(n)
        BY <1>1, <1>2, BitStepsType
    <2>. QED BY <1>1, <1>2, <1>5, <2>1, <2>2, BitStepsAreLinear
<1>11. Z(Z(r, m), n) = Z(d, m)
    <2>1. Z(Z(r, m), n) = Z(r, m + n) /\ Z(Z(r, n), m) = Z(r, n + m) /\ m + n = n + m
        BY <1>1, BitStepsOfZeros
    <2>. QED BY <2>1 DEF d
<1>12. Z(behind, n) = Z(ahead, m)
    <2>1. Z(behind, n) = Z(Z(behind, n - m), m)
        BY <1>1, <1>5, BitStepsOfZeros
    <2>2. Z(behind, n - m) = Shifted(behind, Zeros(n - m))
        BY <1>1, <1>2, <1>5, NothingIsSubtracted
    <2>3. /\ Shifted(behind, Zeros(n - m)) \in Bits(n)
          /\ \A k \in 1 .. n : Shifted(behind, Zeros(n - m))[k] =
                IF k + (n - m) =< n THEN behind[k + (n - m)] ELSE Zeros(n - m)[k + (n - m) - n]
        BY <1>1, <1>2, <1>5, ShiftedIs
    <2>4. \A k \in 1 .. n - m : Zeros(n - m)[k] = 0
        BY <1>1, ZerosIs
    <2>5. ASSUME NEW k \in 1 .. n PROVE Shifted(behind, Zeros(n - m))[k] = ahead[k]
        <3>1. CASE k =< m
            <4>1. k + (n - m) =< n /\ k + (n - m) \in 1 .. n /\ ~(k + (n - m) =< n - m) /\ k + (n - m) - (n - m) = k
                BY <1>1, <3>1
            <4>2. behind[k + (n - m)] = chunk[k]
                BY <1>5, <4>1
            <4>. QED BY <1>4, <2>3, <3>1, <4>1, <4>2
        <3>2. CASE k > m
            <4>1. ~(k + (n - m) =< n) /\ k + (n - m) - n \in 1 .. n - m
                BY <1>1, <3>2
            <4>. QED BY <1>4, <2>3, <2>4, <3>2, <4>1
        <3>. QED BY <3>1, <3>2
    <2>6. Shifted(behind, Zeros(n - m)) = ahead
        BY <1>1, <1>4, <2>3, <2>5, SameBits
    <2>. QED BY <2>1, <2>2, <2>6
<1>. QED BY <1>6, <1>7, <1>9, <1>10, <1>11, <1>12 DEF d, q

LEMMA DirectStepType ==
    ASSUME NEW n \in Nat \ {0}, NEW p, p.polynomial \in Bits(n), NEW r \in Bits(n),
           NEW m \in Nat, m =< n, NEW chunk \in Bits(m)
    PROVE  DirectStep(p, r, chunk) \in Bits(n)
<1>1. Join(chunk, Zeros(n - m)) \in Bits(n)
    BY AheadIs
<1>2. Xor(r, Join(chunk, Zeros(n - m))) \in Bits(n) /\ Zeros(m) \in Bits(m)
    BY <1>1, XorIs, ZerosIs
<1>3. BitSteps(Xor(r, Join(chunk, Zeros(n - m))), Zeros(m), p.polynomial) \in Bits(n)
    <2> DEFINE q == p.polynomial
        s == Xor(r, Join(chunk, Zeros(n - m)))
    <2>1. q \in Bits(n) /\ s \in Bits(n)
        BY <1>2
    <2> HIDE DEF q, s
    <2>2. BitSteps(s, Zeros(m), q) \in Bits(n)
        BY <1>2, <2>1, BitStepsType
    <2>. QED BY <2>2 DEF q, s
<1>. QED BY <1>3, DirectStepIs

LEMMA AugmentedStepType ==
    ASSUME NEW n \in Nat \ {0}, NEW p, p.polynomial \in Bits(n), NEW r \in Bits(n),
           NEW m \in Nat, m =< n, NEW chunk \in Bits(m)
    PROVE  AugmentedStep(p, r, chunk) \in Bits(n)
<1>1. BitSteps(r, chunk, p.polynomial) \in Bits(n)
    BY BitStepsType
<1>. QED BY <1>1, AugmentedStepIs

Chunks(l, m) == [1 .. l -> Bits(m)]

AugmentedSteps(p, r, chunks) == FoldLeft(LAMBDA s, chunk : AugmentedStep(p, s, chunk), r, chunks)

DirectSteps(p, r, chunks) == FoldLeft(LAMBDA s, chunk : DirectStep(p, s, chunk), r, chunks)

IsAugmentedStepsRow(U, p, r, chunks, l) ==
    U[0] = r /\ \A k \in 1 .. l : U[k] = AugmentedStep(p, U[k - 1], chunks[k])

LEMMA AugmentedStepsRow ==
    ASSUME NEW n \in Nat \ {0}, NEW p, p.polynomial \in Bits(n), NEW r \in Bits(n), NEW l \in Nat,
           NEW m \in Nat, m =< n, NEW chunks \in Chunks(l, m)
    PROVE  \E U : IsAugmentedStepsRow(U, p, r, chunks, l) /\ AugmentedSteps(p, r, chunks) = U[l]
<1> DEFINE V == Bits(n)
    seq == chunks
    Q(j) == j = [s \in SUBSET DOMAIN seq |->
                    IF s = {} THEN r ELSE AugmentedStep(p, j[s \ {Max(s)}], seq[Max(s)])]
    G == [k \in 1 .. l |-> [t \in V |-> AugmentedStep(p, t, chunks[k])]]
<1>1. DOMAIN seq = 1 .. l
    BY DEF Chunks
<1>2. \E j : Q(j)
    <2>1. G \in [1 .. l -> [V -> V]]
        <3>1. ASSUME NEW k \in 1 .. l, NEW t \in V PROVE AugmentedStep(p, t, chunks[k]) \in V
            BY AugmentedStepType DEF Chunks
        <3> HIDE DEF V
        <3>. QED BY <3>1
    <2>2. PICK it \in [SUBSET (1 .. l) -> V] : IsFold(it, r, G, l)
        <3>1. r \in V
            OBVIOUS
        <3> HIDE DEF G, V
        <3>. QED BY <2>1, <3>1, FoldExists DEF HasFold
    <2>3. ASSUME NEW s \in SUBSET (1 .. l), s # {}
          PROVE  G[Max(s)][it[s \ {Max(s)}]] = AugmentedStep(p, it[s \ {Max(s)}], seq[Max(s)])
        <3>1. Max(s) \in 1 .. l
            BY <2>3, MaxIsIn
        <3>2. it[s \ {Max(s)}] \in V
            OBVIOUS
        <3> HIDE DEF V
        <3>. QED BY <3>1, <3>2
    <2>4. Q(it)
        <3> HIDE DEF G, V, seq
        <3>. QED BY <1>1, <2>2, <2>3 DEF IsFold
    <2>. QED BY <2>4
<1> DEFINE c == CHOOSE j : Q(j)
<1>3. Q(c)
    <2> HIDE DEF Q
    <2>. QED BY <1>2, Zenon
<1>4. AugmentedSteps(p, r, chunks) = c[1 .. l]
    <2>1. AugmentedSteps(p, r, chunks) = c[DOMAIN seq]
        BY DEF AugmentedSteps, FoldLeft, MapThenFoldSet
    <2> HIDE DEF c, seq
    <2>. QED BY <1>1, <2>1
<1> HIDE DEF c
<1>5. c[{}] = r
    <2> HIDE DEF seq
    <2>. QED BY <1>1, <1>3
<1>6. ASSUME NEW k \in 1 .. l PROVE c[1 .. k] = AugmentedStep(p, c[1 .. (k - 1)], chunks[k])
    <2>1. k \in Nat /\ k # 0 /\ k \in 1 .. k /\ 1 .. k \in SUBSET (1 .. l)
        OBVIOUS
    <2>2. Max(1 .. k) = k /\ (1 .. k) \ {k} = 1 .. (k - 1)
        BY <2>1, MaxOfInterval
    <2>. QED BY <1>1, <1>3, <2>1, <2>2
<1> DEFINE U == [k \in 0 .. l |-> c[1 .. k]]
<1>7. U[0] = r /\ U[l] = c[1 .. l]
    <2>1. 1 .. 0 = {}
        OBVIOUS
    <2>. QED BY <1>5, <2>1
<1>8. \A k \in 1 .. l : U[k] = AugmentedStep(p, U[k - 1], chunks[k])
    BY <1>6
<1> HIDE DEF U
<1>. QED BY <1>4, <1>7, <1>8 DEF IsAugmentedStepsRow

IsDirectStepsRow(U, p, r, chunks, l) ==
    U[0] = r /\ \A k \in 1 .. l : U[k] = DirectStep(p, U[k - 1], chunks[k])

LEMMA DirectStepsRow ==
    ASSUME NEW n \in Nat \ {0}, NEW p, p.polynomial \in Bits(n), NEW r \in Bits(n), NEW l \in Nat,
           NEW m \in Nat, m =< n, NEW chunks \in Chunks(l, m)
    PROVE  \E U : IsDirectStepsRow(U, p, r, chunks, l) /\ DirectSteps(p, r, chunks) = U[l]
<1> DEFINE V == Bits(n)
    seq == chunks
    Q(j) == j = [s \in SUBSET DOMAIN seq |->
                    IF s = {} THEN r ELSE DirectStep(p, j[s \ {Max(s)}], seq[Max(s)])]
    G == [k \in 1 .. l |-> [t \in V |-> DirectStep(p, t, chunks[k])]]
<1>1. DOMAIN seq = 1 .. l
    BY DEF Chunks
<1>2. \E j : Q(j)
    <2>1. G \in [1 .. l -> [V -> V]]
        <3>1. ASSUME NEW k \in 1 .. l, NEW t \in V PROVE DirectStep(p, t, chunks[k]) \in V
            BY DirectStepType DEF Chunks
        <3> HIDE DEF V
        <3>. QED BY <3>1
    <2>2. PICK it \in [SUBSET (1 .. l) -> V] : IsFold(it, r, G, l)
        <3>1. r \in V
            OBVIOUS
        <3> HIDE DEF G, V
        <3>. QED BY <2>1, <3>1, FoldExists DEF HasFold
    <2>3. ASSUME NEW s \in SUBSET (1 .. l), s # {}
          PROVE  G[Max(s)][it[s \ {Max(s)}]] = DirectStep(p, it[s \ {Max(s)}], seq[Max(s)])
        <3>1. Max(s) \in 1 .. l
            BY <2>3, MaxIsIn
        <3>2. it[s \ {Max(s)}] \in V
            OBVIOUS
        <3> HIDE DEF V
        <3>. QED BY <3>1, <3>2
    <2>4. Q(it)
        <3> HIDE DEF G, V, seq
        <3>. QED BY <1>1, <2>2, <2>3 DEF IsFold
    <2>. QED BY <2>4
<1> DEFINE c == CHOOSE j : Q(j)
<1>3. Q(c)
    <2> HIDE DEF Q
    <2>. QED BY <1>2, Zenon
<1>4. DirectSteps(p, r, chunks) = c[1 .. l]
    <2>1. DirectSteps(p, r, chunks) = c[DOMAIN seq]
        BY DEF DirectSteps, FoldLeft, MapThenFoldSet
    <2> HIDE DEF c, seq
    <2>. QED BY <1>1, <2>1
<1> HIDE DEF c
<1>5. c[{}] = r
    <2> HIDE DEF seq
    <2>. QED BY <1>1, <1>3
<1>6. ASSUME NEW k \in 1 .. l PROVE c[1 .. k] = DirectStep(p, c[1 .. (k - 1)], chunks[k])
    <2>1. k \in Nat /\ k # 0 /\ k \in 1 .. k /\ 1 .. k \in SUBSET (1 .. l)
        OBVIOUS
    <2>2. Max(1 .. k) = k /\ (1 .. k) \ {k} = 1 .. (k - 1)
        BY <2>1, MaxOfInterval
    <2>. QED BY <1>1, <1>3, <2>1, <2>2
<1> DEFINE U == [k \in 0 .. l |-> c[1 .. k]]
<1>7. U[0] = r /\ U[l] = c[1 .. l]
    <2>1. 1 .. 0 = {}
        OBVIOUS
    <2>. QED BY <1>5, <2>1
<1>8. \A k \in 1 .. l : U[k] = DirectStep(p, U[k - 1], chunks[k])
    BY <1>6
<1> HIDE DEF U
<1>. QED BY <1>4, <1>7, <1>8 DEF IsDirectStepsRow

LEMMA NibblesAre ==
    ASSUME NEW byte \in Bits(BYTE_DIGITS)
    PROVE  /\ get_byte_nibbles(byte) \in Chunks(2, NIBBLE_BITS)
           /\ byte = Join(get_byte_nibbles(byte)[1], get_byte_nibbles(byte)[2])
<1> DEFINE first == Part(byte, 1, NIBBLE_BITS)
    second == Part(byte, NIBBLE_BITS + 1, BYTE_DIGITS)
<1>1. /\ NIBBLE_BITS \in Nat /\ BYTE_DIGITS \in Nat /\ NIBBLE_BITS # 0
      /\ BYTE_DIGITS = NIBBLE_BITS + NIBBLE_BITS
    BY DigitsAssumption DEF DigitsAssumption
<1>2. first \in Bits(NIBBLE_BITS) /\ \A k \in 1 .. NIBBLE_BITS : first[k] = byte[k]
    <2>1. /\ 1 \in 1 .. BYTE_DIGITS + 1 /\ NIBBLE_BITS \in 0 .. BYTE_DIGITS /\ 1 =< NIBBLE_BITS + 1
          /\ NIBBLE_BITS - 1 + 1 = NIBBLE_BITS /\ \A k \in 1 .. NIBBLE_BITS : 1 + k - 1 = k
        BY <1>1
    <2>. QED BY <1>1, <2>1, PartIs
<1>3. second \in Bits(NIBBLE_BITS) /\ \A k \in 1 .. NIBBLE_BITS : second[k] = byte[NIBBLE_BITS + k]
    <2> DEFINE i == NIBBLE_BITS + 1
        j == BYTE_DIGITS
    <2>1. /\ i \in 1 .. BYTE_DIGITS + 1 /\ j \in 0 .. BYTE_DIGITS /\ i =< j + 1 /\ j - i + 1 = NIBBLE_BITS
        BY <1>1
    <2>3. \A k \in 1 .. NIBBLE_BITS : i + k - 1 = NIBBLE_BITS + k
        BY <1>1
    <2>2. Part(byte, i, j) \in Bits(NIBBLE_BITS) /\ \A k \in 1 .. NIBBLE_BITS : Part(byte, i, j)[k] = byte[i + k - 1]
        <3> HIDE DEF i, j
        <3>. QED BY <1>1, <2>1, PartIs
    <2>. QED BY <2>2, <2>3
<1> HIDE DEF first, second
<1>4. /\ Join(first, second) \in Bits(BYTE_DIGITS)
      /\ \A k \in 1 .. BYTE_DIGITS : Join(first, second)[k] =
             IF k =< NIBBLE_BITS THEN first[k] ELSE second[k - NIBBLE_BITS]
    BY <1>1, <1>2, <1>3, JoinIs
<1>5. \A k \in 1 .. BYTE_DIGITS : Join(first, second)[k] = byte[k]
    BY <1>1, <1>2, <1>3, <1>4
<1>6. Join(first, second) = byte
    BY <1>1, <1>4, <1>5, SameBits
<1>7. get_byte_nibbles(byte) = <<first, second>>
    BY DEF get_byte_nibbles, Part, first, second
<1>. QED BY <1>2, <1>3, <1>6, <1>7 DEF Chunks

LEMMA AugmentedNibbleIs ==
    ASSUME NEW n \in Nat \ {0}, NEW p, p.polynomial \in Bits(n), NEW r \in Bits(n), NIBBLE_BITS =< n,
           NEW byte \in Bits(BYTE_DIGITS)
    PROVE  Augmented_Nibble(p, r, byte) = BitSteps(r, byte, p.polynomial)
<1> DEFINE q == p.polynomial
    chunks == get_byte_nibbles(byte)
<1>1. NIBBLE_BITS \in Nat
    BY DigitsAssumption DEF DigitsAssumption
<1>2. chunks \in Chunks(2, NIBBLE_BITS) /\ byte = Join(chunks[1], chunks[2])
    BY NibblesAre
<1>3. Augmented_Nibble(p, r, byte) = AugmentedSteps(p, r, chunks)
    BY DEF Augmented_Nibble, AugmentedSteps
<1> HIDE DEF chunks
<1>4. PICK U : IsAugmentedStepsRow(U, p, r, chunks, 2) /\ AugmentedSteps(p, r, chunks) = U[2]
    <2>1. 2 \in Nat /\ chunks \in Chunks(2, NIBBLE_BITS)
        BY <1>2
    <2>. QED BY <1>1, <2>1, AugmentedStepsRow
<1>5. U[1] = AugmentedStep(p, r, chunks[1]) /\ U[2] = AugmentedStep(p, U[1], chunks[2])
    BY <1>4 DEF IsAugmentedStepsRow
<1>6. chunks[1] \in Bits(NIBBLE_BITS) /\ chunks[2] \in Bits(NIBBLE_BITS)
    BY <1>2 DEF Chunks
<1>7. U[1] = BitSteps(r, chunks[1], q) /\ U[1] \in Bits(n)
    <2>1. AugmentedStep(p, r, chunks[1]) = BitSteps(r, chunks[1], q)
        BY <1>1, <1>6, AugmentedStepIs
    <2>2. AugmentedStep(p, r, chunks[1]) \in Bits(n)
        BY <1>1, <1>6, AugmentedStepType
    <2>. QED BY <1>5, <2>1, <2>2
<1>8. U[2] = BitSteps(U[1], chunks[2], q)
    BY <1>1, <1>5, <1>6, <1>7, AugmentedStepIs
<1>9. BitSteps(r, Join(chunks[1], chunks[2]), q) = BitSteps(BitSteps(r, chunks[1], q), chunks[2], q)
    BY <1>1, <1>6, BitStepsConcat
<1>. QED BY <1>2, <1>3, <1>4, <1>7, <1>8, <1>9

LEMMA DirectNibbleIs ==
    ASSUME NEW n \in Nat \ {0}, NEW p, p.polynomial \in Bits(n), NEW r \in Bits(n), NIBBLE_BITS =< n,
           NEW byte \in Bits(BYTE_DIGITS)
    PROVE  Direct_Nibble(p, BitSteps(r, Zeros(n), p.polynomial), byte)
             = BitSteps(BitSteps(r, byte, p.polynomial), Zeros(n), p.polynomial)
<1> DEFINE q == p.polynomial
    chunks == get_byte_nibbles(byte)
    d == BitSteps(r, Zeros(n), q)
    first == BitSteps(r, chunks[1], q)
<1>1. NIBBLE_BITS \in Nat
    BY DigitsAssumption DEF DigitsAssumption
<1>2. chunks \in Chunks(2, NIBBLE_BITS) /\ byte = Join(chunks[1], chunks[2])
    BY NibblesAre
<1>3. Direct_Nibble(p, d, byte) = DirectSteps(p, d, chunks)
    BY DEF Direct_Nibble, DirectSteps
<1> HIDE DEF chunks
<1>4. chunks[1] \in Bits(NIBBLE_BITS) /\ chunks[2] \in Bits(NIBBLE_BITS)
    BY <1>2 DEF Chunks
<1>5. d \in Bits(n) /\ first \in Bits(n)
    <2>1. Zeros(n) \in Bits(n)
        BY ZerosIs
    <2>. QED BY <1>1, <1>4, <2>1, BitStepsType
<1>6. DirectStep(p, d, chunks[1]) = BitSteps(first, Zeros(n), q)
    BY <1>1, <1>4, DirectStaysAhead
<1>7. DirectStep(p, BitSteps(first, Zeros(n), q), chunks[2]) = BitSteps(BitSteps(first, chunks[2], q), Zeros(n), q)
    BY <1>1, <1>4, <1>5, DirectStaysAhead
<1>8. BitSteps(r, Join(chunks[1], chunks[2]), q) = BitSteps(first, chunks[2], q)
    BY <1>1, <1>4, BitStepsConcat
<1>9. PICK U : IsDirectStepsRow(U, p, d, chunks, 2) /\ DirectSteps(p, d, chunks) = U[2]
    <2>1. 2 \in Nat /\ chunks \in Chunks(2, NIBBLE_BITS)
        BY <1>2
    <2> HIDE DEF d
    <2>. QED BY <1>1, <1>5, <2>1, DirectStepsRow
<1>10. U[1] = DirectStep(p, d, chunks[1]) /\ U[2] = DirectStep(p, U[1], chunks[2])
    <2> HIDE DEF d
    <2>. QED BY <1>9 DEF IsDirectStepsRow
<1> HIDE DEF d, first
<1>. QED BY <1>2, <1>3, <1>6, <1>7, <1>8, <1>9, <1>10 DEF d

LEMMA Quotient ==
    ASSUME NEW k \in Nat, NEW d \in Nat \ {0}
    PROVE  (k * d) \div d = k
OBVIOUS

\* The zeros that a direct calculator is ahead, in steps of the table.
LEMMA PreprocessedIs ==
    ASSUME NEW n \in Nat \ {0}, NEW p, p.polynomial \in Bits(n), p.initial_remainder \in Bits(n),
           NEW d \in Nat \ {0}, NEW l \in Nat, n = l * d, d =< n
    PROVE  preprocess_initial_remainder(p, d) = BitSteps(p.initial_remainder, Zeros(n), p.polynomial)
<1> DEFINE q == p.polynomial
    r == p.initial_remainder
    chunks == [k \in 1 .. l |-> Zeros(d)]
    X == [k \in 0 .. l |-> BitSteps(r, Zeros(k * d), q)]
<1>1. Len(q) = n /\ n \div d = l
    BY BitsAreSequences, Quotient
<1>2. chunks \in Chunks(l, d)
    BY ZerosIs DEF Chunks
<1>3. preprocess_initial_remainder(p, d) = AugmentedSteps(p, r, chunks)
    <2> DEFINE P(j) == j = [s \in SUBSET DOMAIN Zeros(l) |->
                            IF s = {} THEN r ELSE AugmentedStep(p, j[s \ {Max(s)}], Zeros(d))]
        Q(j) == j = [s \in SUBSET DOMAIN chunks |->
                        IF s = {} THEN r ELSE AugmentedStep(p, j[s \ {Max(s)}], chunks[Max(s)])]
    <2>1. DOMAIN Zeros(l) = 1 .. l /\ DOMAIN chunks = 1 .. l
        BY DEF Zeros
    <2>2. preprocess_initial_remainder(p, d) = (CHOOSE j : P(j))[1 .. l]
        BY <1>1, <2>1 DEF preprocess_initial_remainder, Repeated, FoldLeft, MapThenFoldSet
    <2>3. AugmentedSteps(p, r, chunks) = (CHOOSE j : Q(j))[1 .. l]
        BY <2>1 DEF AugmentedSteps, FoldLeft, MapThenFoldSet
    <2>4. ASSUME NEW j PROVE P(j) <=> Q(j)
        <3>1. ASSUME NEW s \in SUBSET (1 .. l), s # {} PROVE chunks[Max(s)] = Zeros(d)
            BY <3>1, MaxIsIn
        <3> HIDE DEF chunks
        <3>. QED BY <2>1, <3>1
    <2>5. (CHOOSE j : P(j)) = (CHOOSE j : Q(j))
        <3> HIDE DEF P, Q
        <3>. QED BY <2>4
    <2>. QED BY <2>2, <2>3, <2>5
<1>4. PICK U : IsAugmentedStepsRow(U, p, r, chunks, l) /\ AugmentedSteps(p, r, chunks) = U[l]
    <2>1. d \in Nat
        OBVIOUS
    <2> HIDE DEF chunks
    <2>. QED BY <1>2, <2>1, AugmentedStepsRow
<1>5. ASSUME NEW k \in 1 .. l, U[k - 1] = X[k - 1] PROVE U[k] = X[k]
    <2>1. (k - 1) * d \in Nat /\ (k - 1) * d + d = k * d /\ k - 1 \in 0 .. l /\ k \in 0 .. l
        BY SMT
    <2>2. Zeros((k - 1) * d) \in Bits((k - 1) * d) /\ Zeros(d) \in Bits(d)
        BY <2>1, ZerosIs
    <2>3. BitSteps(r, Zeros((k - 1) * d), q) \in Bits(n)
        BY <2>1, <2>2, BitStepsType
    <2>4. U[k] = AugmentedStep(p, BitSteps(r, Zeros((k - 1) * d), q), Zeros(d))
        BY <1>4, <1>5, <2>1 DEF IsAugmentedStepsRow
    <2>5. U[k] = BitSteps(BitSteps(r, Zeros((k - 1) * d), q), Zeros(d), q)
        BY <2>2, <2>3, <2>4, AugmentedStepIs
    <2>6. U[k] = BitSteps(r, Zeros((k - 1) * d + d), q)
        <3> DEFINE t == (k - 1) * d
        <3>1. t \in Nat /\ d \in Nat
            BY <2>1
        <3> HIDE DEF t
        <3>2. BitSteps(BitSteps(r, Zeros(t), q), Zeros(d), q) = BitSteps(r, Zeros(t + d), q)
            BY <3>1, BitStepsOfZeros
        <3>. QED BY <2>5, <3>2 DEF t
    <2>. QED BY <2>1, <2>6
<1>6. U[0] = X[0]
    <2>1. 0 * d = 0 /\ Zeros(0) \in Bits(0)
        BY ZerosIs
    <2>. QED BY <1>4, <2>1, BitStepsNone DEF IsAugmentedStepsRow
<1>7. U[l] = X[l]
    <2> HIDE DEF X, chunks
    <2>. QED BY <1>5, <1>6, RowsAgree
<1>. QED BY <1>3, <1>4, <1>7

LEMMA LargestOf ==
    ASSUME NEW n \in Nat, NEW S \in SUBSET (0 .. n), S # {}
    PROVE  Max(S) \in S /\ \A x \in S : x =< Max(S)
<1> DEFINE T == {n - x : x \in S}
<1>1. T \in SUBSET Nat /\ T # {}
    <2>1. \A x \in S : n - x \in Nat
        OBVIOUS
    <2>. QED BY <2>1
<1>2. PICK t \in T : \A u \in T : t =< u
    BY <1>1, Smallest
<1>3. PICK k \in S : t = n - k
    BY <1>2
<1>4. ASSUME NEW x \in S PROVE k >= x
    <2>1. n - x \in T
        OBVIOUS
    <2>2. n - k =< n - x
        BY <1>2, <1>3, <2>1
    <2>. QED BY <2>2
<1>5. \E x \in S : \A y \in S : x >= y
    BY <1>4
<1>6. Max(S) \in S /\ \A y \in S : Max(S) >= y
    BY <1>5 DEF Max
<1>. QED BY <1>6

\* The first loop of reflect().
Shifts(v, n, l) == FoldLeft(LAMBDA r, k : Shifted(r, <<v[n - k]>>), v, [k \in 1 .. l |-> k])

IsShiftsRow(U, v, n, l) ==
    U[0] = v /\ \A k \in 1 .. l : U[k] = Shifted(U[k - 1], <<v[n - k]>>)

LEMMA ShiftsRow ==
    ASSUME NEW n \in Nat \ {0}, NEW v \in Bits(n), NEW l \in Nat, l < n
    PROVE  \E U : IsShiftsRow(U, v, n, l) /\ Shifts(v, n, l) = U[l]
<1> DEFINE V == Bits(n)
    seq == [k \in 1 .. l |-> k]
    Q(j) == j = [s \in SUBSET DOMAIN seq |->
                    IF s = {} THEN v ELSE Shifted(j[s \ {Max(s)}], <<v[n - seq[Max(s)]]>>)]
    G == [k \in 1 .. l |-> [t \in V |-> Shifted(t, <<v[n - k]>>)]]
<1>1. DOMAIN seq = 1 .. l
    OBVIOUS
<1>2. \E j : Q(j)
    <2>1. G \in [1 .. l -> [V -> V]]
        <3>1. ASSUME NEW k \in 1 .. l, NEW t \in V PROVE Shifted(t, <<v[n - k]>>) \in V
            <4>1. n - k \in 1 .. n
                OBVIOUS
            <4>2. <<v[n - k]>> \in Bits(1) /\ n \in Nat /\ 1 \in Nat /\ 1 =< n
                BY <4>1, BitsAreSequences DEF Bits
            <4>. QED BY <3>1, <4>2, ShiftedIs
        <3> HIDE DEF V
        <3>. QED BY <3>1
    <2>2. PICK it \in [SUBSET (1 .. l) -> V] : IsFold(it, v, G, l)
        <3>1. v \in V
            OBVIOUS
        <3> HIDE DEF G, V
        <3>. QED BY <2>1, <3>1, FoldExists DEF HasFold
    <2>3. ASSUME NEW s \in SUBSET (1 .. l), s # {}
          PROVE  G[Max(s)][it[s \ {Max(s)}]] = Shifted(it[s \ {Max(s)}], <<v[n - seq[Max(s)]]>>)
        <3>1. Max(s) \in 1 .. l
            BY <2>3, MaxIsIn
        <3>2. it[s \ {Max(s)}] \in V
            OBVIOUS
        <3> HIDE DEF V
        <3>. QED BY <3>1, <3>2
    <2>4. Q(it)
        <3> HIDE DEF G, V, seq
        <3>. QED BY <1>1, <2>2, <2>3 DEF IsFold
    <2>. QED BY <2>4
<1> DEFINE c == CHOOSE j : Q(j)
<1>3. Q(c)
    <2> HIDE DEF Q
    <2>. QED BY <1>2, Zenon
<1>4. Shifts(v, n, l) = c[1 .. l]
    <2>1. Shifts(v, n, l) = c[DOMAIN seq]
        BY DEF Shifts, FoldLeft, MapThenFoldSet
    <2> HIDE DEF c, seq
    <2>. QED BY <1>1, <2>1
<1> HIDE DEF c
<1>5. c[{}] = v
    <2> HIDE DEF seq
    <2>. QED BY <1>1, <1>3
<1>6. ASSUME NEW k \in 1 .. l PROVE c[1 .. k] = Shifted(c[1 .. (k - 1)], <<v[n - k]>>)
    <2>1. k \in Nat /\ k # 0 /\ k \in 1 .. k /\ 1 .. k \in SUBSET (1 .. l)
        OBVIOUS
    <2>2. Max(1 .. k) = k /\ (1 .. k) \ {k} = 1 .. (k - 1)
        BY <2>1, MaxOfInterval
    <2>. QED BY <1>1, <1>3, <2>1, <2>2
<1> DEFINE U == [k \in 0 .. l |-> c[1 .. k]]
<1>7. U[0] = v /\ U[l] = c[1 .. l]
    <2>1. 1 .. 0 = {}
        OBVIOUS
    <2>. QED BY <1>5, <2>1
<1>8. \A k \in 1 .. l : U[k] = Shifted(U[k - 1], <<v[n - k]>>)
    BY <1>6
<1> HIDE DEF U
<1>. QED BY <1>4, <1>7, <1>8 DEF IsShiftsRow

LEMMA ShiftsIs ==
    ASSUME NEW n \in Nat \ {0}, NEW v \in Bits(n), NEW l \in Nat, l < n
    PROVE  Shifts(v, n, l) = [i \in 1 .. n |-> IF i + l =< n THEN v[i + l] ELSE v[2 * n - i - l]]
<1> DEFINE X == [k \in 0 .. l |-> [i \in 1 .. n |-> IF i + k =< n THEN v[i + k] ELSE v[2 * n - i - k]]]
<1>1. PICK U : IsShiftsRow(U, v, n, l) /\ Shifts(v, n, l) = U[l]
    BY ShiftsRow
<1>2. \A i \in 1 .. n : v[i] \in Bit
    BY BitsAreSequences
<1>3. ASSUME NEW k \in 0 .. l
      PROVE  /\ X[k] \in Bits(n)
             /\ \A i \in 1 .. n : X[k][i] = IF i + k =< n THEN v[i + k] ELSE v[2 * n - i - k]
    <2>1. ASSUME NEW i \in 1 .. n PROVE (IF i + k =< n THEN v[i + k] ELSE v[2 * n - i - k]) \in Bit
        <3>1. CASE i + k =< n
            BY <1>2, <3>1
        <3>2. CASE ~(i + k =< n)
            <4>1. 2 * n - i - k \in 1 .. n
                BY <3>2
            <4>. QED BY <1>2, <3>2, <4>1
        <3>. QED BY <3>1, <3>2
    <2>2. X[k] = [i \in 1 .. n |-> IF i + k =< n THEN v[i + k] ELSE v[2 * n - i - k]]
        OBVIOUS
    <2> HIDE DEF X
    <2>. QED BY <2>1, <2>2 DEF Bits
<1>4. U[0] = X[0]
    <2>1. \A i \in 1 .. n : X[0][i] = v[i]
        BY <1>3
    <2>2. X[0] = v
        <3> HIDE DEF X
        <3>. QED BY <1>3, <2>1, SameBits
    <2>. QED BY <1>1, <2>2 DEF IsShiftsRow
<1> HIDE DEF X
<1>5. ASSUME NEW k \in 1 .. l, U[k - 1] = X[k - 1] PROVE U[k] = X[k]
    <2>1. U[k] = Shifted(X[k - 1], <<v[n - k]>>)
        BY <1>1, <1>5 DEF IsShiftsRow
    <2>2. k - 1 \in 0 .. l /\ k \in 0 .. l /\ n - k \in 1 .. n
        OBVIOUS
    <2> DEFINE b == <<v[n - k]>>
    <2>3. b \in Bits(1) /\ b[1] = v[n - k] /\ n \in Nat /\ 1 \in Nat /\ 1 =< n
        BY <1>2, <2>2 DEF Bits
    <2> HIDE DEF b
    <2>4. /\ Shifted(X[k - 1], b) \in Bits(n)
          /\ \A i \in 1 .. n : Shifted(X[k - 1], b)[i] = IF i + 1 =< n THEN X[k - 1][i + 1] ELSE b[i + 1 - n]
        <3> DEFINE x == X[k - 1]
        <3>1. x \in Bits(n)
            BY <1>3, <2>2
        <3> HIDE DEF x
        <3>2. /\ Shifted(x, b) \in Bits(n)
              /\ \A i \in 1 .. n : Shifted(x, b)[i] = IF i + 1 =< n THEN x[i + 1] ELSE b[i + 1 - n]
            BY <2>3, <3>1, ShiftedIs
        <3>. QED BY <3>2 DEF x
    <2>5. ASSUME NEW i \in 1 .. n PROVE Shifted(X[k - 1], b)[i] = X[k][i]
        <3>1. X[k][i] = IF i + k =< n THEN v[i + k] ELSE v[2 * n - i - k]
            BY <1>3, <2>2
        <3>2. CASE i < n
            <4>1. i + 1 \in 1 .. n /\ (i + 1) + (k - 1) = i + k /\ 2 * n - (i + 1) - (k - 1) = 2 * n - i - k
                BY <3>2
            <4>2. X[k - 1][i + 1] = IF (i + 1) + (k - 1) =< n THEN v[(i + 1) + (k - 1)] ELSE v[2 * n - (i + 1) - (k - 1)]
                BY <1>3, <2>2, <4>1
            <4>. QED BY <2>4, <3>1, <4>1, <4>2
        <3>3. CASE i = n
            <4>1. i + 1 - n = 1 /\ ~(i + 1 =< n) /\ ~(i + k =< n) /\ 2 * n - i - k = n - k
                BY <3>3
            <4>. QED BY <2>3, <2>4, <3>1, <4>1
        <3>. QED BY <3>2, <3>3
    <2>6. Shifted(X[k - 1], b) = X[k]
        BY <1>3, <2>2, <2>4, <2>5, SameBits
    <2>. QED BY <2>1, <2>6 DEF b
<1>6. U[l] = X[l]
    BY <1>4, <1>5, RowsAgree
<1>. QED BY <1>1, <1>6 DEF X

LEMMA ReverseIs ==
    ASSUME NEW n \in Nat, NEW v \in Bits(n)
    PROVE  Reverse(v) \in Bits(n) /\ \A i \in 1 .. n : Reverse(v)[i] = v[n - i + 1]
<1>1. Len(v) = n /\ \A i \in 1 .. n : v[i] \in Bit
    BY BitsAreSequences
<1>2. Reverse(v) = [i \in 1 .. n |-> v[(n - i) + 1]]
    BY <1>1 DEF Reverse
<1>3. \A i \in 1 .. n : (n - i) + 1 \in 1 .. n
    OBVIOUS
<1>. QED BY <1>1, <1>2, <1>3 DEF Bits

\* The bits after the last one that is set need no loop: they are zeros.
LEMMA ReflectIs ==
    ASSUME NEW n \in Nat \ {0}, NEW v \in Bits(n)
    PROVE  reflect(v) = Reverse(v)
<1> DEFINE S == {0} \cup {n - k : k \in {k \in 1 .. n : v[k] = 1}}
    l == Max(S)
    w == Shifts(v, n, l)
<1>1. S \in SUBSET (0 .. n - 1) /\ S # {} /\ n - 1 \in Nat
    OBVIOUS
<1>2. l \in S /\ \A x \in S : x =< l
    <2> HIDE DEF S
    <2>. QED BY <1>1, LargestOf
<1>3. l \in 0 .. n - 1
    <2> HIDE DEF l, S
    <2>. QED BY <1>1, <1>2
<1>4. ASSUME NEW k \in 1 .. n, n - k > l PROVE v[k] = 0
    <2>1. v[k] \in Bit
        BY BitsAreSequences
    <2>2. SUFFICES ASSUME v[k] = 1 PROVE FALSE
        BY <2>1 DEF Bit
    <2>3. n - k \in S
        BY <2>2
    <2> HIDE DEF l, S
    <2>. QED BY <1>2, <1>3, <1>4, <2>3
<1>5. reflect(v) = Shifted(w, Zeros(n - 1 - l))
    <2>1. Len(v) = n
        BY BitsAreSequences
    <2>. QED BY <2>1 DEF reflect, Shifts
<1> HIDE DEF l, S
<1>6. w = [i \in 1 .. n |-> IF i + l =< n THEN v[i + l] ELSE v[2 * n - i - l]]
    BY <1>3, ShiftsIs
<1>7. w \in Bits(n)
    <2>1. PICK U : IsShiftsRow(U, v, n, l) /\ w = U[l]
        BY <1>3, ShiftsRow
    <2>2. ASSUME NEW i \in 1 .. n PROVE (IF i + l =< n THEN v[i + l] ELSE v[2 * n - i - l]) \in Bit
        <3>1. i + l =< n => i + l \in 1 .. n
            BY <1>3
        <3>2. ~(i + l =< n) => 2 * n - i - l \in 1 .. n
            BY <1>3
        <3>. QED BY <3>1, <3>2, BitsAreSequences
    <2> HIDE DEF w
    <2>. QED BY <1>6, <2>2 DEF Bits
<1> HIDE DEF w
<1> DEFINE m == n - 1 - l
    z == Zeros(m)
<1>8. m \in Nat /\ m =< n /\ n \in Nat
    BY <1>3
<1>9. z \in Bits(m) /\ \A k \in 1 .. m : z[k] = 0
    BY <1>8, ZerosIs
<1> HIDE DEF z
<1>10. /\ Shifted(w, z) \in Bits(n)
       /\ \A i \in 1 .. n : Shifted(w, z)[i] = IF i + m =< n THEN w[i + m] ELSE z[i + m - n]
    <2> HIDE DEF m
    <2>. QED BY <1>7, <1>8, <1>9, ShiftedIs
<1>11. Reverse(v) \in Bits(n) /\ \A i \in 1 .. n : Reverse(v)[i] = v[n - i + 1]
    BY ReverseIs
<1>12. ASSUME NEW i \in 1 .. n PROVE Shifted(w, z)[i] = Reverse(v)[i]
    <2>1. CASE i + m =< n
        <3>1. i + m \in 1 .. n /\ (i + m) + l = n - 1 + i /\ 2 * n - (i + m) - l = n - i + 1
            BY <1>3, <1>8, <2>1
        <3>2. w[i + m] = IF (i + m) + l =< n THEN v[(i + m) + l] ELSE v[2 * n - (i + m) - l]
            BY <1>6, <3>1
        <3>3. CASE i = 1
            <4>1. (i + m) + l = n /\ n - i + 1 = n
                BY <3>1, <3>3
            <4>. QED BY <1>10, <1>11, <2>1, <3>2, <4>1
        <3>4. CASE i # 1
            <4>1. ~((i + m) + l =< n)
                BY <3>1, <3>4
            <4>. QED BY <1>10, <1>11, <2>1, <3>1, <3>2, <4>1
        <3>. QED BY <3>3, <3>4
    <2>2. CASE ~(i + m =< n)
        <3>1. n - i + 1 \in 1 .. n /\ n - (n - i + 1) > l /\ i + m - n \in 1 .. m
            BY <1>3, <1>8, <2>2
        <3>2. v[n - i + 1] = 0
            BY <1>4, <3>1
        <3>. QED BY <1>9, <1>10, <1>11, <2>2, <3>1, <3>2
    <2>. QED BY <2>1, <2>2
<1>13. Shifted(w, z) = Reverse(v)
    BY <1>8, <1>10, <1>11, <1>12, SameBits
<1>. QED BY <1>5, <1>13 DEF z

\* The step of a division, of a divisor whose highest bit is one.
Subtracted(s, k, q) ==
    IF s[k] = 0 THEN s
    ELSE [j \in DOMAIN s |->
             IF j \in k .. k + Len(<<1>> \o q) - 1 THEN (s[j] + (<<1>> \o q)[j - k + 1]) % 2 ELSE s[j]]

Subtractions(s, q, l) == FoldLeft(LAMBDA t, k : Subtracted(t, k, q), s, [k \in 1 .. l |-> k])

LEMMA SubtractedIs ==
    ASSUME NEW n \in Nat \ {0}, NEW q \in Bits(n), NEW l \in Nat, NEW s \in Bits(n + l), NEW k \in 1 .. l
    PROVE  /\ Subtracted(s, k, q) \in Bits(n + l)
           /\ \A j \in 1 .. n + l : Subtracted(s, k, q)[j] =
                 IF s[k] = 1 /\ j \in k .. k + n THEN Plus(s[j], IF j = k THEN 1 ELSE q[j - k]) ELSE s[j]
<1> DEFINE d == Join(<<1>>, q)
<1>1. <<1>> \in Bits(1) /\ <<1>>[1] = 1
    BY DEF Bits, Bit
<1>2. d \in Bits(1 + n) /\ \A i \in 1 .. 1 + n : d[i] = IF i =< 1 THEN <<1>>[i] ELSE q[i - 1]
    <2> DEFINE o == <<1>>
    <2>1. 1 \in Nat /\ n \in Nat /\ o \in Bits(1)
        BY <1>1
    <2> HIDE DEF o
    <2>2. Join(o, q) \in Bits(1 + n) /\ \A i \in 1 .. 1 + n : Join(o, q)[i] = IF i =< 1 THEN o[i] ELSE q[i - 1]
        BY <2>1, JoinIs
    <2>. QED BY <2>2 DEF o
<1>3. 1 + n \in Nat /\ Len(d) = 1 + n /\ \A i \in 1 .. 1 + n : d[i] \in Bit
    <2>1. 1 + n \in Nat
        OBVIOUS
    <2> HIDE DEF d
    <2>. QED BY <1>2, <2>1, BitsAreSequences
<1>4. DOMAIN s = 1 .. n + l /\ \A j \in 1 .. n + l : s[j] \in Bit
    BY BitsAreSequences
<1>5. Subtracted(s, k, q) =
          IF s[k] = 0 THEN s
          ELSE [j \in 1 .. n + l |-> IF j \in k .. k + Len(d) - 1 THEN Plus(s[j], d[j - k + 1]) ELSE s[j]]
    BY <1>4 DEF Subtracted, Plus, Join
<1> HIDE DEF d
<1>6. k + Len(d) - 1 = k + n
    BY <1>3
<1>7. ASSUME NEW j \in 1 .. n + l, j \in k .. k + n
      PROVE  j - k + 1 \in 1 .. 1 + n /\ d[j - k + 1] = IF j = k THEN 1 ELSE q[j - k]
    <2>1. j - k + 1 \in 1 .. 1 + n
        BY <1>7
    <2>2. CASE j = k
        <3>1. j - k + 1 = 1 /\ 1 \in 1 .. 1 + n
            BY <2>2
        <3>. QED BY <1>1, <1>2, <2>1, <2>2, <3>1
    <2>3. CASE j # k
        <3>1. ~(j - k + 1 =< 1) /\ (j - k + 1) - 1 = j - k
            BY <1>7, <2>3
        <3>. QED BY <1>2, <2>1, <2>3, <3>1
    <2>. QED BY <2>2, <2>3
<1>8. k \in 1 .. n + l
    OBVIOUS
<1>9. s[k] \in Bit
    BY <1>4, <1>8
<1>10. CASE s[k] = 0
    BY <1>5, <1>10
<1>11. CASE s[k] = 1
    <2>1. Subtracted(s, k, q) =
              [j \in 1 .. n + l |-> IF j \in k .. k + n THEN Plus(s[j], d[j - k + 1]) ELSE s[j]]
        BY <1>5, <1>6, <1>11
    <2>2. ASSUME NEW j \in 1 .. n + l, j \in k .. k + n PROVE Plus(s[j], d[j - k + 1]) \in Bit
        <3>1. s[j] \in Bit /\ d[j - k + 1] \in Bit
            BY <1>3, <1>4, <1>7, <2>2
        <3>. QED BY <3>1, PlusIs
    <2>3. Subtracted(s, k, q) \in Bits(n + l)
        BY <1>4, <2>1, <2>2 DEF Bits
    <2>. QED BY <1>7, <1>11, <2>1, <2>3
<1>. QED BY <1>9, <1>10, <1>11 DEF Bit

IsSubtractionsRow(U, s, q, l) ==
    U[0] = s /\ \A k \in 1 .. l : U[k] = Subtracted(U[k - 1], k, q)

LEMMA SubtractionsRow ==
    ASSUME NEW n \in Nat \ {0}, NEW q \in Bits(n), NEW l \in Nat, NEW s \in Bits(n + l)
    PROVE  \E U : IsSubtractionsRow(U, s, q, l) /\ Subtractions(s, q, l) = U[l]
<1> DEFINE V == Bits(n + l)
    seq == [k \in 1 .. l |-> k]
    Q(j) == j = [ss \in SUBSET DOMAIN seq |->
                    IF ss = {} THEN s ELSE Subtracted(j[ss \ {Max(ss)}], seq[Max(ss)], q)]
    G == [k \in 1 .. l |-> [t \in V |-> Subtracted(t, k, q)]]
<1>1. DOMAIN seq = 1 .. l
    OBVIOUS
<1>2. \E j : Q(j)
    <2>1. G \in [1 .. l -> [V -> V]]
        <3>1. ASSUME NEW k \in 1 .. l, NEW t \in V PROVE Subtracted(t, k, q) \in V
            BY <3>1, SubtractedIs
        <3> HIDE DEF V
        <3>. QED BY <3>1
    <2>2. PICK it \in [SUBSET (1 .. l) -> V] : IsFold(it, s, G, l)
        <3>1. s \in V
            OBVIOUS
        <3> HIDE DEF G, V
        <3>. QED BY <2>1, <3>1, FoldExists DEF HasFold
    <2>3. ASSUME NEW ss \in SUBSET (1 .. l), ss # {}
          PROVE  G[Max(ss)][it[ss \ {Max(ss)}]] = Subtracted(it[ss \ {Max(ss)}], seq[Max(ss)], q)
        <3>1. Max(ss) \in 1 .. l
            BY <2>3, MaxIsIn
        <3>2. it[ss \ {Max(ss)}] \in V
            OBVIOUS
        <3> HIDE DEF V
        <3>. QED BY <3>1, <3>2
    <2>4. Q(it)
        <3> HIDE DEF G, V, seq
        <3>. QED BY <1>1, <2>2, <2>3 DEF IsFold
    <2>. QED BY <2>4
<1> DEFINE c == CHOOSE j : Q(j)
<1>3. Q(c)
    <2> HIDE DEF Q
    <2>. QED BY <1>2, Zenon
<1>4. Subtractions(s, q, l) = c[1 .. l]
    <2>1. Subtractions(s, q, l) = c[DOMAIN seq]
        BY DEF Subtractions, FoldLeft, MapThenFoldSet
    <2> HIDE DEF c, seq
    <2>. QED BY <1>1, <2>1
<1> HIDE DEF c
<1>5. c[{}] = s
    <2> HIDE DEF seq
    <2>. QED BY <1>1, <1>3
<1>6. ASSUME NEW k \in 1 .. l PROVE c[1 .. k] = Subtracted(c[1 .. (k - 1)], k, q)
    <2>1. k \in Nat /\ k # 0 /\ k \in 1 .. k /\ 1 .. k \in SUBSET (1 .. l)
        OBVIOUS
    <2>2. Max(1 .. k) = k /\ (1 .. k) \ {k} = 1 .. (k - 1)
        BY <2>1, MaxOfInterval
    <2>. QED BY <1>1, <1>3, <2>1, <2>2
<1> DEFINE U == [k \in 0 .. l |-> c[1 .. k]]
<1>7. U[0] = s /\ U[l] = c[1 .. l]
    <2>1. 1 .. 0 = {}
        OBVIOUS
    <2>. QED BY <1>5, <2>1
<1>8. \A k \in 1 .. l : U[k] = Subtracted(U[k - 1], k, q)
    BY <1>6
<1> HIDE DEF U
<1>. QED BY <1>4, <1>7, <1>8 DEF IsSubtractionsRow

\* The bits that are done are zeros, those of the register are next, and
\* those that are not shifted in yet are as they were.
Under(n, k, r, b, l) ==
    [j \in 1 .. n + l |-> IF j =< k THEN 0 ELSE IF j =< k + n THEN r[j - k] ELSE b[j - n]]

LEMMA UnderIs ==
    ASSUME NEW n \in Nat \ {0}, NEW l \in Nat, NEW k \in 0 .. l, NEW r \in Bits(n), NEW b \in Bits(l)
    PROVE  Under(n, k, r, b, l) \in Bits(n + l)
<1>1. ASSUME NEW j \in 1 .. n + l
      PROVE  (IF j =< k THEN 0 ELSE IF j =< k + n THEN r[j - k] ELSE b[j - n]) \in Bit
    <2>1. CASE j =< k
        BY <2>1 DEF Bit
    <2>2. CASE ~(j =< k) /\ j =< k + n
        <3>1. j - k \in 1 .. n
            BY <2>2
        <3>2. r[j - k] \in Bit
            BY <3>1, BitsAreSequences
        <3>. QED BY <2>2, <3>2
    <2>3. CASE ~(j =< k) /\ ~(j =< k + n)
        <3>1. j - n \in 1 .. l
            BY <2>3
        <3>2. b[j - n] \in Bit
            BY <3>1, BitsAreSequences
        <3>. QED BY <2>3, <3>2
    <2>. QED BY <2>1, <2>2, <2>3
<1>. QED BY <1>1 DEF Under, Bits

LEMMA SubtractedUnder ==
    ASSUME NEW n \in Nat \ {0}, NEW q \in Bits(n), NEW l \in Nat, NEW k \in 1 .. l, NEW r \in Bits(n),
           NEW b \in Bits(l)
    PROVE  Subtracted(Under(n, k - 1, r, b, l), k, q) = Under(n, k, BitStep(r, b[k], q), b, l)
<1> DEFINE s == Under(n, k - 1, r, b, l)
    w == BitStep(r, b[k], q)
    t == Under(n, k, w, b, l)
<1>1. k - 1 \in 0 .. l /\ k \in 0 .. l /\ b[k] \in Bit /\ r[1] \in Bit /\ 1 \in 1 .. n
    BY BitsAreSequences
<1>2. /\ w \in Bits(n)
      /\ \A i \in 1 .. n : w[i] = Plus(IF i < n THEN r[i + 1] ELSE b[k], IF r[1] = 1 THEN q[i] ELSE 0)
    BY <1>1, BitStepIs
<1> HIDE DEF w
<1>3. s \in Bits(n + l) /\ t \in Bits(n + l)
    BY <1>1, <1>2, UnderIs
<1>4. \A j \in 1 .. n + l : s[j] = IF j =< k - 1 THEN 0 ELSE IF j =< (k - 1) + n THEN r[j - (k - 1)] ELSE b[j - n]
    BY DEF Under
<1>5. \A j \in 1 .. n + l : t[j] = IF j =< k THEN 0 ELSE IF j =< k + n THEN w[j - k] ELSE b[j - n]
    BY DEF Under
<1> HIDE DEF s, t
<1>6. /\ Subtracted(s, k, q) \in Bits(n + l)
      /\ \A j \in 1 .. n + l : Subtracted(s, k, q)[j] =
            IF s[k] = 1 /\ j \in k .. k + n THEN Plus(s[j], IF j = k THEN 1 ELSE q[j - k]) ELSE s[j]
    BY <1>3, SubtractedIs
<1>7. k \in 1 .. n + l /\ s[k] = r[1]
    <2>1. k \in 1 .. n + l /\ ~(k =< k - 1) /\ k =< (k - 1) + n /\ k - (k - 1) = 1
        OBVIOUS
    <2>. QED BY <1>4, <2>1
<1>8. ASSUME NEW j \in 1 .. n + l PROVE Subtracted(s, k, q)[j] = t[j]
    <2>1. CASE j < k
        <3>1. j =< k - 1 /\ j =< k /\ ~(j \in k .. k + n)
            BY <2>1
        <3>. QED BY <1>4, <1>5, <1>6, <3>1
    <2>2. CASE j = k
        <3>1. t[j] = 0 /\ s[j] = r[1] /\ j \in k .. k + n
            BY <1>5, <1>7, <2>2
        <3>2. CASE r[1] = 1
            BY <1>6, <1>7, <2>2, <3>1, <3>2, PlusTable
        <3>3. CASE r[1] = 0
            BY <1>6, <1>7, <2>2, <3>1, <3>3
        <3>. QED BY <1>1, <3>2, <3>3 DEF Bit
    <2>3. CASE j > k /\ j =< k + n
        <3> DEFINE i == j - k
            x == IF i < n THEN r[i + 1] ELSE b[k]
        <3>1. i \in 1 .. n /\ t[j] = w[i] /\ j \in k .. k + n
            BY <1>5, <2>3
        <3>2. s[j] = x
            <4>1. CASE i < n
                <5>1. ~(j =< k - 1) /\ j =< (k - 1) + n /\ j - (k - 1) = i + 1
                    BY <2>3, <4>1
                <5>. QED BY <1>4, <4>1, <5>1
            <4>2. CASE ~(i < n)
                <5>1. ~(j =< k - 1) /\ ~(j =< (k - 1) + n) /\ j - n = k
                    BY <2>3, <4>2
                <5>. QED BY <1>4, <4>2, <5>1
            <4>. QED BY <4>1, <4>2
        <3>3. s[j] \in Bit
            BY <1>3, BitsAreSequences
        <3>4. w[i] = Plus(x, IF r[1] = 1 THEN q[i] ELSE 0)
            BY <1>2, <3>1
        <3> HIDE DEF x
        <3>5. CASE r[1] = 1
            <4>1. Subtracted(s, k, q)[j] = Plus(s[j], q[i])
                BY <1>6, <1>7, <2>3, <3>1, <3>5
            <4>. QED BY <3>1, <3>2, <3>4, <3>5, <4>1
        <3>6. CASE r[1] = 0
            <4>1. Subtracted(s, k, q)[j] = s[j]
                BY <1>6, <1>7, <3>6
            <4>2. Plus(s[j], 0) = s[j]
                BY <3>3, PlusIs
            <4>. QED BY <3>1, <3>2, <3>4, <3>6, <4>1, <4>2
        <3>. QED BY <1>1, <3>5, <3>6 DEF Bit
    <2>4. CASE j > k + n
        <3>1. ~(j =< k - 1) /\ ~(j =< (k - 1) + n) /\ ~(j =< k) /\ ~(j =< k + n) /\ ~(j \in k .. k + n)
            BY <2>4
        <3>. QED BY <1>4, <1>5, <1>6, <3>1
    <2>. QED BY <2>1, <2>2, <2>3, <2>4
<1>9. Subtracted(s, k, q) = t
    <2>1. n + l \in Nat
        OBVIOUS
    <2>. QED BY <1>3, <1>6, <1>8, <2>1, SameBits
<1>. QED BY <1>9 DEF s, t, w

\* The steps bit by bit are the division.
LEMMA DividedIs ==
    ASSUME NEW n \in Nat \ {0}, NEW q \in Bits(n), NEW r \in Bits(n), NEW l \in Nat, NEW b \in Bits(l)
    PROVE  Divided(Join(r, b), <<1>> \o q) = BitSteps(r, b, q)
<1> DEFINE s == Join(r, b)
<1>1. s \in Bits(n + l) /\ \A j \in 1 .. n + l : s[j] = IF j =< n THEN r[j] ELSE b[j - n]
    BY JoinIs
<1>2. n + l \in Nat
    OBVIOUS
<1> HIDE DEF s
<1>3. Len(s) = n + l
    BY <1>1, <1>2, BitsAreSequences
<1>4. Len(<<1>> \o q) = n + 1
    <2>1. <<1>> \in Seq(Bit) /\ q \in Seq(Bit) /\ Len(q) = n
        BY BitsAreSequences DEF Bit
    <2>. QED BY <2>1
<1>5. Len(s) - Len(<<1>> \o q) + 1 = l
    BY <1>3, <1>4
<1>6. Divided(s, <<1>> \o q) = Part(Subtractions(s, q, l), l + 1, n + l)
    BY <1>3, <1>5 DEF Divided, Subtractions, Subtracted, Part
<1>7. PICK U : IsSubtractionsRow(U, s, q, l) /\ Subtractions(s, q, l) = U[l]
    BY <1>1, SubtractionsRow
<1>8. PICK W : IsRow(W, r, b, q, l) /\ BitSteps(r, b, q) = W[l]
    BY BitStepsRow
<1>9. \A k \in 0 .. l : W[k] \in Bits(n)
    BY <1>8, RowType
<1> DEFINE X == [k \in 0 .. l |-> Under(n, k, W[k], b, l)]
<1>10. U[0] = X[0]
    <2>1. 0 \in 0 .. l /\ W[0] = r
        BY <1>8 DEF IsRow
    <2>2. Under(n, 0, r, b, l) \in Bits(n + l)
        BY <2>1, UnderIs
    <2>3. \A j \in 1 .. n + l : Under(n, 0, r, b, l)[j] = s[j]
        BY <1>1 DEF Under
    <2>4. Under(n, 0, r, b, l) = s
        BY <1>1, <1>2, <2>2, <2>3, SameBits
    <2>. QED BY <1>7, <2>1, <2>4 DEF IsSubtractionsRow
<1>11. ASSUME NEW k \in 1 .. l, U[k - 1] = X[k - 1] PROVE U[k] = X[k]
    <2>1. k - 1 \in 0 .. l /\ k \in 0 .. l
        OBVIOUS
    <2>2. U[k] = Subtracted(Under(n, k - 1, W[k - 1], b, l), k, q)
        BY <1>7, <1>11, <2>1 DEF IsSubtractionsRow
    <2>3. W[k] = BitStep(W[k - 1], b[k], q) /\ W[k - 1] \in Bits(n)
        BY <1>8, <1>9, <2>1 DEF IsRow
    <2>4. U[k] = Under(n, k, W[k], b, l)
        BY <2>2, <2>3, SubtractedUnder
    <2>. QED BY <2>1, <2>4
<1>12. U[l] = Under(n, l, W[l], b, l)
    <2>1. U[l] = X[l]
        <3> HIDE DEF X
        <3>1. \A k \in 0 .. l : U[k] = X[k]
            BY <1>10, <1>11, RowsAgree
        <3>. QED BY <3>1
    <2>. QED BY <2>1
<1>13. W[l] \in Bits(n) /\ U[l] \in Bits(n + l)
    BY <1>9, <1>12, UnderIs
<1>14. Part(U[l], l + 1, n + l) = W[l]
    <2> DEFINE u == U[l]
        i == l + 1
        e == n + l
    <2>1. u \in Bits(e) /\ e \in Nat /\ i \in 1 .. e + 1 /\ e \in 0 .. e /\ i =< e + 1 /\ e - i + 1 = n
        BY <1>13
    <2>2. Part(u, i, e) \in Bits(n) /\ \A k \in 1 .. n : Part(u, i, e)[k] = u[i + k - 1]
        <3> HIDE DEF u, i, e
        <3>1. /\ Part(u, i, e) \in Bits(e - i + 1)
              /\ \A k \in 1 .. e - i + 1 : Part(u, i, e)[k] = u[i + k - 1]
            BY <2>1, PartIs
        <3>. QED BY <2>1, <3>1
    <2>3. ASSUME NEW k \in 1 .. n PROVE Part(u, i, e)[k] = W[l][k]
        <3>1. i + k - 1 = l + k /\ l + k \in 1 .. n + l /\ ~(l + k =< l) /\ l + k =< l + n /\ (l + k) - l = k
            OBVIOUS
        <3>2. u[l + k] = W[l][k]
            BY <1>12, <3>1 DEF Under
        <3>. QED BY <2>2, <3>1, <3>2
    <2> HIDE DEF u, i, e
    <2>4. Part(u, i, e) = W[l]
        BY <1>13, <2>2, <2>3, SameBits
    <2>. QED BY <2>4 DEF u, i, e
<1>. QED BY <1>6, <1>7, <1>8, <1>14 DEF s

\* FlattenSeq() of equally long sequences of bits.
IsFlat(f, bytes, l) == f = [i \in 1 .. l |-> IF i = 1 THEN bytes[i] ELSE f[i - 1] \o bytes[i]]

HasFlat(bytes, d, l) ==
    \E f \in [1 .. l -> Seq(Bit)] : IsFlat(f, bytes, l) /\ \A i \in 1 .. l : f[i] \in Bits(i * d)

LEMMA FlatExists ==
    ASSUME NEW d \in Nat, NEW l \in Nat, NEW bytes \in Chunks(l, d)
    PROVE  HasFlat(bytes, d, l)
<1> DEFINE S == {m \in Nat : m =< l => HasFlat(bytes, d, m)}
<1>1. 0 \in S
    <2> DEFINE f == [i \in 1 .. 0 |-> IF i = 1 THEN bytes[i] ELSE <<>>]
    <2>1. f \in [1 .. 0 -> Seq(Bit)] /\ 1 .. 0 = {}
        OBVIOUS
    <2>2. f = [i \in 1 .. 0 |-> IF i = 1 THEN bytes[i] ELSE f[i - 1] \o bytes[i]]
        BY <2>1
    <2>. QED BY <2>1, <2>2 DEF HasFlat, IsFlat
<1>2. ASSUME NEW m \in Nat, m \in S PROVE m + 1 \in S
    <2>1. SUFFICES ASSUME m + 1 =< l PROVE HasFlat(bytes, d, m + 1)
        OBVIOUS
    <2>2. PICK f \in [1 .. m -> Seq(Bit)] : IsFlat(f, bytes, m) /\ \A i \in 1 .. m : f[i] \in Bits(i * d)
        <3>1. HasFlat(bytes, d, m)
            BY <1>2, <2>1
        <3>. QED BY <3>1 DEF HasFlat
    <2>3. m + 1 \in 1 .. l /\ bytes[m + 1] \in Bits(d)
        BY <2>1 DEF Chunks
    <2> DEFINE last == IF m = 0 THEN bytes[1] ELSE Join(f[m], bytes[m + 1])
        g == [i \in 1 .. m + 1 |-> IF i = m + 1 THEN last ELSE f[i]]
    <2>4. last \in Bits((m + 1) * d)
        <3>1. CASE m = 0
            BY <2>3, <3>1
        <3>2. CASE m # 0
            <4>1. m * d \in Nat /\ m * d + d = (m + 1) * d /\ f[m] \in Bits(m * d)
                BY <2>2, <3>2
            <4>2. Join(f[m], bytes[m + 1]) \in Bits(m * d + d)
                BY <2>3, <4>1, JoinIs
            <4>. QED BY <3>2, <4>1, <4>2
        <3>. QED BY <3>1, <3>2
    <2>5. last \in Seq(Bit)
        <3>1. (m + 1) * d \in Nat
            OBVIOUS
        <3> HIDE DEF last
        <3>. QED BY <2>4, <3>1, BitsAreSequences
    <2>6. g \in [1 .. m + 1 -> Seq(Bit)]
        <3> HIDE DEF last
        <3>. QED BY <2>5
    <2>7. \A i \in 1 .. m + 1 : g[i] \in Bits(i * d)
        <3>1. ASSUME NEW i \in 1 .. m + 1 PROVE g[i] \in Bits(i * d)
            <4>1. CASE i = m + 1
                <5> HIDE DEF last
                <5>. QED BY <2>4, <4>1
            <4>2. CASE i # m + 1
                <5>1. i \in 1 .. m
                    BY <4>2
                <5> HIDE DEF last
                <5>. QED BY <2>2, <4>2, <5>1
            <4>. QED BY <4>1, <4>2
        <3>. QED BY <3>1
    <2>8. ASSUME NEW i \in 1 .. m + 1 PROVE g[i] = IF i = 1 THEN bytes[i] ELSE g[i - 1] \o bytes[i]
        <3>1. CASE i = m + 1
            <4>1. CASE m = 0
                BY <3>1, <4>1
            <4>2. CASE m # 0
                <5>1. i # 1 /\ i - 1 = m /\ m \in 1 .. m + 1 /\ m # m + 1
                    BY <3>1, <4>2
                <5>2. g[i] = last /\ g[i - 1] = f[m]
                    <6> HIDE DEF last
                    <6>. QED BY <3>1, <5>1
                <5>3. last = f[m] \o bytes[i]
                    BY <3>1, <4>2 DEF Join
                <5> HIDE DEF g, last
                <5>. QED BY <5>1, <5>2, <5>3
            <4>. QED BY <4>1, <4>2
        <3>2. CASE i # m + 1
            <4>1. i \in 1 .. m
                BY <3>2
            <4>2. f[i] = IF i = 1 THEN bytes[i] ELSE f[i - 1] \o bytes[i]
                BY <2>2, <4>1 DEF IsFlat
            <4>3. g[i] = f[i] /\ (i # 1 => g[i - 1] = f[i - 1])
                <5> HIDE DEF last
                <5>. QED BY <3>2, <4>1
            <4> HIDE DEF g
            <4>. QED BY <4>2, <4>3
        <3>. QED BY <3>1, <3>2
    <2>9. g = [i \in 1 .. m + 1 |-> IF i = 1 THEN bytes[i] ELSE g[i - 1] \o bytes[i]]
        <3>1. g = [i \in 1 .. m + 1 |-> g[i]]
            OBVIOUS
        <3> HIDE DEF g
        <3>. QED BY <2>8, <3>1
    <2> HIDE DEF g
    <2>. QED BY <2>6, <2>7, <2>9 DEF HasFlat, IsFlat
<1>3. l \in S
    <2> HIDE DEF S
    <2>. QED BY <1>1, <1>2, NaturalInduction
<1>. QED BY <1>3

LEMMA FlatsAgree ==
    ASSUME NEW l \in Nat, NEW m \in Nat, l =< m, NEW a, NEW b, \A k \in 1 .. l : a[k] = b[k],
           NEW f, NEW g, IsFlat(f, a, l), IsFlat(g, b, m)
    PROVE  \A i \in 1 .. l : f[i] = g[i]
<1> DEFINE U == [k \in 0 .. l |-> IF k = 0 THEN <<>> ELSE f[k]]
    W == [k \in 0 .. l |-> IF k = 0 THEN <<>> ELSE g[k]]
<1>1. U[0] = W[0] /\ \A k \in 1 .. l : U[k] = f[k] /\ W[k] = g[k]
    OBVIOUS
<1>2. ASSUME NEW k \in 1 .. l, U[k - 1] = W[k - 1] PROVE U[k] = W[k]
    <2>1. /\ f[k] = IF k = 1 THEN a[k] ELSE f[k - 1] \o a[k]
          /\ g[k] = IF k = 1 THEN b[k] ELSE g[k - 1] \o b[k]
        <3>1. k \in 1 .. m
            OBVIOUS
        <3>. QED BY <3>1 DEF IsFlat
    <2>2. k # 1 => k - 1 \in 1 .. l
        OBVIOUS
    <2> HIDE DEF U, W
    <2>. QED BY <1>1, <1>2, <2>1, <2>2
<1>3. \A k \in 0 .. l : U[k] = W[k]
    <2> HIDE DEF U, W
    <2>. QED BY <1>1, <1>2, RowsAgree
<1>. QED BY <1>1, <1>3

LEMMA FlatIs ==
    ASSUME NEW d \in Nat, NEW l \in Nat, l # 0, NEW bytes \in Chunks(l, d)
    PROVE  \E f : IsFlat(f, bytes, l) /\ FlattenSeq(bytes) = f[l] /\ f[l] \in Bits(l * d)
<1>1. Len(bytes) = l
    BY DEF Chunks
<1>2. PICK f : IsFlat(f, bytes, l) /\ \A i \in 1 .. l : f[i] \in Bits(i * d)
    BY FlatExists DEF HasFlat
<1> DEFINE Q(j) == j = [i \in 1 .. l |-> IF i = 1 THEN bytes[i] ELSE j[i - 1] \o bytes[i]]
    c == CHOOSE j : Q(j)
<1>3. Q(c)
    <2>1. Q(f)
        BY <1>2 DEF IsFlat
    <2> HIDE DEF Q
    <2>. QED BY <2>1, Zenon
<1>4. FlattenSeq(bytes) = c[l]
    BY <1>1 DEF FlattenSeq
<1> HIDE DEF c
<1>5. IsFlat(c, bytes, l)
    BY <1>3 DEF IsFlat
<1>6. c[l] = f[l]
    <2>1. \A i \in 1 .. l : c[i] = f[i]
        <3>1. PICK b : b = bytes
            OBVIOUS
        <3>2. IsFlat(f, b, l) /\ l =< l /\ \A k \in 1 .. l : bytes[k] = b[k]
            BY <1>2, <3>1
        <3>. QED BY <1>5, <3>2, FlatsAgree
    <2>. QED BY <2>1
<1>. QED BY <1>2, <1>4, <1>5, <1>6

\* One byte more at the end.
LEMMA FlattenedIs ==
    ASSUME NEW d \in Nat, NEW l \in Nat, NEW bytes \in Chunks(l, d), NEW more \in Chunks(l + 1, d),
           \A k \in 1 .. l : more[k] = bytes[k]
    PROVE  /\ FlattenSeq(bytes) \in Bits(l * d)
           /\ FlattenSeq(more) = Join(FlattenSeq(bytes), more[l + 1])
<1>1. PICK g : IsFlat(g, more, l + 1) /\ FlattenSeq(more) = g[l + 1]
    BY FlatIs
<1>2. l + 1 \in 1 .. l + 1 /\ g[l + 1] = IF l + 1 = 1 THEN more[l + 1] ELSE g[(l + 1) - 1] \o more[l + 1]
    <2> DEFINE m == l + 1
    <2>1. m \in 1 .. m
        OBVIOUS
    <2> HIDE DEF m
    <2>2. g[m] = IF m = 1 THEN more[m] ELSE g[m - 1] \o more[m]
        <3>1. g = [i \in 1 .. m |-> IF i = 1 THEN more[i] ELSE g[i - 1] \o more[i]]
            BY <1>1 DEF m, IsFlat
        <3>. QED BY <2>1, <3>1
    <2>. QED BY <2>1, <2>2 DEF m
<1>3. more[l + 1] \in Bits(d)
    BY <1>2 DEF Chunks
<1>4. CASE l = 0
    <2>1. FlattenSeq(bytes) = bytes /\ bytes \in Bits(0) /\ 0 * d = 0
        BY <1>4 DEF FlattenSeq, Chunks, Bits
    <2>2. /\ Join(bytes, more[l + 1]) \in Bits(0 + d)
          /\ \A k \in 1 .. 0 + d : Join(bytes, more[l + 1])[k] = IF k =< 0 THEN bytes[k] ELSE more[l + 1][k - 0]
        BY <1>3, <2>1, JoinIs
    <2>3. Join(bytes, more[l + 1]) = more[l + 1]
        BY <1>3, <2>2, SameBits
    <2>. QED BY <1>1, <1>2, <1>4, <2>1, <2>3
<1>5. CASE l # 0
    <2>1. PICK f : IsFlat(f, bytes, l) /\ FlattenSeq(bytes) = f[l] /\ f[l] \in Bits(l * d)
        BY <1>5, FlatIs
    <2>2. f[l] = g[l]
        <3>1. l =< l + 1 /\ l + 1 \in Nat /\ l \in 1 .. l /\ \A k \in 1 .. l : bytes[k] = more[k]
            BY <1>5
        <3>2. \A i \in 1 .. l : f[i] = g[i]
            BY <1>1, <2>1, <3>1, FlatsAgree
        <3>. QED BY <3>1, <3>2
    <2>3. l + 1 # 1 /\ (l + 1) - 1 = l
        BY <1>5
    <2>. QED BY <1>1, <1>2, <2>1, <2>2, <2>3 DEF Join
<1>. QED BY <1>4, <1>5

\* What the calculators hold when the dividend so far leaves remainder a:
\* the direct ones are ahead.
Registers(p, a) ==
    LET d == BitSteps(a, Zeros(Len(p.polynomial)), p.polynomial)
    IN  [Bitwise |-> a, Augmented_Byte |-> a, Augmented_Nibble |-> a, Direct_Byte |-> d, Direct_Nibble |-> d]

\* A polynomial and remainders of n digits, which are l bytes.
Suits(p, n, l) ==
    /\ n \in Nat \ {0} /\ l \in Nat
    /\ n = l * BYTE_DIGITS /\ BYTE_DIGITS =< n /\ NIBBLE_BITS =< n
    /\ p.polynomial \in Bits(n) /\ Len(p.polynomial) = n
    /\ p.initial_remainder \in Bits(n) /\ p.xor_output \in Bits(n)
    /\ p.input_is_reflected \in BOOLEAN /\ p.output_is_reflected \in BOOLEAN

LEMMA Digits ==
    /\ BYTE_DIGITS \in Nat \ {0} /\ NIBBLE_BITS \in Nat \ {0}
    /\ BYTE_DIGITS \in Nat /\ NIBBLE_BITS \in Nat /\ BYTE_DIGITS = 2 * NIBBLE_BITS
BY DigitsAssumption DEF DigitsAssumption

LEMMA ParametersSuit ==
    ASSUME NEW p \in Calculation_Parameters
    PROVE  \E n, l \in Nat : Suits(p, n, l)
<1>1. PICK q \in Polynomials :
          p \in [polynomial : {q}, initial_remainder : {r \in Remainders : Len(r) = Len(q)},
                xor_output : {r \in Remainders : Len(r) = Len(q)},
                input_is_reflected : BOOLEAN, output_is_reflected : BOOLEAN]
    BY DEF Calculation_Parameters
<1>2. PICK n : n = Len(q)
    OBVIOUS
<1>3. q \in Bits(n) /\ n \in Nat /\ \E l \in 1 .. n : n = l * BYTE_DIGITS
    BY <1>2, PolynomialsAssumption DEF PolynomialsAssumption
<1>4. PICK l \in 1 .. n : n = l * BYTE_DIGITS
    BY <1>3
<1>5. n # 0 /\ l \in Nat /\ l >= 1
    BY <1>3, <1>4
<1>6. BYTE_DIGITS =< n /\ NIBBLE_BITS =< n
    <2>1. BYTE_DIGITS =< l * BYTE_DIGITS
        BY <1>5, Digits
    <2>. QED BY <1>3, <1>4, <2>1, Digits
<1>7. \A r \in Remainders : Len(r) = Len(q) => r \in Bits(n)
    BY <1>2, RemaindersAssumption DEF RemaindersAssumption
<1>8. Suits(p, n, l)
    BY <1>1, <1>2, <1>3, <1>4, <1>5, <1>6, <1>7 DEF Suits
<1>. QED BY <1>3, <1>5, <1>8

LEMMA FedIs ==
    ASSUME NEW p, NEW n, NEW l, Suits(p, n, l), NEW a \in Bits(n), NEW byte \in Bits(BYTE_DIGITS)
    PROVE  /\ Fed(p, Registers(p, a), byte) = Registers(p, BitSteps(a, byte, p.polynomial))
           /\ BitSteps(a, byte, p.polynomial) \in Bits(n)
<1> DEFINE q == p.polynomial
    b == BitSteps(a, byte, q)
    d == BitSteps(a, Zeros(n), q)
    e == BitSteps(b, Zeros(n), q)
<1>1. /\ n \in Nat \ {0} /\ q \in Bits(n) /\ Len(q) = n /\ BYTE_DIGITS =< n /\ NIBBLE_BITS =< n
      /\ p.polynomial \in Bits(n)
    BY DEF Suits
<1>2. b \in Bits(n)
    BY <1>1, Digits, BitStepsType
<1>3. Bitwise(p, a, byte) = b
    BY DEF Bitwise, BitSteps
<1>4. Augmented_Byte(p, a, byte) = b
    <2>1. AugmentedStep(p, a, byte) = BitSteps(a, byte, p.polynomial)
        BY <1>1, Digits, AugmentedStepIs
    <2>. QED BY <2>1 DEF Augmented_Byte
<1>5. Augmented_Nibble(p, a, byte) = b
    BY <1>1, AugmentedNibbleIs
<1>6. Direct_Byte(p, d, byte) = e
    <2>1. DirectStep(p, BitSteps(a, Zeros(n), p.polynomial), byte)
            = BitSteps(BitSteps(a, byte, p.polynomial), Zeros(n), p.polynomial)
        BY <1>1, Digits, DirectStaysAhead
    <2>. QED BY <2>1 DEF Direct_Byte
<1>7. Direct_Nibble(p, d, byte) = e
    BY <1>1, DirectNibbleIs
<1> HIDE DEF q, b, d, e
<1>8. Registers(p, a) = [Bitwise |-> a, Augmented_Byte |-> a, Augmented_Nibble |-> a, Direct_Byte |-> d, Direct_Nibble |-> d]
    BY <1>1 DEF Registers, d, q
<1>9. Registers(p, b) = [Bitwise |-> b, Augmented_Byte |-> b, Augmented_Nibble |-> b, Direct_Byte |-> e, Direct_Nibble |-> e]
    BY <1>1 DEF Registers, e, q
<1>10. Fed(p, Registers(p, a), byte) = Registers(p, b)
    BY <1>3, <1>4, <1>5, <1>6, <1>7, <1>8, <1>9 DEF Fed
<1>. QED BY <1>2, <1>10 DEF b, q

FedSteps(p, r, zeros, l) == Repeated(LAMBDA s : Fed(p, s, zeros), l, r)

IsFedStepsRow(U, p, r, zeros, l) ==
    U[0] = r /\ \A k \in 1 .. l : U[k] = Fed(p, U[k - 1], zeros)

LEMMA FedStepsRow ==
    ASSUME NEW p, NEW n, NEW m, Suits(p, n, m), NEW a \in Bits(n), NEW r, r = Registers(p, a), NEW l \in Nat,
           NEW zeros \in Bits(BYTE_DIGITS)
    PROVE  \E U : IsFedStepsRow(U, p, r, zeros, l) /\ FedSteps(p, r, zeros, l) = U[l]
<1> DEFINE V == {Registers(p, t) : t \in Bits(n)}
    seq == Zeros(l)
    Q(j) == j = [s \in SUBSET DOMAIN seq |->
                    IF s = {} THEN r ELSE Fed(p, j[s \ {Max(s)}], zeros)]
    G == [k \in 1 .. l |-> [t \in V |-> Fed(p, t, zeros)]]
<1>1. DOMAIN seq = 1 .. l
    BY DEF Zeros
<1>2. \E j : Q(j)
    <2>1. G \in [1 .. l -> [V -> V]]
        <3>1. ASSUME NEW k \in 1 .. l, NEW t \in V PROVE Fed(p, t, zeros) \in V
            BY <3>1, FedIs
        <3> HIDE DEF V
        <3>. QED BY <3>1
    <2>2. PICK it \in [SUBSET (1 .. l) -> V] : IsFold(it, r, G, l)
        <3>1. r \in V
            OBVIOUS
        <3> HIDE DEF G, V
        <3>. QED BY <2>1, <3>1, FoldExists DEF HasFold
    <2>3. ASSUME NEW s \in SUBSET (1 .. l), s # {}
          PROVE  G[Max(s)][it[s \ {Max(s)}]] = Fed(p, it[s \ {Max(s)}], zeros)
        <3>1. Max(s) \in 1 .. l
            BY <2>3, MaxIsIn
        <3>2. it[s \ {Max(s)}] \in V
            OBVIOUS
        <3> HIDE DEF V
        <3>. QED BY <3>1, <3>2
    <2>4. Q(it)
        <3> HIDE DEF G, V, seq
        <3>. QED BY <1>1, <2>2, <2>3 DEF IsFold
    <2>. QED BY <2>4
<1> DEFINE c == CHOOSE j : Q(j)
<1>3. Q(c)
    <2> HIDE DEF Q
    <2>. QED BY <1>2, Zenon
<1>4. FedSteps(p, r, zeros, l) = c[1 .. l]
    <2>1. FedSteps(p, r, zeros, l) = c[DOMAIN seq]
        BY DEF FedSteps, Repeated, FoldLeft, MapThenFoldSet
    <2> HIDE DEF c, seq
    <2>. QED BY <1>1, <2>1
<1> HIDE DEF c
<1>5. c[{}] = r
    <2> HIDE DEF seq
    <2>. QED BY <1>1, <1>3
<1>6. ASSUME NEW k \in 1 .. l PROVE c[1 .. k] = Fed(p, c[1 .. (k - 1)], zeros)
    <2>1. k \in Nat /\ k # 0 /\ k \in 1 .. k /\ 1 .. k \in SUBSET (1 .. l)
        OBVIOUS
    <2>2. Max(1 .. k) = k /\ (1 .. k) \ {k} = 1 .. (k - 1)
        BY <2>1, MaxOfInterval
    <2>. QED BY <1>1, <1>3, <2>1, <2>2
<1> DEFINE U == [k \in 0 .. l |-> c[1 .. k]]
<1>7. U[0] = r /\ U[l] = c[1 .. l]
    <2>1. 1 .. 0 = {}
        OBVIOUS
    <2>. QED BY <1>5, <2>1
<1>8. \A k \in 1 .. l : U[k] = Fed(p, U[k - 1], zeros)
    BY <1>6
<1> HIDE DEF U
<1>. QED BY <1>4, <1>7, <1>8 DEF IsFedStepsRow

\* reflect() of zeros are zeros.
LEMMA ProcessedIs ==
    ASSUME NEW p, p.input_is_reflected \in BOOLEAN, NEW byte \in Bits(BYTE_DIGITS)
    PROVE  /\ process_input(p, byte) = IF p.input_is_reflected THEN Reverse(byte) ELSE byte
           /\ process_input(p, byte) \in Bits(BYTE_DIGITS)
           /\ process_input(p, Zeros(BYTE_DIGITS)) = Zeros(BYTE_DIGITS)
<1>1. reflect(byte) = Reverse(byte) /\ Reverse(byte) \in Bits(BYTE_DIGITS)
    BY Digits, ReflectIs, ReverseIs
<1> DEFINE z == Zeros(BYTE_DIGITS)
<1>2. z \in Bits(BYTE_DIGITS) /\ \A k \in 1 .. BYTE_DIGITS : z[k] = 0
    BY Digits, ZerosIs
<1> HIDE DEF z
<1>3. reflect(z) = Reverse(z) /\ Reverse(z) \in Bits(BYTE_DIGITS)
      /\ \A k \in 1 .. BYTE_DIGITS : Reverse(z)[k] = z[BYTE_DIGITS - k + 1]
    BY <1>2, Digits, ReflectIs, ReverseIs
<1>4. \A k \in 1 .. BYTE_DIGITS : BYTE_DIGITS - k + 1 \in 1 .. BYTE_DIGITS
    BY Digits
<1>5. Reverse(z) = z
    BY <1>2, <1>3, <1>4, Digits, SameBits
<1>. QED BY <1>1, <1>3, <1>5 DEF process_input, z

\* Zeros at the end of the message bring the others to where the direct
\* calculators are.
LEMMA AugmentedIs ==
    ASSUME NEW p, NEW n, NEW l, Suits(p, n, l), NEW a \in Bits(n)
    PROVE  /\ DOMAIN Registers(p, a) = {"Bitwise", "Augmented_Byte", "Augmented_Nibble", "Direct_Byte", "Direct_Nibble"}
           /\ \A name \in DOMAIN Registers(p, a) :
                  Augmented(p, Registers(p, a))[name] = BitSteps(a, Zeros(n), p.polynomial)
<1> DEFINE q == p.polynomial
    z == Zeros(BYTE_DIGITS)
    r == Registers(p, a)
    w == BitSteps(a, Zeros(n), q)
    X == [k \in 0 .. l |-> Registers(p, BitSteps(a, Zeros(k * BYTE_DIGITS), q))]
<1>1. /\ n \in Nat \ {0} /\ q \in Bits(n) /\ Len(q) = n /\ n = l * BYTE_DIGITS /\ l \in Nat
      /\ p.input_is_reflected \in BOOLEAN
    BY DEF Suits
<1>2. z \in Bits(BYTE_DIGITS) /\ process_input(p, z) = z
    <2>1. z \in Bits(BYTE_DIGITS)
        BY Digits, ZerosIs
    <2>. QED BY <1>1, <2>1, ProcessedIs
<1>3. Len(p.polynomial) \div BYTE_DIGITS = l
    BY <1>1, Digits, Quotient
<1>4. PICK U : IsFedStepsRow(U, p, r, z, l) /\ FedSteps(p, r, z, l) = U[l]
    BY <1>1, <1>2, FedStepsRow
<1>5. U[0] = X[0]
    <2>1. 0 * BYTE_DIGITS = 0 /\ Zeros(0) \in Bits(0) /\ 0 \in 0 .. l
        BY <1>1, Digits, ZerosIs
    <2>2. BitSteps(a, Zeros(0), q) = a
        BY <1>1, <2>1, BitStepsNone
    <2>. QED BY <1>4, <2>1, <2>2 DEF IsFedStepsRow
<1>6. ASSUME NEW k \in 1 .. l, U[k - 1] = X[k - 1] PROVE U[k] = X[k]
    <2> DEFINE t == (k - 1) * BYTE_DIGITS
        b == BitSteps(a, Zeros(t), q)
    <2>1. t \in Nat /\ t + BYTE_DIGITS = k * BYTE_DIGITS /\ k - 1 \in 0 .. l /\ k \in 0 .. l
        BY <1>1, Digits, SMT
    <2>2. U[k] = Fed(p, Registers(p, b), z)
        BY <1>4, <1>6, <2>1 DEF IsFedStepsRow
    <2>3. X[k] = Registers(p, BitSteps(a, Zeros(k * BYTE_DIGITS), q))
        BY <2>1
    <2> HIDE DEF t, X
    <2>4. b \in Bits(n)
        <3>1. Zeros(t) \in Bits(t)
            BY <2>1, ZerosIs
        <3>. QED BY <1>1, <2>1, <3>1, BitStepsType
    <2>5. Fed(p, Registers(p, b), z) = Registers(p, BitSteps(b, z, q))
        BY <1>2, <2>4, FedIs
    <2>6. BitSteps(b, z, q) = BitSteps(a, Zeros(t + BYTE_DIGITS), q)
        BY <1>1, <2>1, Digits, BitStepsOfZeros
    <2>. QED BY <2>1, <2>2, <2>3, <2>5, <2>6
<1>7. U[l] = Registers(p, w)
    <2>1. U[l] = X[l]
        <3> HIDE DEF X
        <3>1. l \in Nat
            BY <1>1
        <3>2. U[0] = X[0] /\ \A k \in 1 .. l : U[k - 1] = X[k - 1] => U[k] = X[k]
            BY <1>5, <1>6
        <3>3. \A k \in 0 .. l : U[k] = X[k]
            BY <3>1, <3>2, RowsAgree
        <3>. QED BY <3>1, <3>3
    <2>2. X[l] = Registers(p, w)
        BY <1>1
    <2>. QED BY <2>1, <2>2
<1>8. Augmented(p, r) = [FedSteps(p, r, z, l) EXCEPT !.Direct_Byte = r.Direct_Byte, !.Direct_Nibble = r.Direct_Nibble]
    <2> DEFINE y == process_input(p, z)
        m == Len(p.polynomial) \div BYTE_DIGITS
    <2>1. Augmented(p, r) = [FedSteps(p, r, y, m) EXCEPT !.Direct_Byte = r.Direct_Byte, !.Direct_Nibble = r.Direct_Nibble]
        <3> HIDE DEF r
        <3>. QED BY DEF Augmented, FedSteps, Repeated, FoldLeft, MapThenFoldSet
    <2>2. y = z /\ m = l
        BY <1>2, <1>3
    <2> HIDE DEF y, m, r, z
    <2>. QED BY <2>1, <2>2
<1> HIDE DEF w, z, X
<1>9. r.Direct_Byte = w /\ r.Direct_Nibble = w
    BY <1>1 DEF Registers, w
<1>10. Registers(p, w).Bitwise = w /\ Registers(p, w).Augmented_Byte = w /\ Registers(p, w).Augmented_Nibble = w
      /\ DOMAIN Registers(p, w) = {"Bitwise", "Augmented_Byte", "Augmented_Nibble", "Direct_Byte", "Direct_Nibble"}
    BY DEF Registers
<1>11. DOMAIN r = {"Bitwise", "Augmented_Byte", "Augmented_Nibble", "Direct_Byte", "Direct_Nibble"}
    BY DEF Registers
<1>12. Augmented(p, r) = [Registers(p, w) EXCEPT !.Direct_Byte = w, !.Direct_Nibble = w]
    <2> HIDE DEF r
    <2>. QED BY <1>4, <1>7, <1>8, <1>9
<1>13. \A name \in DOMAIN r : Augmented(p, r)[name] = w
    <2> HIDE DEF r
    <2>. QED BY <1>10, <1>11, <1>12
<1>. QED BY <1>11, <1>13 DEF w

-----------------------------------------------------------------------------

CrcTypeOK == parameters \in Calculation_Parameters /\ message \in Seq(Bits(BYTE_DIGITS))

Processed(p, bytes) == [k \in DOMAIN bytes |-> process_input(p, bytes[k])]

\* What has been divided so far.
RemainderInv ==
    remainder = Registers(parameters, BitSteps(parameters.initial_remainder,
                                               FlattenSeq(Processed(parameters, message)),
                                               parameters.polynomial))

CrcInv == CrcTypeOK /\ RemainderInv

LEMMA ProcessedBytes ==
    ASSUME NEW p \in Calculation_Parameters, NEW bytes \in Seq(Bits(BYTE_DIGITS))
    PROVE  /\ Len(bytes) \in Nat
           /\ Processed(p, bytes) \in Chunks(Len(bytes), BYTE_DIGITS)
           /\ FlattenSeq(Processed(p, bytes)) \in Bits(Len(bytes) * BYTE_DIGITS)
           /\ Processed(p, bytes) =
                 [k \in DOMAIN bytes |-> IF p.input_is_reflected THEN Reverse(bytes[k]) ELSE bytes[k]]
           /\ \A byte \in Bits(BYTE_DIGITS) :
                  FlattenSeq(Processed(p, Append(bytes, byte)))
                    = Join(FlattenSeq(Processed(p, bytes)), process_input(p, byte))
<1> DEFINE l == Len(bytes)
    now == Processed(p, bytes)
<1>1. l \in Nat /\ DOMAIN bytes = 1 .. l /\ \A k \in 1 .. l : bytes[k] \in Bits(BYTE_DIGITS)
    OBVIOUS
<1>2. p.input_is_reflected \in BOOLEAN
    BY ParametersSuit DEF Suits
<1>3. \A byte \in Bits(BYTE_DIGITS) :
        /\ process_input(p, byte) \in Bits(BYTE_DIGITS)
        /\ process_input(p, byte) = IF p.input_is_reflected THEN Reverse(byte) ELSE byte
    BY <1>2, ProcessedIs
<1>4. now \in Chunks(l, BYTE_DIGITS) /\ \A k \in 1 .. l : now[k] = process_input(p, bytes[k])
    <2> HIDE DEF l
    <2>. QED BY <1>1, <1>3 DEF Processed, Chunks
<1>5. now = [k \in DOMAIN bytes |-> IF p.input_is_reflected THEN Reverse(bytes[k]) ELSE bytes[k]]
    <2> HIDE DEF l
    <2>. QED BY <1>1, <1>3 DEF Processed
<1>6. ASSUME NEW byte \in Bits(BYTE_DIGITS)
      PROVE  /\ FlattenSeq(now) \in Bits(l * BYTE_DIGITS)
             /\ FlattenSeq(Processed(p, Append(bytes, byte))) = Join(FlattenSeq(now), process_input(p, byte))
    <2> DEFINE longer == Append(bytes, byte)
        next == Processed(p, longer)
    <2>1. /\ DOMAIN longer = 1 .. l + 1 /\ longer[l + 1] = byte
          /\ \A k \in 1 .. l : longer[k] = bytes[k]
          /\ \A k \in 1 .. l + 1 : longer[k] \in Bits(BYTE_DIGITS)
        OBVIOUS
    <2> HIDE DEF longer, l
    <2>2. next = [k \in 1 .. l + 1 |-> process_input(p, longer[k])]
        BY <2>1 DEF Processed
    <2>3. next \in Chunks(l + 1, BYTE_DIGITS)
        BY <1>3, <2>1, <2>2 DEF Chunks
    <2>4. next[l + 1] = process_input(p, byte) /\ \A k \in 1 .. l : next[k] = now[k]
        BY <1>1, <1>4, <2>1, <2>2
    <2> HIDE DEF next, now
    <2>5. FlattenSeq(now) \in Bits(l * BYTE_DIGITS) /\ FlattenSeq(next) = Join(FlattenSeq(now), next[l + 1])
        BY <1>1, <1>4, <2>3, <2>4, Digits, FlattenedIs
    <2>. QED BY <2>4, <2>5 DEF next, longer
<1>7. Zeros(BYTE_DIGITS) \in Bits(BYTE_DIGITS)
    BY Digits, ZerosIs
<1>. QED BY <1>1, <1>4, <1>5, <1>6, <1>7

LEMMA CrcInvInit == CrcInit => CrcInv
<1> SUFFICES ASSUME CrcInit PROVE CrcInv
    OBVIOUS
<1> DEFINE p == parameters
    a == p.initial_remainder
    none == FlattenSeq(Processed(p, message))
<1>1. p \in Calculation_Parameters /\ message = <<>> /\ message \in Seq(Bits(BYTE_DIGITS)) /\ Len(message) = 0
    BY DEF CrcInit
<1>2. PICK n, l \in Nat : Suits(p, n, l)
    BY <1>1, ParametersSuit
<1>3. /\ n \in Nat \ {0} /\ p.polynomial \in Bits(n) /\ a \in Bits(n) /\ Len(p.polynomial) = n
      /\ n = l * BYTE_DIGITS /\ BYTE_DIGITS =< n /\ NIBBLE_BITS =< n /\ l \in Nat
    BY <1>2 DEF Suits
<1>4. BitSteps(a, none, p.polynomial) = a
    <2>1. none \in Bits(Len(message) * BYTE_DIGITS)
        BY <1>1, ProcessedBytes
    <2>2. Len(message) * BYTE_DIGITS = 0
        BY <1>1, Digits
    <2> HIDE DEF none
    <2>3. none \in Bits(0)
        BY <2>1, <2>2
    <2>. QED BY <1>3, <2>3, BitStepsNone
<1>5. preprocess_initial_remainder(p, BYTE_DIGITS) = BitSteps(a, Zeros(n), p.polynomial)
    BY <1>3, Digits, PreprocessedIs
<1>6. preprocess_initial_remainder(p, NIBBLE_BITS) = BitSteps(a, Zeros(n), p.polynomial)
    <2>1. l * 2 \in Nat /\ n = (l * 2) * NIBBLE_BITS
        BY <1>3, Digits
    <2>. QED BY <1>3, <2>1, Digits, PreprocessedIs
<1>7. remainder = Registers(p, a)
    BY <1>3, <1>5, <1>6 DEF CrcInit, Registers
<1>. QED BY <1>1, <1>4, <1>7 DEF CrcInv, CrcTypeOK, RemainderInv

LEMMA CrcInvNext == CrcInv /\ [CrcNext]_crc => CrcInv'
<1> SUFFICES ASSUME CrcInv, [CrcNext]_crc PROVE CrcInv'
    OBVIOUS
<1>1. CASE UNCHANGED crc
    BY <1>1 DEF CrcInv, CrcTypeOK, RemainderInv, crc
<1>2. CASE Feed
    <2> DEFINE p == parameters
        a == p.initial_remainder
        q == p.polynomial
        now == FlattenSeq(Processed(p, message))
        d == Len(message) * BYTE_DIGITS
    <2>1. PICK byte \in Bits(BYTE_DIGITS) :
              message' = Append(message, byte) /\ remainder' = Fed(p, remainder, process_input(p, byte)) /\ parameters' = p
        BY <1>2 DEF Feed
    <2>2. p \in Calculation_Parameters /\ message \in Seq(Bits(BYTE_DIGITS))
        BY DEF CrcInv, CrcTypeOK
    <2>3. PICK n, l \in Nat : Suits(p, n, l)
        BY <2>2, ParametersSuit
    <2>4. n \in Nat \ {0} /\ q \in Bits(n) /\ a \in Bits(n) /\ p.input_is_reflected \in BOOLEAN
        BY <2>3 DEF Suits
    <2> DEFINE bits == process_input(p, byte)
    <2>5. bits \in Bits(BYTE_DIGITS)
        BY <2>4, ProcessedIs
    <2>6. now \in Bits(d) /\ d \in Nat /\ FlattenSeq(Processed(p, message')) = Join(now, bits)
        BY <2>1, <2>2, Digits, ProcessedBytes
    <2>7. remainder = Registers(p, BitSteps(a, now, q))
        BY DEF CrcInv, RemainderInv
    <2> HIDE DEF now, bits, d
    <2>8. BitSteps(a, now, q) \in Bits(n)
        BY <2>4, <2>6, BitStepsType
    <2>9. Fed(p, remainder, bits) = Registers(p, BitSteps(BitSteps(a, now, q), bits, q))
        BY <2>3, <2>5, <2>7, <2>8, FedIs
    <2>10. BitSteps(a, Join(now, bits), q) = BitSteps(BitSteps(a, now, q), bits, q)
        BY <2>4, <2>5, <2>6, Digits, BitStepsConcat
    <2>11. RemainderInv'
        BY <2>1, <2>6, <2>9, <2>10 DEF RemainderInv, bits
    <2>12. CrcTypeOK'
        BY <2>1, <2>2 DEF CrcTypeOK
    <2>. QED BY <2>11, <2>12 DEF CrcInv
<1>. QED BY <1>1, <1>2 DEF CrcNext

LEMMA CrcInvDivides == CrcInv => CalculatorsDivide
<1> SUFFICES ASSUME CrcInv PROVE CalculatorsDivide
    OBVIOUS
<1> DEFINE p == parameters
    q == p.polynomial
    a == p.initial_remainder
    bytes == [k \in DOMAIN message |-> IF p.input_is_reflected THEN Reverse(message[k]) ELSE message[k]]
    flat == FlattenSeq(bytes)
    d == Len(message) * BYTE_DIGITS
    b == BitSteps(a, flat, q)
<1>1. p \in Calculation_Parameters /\ message \in Seq(Bits(BYTE_DIGITS))
    BY DEF CrcInv, CrcTypeOK
<1>2. PICK n, l \in Nat : Suits(p, n, l)
    BY <1>1, ParametersSuit
<1>3. /\ n \in Nat \ {0} /\ n \in Nat /\ q \in Bits(n) /\ a \in Bits(n) /\ Len(p.polynomial) = n
      /\ p.output_is_reflected \in BOOLEAN
    BY <1>2 DEF Suits
<1>4. flat \in Bits(d) /\ d \in Nat /\ Processed(p, message) = bytes
    <2>1. Processed(p, message) = bytes
        BY <1>1, ProcessedBytes
    <2>2. Len(message) \in Nat /\ FlattenSeq(Processed(p, message)) \in Bits(Len(message) * BYTE_DIGITS)
        BY <1>1, ProcessedBytes
    <2> HIDE DEF p, bytes
    <2>3. d \in Nat
        BY <2>2, Digits
    <2>. QED BY <2>1, <2>2, <2>3
<1>5. remainder = Registers(p, b)
    BY <1>4 DEF CrcInv, RemainderInv
<1>6. a \o flat \o Zeros(Len(p.polynomial)) = Join(a, Join(flat, Zeros(n)))
    <2>1. Zeros(n) \in Bits(n)
        BY <1>3, ZerosIs
    <2>2. Join(Join(a, flat), Zeros(n)) = Join(a, Join(flat, Zeros(n)))
        <3> HIDE DEF flat, d
        <3>. QED BY <1>3, <1>4, <2>1, JoinAssociates
    <2>3. a \o flat \o Zeros(n) = Join(Join(a, flat), Zeros(n))
        BY DEF Join
    <2> HIDE DEF flat
    <2>. QED BY <1>3, <2>2, <2>3
<1> DEFINE check == Divided(a \o flat \o Zeros(Len(p.polynomial)), <<1>> \o p.polynomial)
<1> HIDE DEF flat, d
<1>7. check = BitSteps(b, Zeros(n), q) /\ check \in Bits(n)
    <2>1. Zeros(n) \in Bits(n) /\ d + n \in Nat
        BY <1>3, <1>4, ZerosIs
    <2>2. Join(flat, Zeros(n)) \in Bits(d + n)
        BY <1>3, <1>4, <2>1, JoinIs
    <2>3. Divided(Join(a, Join(flat, Zeros(n))), <<1>> \o q) = BitSteps(a, Join(flat, Zeros(n)), q)
        BY <1>3, <2>1, <2>2, DividedIs
    <2>4. BitSteps(a, Join(flat, Zeros(n)), q) = BitSteps(b, Zeros(n), q)
        BY <1>3, <1>4, <2>1, BitStepsConcat
    <2>5. BitSteps(a, Join(flat, Zeros(n)), q) \in Bits(n)
        BY <1>3, <2>1, <2>2, BitStepsType
    <2>. QED BY <1>6, <2>3, <2>4, <2>5
<1>8. b \in Bits(n)
    BY <1>3, <1>4, BitStepsType
<1> HIDE DEF b, check
<1>9. ASSUME NEW name \in DOMAIN remainder
      PROVE  Calculated(name) = Xor(IF p.output_is_reflected THEN Reverse(check) ELSE check, p.xor_output)
    <2>1. Augmented(p, remainder)[name] = check
        BY <1>2, <1>5, <1>7, <1>8, <1>9, AugmentedIs
    <2>2. reflect(check) = Reverse(check)
        BY <1>3, <1>7, ReflectIs
    <2>. QED BY <2>1, <2>2 DEF Calculated, process_output
<1>. QED BY <1>9 DEF CalculatorsDivide, check, flat

\* Whatever the polynomial, of a register of any number of bytes, the initial
\* remainder, the reflections and the message, the five calculators of crc.h
\* return the same check, the remainder of the division of polynomials.
THEOREM ChecksAreThoseOfTheDivision == CrcSpec => []CalculatorsDivide
BY CrcInvInit, CrcInvNext, CrcInvDivides, PTL DEF CrcSpec

=============================================================================
