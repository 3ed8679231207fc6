----------------------------- MODULE Debounce -----------------------------
(***************************************************************************)
(* debounce.h: the debouncer of one signal, which shifts its samples       *)
(* through an integer, and that of several, which keeps the samples of all *)
(* of them in a ring.  Both are given the same samples.                    *)
(***************************************************************************)
EXTENDS Integers, Sequences, SequencesExt, FiniteSetsExt

CONSTANTS
    Signals,
    SAMPLES,
    MaxSamples         \* bound: samples taken

ASSUME SamplesAssumption == SAMPLES \in Nat \ {0}

VARIABLES
    single_samples, single_is_high,      \* of a Single_Signal_Debouncer for each signal
    m_samples, m_samples_i, multiple_state,  \* of a Multiple_Signals_Debouncer
    sampled                              \* history: the signals that were high

debouncers == <<single_samples, single_is_high, m_samples, m_samples_i, multiple_state, sampled>>

\* the bits of an integer that are masked, the last sample at the end
Copies(is_high) == [k \in 1 .. SAMPLES |-> is_high]

DebounceInit ==
    \E high \in SUBSET Signals :
        /\ single_samples = [s \in Signals |-> Copies(s \in high)]
        /\ single_is_high = [s \in Signals |-> s \in high]
        /\ m_samples = [k \in 0 .. SAMPLES - 1 |-> high]
        /\ m_samples_i = 0
        /\ multiple_state = high
        /\ sampled = Copies(high)

Shifted_In(s, is_high) == Append(Tail(single_samples[s]), is_high)

Single_debounce(high) ==
    /\ single_samples' = [s \in Signals |-> Shifted_In(s, s \in high)]
    /\ single_is_high' = [s \in Signals |->
           CASE Shifted_In(s, s \in high) = Copies(TRUE) -> TRUE
             [] Shifted_In(s, s \in high) = Copies(FALSE) -> FALSE
             [] OTHER -> single_is_high[s]]

\* A mutant: the new sample is not among those that are compared.
Multiple_debounce_ComparesFirst(state) ==
    LET high == {s \in Signals : \A k \in DOMAIN m_samples : s \in m_samples[k]}
        low == {s \in Signals : \A k \in DOMAIN m_samples : s \notin m_samples[k]}
    IN  /\ m_samples' = [m_samples EXCEPT ![m_samples_i] = state]
        /\ m_samples_i' = (m_samples_i + 1) % SAMPLES
        /\ multiple_state' = (multiple_state \cup high) \ low

Multiple_debounce(state) ==
    LET samples == [m_samples EXCEPT ![m_samples_i] = state]
        high == {s \in Signals : \A k \in DOMAIN samples : s \in samples[k]}
        low == {s \in Signals : \A k \in DOMAIN samples : s \notin samples[k]}
    IN  /\ m_samples' = samples
        /\ m_samples_i' = (m_samples_i + 1) % SAMPLES
        /\ multiple_state' = (multiple_state \cup high) \ low

DebounceNext ==
    /\ Len(sampled) < SAMPLES + MaxSamples
    /\ \E high \in SUBSET Signals :
        /\ Single_debounce(high)
        /\ Multiple_debounce(high)
        /\ sampled' = Append(sampled, high)

DebounceSpec == DebounceInit /\ [][DebounceNext]_debouncers

-----------------------------------------------------------------------------

\* A signal is as it was in the last SAMPLES samples in a row that agree: no
\* shorter change is seen, none that lasts is missed or late, and a signal
\* never depends on another.  The state given to the constructor counts as
\* so many samples.
DebouncedAsSampled ==
    \A s \in Signals :
        LET Agree(k) == \A j \in k - SAMPLES + 1 .. k : (s \in sampled[j]) = (s \in sampled[k])
            last == Max({k \in SAMPLES .. Len(sampled) : Agree(k)})
        IN  /\ single_is_high[s] = (s \in sampled[last])
            /\ (s \in multiple_state) = (s \in sampled[last])

=============================================================================
