------------------------ MODULE AsynchronousSerial ------------------------
(***************************************************************************)
(* asynchronous_serial.h: output streams that own the buffer that they put *)
(* characters to, and with it a transmitter.  The stream refers to its     *)
(* buffer by address, so that a move must refer to another buffer and hand *)
(* over the transmitter.                                                   *)
(***************************************************************************)
CONSTANTS
    SerialStreams,
    Transmitters,
    Default_Transmitter,   \* one that was default constructed, or moved from
    NULL

ASSUME SerialAssumption == NULL \notin SerialStreams /\ Default_Transmitter \notin Transmitters

VARIABLES
    lives,             \* the streams that exist
    m_buffer,          \* the stream whose buffer a stream refers to, or NULL
    m_transmitter,     \* of the buffer of each stream
    degraded,          \* the streams that an error was reported to
    meant,             \* history: the transmitter that was handed to a stream
    transmitted        \* who put the last characters, and where they went

serial == <<lives, m_buffer, m_transmitter, degraded, meant, transmitted>>

Quiet == transmitted' = NULL

Constructs(s, buffer, transmitter) ==
    /\ lives' = lives \cup {s}
    /\ m_buffer' = [m_buffer EXCEPT ![s] = buffer]
    /\ m_transmitter' = [m_transmitter EXCEPT ![s] = transmitter]
    /\ degraded' = degraded \ {s}
    /\ Quiet

SerialDefaultConstructor(s) ==
    /\ s \notin lives
    /\ Constructs(s, NULL, Default_Transmitter)
    /\ meant' = [meant EXCEPT ![s] = Default_Transmitter]

\* a transmitter is moved to a stream, and there is one of each
SerialConstructor(s, transmitter) ==
    /\ s \notin lives
    /\ \A t \in lives : m_transmitter[t] # transmitter
    /\ Constructs(s, s, transmitter)
    /\ meant' = [meant EXCEPT ![s] = transmitter]

\* m_buffer is not in the list of initializers: the transmitter stays behind.
SerialMoveConstructor(s, source) ==
    /\ s \notin lives
    /\ source \in lives
    /\ lives' = lives \cup {s}
    /\ m_buffer' = IF m_buffer[source] # NULL
                   THEN [m_buffer EXCEPT ![s] = s, ![source] = NULL]
                   ELSE [m_buffer EXCEPT ![s] = NULL]
    /\ m_transmitter' = [m_transmitter EXCEPT ![s] = Default_Transmitter]
    /\ degraded' = degraded \ {s}
    /\ meant' = [meant EXCEPT ![s] = meant[source], ![source] = Default_Transmitter]
    /\ Quiet

\* A mutant: the stream refers to the buffer that the expression did.
SerialMoveAssignment_KeepsAddress(s, expression) ==
    /\ {s, expression} \subseteq lives
    /\ s # expression
    /\ m_transmitter' = [m_transmitter EXCEPT ![s] = m_transmitter[expression],
                                              ![expression] = Default_Transmitter]
    /\ m_buffer' = [m_buffer EXCEPT ![s] = m_buffer[expression], ![expression] = NULL]
    /\ meant' = [meant EXCEPT ![s] = meant[expression], ![expression] = Default_Transmitter]
    /\ Quiet
    /\ UNCHANGED <<lives, degraded>>

\* The state of the stream is not assigned.
SerialMoveAssignment(s, expression) ==
    /\ {s, expression} \subseteq lives
    /\ s # expression
    /\ m_transmitter' = [m_transmitter EXCEPT ![s] = m_transmitter[expression],
                                              ![expression] = Default_Transmitter]
    /\ m_buffer' = [m_buffer EXCEPT ![s] = IF m_buffer[expression] # NULL THEN s ELSE NULL,
                                    ![expression] = NULL]
    /\ meant' = [meant EXCEPT ![s] = meant[expression], ![expression] = Default_Transmitter]
    /\ Quiet
    /\ UNCHANGED <<lives, degraded>>

SerialSelfAssignment(s) == s \in lives /\ Quiet /\ UNCHANGED <<lives, m_buffer, m_transmitter, degraded, meant>>

SerialDestructor(s) ==
    /\ s \in lives
    /\ lives' = lives \ {s}
    /\ Quiet
    /\ UNCHANGED <<m_buffer, m_transmitter, degraded, meant>>

\* any put() of a buffer: all of it is transmitted
SerialPut(s) ==
    /\ s \in lives \ degraded
    /\ m_buffer[s] # NULL
    /\ transmitted' = [by |-> s, buffer |-> m_buffer[s], transmitter |-> m_transmitter[m_buffer[s]]]
    /\ UNCHANGED <<lives, m_buffer, m_transmitter, degraded, meant>>

SerialReportError(s) ==
    /\ s \in lives
    /\ degraded' = degraded \cup {s}
    /\ Quiet
    /\ UNCHANGED <<lives, m_buffer, m_transmitter, meant>>

SerialClearError(s) ==
    /\ s \in lives
    /\ degraded' = degraded \ {s}
    /\ Quiet
    /\ UNCHANGED <<lives, m_buffer, m_transmitter, meant>>

SerialInit ==
    /\ lives = {}
    /\ m_buffer = [s \in SerialStreams |-> NULL]
    /\ m_transmitter = [s \in SerialStreams |-> Default_Transmitter]
    /\ degraded = {}
    /\ meant = [s \in SerialStreams |-> Default_Transmitter]
    /\ transmitted = NULL

SerialNext ==
    \E s \in SerialStreams :
        \/ SerialDefaultConstructor(s)
        \/ \E transmitter \in Transmitters : SerialConstructor(s, transmitter)
        \/ \E other \in SerialStreams : SerialMoveConstructor(s, other) \/ SerialMoveAssignment(s, other)
        \/ SerialSelfAssignment(s)
        \/ SerialDestructor(s)
        \/ SerialPut(s)
        \/ SerialReportError(s) \/ SerialClearError(s)

SerialSpec == SerialInit /\ [][SerialNext]_serial

-----------------------------------------------------------------------------

\* A stream that exists refers to no buffer but its own, which exists as long
\* as it does, whatever was moved where; so characters never reach a device
\* through a buffer that is gone, or that another stream uses.
BuffersAreOwn ==
    /\ \A s \in lives : m_buffer[s] \in {NULL, s}
    /\ \A s, t \in lives : s # t /\ m_transmitter[s] = m_transmitter[t] => m_transmitter[s] = Default_Transmitter
    /\ transmitted # NULL => transmitted.buffer = transmitted.by

\* What the constructors and the assignment say: a stream that is the target
\* of a move transmits what it is given with the transmitter of the source.
PutsReachTransmitter == transmitted # NULL => transmitted.transmitter = meant[transmitted.by]

=============================================================================
