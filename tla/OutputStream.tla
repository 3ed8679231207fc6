--------------------------- MODULE OutputStream ---------------------------
(***************************************************************************)
(* stream.h: a stream that puts text to a device, with and without errors  *)
(* of the device.  A call runs to its end in one step: what it put and     *)
(* what it returned are in "printed" until the caller has seen them.  The  *)
(* device may refuse any character, and the characters after it are then   *)
(* not put.                                                                *)
(***************************************************************************)
EXTENDS Format

CONSTANTS
    Printables,        \* values that a program prints: a kind and a value
    Several,           \* sequences of them, printed by one call
    NoPrint            \* no call has just returned

VARIABLES
    reliable,          \* a Reliable_Output_Stream
    m_state,           \* the set of the bits that are set
    printed,           \* the call that has just returned
    stopped            \* an expectation did not hold: the program has stopped

stream == <<reliable, m_state, printed, stopped>>

END_OF_FILE_REACHED == "END_OF_FILE_REACHED"

IO_ERROR_PRESENT == "IO_ERROR_PRESENT"

FATAL_ERROR_PRESENT == "FATAL_ERROR_PRESENT"

is_nominal == m_state = {}

Formatter(v) ==
    CASE v.kind = "char" -> Char(v.value)
      [] v.kind = "string" -> String(v.value)
      [] v.kind = "bin" -> Bin(v.value)
      [] v.kind = "hex" -> Hex(v.value)
      [] v.kind = "signed" -> Signed_Dec(v.value)
      [] v.kind = "unsigned" -> Unsigned_Dec(v.value, DIGITS)
      [] v.kind = "dump" -> Hex_Dump(v.value)
      [] v.kind = "error" -> Error(v.value)
      [] v.kind = "endpoint" -> Endpoint(v.value)
      [] v.kind = "mac" -> MAC_Address(v.value)
      [] v.kind = "event" -> Event(v.value)

Reliable_Formatter(v, details_first) ==
    IF v.kind = "event" THEN Reliable_Event(v.value, details_first) ELSE Formatter(v)

\* put( begin, end ) of a buffer: one character after the other, until one
\* is refused
Buffer_put(device, text) ==
    LET n == Min({Len(text), device.accepts})
    IN  [device EXCEPT !.output = @ \o SubSeq(text, 1, n),
                       !.accepts = @ - n,
                       !.is_error = n < Len(text)]

\* print_implementation(): the first error is returned, the sizes are added
print_implementation(device, run) ==
    LET after == Buffer_put(device, run.text)
    IN  IF device.is_error THEN device
        ELSE [after EXCEPT !.n = IF after.is_error THEN @ ELSE @ + run.size]

Reliable_print_implementation(device, run) ==
    [device EXCEPT !.output = @ \o run.text, !.n = @ + run.size]

Idle(accepts) == [output |-> <<>>, accepts |-> accepts, is_error |-> FALSE, n |-> 0]

-----------------------------------------------------------------------------

Expects(condition, Then) ==
    /\ ~stopped
    /\ printed = NoPrint
    /\ IF condition THEN Then ELSE stopped' = TRUE /\ UNCHANGED <<m_state, printed>>
    /\ UNCHANGED reliable

Returns(values, device) ==
    /\ printed' = [values |-> values, output |-> device.output,
                is_error |-> device.is_error, n |-> device.n]
    /\ m_state' = IF device.is_error THEN m_state \cup {FATAL_ERROR_PRESENT} ELSE m_state
    /\ UNCHANGED stopped

Length(runs) == FoldLeft(LAMBDA n, run : n + Len(run.text), 0, runs)

\* print() and, for one run of characters, put()
Output_Stream_print(values) ==
    /\ ~reliable
    /\ Expects(is_nominal,
           LET runs == Printed([k \in DOMAIN values |-> Formatter(values[k])])
           IN  \E accepts \in 0 .. Length(runs) :
                   Returns(values, FoldLeft(print_implementation, Idle(accepts), runs)))

Reliable_Output_Stream_print(values) ==
    /\ reliable
    /\ Expects(is_nominal,
           \E details_first \in BOOLEAN :
               LET runs == Printed([k \in DOMAIN values |-> Reliable_Formatter(values[k], details_first)])
               IN  Returns(values, FoldLeft(Reliable_print_implementation, Idle(0), runs)))

flush ==
    Expects(is_nominal,
        \E is_error \in {FALSE, ~reliable} :
            /\ m_state' = IF is_error THEN m_state \cup {FATAL_ERROR_PRESENT} ELSE m_state
            /\ UNCHANGED <<printed, stopped>>)

\* by the program, and by the class that extends the stream
Reports(bit) == Expects(TRUE, m_state' = m_state \cup {bit} /\ UNCHANGED <<printed, stopped>>)

Clears(bit) == Expects(TRUE, m_state' = m_state \ {bit} /\ UNCHANGED <<printed, stopped>>)

Seen == printed # NoPrint /\ printed' = NoPrint /\ UNCHANGED <<reliable, m_state, stopped>>

StreamInit ==
    /\ reliable \in BOOLEAN
    /\ m_state = {}
    /\ printed = NoPrint
    /\ stopped = FALSE

StreamNext ==
    \/ \E values \in {<<v>> : v \in Printables} \cup Several :
        Output_Stream_print(values) \/ Reliable_Output_Stream_print(values)
    \/ flush
    \/ \E bit \in {END_OF_FILE_REACHED, IO_ERROR_PRESENT} : Reports(bit) \/ Clears(bit)
    \/ ~reliable /\ Clears(FATAL_ERROR_PRESENT)
    \/ Seen

-----------------------------------------------------------------------------

\* What the values are in writing.  Digits are found by their position.
Positional(n, base, digits) == [k \in 1 .. digits |-> Digit((n \div base^(digits - k)) % base)]

Plain(n) == Positional(n, 10, CHOOSE d \in 1 .. n + 1 : 10^d > n /\ (d = 1 \/ 10^(d - 1) <= n))

Joined_(texts, separator) ==
    FoldLeft(LAMBDA text, t : IF text = <<>> THEN t ELSE text \o <<separator>> \o t, <<>>, texts)

Padded(text, n) == text \o [k \in 1 .. n - Len(text) |-> " "]

Hexadecimal(byte) == Positional(byte, 16, 2)

Each(bytes, Write(_)) == [k \in DOMAIN bytes |-> Write(bytes[k])]

DumpRow(bytes, offset) ==
    LET row == SubSeq(bytes, offset + 1, Min({offset + ROW_BYTES, Len(bytes)}))
    IN  Positional(offset, 16, MEMORY_OFFSET_NIBBLES) \o <<" ", " ">>
            \o Padded(Joined_(Each(row, Hexadecimal), " "), 3 * ROW_BYTES - 1) \o <<" ", " ", "|">>
            \o Padded(Each(row, format_ascii) \o <<"|">>, ROW_BYTES + 1) \o <<"\n">>

Written(v) ==
    CASE v.kind = "char" -> <<v.value>>
      [] v.kind = "string" -> v.value
      [] v.kind = "bin" -> <<"0", "b">> \o Positional(v.value % 2^DIGITS, 2, DIGITS)
      [] v.kind = "hex" -> <<"0", "x">> \o Positional(v.value % 2^DIGITS, 16, DIGITS \div 4)
      [] v.kind \in {"signed", "unsigned"} ->
             IF v.value < 0 THEN <<"-">> \o Plain(-v.value) ELSE Plain(v.value)
      [] v.kind = "dump" ->
             FlattenSeq([k \in 1 .. (Len(v.value) + ROW_BYTES - 1) \div ROW_BYTES |->
                            DumpRow(v.value, (k - 1) * ROW_BYTES)])
      [] v.kind = "error" -> v.value.category \o <<":", ":">> \o v.value.description
      [] v.kind = "endpoint" ->
             (IF v.value.address.is_any THEN <<"A", "N", "Y">>
              ELSE IF v.value.address.version = 4 THEN Joined_(Each(v.value.address.bytes, Plain), ".")
              ELSE <<>>)
             \o <<":">> \o Plain(v.value.port)
      [] v.kind = "mac" -> Joined_(Each(v.value, Hexadecimal), "-")
      [] v.kind = "event" -> v.value.category \o <<":", ":">> \o v.value.description \o v.value.details

WrittenDetailsFirst(v) ==
    IF v.kind = "event" THEN v.value.details \o v.value.category \o <<":", ":">> \o v.value.description
    ELSE Written(v)

\* print() either puts the values as they are written, and returns the number
\* of characters that it put, or returns an error: then it put the part of
\* the text before the character that was refused, and the stream stays
\* degraded.  The order of the parts of an event is left open where C++
\* leaves it open.
PrintsTheText ==
    printed # NoPrint =>
        LET text == FlattenSeq(Each(printed.values, Written))
            other == FlattenSeq(Each(printed.values, WrittenDetailsFirst))
        IN  IF printed.is_error
            THEN ~reliable /\ ~is_nominal /\ IsStrictPrefix(printed.output, text)
            ELSE is_nominal /\ printed.n = Len(text) /\ printed.output \in {text} \cup (IF reliable THEN {other} ELSE {})

=============================================================================
